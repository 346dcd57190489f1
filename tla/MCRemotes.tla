------------------------------ MODULE MCRemotes ------------------------------
(* Consoles and hosts over small texts.                                      *)
EXTENDS Remotes

MCKeyword == <<"a", "b">>
=============================================================================
