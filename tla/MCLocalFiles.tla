---------------------------- MODULE MCLocalFiles ----------------------------
(***************************************************************************)
(* Three builds of one name: the newest one, one as long and one longer;    *)
(* two newest directories; and a handler beside the run that owns           *)
(* package_dir.                                                             *)
(***************************************************************************)
EXTENDS LocalFiles

MCNameOf == [b \in Builds |-> "first.run"]
MCSizeOf == <<3, 2, 2>>
=============================================================================
