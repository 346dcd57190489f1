------------------------- MODULE MCProductLogUpload -------------------------
(* Two files, one of them empty. *)
EXTENDS ProductLogUpload, TLC

CONSTANTS f1, f2

MCFiles == {f1, f2}
MCSize == f1 :> 2 @@ f2 :> 0

=============================================================================
