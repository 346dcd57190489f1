---------------------------- MODULE MCLogCollection ----------------------------
(***************************************************************************)
(* LogCollection for TLC: batches whose names do not clash, and batches in   *)
(* which the second file is received under the first one's name.            *)
(***************************************************************************)
EXTENDS LogCollection

MCNamings == {NoNames, [NoNames EXCEPT ![2] = 1], [NoNames EXCEPT ![1] = 2]}
=============================================================================
