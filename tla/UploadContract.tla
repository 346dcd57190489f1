--------------------------- MODULE UploadContract ---------------------------
(***************************************************************************)
(* What a chunked product-log upload promises to the page and to the task  *)
(* that will read it: bytes are received in order, the upload is accepted  *)
(* only when every declared byte is there, an accepted upload is used by   *)
(* one task and never both used and dropped.                               *)
(***************************************************************************)
EXTENDS Naturals

CONSTANTS Files,   \* the files the upload declares
          Size     \* declared size of each file

VARIABLES got,     \* bytes of each file durably received, from its start
          phase    \* "receiving", "accepted", "used" or "dropped"

contractVars == <<got, phase>>

Complete == \A f \in Files : got[f] = Size[f]

ContractInit ==
    /\ got = [f \in Files |-> 0]
    /\ phase = "receiving"

\* One chunk of one file, after everything received so far.
Receive(f) ==
    /\ phase = "receiving"
    /\ \E n \in (got[f] + 1)..Size[f] : got' = [got EXCEPT ![f] = n]
    /\ UNCHANGED phase

Accept ==
    /\ phase = "receiving"
    /\ Complete
    /\ phase' = "accepted"
    /\ UNCHANGED got

\* A task takes the accepted upload as its input.
Use ==
    /\ phase = "accepted"
    /\ Complete
    /\ phase' = "used"
    /\ UNCHANGED got

Drop ==
    /\ phase \in {"receiving", "accepted"}
    /\ phase' = "dropped"
    /\ UNCHANGED got

ContractNext == (\E f \in Files : Receive(f)) \/ Accept \/ Use \/ Drop

ContractSpec == ContractInit /\ [][ContractNext]_contractVars
=============================================================================
