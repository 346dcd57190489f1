--------------------------- MODULE ConsoleContract ---------------------------
(***************************************************************************)
(* What a serial console promises the script that reads it: what has       *)
(* arrived is kept in order; a read takes all of it, a wait takes it up to *)
(* the first keyword and leaves the rest, a wait that fails shows it and   *)
(* takes nothing. Only a mark and a login discard text, only a command     *)
(* reads past it, and it is lost with the connection.                      *)
(***************************************************************************)
EXTENDS Naturals, Sequences, SequencesExt

VARIABLES
    up,         \* there is a connection
    wire,       \* what has not arrived
    unread,     \* what has arrived and was not taken
    answer,     \* what the last operation gave the script
    reader      \* who reads: "none", "console", "discard", "command"

vars == <<up, wire, unread, answer, reader>>

IsKey(t) == t.k = "key"

HasKey(s) == \E i \in 1..Len(s) : IsKey(s[i])

\* The position of the first keyword in a text that has one.
FirstKey(s) == CHOOSE i \in 1..Len(s) : IsKey(s[i]) /\ \A j \in 1..(i - 1) : ~IsKey(s[j])

ContractInit == ~up /\ unread = <<>> /\ answer = <<>> /\ reader = "none"

\* The other end, and operations that begin or end with nothing to show.
Wire ==
    /\ UNCHANGED <<up, unread, answer>>
    /\ \/ reader = "command"
       \/ IsPrefix(wire, wire')
       \/ Len(wire') <= Len(wire) /\ \A i \in 1..(Len(wire') - 1) : wire'[i] = wire[i]

Forget == answer' = <<>> /\ UNCHANGED <<up, wire, unread>>

Open == reader = "none" /\ up' /\ unread' = <<>> /\ answer' = <<>>

Lose == ~up' /\ unread' = <<>> /\ answer' \in {answer, <<>>}

\* A packet; it joins what is unread.
Arrive ==
    /\ up /\ up' /\ reader # "command"
    /\ wire # wire' /\ IsSuffix(wire', wire)
    /\ unread' = unread \o SubSeq(wire, 1, Len(wire) - Len(wire'))
    /\ UNCHANGED answer

TakeAll == reader = "console" /\ unread' = <<>> /\ answer' = unread /\ UNCHANGED <<up, wire>>

TakeToKey ==
    /\ reader = "console" /\ HasKey(unread)
    /\ LET i == FirstKey(unread)
       IN answer' = SubSeq(unread, 1, i) /\ unread' = SubSeq(unread, i + 1, Len(unread))
    /\ UNCHANGED <<up, wire>>

Show == reader = "console" /\ answer' = unread /\ ~HasKey(unread) /\ UNCHANGED <<up, wire, unread>>

Discard == reader = "discard" /\ IsSuffix(unread', unread) /\ UNCHANGED <<up, wire, answer>>

ContractNext == Wire \/ Forget \/ Open \/ Lose \/ Arrive \/ TakeAll \/ TakeToKey \/ Show \/ Discard

ContractSpec == ContractInit /\ [][ContractNext]_vars
=============================================================================
