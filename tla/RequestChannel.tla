--------------------------- MODULE RequestChannel ---------------------------
(***************************************************************************)
(* What a FIX session promises the application that sends: requests reach  *)
(* the other application in the order they were made, none of them left    *)
(* out, each once.  Two exceptions: a receiver that dies while it handles  *)
(* a request is given that one again, and a sender that resets its         *)
(* sequence numbers (lossy) may lose requests.                             *)
(***************************************************************************)
EXTENDS Naturals, Sequences

VARIABLES
    lossy,     \* the sender resets its numbers when it logs on
    sent,      \* requests made; their names are 1..sent
    handled,   \* the requests the receiver was given, in order
    uncertain  \* the receiver may not know that it was given the last one

vars == <<lossy, sent, handled, uncertain>>

LastHandled == IF handled = <<>> THEN 0 ELSE handled[Len(handled)]

Init ==
    /\ lossy \in BOOLEAN
    /\ sent = 0
    /\ handled = <<>>
    /\ uncertain = FALSE

Ask ==
    /\ sent' = sent + 1
    /\ UNCHANGED <<lossy, handled, uncertain>>

Deliver(i) ==
    /\ ~uncertain
    /\ i \in LastHandled + 1 .. sent
    /\ ~lossy => i = LastHandled + 1
    /\ handled' = Append(handled, i)
    /\ uncertain' \in BOOLEAN
    /\ UNCHANGED <<lossy, sent>>

Redeliver ==
    /\ uncertain
    /\ handled' = Append(handled, LastHandled)
    /\ uncertain' \in BOOLEAN
    /\ UNCHANGED <<lossy, sent>>

Forget ==
    /\ lossy
    /\ uncertain' = FALSE
    /\ UNCHANGED <<lossy, sent, handled>>

Next == Ask \/ (\E i \in 1..sent : Deliver(i)) \/ Redeliver \/ Forget

Spec == Init /\ [][Next]_vars
=============================================================================
