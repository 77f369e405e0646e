----------------------------- MODULE QuoteStream -----------------------------
(***************************************************************************)
(* What the price feed promises about the quotes of its client, with the   *)
(* sessions, the requests and the threads that serve them left out: a      *)
(* quote is begun only for a symbol whose stream is open, one quote is in  *)
(* flight at a time, and a closed stream is followed by no quote but the   *)
(* one in flight.                                                          *)
(***************************************************************************)
CONSTANTS Symbols, None

VARIABLES open,     \* symbols whose stream is open
          owed      \* symbol of the quote in flight, or None

vars == <<open, owed>>

Init == open = {} /\ owed = None

Open(s)  == open' = open \cup {s} /\ UNCHANGED owed
Close(S) == open' = open \ S /\ UNCHANGED owed

Begin(s) ==
    /\ owed = None
    /\ s \in open
    /\ owed' = s
    /\ UNCHANGED open

Deliver ==
    /\ owed # None
    /\ owed' = None
    /\ UNCHANGED open

\* The process ends: every stream and the quote in flight go with it.
Reset == open' = {} /\ owed' = None

Next ==
    \/ \E s \in Symbols : Open(s) \/ Begin(s)
    \/ \E S \in SUBSET Symbols : Close(S)
    \/ Deliver
    \/ Reset

Spec == Init /\ [][Next]_vars
=============================================================================
