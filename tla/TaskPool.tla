------------------------------ MODULE TaskPool ------------------------------
(***************************************************************************)
(* What a user of ctpl::thread_pool may rely on, threads and condition     *)
(* variable left out: tasks are taken in the order they were queued, each  *)
(* once, and a pool that is closed first runs every task whose push had    *)
(* returned before the close began.  Nothing is promised for a task queued *)
(* later: it may be run, or be dropped with the queue.                     *)
(***************************************************************************)
EXTENDS Naturals, Sequences

CONSTANTS Tasks

VARIABLES queue,    \* tasks waiting, oldest first
          running,  \* tasks being run
          owed,     \* queued tasks whose push returned before the close
          closing,  \* the close has begun
          closed    \* the close has returned

vars == <<queue, running, owed, closing, closed>>

Init ==
    /\ queue = <<>>
    /\ running = {}
    /\ owed = {}
    /\ closing = FALSE
    /\ closed = FALSE

Queued == {queue[i] : i \in 1..Len(queue)}

Push(t) ==
    /\ t \notin Queued \cup running
    /\ queue' = Append(queue, t)
    /\ UNCHANGED <<running, owed, closing, closed>>

\* The push returns to its caller.
Return(t) ==
    /\ owed' = IF ~closing /\ t \in Queued THEN owed \cup {t} ELSE owed
    /\ UNCHANGED <<queue, running, closing, closed>>

Take ==
    /\ queue # <<>>
    /\ ~closed
    /\ queue' = Tail(queue)
    /\ running' = running \cup {Head(queue)}
    /\ owed' = owed \ {Head(queue)}
    /\ UNCHANGED <<closing, closed>>

Finish(t) ==
    /\ t \in running
    /\ running' = running \ {t}
    /\ UNCHANGED <<queue, owed, closing, closed>>

BeginClose ==
    /\ closing' = TRUE
    /\ UNCHANGED <<queue, running, owed, closed>>

Close ==
    /\ closing
    /\ running = {}
    /\ owed = {}
    /\ closed' = TRUE
    /\ queue' = <<>>
    /\ UNCHANGED <<running, owed, closing>>

Next ==
    \/ \E t \in Tasks : Push(t) \/ Return(t) \/ Finish(t)
    \/ Take
    \/ BeginClose
    \/ Close

Spec == Init /\ [][Next]_vars
=============================================================================
