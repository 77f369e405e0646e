----------------------------- MODULE ThreadPool -----------------------------
(***************************************************************************)
(* ctpl::thread_pool (thirdparty/clib/ctpl_stl.h) as TradeCopierMT5 uses   *)
(* it: resize() once to the number of workers, push() from any number of   *)
(* threads, stop(true) from one.                                           *)
(*                                                                         *)
(* The queue has a mutex of its own, so a push or pop of it is one step.   *)
(* The pool's mutex guards the condition variable: a worker holds it from  *)
(* its failed pop to its wait or its exit, push() takes it to notify one   *)
(* waiting worker, stop() to notify all.                                   *)
(***************************************************************************)
EXTENDS Naturals, Sequences

CONSTANTS Workers,  \* the threads of the pool
          Tasks,    \* the calls of push, one per task
          None      \* no worker, no task

ASSUME PoolAssumption == Workers # {} /\ None \notin Workers \cup Tasks

VARIABLES
    q,         \* the queue of functors
    isDone,    \* stop(true) was called
    mutex,     \* holder of the pool's mutex, None when free
    cv,        \* workers blocked on the condition variable
    pc,        \* per worker: "pop", "run", "lock", "pred", "exited"
    func,      \* per worker: the functor it runs
    pushPc,    \* per task: its push is "ready", at "notify", "returned"
    stopPc,    \* stop(true): "ready", "notify", "join", "returned"
    promised   \* ghost: tasks whose push returned before stop was called

vars == <<q, isDone, mutex, cv, pc, func, pushPc, stopPc, promised>>

TypeOK ==
    /\ q \in Seq(Tasks)
    /\ isDone \in BOOLEAN
    /\ mutex \in Workers \cup {None}
    /\ cv \subseteq Workers
    /\ pc \in [Workers -> {"pop", "run", "lock", "pred", "exited"}]
    /\ func \in [Workers -> Tasks \cup {None}]
    /\ pushPc \in [Tasks -> {"ready", "notify", "returned"}]
    /\ stopPc \in {"ready", "notify", "join", "returned"}
    /\ promised \subseteq Tasks

Init ==
    /\ q = <<>>
    /\ isDone = FALSE
    /\ mutex = None
    /\ cv = {}
    /\ pc = [w \in Workers |-> "pop"]
    /\ func = [w \in Workers |-> None]
    /\ pushPc = [t \in Tasks |-> "ready"]
    /\ stopPc = "ready"
    /\ promised = {}

-----------------------------------------------------------------------------
(* push(): queue the functor, then lock and notify_one. *)

PushQueue(t) ==
    /\ pushPc[t] = "ready"
    /\ q' = Append(q, t)
    /\ pushPc' = [pushPc EXCEPT ![t] = "notify"]
    /\ UNCHANGED <<isDone, mutex, cv, pc, func, stopPc, promised>>

\* Slip: push() queues without notifying.
PushNotifyLost(t) ==
    /\ pushPc[t] = "notify"
    /\ UNCHANGED cv
    /\ pushPc' = [pushPc EXCEPT ![t] = "returned"]
    /\ promised' = IF isDone THEN promised ELSE promised \cup {t}
    /\ UNCHANGED <<q, isDone, mutex, pc, func, stopPc>>

\* A notified worker leaves the condition variable and must lock again.
PushNotify(t) ==
    /\ pushPc[t] = "notify"
    /\ mutex = None
    /\ IF cv = {} THEN UNCHANGED cv ELSE \E w \in cv : cv' = cv \ {w}
    /\ pushPc' = [pushPc EXCEPT ![t] = "returned"]
    /\ promised' = IF isDone THEN promised ELSE promised \cup {t}
    /\ UNCHANGED <<q, isDone, mutex, pc, func, stopPc>>

-----------------------------------------------------------------------------
(* A worker: set_thread's loop. *)

\* isPop = q.pop(_f); on success the functor is run next.
PopTask(w) ==
    /\ q # <<>>
    /\ q' = Tail(q)
    /\ func' = [func EXCEPT ![w] = Head(q)]
    /\ pc' = [pc EXCEPT ![w] = "run"]

Pop(w) ==
    /\ pc[w] = "pop"
    /\ \/ PopTask(w)
       \/ /\ q = <<>>
          /\ pc' = [pc EXCEPT ![w] = "lock"]
          /\ UNCHANGED <<q, func>>
    /\ UNCHANGED <<isDone, mutex, cv, pushPc, stopPc, promised>>

\* The functor returns; func is deleted and the loop pops again.
Run(w) ==
    /\ pc[w] = "run"
    /\ func' = [func EXCEPT ![w] = None]
    /\ pc' = [pc EXCEPT ![w] = "pop"]
    /\ UNCHANGED <<q, isDone, mutex, cv, pushPc, stopPc, promised>>

\* Lock, first time or after a notification, and pop inside the predicate.
LockAndPop(w) ==
    /\ pc[w] = "lock"
    /\ w \notin cv
    /\ mutex = None
    /\ \/ PopTask(w) /\ UNCHANGED mutex
       \/ /\ q = <<>>
          /\ mutex' = w
          /\ pc' = [pc EXCEPT ![w] = "pred"]
          /\ UNCHANGED <<q, func>>
    /\ UNCHANGED <<isDone, cv, pushPc, stopPc, promised>>

\* The rest of the predicate: exit if isDone, otherwise wait, which releases
\* the mutex.
Decide(w) ==
    /\ pc[w] = "pred"
    /\ mutex' = None
    /\ IF isDone THEN /\ pc' = [pc EXCEPT ![w] = "exited"]
                      /\ UNCHANGED cv
                 ELSE /\ pc' = [pc EXCEPT ![w] = "lock"]
                      /\ cv' = cv \cup {w}
    /\ UNCHANGED <<q, isDone, func, pushPc, stopPc, promised>>

-----------------------------------------------------------------------------
(* stop(true). *)

StopBegin ==
    /\ stopPc = "ready"
    /\ isDone' = TRUE
    /\ stopPc' = "notify"
    /\ UNCHANGED <<q, mutex, cv, pc, func, pushPc, promised>>

\* Slip: stop() wakes nobody.
StopNotifyNobody ==
    /\ stopPc = "notify"
    /\ mutex = None
    /\ stopPc' = "join"
    /\ UNCHANGED <<q, isDone, mutex, cv, pc, func, pushPc, promised>>

StopNotify ==
    /\ stopPc = "notify"
    /\ mutex = None
    /\ cv' = {}
    /\ stopPc' = "join"
    /\ UNCHANGED <<q, isDone, mutex, pc, func, pushPc, promised>>

\* Slip: stop() does not join.
StopWithoutJoin ==
    /\ stopPc = "join"
    /\ q' = <<>>
    /\ stopPc' = "returned"
    /\ UNCHANGED <<isDone, mutex, cv, pc, func, pushPc, promised>>

\* Every thread is joined, then clear_queue() deletes what is left.
StopJoin ==
    /\ stopPc = "join"
    /\ \A w \in Workers : pc[w] = "exited"
    /\ q' = <<>>
    /\ stopPc' = "returned"
    /\ UNCHANGED <<isDone, mutex, cv, pc, func, pushPc, promised>>

-----------------------------------------------------------------------------
WorkerStep(w) == Pop(w) \/ Run(w) \/ LockAndPop(w) \/ Decide(w)
StopStep      == StopNotify \/ StopJoin

Next ==
    \/ \E t \in Tasks : PushQueue(t) \/ PushNotify(t)
    \/ \E w \in Workers : WorkerStep(w)
    \/ StopBegin
    \/ StopStep

Spec == Init /\ [][Next]_vars

(***************************************************************************)
(* Every thread of the pool, every caller inside push() and the caller of  *)
(* stop() keep running.  Nobody need call push() or stop().                *)
(***************************************************************************)
FairSpec ==
    /\ Spec
    /\ \A w \in Workers : WF_vars(WorkerStep(w))
    /\ \A t \in Tasks : WF_vars(PushNotify(t))
    /\ WF_vars(StopStep)

-----------------------------------------------------------------------------
(***************************************************************************)
(* The pool implements TaskPool.                                           *)
(***************************************************************************)
RunningTasks == {func[w] : w \in Workers} \ {None}
QueuedTasks  == {q[i] : i \in 1..Len(q)}

Abstract == INSTANCE TaskPool WITH
    queue   <- q,
    running <- RunningTasks,
    owed    <- promised \cap QueuedTasks,
    closing <- isDone,
    closed  <- stopPc = "returned"

\* Every step of a worker, a pusher or the stopper is one the abstract pool
\* may take, or none: tasks are started in the order they were queued, and
\* when stop(true) returns nothing runs and nothing it owed is left.
ImplementsTaskPool == Abstract!Spec

-----------------------------------------------------------------------------
(* Liveness. *)

\* A queued task is run, unless the pool is being stopped: no wakeup is lost.
QueuedIsRun ==
    \A t \in Tasks :
        pushPc[t] = "returned" ~>
            isDone \/ t \notin QueuedTasks

\* A stop(true) that has begun returns: every waiting worker is woken to find
\* isDone, and none waits again.
StopReturns == isDone ~> stopPc = "returned"

-----------------------------------------------------------------------------
(***************************************************************************)
(* Why ImplementsTaskPool holds.  Every task is in one place; a worker     *)
(* that found the queue empty under the mutex keeps it until it waits or   *)
(* exits, and no push can return meanwhile.                                *)
(***************************************************************************)
RunsItsTask == \A w \in Workers : func[w] # None <=> pc[w] = "run"

OnePlace ==
    /\ \A i, j \in 1..Len(q) : q[i] = q[j] => i = j
    /\ \A w \in Workers : func[w] \notin QueuedTasks
    /\ \A v, w \in Workers : func[v] = func[w] => v = w \/ func[w] = None

OnlyPushed ==
    /\ \A t \in QueuedTasks \cup RunningTasks : pushPc[t] # "ready"
    /\ \A t \in promised : pushPc[t] = "returned"

StopInOrder ==
    /\ isDone <=> stopPc # "ready"
    /\ stopPc = "returned" => \A w \in Workers : pc[w] = "exited"

EmptyWhileHeld ==
    \A w \in Workers : pc[w] = "pred" =>
        /\ mutex = w
        /\ \A t \in QueuedTasks : pushPc[t] = "notify"

LeavesNothingOwed ==
    \A w \in Workers : pc[w] = "exited" =>
        isDone /\ promised \cap QueuedTasks = {}

PoolInv ==
    /\ TypeOK
    /\ RunsItsTask
    /\ OnePlace
    /\ OnlyPushed
    /\ StopInOrder
    /\ EmptyWhileHeld
    /\ LeavesNothingOwed
=============================================================================
