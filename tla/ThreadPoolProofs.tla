--------------------------- MODULE ThreadPoolProofs ---------------------------
(***************************************************************************)
(* ThreadPool implements TaskPool, for any set of workers and any number   *)
(* of pushes.  PoolInv says where a task can be; a push adds one to the    *)
(* end of the queue, a worker takes the first, stop(true) clears the rest. *)
(***************************************************************************)
EXTENDS ThreadPool, SequenceTheorems, TLAPS

Elements(s) == {s[i] : i \in 1..Len(s)}
Distinct(s) == \A i, j \in 1..Len(s) : s[i] = s[j] => i = j

\* Appending a task that is not in the queue adds it, and keeps tasks distinct.
LEMMA Appended ==
    ASSUME NEW s \in Seq(Tasks), NEW t \in Tasks, t \notin Elements(s),
           Distinct(s)
    PROVE  /\ Append(s, t) \in Seq(Tasks)
           /\ Elements(Append(s, t)) = Elements(s) \cup {t}
           /\ Distinct(Append(s, t))
<1>1. /\ Append(s, t) \in Seq(Tasks)
      /\ Len(s) \in Nat
      /\ Len(Append(s, t)) = Len(s) + 1
      /\ Append(s, t)[Len(s) + 1] = t
      /\ \A i \in 1..Len(s) : Append(s, t)[i] = s[i]
      /\ 1..Len(s) + 1 = 1..Len(s) \cup {Len(s) + 1}
  BY AppendProperties, LenProperties
<1>2. Elements(Append(s, t)) = Elements(s) \cup {t}
  BY <1>1 DEF Elements
<1>3. Distinct(Append(s, t))
  BY <1>1 DEF Elements, Distinct
<1>4. QED  BY <1>1, <1>2, <1>3

\* Taking the first of distinct tasks leaves the others.
LEMMA Taken ==
    ASSUME NEW s \in Seq(Tasks), s # <<>>, Distinct(s)
    PROVE  /\ Head(s) \in Tasks \cap Elements(s)
           /\ Tail(s) \in Seq(Tasks)
           /\ Elements(Tail(s)) = Elements(s) \ {Head(s)}
           /\ Distinct(Tail(s))
<1>1. /\ Len(s) \in Nat \ {0}
      /\ Head(s) \in Tasks
      /\ Head(s) = s[1]
      /\ Tail(s) \in Seq(Tasks)
      /\ Len(Tail(s)) = Len(s) - 1
      /\ \A i \in 1..Len(s) - 1 : Tail(s)[i] = s[i + 1]
  BY HeadTailProperties, LenProperties, EmptySeq
<1>2. Head(s) \in Elements(s)
  BY <1>1 DEF Elements
<1>3. Elements(Tail(s)) \subseteq Elements(s) \ {Head(s)}
  BY <1>1 DEF Elements, Distinct
<1>4. ASSUME NEW t \in Elements(s), t # Head(s) PROVE t \in Elements(Tail(s))
  <2>1. PICK i \in 1..Len(s) : t = s[i]
    BY DEF Elements
  <2>2. i - 1 \in 1..Len(s) - 1 /\ Tail(s)[i - 1] = s[i]
    BY <1>1, <1>4, <2>1
  <2>3. QED  BY <1>1, <2>1, <2>2 DEF Elements
<1>5. Distinct(Tail(s))
  BY <1>1 DEF Distinct
<1>6. QED  BY <1>1, <1>2, <1>3, <1>4, <1>5

\* The empty queue holds no task, so none twice.
LEMMA NothingQueued ==
    <<>> \in Seq(Tasks) /\ Elements(<<>>) = {} /\ Distinct(<<>>)
BY EmptySeq DEF Elements, Distinct

\* The names of the specification for a queue's elements.
LEMMA Named ==
    /\ QueuedTasks = Elements(q)
    /\ QueuedTasks' = Elements(q')
    /\ OnePlace => Distinct(q)
    /\ (\A i, j \in 1..Len(q) : q[i] = q[j] => i = j) = Distinct(q)
BY DEF QueuedTasks, Elements, OnePlace, Distinct

-----------------------------------------------------------------------------
\* At the beginning the invariant holds.
LEMMA PoolInit == Init => PoolInv
<1> SUFFICES ASSUME Init PROVE PoolInv
  OBVIOUS
<1>1. TypeOK
  BY NothingQueued DEF Init, TypeOK
<1>2. QueuedTasks = {} /\ RunningTasks = {}
  BY NothingQueued, Named DEF Init, RunningTasks
<1>3. OnePlace
  BY <1>2, NothingQueued, Named DEF Init, OnePlace
<1>4. RunsItsTask /\ StopInOrder
  BY DEF Init, RunsItsTask, StopInOrder
<1>5. OnlyPushed /\ EmptyWhileHeld /\ LeavesNothingOwed
  BY <1>2 DEF Init, OnlyPushed, EmptyWhileHeld, LeavesNothingOwed
<1>6. QED  BY <1>1, <1>3, <1>4, <1>5 DEF PoolInv

-----------------------------------------------------------------------------
\* push(): a task that is nowhere yet is queued.
LEMMA PushQueueStep ==
    ASSUME PoolInv, NEW t \in Tasks, PushQueue(t)
    PROVE  /\ PoolInv'
           /\ t \notin QueuedTasks \cup RunningTasks \cup promised
           /\ QueuedTasks' = QueuedTasks \cup {t}
<1> USE DEF PoolInv
<1>1. t \notin QueuedTasks \cup RunningTasks \cup promised
  BY DEF PushQueue, OnlyPushed
<1>2. q \in Seq(Tasks) /\ q' = Append(q, t)
  BY DEF PushQueue, TypeOK
<1>3. /\ q' \in Seq(Tasks)
      /\ QueuedTasks' = QueuedTasks \cup {t}
      /\ Distinct(q')
  BY <1>1, <1>2, Appended, Named
<1>4. RunningTasks' = RunningTasks
  BY DEF PushQueue, RunningTasks
<1>5. TypeOK'
  BY <1>3 DEF PushQueue, TypeOK
<1>6. RunsItsTask' /\ StopInOrder'
  BY DEF PushQueue, RunsItsTask, StopInOrder
<1>7. OnePlace'
  <2>1. \A w \in Workers : func[w] # t
    BY <1>1, PoolAssumption DEF RunningTasks
  <2>2. QED  BY <1>3, <2>1, Named DEF PushQueue, OnePlace, Distinct
<1>8. OnlyPushed'
  BY <1>1, <1>3, <1>4 DEF PushQueue, OnlyPushed, TypeOK
<1>9. EmptyWhileHeld' /\ LeavesNothingOwed'
  BY <1>1, <1>3 DEF PushQueue, EmptyWhileHeld, LeavesNothingOwed, TypeOK
<1>10. QED  BY <1>1, <1>3, <1>5, <1>6, <1>7, <1>8, <1>9

\* push(): nobody holds the mutex, so that no worker is at its predicate.
LEMMA PushNotifyStep ==
    ASSUME PoolInv, NEW t \in Tasks, PushNotify(t)
    PROVE  PoolInv'
<1> USE DEF PoolInv
<1>1. q' = q /\ func' = func /\ pc' = pc
  BY DEF PushNotify
<1>2. QueuedTasks' = QueuedTasks /\ RunningTasks' = RunningTasks
  BY <1>1 DEF QueuedTasks, RunningTasks
<1>3. \A w \in Workers : pc[w] # "pred"
  BY PoolAssumption DEF PushNotify, EmptyWhileHeld
<1>4. TypeOK'
  BY DEF PushNotify, TypeOK
<1>5. RunsItsTask' /\ OnePlace' /\ StopInOrder'
  BY <1>1, <1>2 DEF PushNotify, RunsItsTask, OnePlace, StopInOrder
<1>6. OnlyPushed'
  BY <1>2 DEF PushNotify, OnlyPushed, TypeOK
<1>7. EmptyWhileHeld'
  BY <1>1, <1>3 DEF EmptyWhileHeld
<1>8. LeavesNothingOwed'
  BY <1>1, <1>2 DEF PushNotify, LeavesNothingOwed
<1>9. QED  BY <1>4, <1>5, <1>6, <1>7, <1>8

-----------------------------------------------------------------------------
\* A worker that has no functor takes the first task of the queue.
LEMMA TakeStep ==
    ASSUME PoolInv, NEW w \in Workers, pc[w] \in {"pop", "lock"}, PopTask(w),
           UNCHANGED <<isDone, mutex, cv, pushPc, stopPc, promised>>
    PROVE  /\ PoolInv'
           /\ QueuedTasks' = QueuedTasks \ {Head(q)}
           /\ RunningTasks' = RunningTasks \cup {Head(q)}
           /\ stopPc # "returned"
<1> USE DEF PoolInv
<1>1. q \in Seq(Tasks) /\ q # <<>> /\ q' = Tail(q)
  BY DEF PopTask, TypeOK
<1>2. /\ Head(q) \in Tasks \cap QueuedTasks
      /\ q' \in Seq(Tasks)
      /\ QueuedTasks' = QueuedTasks \ {Head(q)}
      /\ Distinct(q')
  BY <1>1, Taken, Named
<1>3. /\ func' = [func EXCEPT ![w] = Head(q)]
      /\ pc' = [pc EXCEPT ![w] = "run"]
      /\ func \in [Workers -> Tasks \cup {None}]
      /\ pc \in [Workers -> {"pop", "run", "lock", "pred", "exited"}]
  BY DEF PopTask, TypeOK
<1>4. func[w] = None /\ Head(q) # None
  BY <1>2, PoolAssumption DEF RunsItsTask
<1>5. RunningTasks' = RunningTasks \cup {Head(q)}
  BY <1>3, <1>4 DEF RunningTasks
<1>6. TypeOK'
  BY <1>2, <1>3 DEF TypeOK
<1>7. RunsItsTask'
  BY <1>3, <1>4 DEF RunsItsTask
<1>8. OnePlace'
  BY <1>2, <1>3, <1>4, Named DEF OnePlace, Distinct
<1>9. OnlyPushed'
  BY <1>2, <1>5 DEF OnlyPushed
<1>10. StopInOrder' /\ stopPc # "returned"
  BY <1>3 DEF StopInOrder
<1>11. EmptyWhileHeld' /\ LeavesNothingOwed'
  BY <1>2, <1>3 DEF EmptyWhileHeld, LeavesNothingOwed
<1>12. QED  BY <1>2, <1>5, <1>6, <1>7, <1>8, <1>9, <1>10, <1>11

\* A worker steps without touching a task.
LEMMA IdleStep ==
    ASSUME PoolInv, NEW w \in Workers,
           \/ Pop(w) /\ q = <<>>
           \/ LockAndPop(w) /\ q = <<>>
           \/ Decide(w)
    PROVE  /\ PoolInv'
           /\ UNCHANGED <<q, func, isDone, pushPc, stopPc, promised>>
<1> USE DEF PoolInv
<1>1. UNCHANGED <<q, func, isDone, pushPc, stopPc, promised>>
  BY DEF Pop, LockAndPop, PopTask, Decide
<1>2. QueuedTasks' = QueuedTasks /\ RunningTasks' = RunningTasks
  BY <1>1 DEF QueuedTasks, RunningTasks
<1>3. /\ pc \in [Workers -> {"pop", "run", "lock", "pred", "exited"}]
      /\ pc[w] \in {"pop", "lock", "pred"}
      /\ \E p \in {"lock", "pred", "exited"} : pc' = [pc EXCEPT ![w] = p]
  BY DEF Pop, LockAndPop, PopTask, Decide, TypeOK
<1>4. TypeOK'
  <2>1. mutex' \in Workers \cup {None} /\ cv' \subseteq Workers
    BY DEF Pop, LockAndPop, PopTask, Decide, TypeOK
  <2>2. QED  BY <1>1, <1>3, <2>1 DEF TypeOK
<1>5. RunsItsTask'
  BY <1>1, <1>3 DEF RunsItsTask
<1>6. OnePlace' /\ OnlyPushed'
  BY <1>1, <1>2 DEF OnePlace, OnlyPushed
<1>7. StopInOrder'
  BY <1>1, <1>3 DEF StopInOrder
<1>8. EmptyWhileHeld'
  <2>1. CASE Pop(w)
    BY <1>2, <2>1 DEF Pop, PopTask, EmptyWhileHeld, TypeOK
  <2>2. CASE LockAndPop(w) /\ q = <<>>
    <3>1. QueuedTasks = {}
      BY <2>2, NothingQueued, Named
    <3>2. \A v \in Workers : pc[v] # "pred"
      BY <2>2, PoolAssumption DEF LockAndPop, EmptyWhileHeld
    <3>3. mutex' = w /\ pc' = [pc EXCEPT ![w] = "pred"]
      BY <2>2 DEF LockAndPop, PopTask
    <3>4. QED  BY <1>2, <1>3, <3>1, <3>2, <3>3 DEF EmptyWhileHeld
  <2>3. CASE Decide(w)
    BY <2>3, PoolAssumption DEF Decide, EmptyWhileHeld, TypeOK
  <2>4. QED  BY <2>1, <2>2, <2>3
<1>9. LeavesNothingOwed'
  <2>1. CASE Pop(w) \/ LockAndPop(w)
    BY <1>1, <1>2, <2>1 DEF Pop, LockAndPop, PopTask, LeavesNothingOwed, TypeOK
  <2>2. CASE Decide(w)
    <3>1. promised \cap QueuedTasks = {}
      BY <2>2 DEF Decide, EmptyWhileHeld, OnlyPushed
    <3>2. QED  BY <1>1, <1>2, <2>2, <3>1 DEF Decide, LeavesNothingOwed, TypeOK
  <2>3. QED  BY <2>1, <2>2
<1>10. QED  BY <1>1, <1>4, <1>5, <1>6, <1>7, <1>8, <1>9

\* A task that ends leaves its worker, and nothing else changes place.
LEMMA RunStep ==
    ASSUME PoolInv, NEW w \in Workers, Run(w)
    PROVE  /\ PoolInv'
           /\ func[w] \in RunningTasks
           /\ QueuedTasks' = QueuedTasks
           /\ RunningTasks' = RunningTasks \ {func[w]}
<1> USE DEF PoolInv
<1>1. /\ func' = [func EXCEPT ![w] = None]
      /\ pc' = [pc EXCEPT ![w] = "pop"]
      /\ func \in [Workers -> Tasks \cup {None}]
      /\ pc \in [Workers -> {"pop", "run", "lock", "pred", "exited"}]
      /\ UNCHANGED <<q, isDone, mutex, cv, pushPc, stopPc, promised>>
  BY DEF Run, TypeOK
<1>2. func[w] # None
  BY DEF Run, RunsItsTask
<1>3. QueuedTasks' = QueuedTasks
  BY <1>1 DEF QueuedTasks
<1>4. func[w] \in RunningTasks /\ RunningTasks' = RunningTasks \ {func[w]}
  BY <1>1, <1>2 DEF RunningTasks, OnePlace
<1>5. TypeOK' /\ RunsItsTask' /\ StopInOrder'
  BY <1>1, <1>2 DEF Run, TypeOK, RunsItsTask, StopInOrder
<1>6. OnePlace'
  <2>1. None \notin QueuedTasks
    BY PoolAssumption DEF QueuedTasks, TypeOK
  <2>2. QED  BY <1>1, <1>3, <2>1 DEF OnePlace
<1>7. OnlyPushed'
  BY <1>1, <1>3, <1>4 DEF OnlyPushed
<1>8. EmptyWhileHeld' /\ LeavesNothingOwed'
  BY <1>1, <1>3 DEF EmptyWhileHeld, LeavesNothingOwed
<1>9. QED  BY <1>3, <1>4, <1>5, <1>6, <1>7, <1>8

-----------------------------------------------------------------------------
\* Until it has joined the workers, a stop changes no task.
LEMMA StopSteps ==
    ASSUME PoolInv, StopBegin \/ StopNotify
    PROVE  PoolInv' /\ UNCHANGED <<q, func, promised>> /\ stopPc' # "returned"
<1> USE DEF PoolInv
<1>1. UNCHANGED <<q, func, pc, mutex, pushPc, promised>>
  BY DEF StopBegin, StopNotify
<1>2. QueuedTasks' = QueuedTasks /\ RunningTasks' = RunningTasks
  BY <1>1 DEF QueuedTasks, RunningTasks
<1>3. TypeOK' /\ RunsItsTask' /\ StopInOrder' /\ stopPc' # "returned"
  BY <1>1 DEF StopBegin, StopNotify, TypeOK, RunsItsTask, StopInOrder
<1>4. OnePlace' /\ OnlyPushed' /\ EmptyWhileHeld'
  BY <1>1, <1>2 DEF OnePlace, OnlyPushed, EmptyWhileHeld
<1>5. LeavesNothingOwed'
  BY <1>1, <1>2 DEF StopBegin, StopNotify, LeavesNothingOwed
<1>6. QED  BY <1>1, <1>3, <1>4, <1>5

\* stop(true) returns when every thread has exited, and nothing is owed then.
LEMMA StopJoinStep ==
    ASSUME PoolInv, StopJoin
    PROVE  /\ PoolInv'
           /\ isDone
           /\ RunningTasks = {}
           /\ promised \cap QueuedTasks = {}
           /\ QueuedTasks' = {}
<1> USE DEF PoolInv
<1>1. UNCHANGED <<isDone, mutex, cv, pc, func, pushPc, promised>>
  BY DEF StopJoin
<1>2. \A w \in Workers : pc[w] = "exited" /\ func[w] = None
  BY DEF StopJoin, RunsItsTask
<1>3. q' = <<>> /\ QueuedTasks' = {} /\ Distinct(q') /\ q' \in Seq(Tasks)
  BY NothingQueued, Named DEF StopJoin
<1>4. RunningTasks = {} /\ RunningTasks' = {}
  BY <1>1, <1>2 DEF RunningTasks
<1>5. isDone /\ promised \cap QueuedTasks = {}
  BY <1>2, PoolAssumption DEF LeavesNothingOwed
<1>6. TypeOK' /\ RunsItsTask' /\ StopInOrder'
  BY <1>1, <1>2, <1>3, <1>5 DEF StopJoin, TypeOK, RunsItsTask, StopInOrder
<1>7. OnePlace' /\ OnlyPushed' /\ EmptyWhileHeld' /\ LeavesNothingOwed'
  BY <1>1, <1>2, <1>3, <1>4, <1>5, Named
  DEF OnePlace, OnlyPushed, EmptyWhileHeld, LeavesNothingOwed, Distinct
<1>8. QED  BY <1>3, <1>4, <1>5, <1>6, <1>7

-----------------------------------------------------------------------------
\* Nothing changes when nothing happens.
LEMMA StutterStep == PoolInv /\ UNCHANGED vars => PoolInv'
<1> SUFFICES ASSUME PoolInv, UNCHANGED vars PROVE PoolInv'
  OBVIOUS
<1>1. QueuedTasks' = QueuedTasks /\ RunningTasks' = RunningTasks
  BY DEF vars, QueuedTasks, RunningTasks
<1>2. QED
  BY <1>1 DEF vars, PoolInv, TypeOK, RunsItsTask, OnePlace, OnlyPushed,
              StopInOrder, EmptyWhileHeld, LeavesNothingOwed

\* The variables of TaskPool that a step of ThreadPool leaves as they are.
LEMMA Stutters ==
    ASSUME UNCHANGED <<q, func, promised, isDone>>,
           (stopPc = "returned") = (stopPc' = "returned")
    PROVE  UNCHANGED Abstract!vars
BY DEF Abstract!vars, RunningTasks, QueuedTasks

\* Every step of a worker keeps the invariant and takes a task, finishes one,
\* or is none of TaskPool's.
LEMMA WorkerRefines ==
    ASSUME PoolInv, NEW w \in Workers, WorkerStep(w)
    PROVE  PoolInv' /\ [Abstract!Next]_(Abstract!vars)
<1>1. CASE Run(w)
  <2>1. /\ func[w] \in RunningTasks
        /\ RunningTasks' = RunningTasks \ {func[w]}
        /\ QueuedTasks' = QueuedTasks
    BY <1>1, RunStep
  <2>2. func[w] \in Tasks
    BY <2>1 DEF RunningTasks, PoolInv, TypeOK
  <2>3. Abstract!Finish(func[w])
    BY <1>1, <2>1 DEF Run, Abstract!Finish
  <2>4. QED  BY <1>1, <2>2, <2>3, RunStep DEF Abstract!Next
<1>2. CASE PopTask(w) /\ (Pop(w) \/ LockAndPop(w))
  <2>1. /\ pc[w] \in {"pop", "lock"}
        /\ q # <<>>
        /\ q' = Tail(q)
        /\ UNCHANGED <<isDone, cv, pushPc, stopPc, promised>>
    BY <1>2 DEF Pop, LockAndPop, PopTask
  <2>2. UNCHANGED mutex
    BY <1>2, <2>1 DEF Pop, LockAndPop
  <2>3. /\ PoolInv'
        /\ QueuedTasks' = QueuedTasks \ {Head(q)}
        /\ RunningTasks' = RunningTasks \cup {Head(q)}
        /\ stopPc # "returned"
    BY <1>2, <2>1, <2>2, TakeStep
  <2>4. Abstract!Take
    BY <2>1, <2>3 DEF Abstract!Take
  <2>5. QED  BY <2>3, <2>4 DEF Abstract!Next
<1>3. CASE \/ Pop(w) /\ q = <<>>
           \/ LockAndPop(w) /\ q = <<>>
           \/ Decide(w)
  BY <1>3, IdleStep, Stutters
<1>4. QED
  BY <1>1, <1>2, <1>3 DEF WorkerStep, Pop, LockAndPop

\* A push is a push of the abstract pool, or nothing.
LEMMA PushRefines ==
    ASSUME PoolInv, NEW t \in Tasks, PushQueue(t) \/ PushNotify(t)
    PROVE  PoolInv' /\ [Abstract!Next]_(Abstract!vars)
<1>1. CASE PushQueue(t)
  <2>1. /\ PoolInv'
        /\ t \notin QueuedTasks \cup RunningTasks \cup promised
        /\ QueuedTasks' = QueuedTasks \cup {t}
    BY <1>1, PushQueueStep
  <2>2. UNCHANGED <<func, isDone, stopPc, promised>> /\ q' = Append(q, t)
    BY <1>1 DEF PushQueue
  <2>3. RunningTasks' = RunningTasks
    BY <2>2 DEF RunningTasks
  <2>4. Abstract!Push(t)
    BY <2>1, <2>2, <2>3 DEF Abstract!Push, Abstract!Queued, QueuedTasks
  <2>5. QED  BY <2>1, <2>4 DEF Abstract!Next
<1>2. CASE PushNotify(t)
  <2>1. UNCHANGED <<q, func, isDone, stopPc>>
    BY <1>2 DEF PushNotify
  <2>2. QueuedTasks' = QueuedTasks /\ RunningTasks' = RunningTasks
    BY <2>1 DEF QueuedTasks, RunningTasks
  <2>3. promised' = IF isDone THEN promised ELSE promised \cup {t}
    BY <1>2 DEF PushNotify
  <2>4. Abstract!Queued = QueuedTasks
    BY DEF Abstract!Queued, QueuedTasks
  <2>5. Abstract!Return(t)
    BY <2>1, <2>2, <2>3, <2>4 DEF Abstract!Return
  <2>6. QED  BY <1>2, <2>5, PushNotifyStep DEF Abstract!Next
<1>3. QED  BY <1>1, <1>2

\* A stop is its close once the last worker is joined, else nothing.
LEMMA StopRefines ==
    ASSUME PoolInv, StopBegin \/ StopStep
    PROVE  PoolInv' /\ [Abstract!Next]_(Abstract!vars)
<1>1. CASE StopBegin \/ StopNotify
  <2>1. /\ PoolInv'
        /\ UNCHANGED <<q, func, promised>>
        /\ stopPc # "returned" /\ stopPc' # "returned"
    BY <1>1, StopSteps DEF StopBegin, StopNotify
  <2>2. QueuedTasks' = QueuedTasks /\ RunningTasks' = RunningTasks
    BY <2>1 DEF QueuedTasks, RunningTasks
  <2>3. CASE StopBegin
    <3>1. Abstract!BeginClose
      BY <2>1, <2>2, <2>3 DEF StopBegin, Abstract!BeginClose
    <3>2. QED  BY <2>1, <3>1 DEF Abstract!Next
  <2>4. CASE StopNotify
    BY <2>1, <2>4, Stutters DEF StopNotify
  <2>5. QED  BY <1>1, <2>3, <2>4
<1>2. CASE StopJoin
  <2>1. /\ PoolInv'
        /\ isDone
        /\ RunningTasks = {}
        /\ promised \cap QueuedTasks = {}
        /\ QueuedTasks' = {}
    BY <1>2, StopJoinStep
  <2>2. RunningTasks' = {}
    BY <1>2, <2>1 DEF StopJoin, RunningTasks
  <2>3. Abstract!Close
    BY <1>2, <2>1, <2>2 DEF StopJoin, Abstract!Close
  <2>4. QED  BY <2>1, <2>3 DEF Abstract!Next
<1>3. QED  BY <1>1, <1>2 DEF StopStep

\* Every step keeps the invariant and is one of TaskPool, or none.
LEMMA PoolStep ==
    PoolInv /\ [Next]_vars => PoolInv' /\ [Abstract!Next]_(Abstract!vars)
<1> SUFFICES ASSUME PoolInv, [Next]_vars
             PROVE  PoolInv' /\ [Abstract!Next]_(Abstract!vars)
  OBVIOUS
<1>1. CASE UNCHANGED vars
  BY <1>1, StutterStep, Stutters DEF vars
<1>2. CASE Next
  BY <1>2, PushRefines, WorkerRefines, StopRefines DEF Next
<1>3. QED  BY <1>1, <1>2

-----------------------------------------------------------------------------
\* What is true of the pool in every state: no task is queued twice or run
\* while it is queued, and a worker exits only when nothing owed is queued.
THEOREM PoolInvariant == Spec => []PoolInv
BY PoolInit, PoolStep, PTL DEF Spec

\* The variables keep their types.
THEOREM TypeCorrect == Spec => []TypeOK
<1>1. PoolInv => TypeOK
  BY DEF PoolInv
<1>2. QED  BY PoolInvariant, <1>1, PTL

\* The pool takes tasks in the order they were queued, and stop(true) returns
\* only when every task pushed before it has run: thread_pool's set_thread,
\* push and stop do nothing TaskPool does not allow.
THEOREM Refinement == Spec => ImplementsTaskPool
<1>1. Init => Abstract!Init
  <2> SUFFICES ASSUME Init PROVE Abstract!Init
    OBVIOUS
  <2>1. RunningTasks = {} /\ promised \cap QueuedTasks = {}
    BY DEF Init, RunningTasks
  <2>2. QED  BY <2>1 DEF Init, Abstract!Init
<1>2. QED
  BY <1>1, PoolStep, PoolInvariant, PTL
  DEF Spec, Abstract!Spec, ImplementsTaskPool
=============================================================================
