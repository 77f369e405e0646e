-------------------------- MODULE ActionQueueProofs --------------------------
(***************************************************************************)
(* ActionQueue for any number of connections and messages: QueueInv is an  *)
(* invariant, so that process_messages never asks for a connection it does *)
(* not know.  The proof follows the actions pending: a push appends to     *)
(* them, taking one into the hand leaves them as they are, and applying it *)
(* removes the first.                                                      *)
(***************************************************************************)
EXTENDS ActionQueue, SequenceTheorems, TLAPS

Kinds == {"SUBSCRIBE", "UNSUBSCRIBE", "IN_MESSAGE"}

\* What is pending is a sequence of actions.
LEMMA PendingType == TypeOK => Pending \in Seq(Actions)
BY DEF TypeOK, Pending

\* A push puts its action behind those pending.
LEMMA PushAppends ==
    ASSUME TypeOK, NEW t \in Kinds, NEW c \in Conns, Push(t, c)
    PROVE  Pending' = Append(Pending, Action(t, c)) /\ Action(t, c) \in Actions
<1>1. Action(t, c) \in Actions
  BY DEF Action, Actions, Kinds
<1>2. actions' = Append(actions, Action(t, c)) /\ inHand' = inHand
  BY DEF Push, Action
<1>3. QED  BY <1>1, <1>2 DEF TypeOK, Pending

\* Taking an action in hand leaves it pending.
LEMMA PopKeeps ==
    ASSUME TypeOK, Pop
    PROVE  Pending' = Pending
<1>1. inHand = <<>>
  BY DEF TypeOK, Pop
<1>2. CASE actions = <<>>
  BY <1>2 DEF Pop, Pending
<1>3. CASE actions # <<>>
  <2>1. inHand' = <<Head(actions)>> /\ actions' = Tail(actions)
    BY <1>3 DEF Pop
  <2>2. <<Head(actions)>> \o Tail(actions) = actions
    BY <1>3 DEF TypeOK
  <2>3. QED  BY <1>1, <2>1, <2>2 DEF Pending, TypeOK
<1>4. QED  BY <1>2, <1>3

\* There is an action in hand while it is applied.
LEMMA OneInHand ==
    ASSUME TypeOK, pc = "apply"
    PROVE  inHand = <<inHand[1]>> /\ Head(inHand) \in Actions
<1>1. Len(inHand) = 1 /\ inHand \in Seq(Actions)
  BY DEF TypeOK
<1>2. inHand = <<inHand[1]>> /\ inHand[1] \in Actions
  BY <1>1
<1>3. QED  BY <1>2

\* The action applied is the first pending, and is pending no more.
LEMMA ApplyTakesFirst ==
    ASSUME TypeOK, Apply
    PROVE  /\ Pending # <<>>
           /\ Head(inHand) = Pending[1]
           /\ Pending' = Tail(Pending)
<1>1. Len(inHand) = 1 /\ inHand \in Seq(Actions) /\ actions \in Seq(Actions)
  BY DEF TypeOK, Apply
<1>2. inHand' = <<>> /\ actions' = actions
  BY DEF Apply
<1>3. Pending' = actions
  BY <1>1, <1>2 DEF Pending
<1>4. inHand = <<inHand[1]>> /\ inHand[1] \in Actions
  BY <1>1
<1>5. /\ Len(Pending) = Len(actions) + 1
      /\ Pending \in Seq(Actions)
      /\ Pending[1] = inHand[1]
      /\ \A i \in 1..Len(actions) : Pending[i + 1] = actions[i]
  <2>1. Len(actions) \in Nat
    BY <1>1
  <2>2. /\ Pending \in Seq(Actions)
        /\ Len(Pending) = Len(inHand) + Len(actions)
        /\ \A i \in 1..Len(inHand) + Len(actions) :
              Pending[i] = IF i <= Len(inHand) THEN inHand[i]
                           ELSE actions[i - Len(inHand)]
    BY <1>1, ConcatProperties DEF Pending
  <2>3. QED  BY <1>1, <2>1, <2>2
<1>6. Pending # <<>>
  BY <1>1, <1>5, LenProperties
<1>7. Tail(Pending) = actions
  <2>1. /\ Tail(Pending) \in Seq(Actions)
        /\ Len(Tail(Pending)) = Len(actions)
        /\ \A i \in 1..Len(actions) : Tail(Pending)[i] = actions[i]
    BY <1>1, <1>5, <1>6, HeadTailProperties, LenProperties
  <2>2. QED  BY <1>1, <2>1, SeqEqual
<1>8. QED  BY <1>1, <1>3, <1>5, <1>6, <1>7

\* A push, an application or any other step, as seen on the actions pending.
LEMMA Appended ==
    ASSUME NEW P \in Seq(Actions), NEW a \in Actions
    PROVE  /\ Len(P) \in Nat
           /\ Len(Append(P, a)) = Len(P) + 1
           /\ Append(P, a)[Len(P) + 1] = a
           /\ \A i \in 1..Len(P) : Append(P, a)[i] = P[i]
           /\ \A i \in 1..Len(P) + 1 : i = Len(P) + 1 \/ i \in 1..Len(P)
BY AppendProperties, LenProperties

\* What is left of a sequence without its first element.
LEMMA Removed ==
    ASSUME NEW P \in Seq(Actions), P # <<>>
    PROVE  /\ Len(P) \in Nat \ {0}
           /\ Len(Tail(P)) = Len(P) - 1
           /\ \A i \in 1..Len(P) - 1 : Tail(P)[i] = P[i + 1]
BY HeadTailProperties, LenProperties, EmptySeq

-----------------------------------------------------------------------------
\* At the beginning the types hold.
LEMMA TypeInit == Init => TypeOK
<1> SUFFICES ASSUME Init PROVE TypeOK
  OBVIOUS
<1>1. /\ actions \in Seq(Actions) /\ inHand \in Seq(Actions)
      /\ Len(inHand) = IF pc = "apply" THEN 1 ELSE 0
  BY EmptySeq DEF Init
<1>2. connections \in [Conns -> Nat] /\ nextId \in Nat \ {NoSession}
  BY DEF Init, NoSession
<1>3. messages \in 0..MaxMessages
  BY MessagesAssumption DEF Init
<1>4. QED  BY <1>1, <1>2, <1>3 DEF Init, TypeOK

\* Every step keeps the variables within their types.
LEMMA TypeStep == TypeOK /\ [Next]_vars => TypeOK'
<1> SUFFICES ASSUME TypeOK, [Next]_vars PROVE TypeOK'
  OBVIOUS
<1> USE DEF TypeOK
<1>1. ASSUME NEW c \in Conns, on_open(c) PROVE TypeOK'
  BY <1>1 DEF on_open, Push, Actions
<1>2. ASSUME NEW c \in Conns, on_message(c) PROVE TypeOK'
  BY <1>2, MessagesAssumption DEF on_message, Push, Actions
<1>3. ASSUME NEW c \in Conns, on_close(c) PROVE TypeOK'
  BY <1>3 DEF on_close, Push, Actions
<1>4. CASE Notify
  BY <1>4 DEF Notify
<1>5. CASE Stop \/ StopServer
  BY <1>5 DEF Stop, StopServer
<1>6. CASE Check
  BY <1>6 DEF Check
<1>7. CASE Pop
  <2>1. CASE actions = <<>>
    BY <1>7, <2>1 DEF Pop
  <2>2. CASE actions # <<>>
    <3>1. Head(actions) \in Actions /\ Tail(actions) \in Seq(Actions)
      BY <2>2, HeadTailProperties
    <3>2. <<Head(actions)>> \in Seq(Actions) /\ Len(<<Head(actions)>>) = 1
      BY <3>1
    <3>3. /\ inHand' = <<Head(actions)>>
          /\ actions' = Tail(actions)
          /\ pc' = "apply"
          /\ taken' \in {taken, taken + 1}
      BY <1>7, <2>2 DEF Pop
    <3>4. /\ inHand' \in Seq(Actions)
          /\ Len(inHand') = 1
          /\ actions' \in Seq(Actions)
          /\ taken' \in Nat
      BY <3>1, <3>2, <3>3
    <3>5. QED  BY <1>7, <3>3, <3>4 DEF Pop
  <2>3. QED  BY <2>1, <2>2
<1>8. CASE Apply
  <2>1. Head(inHand) \in Actions
    BY <1>8, OneInHand DEF Apply
  <2> DEFINE a == Head(inHand)
  <2>2. a.hdl \in Conns /\ nextId \in Nat /\ NoSession \in Nat /\ nextId # 0
    BY <2>1 DEF Actions, NoSession
  <2>3. nextId + 1 \in Nat /\ nextId + 1 # 0
    BY <2>2
  <2>4. ASSUME a.type = "SUBSCRIBE"
        PROVE  connections' \in [Conns -> Nat] /\ nextId' \in Nat \ {NoSession}
    <3>1. /\ connections' = [connections EXCEPT ![a.hdl] = nextId]
          /\ nextId' = nextId + 1
      BY <1>8, <2>4 DEF Apply
    <3>2. QED  BY <3>1, <2>2, <2>3 DEF NoSession
  <2>5. ASSUME a.type = "UNSUBSCRIBE"
        PROVE  connections' \in [Conns -> Nat] /\ nextId' \in Nat \ {NoSession}
    <3>1. /\ connections' = [connections EXCEPT ![a.hdl] = NoSession]
          /\ nextId' = nextId
      BY <1>8, <2>5 DEF Apply
    <3>2. QED  BY <3>1, <2>2
  <2>6. ASSUME a.type = "IN_MESSAGE"
        PROVE  connections' \in [Conns -> Nat] /\ nextId' \in Nat \ {NoSession}
    <3>1. connections' = connections /\ nextId' = nextId
      BY <1>8, <2>6 DEF Apply
    <3>2. QED  BY <3>1
  <2>7. connections' \in [Conns -> Nat] /\ nextId' \in Nat \ {NoSession}
    <3>1. a.type \in {"SUBSCRIBE", "UNSUBSCRIBE", "IN_MESSAGE"}
      BY <2>1 DEF Actions
    <3>2. QED  BY <3>1, <2>4, <2>5, <2>6
  <2>8. pc' \in {"check", "threw"} /\ inHand' = <<>>
    BY <1>8 DEF Apply
  <2>9. QED  BY <1>8, <2>7, <2>8 DEF Apply
<1>9. CASE WakeSpuriously
  BY <1>9 DEF WakeSpuriously
<1>10. CASE UNCHANGED vars
  BY <1>10 DEF vars
<1>11. QED
  BY <1>1, <1>2, <1>3, <1>4, <1>5, <1>6, <1>7, <1>8, <1>9, <1>10
  DEF Next, Asio, Consumer

-----------------------------------------------------------------------------
\* The part of QueueInv about connections and the actions pending for them.
InStep == /\ AddedOnce
          /\ DroppedAfterAdded
          /\ FreshIsUnknown
          /\ IdsAreOld
          /\ ViewCatchesUp

\* A connection that opens is added once, later.
LEMMA OpenStep ==
    ASSUME TypeOK, InStep, NEW c \in Conns, on_open(c)
    PROVE  InStep'
<1>1. /\ Pending' = Append(Pending, Action("SUBSCRIBE", c))
      /\ Action("SUBSCRIBE", c) \in Actions
  BY PushAppends DEF on_open, Kinds
<1>2. Pending \in Seq(Actions)
  BY PendingType
<1>3. /\ c \in fresh
      /\ open' = open \cup {c}
      /\ fresh' = fresh \ {c}
      /\ connections' = connections
      /\ nextId' = nextId
  BY DEF on_open, Push
<1>4. Known' = Known
  BY <1>3 DEF Known
<1>5. /\ Len(Pending) \in Nat
      /\ Len(Pending') = Len(Pending) + 1
      /\ Pending'[Len(Pending) + 1] = Action("SUBSCRIBE", c)
      /\ \A i \in 1..Len(Pending) : Pending'[i] = Pending[i]
      /\ \A i \in 1..Len(Pending') : i = Len(Pending) + 1 \/ i \in 1..Len(Pending)
  BY <1>1, <1>2, Appended
<1>6. \A i \in 1..Len(Pending) : Pending[i] # Action("SUBSCRIBE", c)
                               /\ Pending[i] # Action("UNSUBSCRIBE", c)
  BY <1>3 DEF InStep, AddedOnce, DroppedAfterAdded
<1>7. \A d \in Conns : Action("SUBSCRIBE", d) # Action("UNSUBSCRIBE", c)
  BY DEF Action
<1>8. \A d \in Conns : Action("SUBSCRIBE", d) = Action("SUBSCRIBE", c) => d = c
  BY DEF Action
<1>9. \A d \in Conns : Action("UNSUBSCRIBE", d) # Action("SUBSCRIBE", c)
  BY DEF Action
<1>10. AddedOnce'
  BY <1>3, <1>4, <1>5, <1>6, <1>8 DEF InStep, AddedOnce, FreshIsUnknown
<1>11. DroppedAfterAdded'
  BY <1>3, <1>4, <1>5, <1>6, <1>9 DEF InStep, DroppedAfterAdded
<1>12. FreshIsUnknown' /\ IdsAreOld'
  BY <1>3, <1>4 DEF InStep, FreshIsUnknown, IdsAreOld
<1>13. ViewCatchesUp'
  <2>1. \A d \in Conns : Drops(d)' <=> Drops(d)
    BY <1>5, <1>9 DEF Drops
  <2>2. \A d \in Conns : Adds(d)' <=> Adds(d) \/ d = c
    BY <1>5, <1>8 DEF Adds
  <2>3. ~Drops(c)
    BY <1>6 DEF Drops
  <2>4. QED  BY <1>3, <1>4, <2>1, <2>2, <2>3 DEF InStep, ViewCatchesUp
<1>14. QED  BY <1>10, <1>11, <1>12, <1>13 DEF InStep

\* A message changes nothing about who is known or will be.
LEMMA MessageStep ==
    ASSUME TypeOK, InStep, NEW c \in Conns, on_message(c)
    PROVE  InStep'
<1>1. /\ Pending' = Append(Pending, Action("IN_MESSAGE", c))
      /\ Action("IN_MESSAGE", c) \in Actions
  BY PushAppends DEF on_message, Kinds
<1>2. Pending \in Seq(Actions)
  BY PendingType
<1>3. UNCHANGED <<open, fresh, connections, nextId>>
  BY DEF on_message, Push
<1>4. Known' = Known
  BY <1>3 DEF Known
<1>5. /\ Len(Pending) \in Nat
      /\ Len(Pending') = Len(Pending) + 1
      /\ Pending'[Len(Pending) + 1] = Action("IN_MESSAGE", c)
      /\ \A i \in 1..Len(Pending) : Pending'[i] = Pending[i]
      /\ \A i \in 1..Len(Pending') : i = Len(Pending) + 1 \/ i \in 1..Len(Pending)
  BY <1>1, <1>2, Appended
<1>6. \A d \in Conns : /\ Action("SUBSCRIBE", d) # Action("IN_MESSAGE", c)
                       /\ Action("UNSUBSCRIBE", d) # Action("IN_MESSAGE", c)
  BY DEF Action
<1>7. AddedOnce'
  BY <1>3, <1>4, <1>5, <1>6 DEF InStep, AddedOnce
<1>8. DroppedAfterAdded'
  BY <1>3, <1>4, <1>5, <1>6 DEF InStep, DroppedAfterAdded
<1>9. FreshIsUnknown' /\ IdsAreOld'
  BY <1>3, <1>4 DEF InStep, FreshIsUnknown, IdsAreOld
<1>10. ViewCatchesUp'
  <2>1. \A d \in Conns : (Drops(d)' <=> Drops(d)) /\ (Adds(d)' <=> Adds(d))
    BY <1>5, <1>6 DEF Drops, Adds
  <2>2. QED  BY <1>3, <1>4, <2>1 DEF InStep, ViewCatchesUp
<1>11. QED  BY <1>7, <1>8, <1>9, <1>10 DEF InStep

\* What is closed was open: it is known or about to be, and is dropped once.
LEMMA CloseStep ==
    ASSUME TypeOK, InStep, NEW c \in Conns, on_close(c)
    PROVE  InStep'
<1>1. /\ Pending' = Append(Pending, Action("UNSUBSCRIBE", c))
      /\ Action("UNSUBSCRIBE", c) \in Actions
  BY PushAppends DEF on_close, Kinds
<1>2. Pending \in Seq(Actions)
  BY PendingType
<1>3. /\ c \in open
      /\ open' = open \ {c}
      /\ UNCHANGED <<fresh, connections, nextId>>
  BY DEF on_close, Push
<1>4. Known' = Known
  BY <1>3 DEF Known
<1>5. /\ Len(Pending) \in Nat
      /\ Len(Pending') = Len(Pending) + 1
      /\ Pending'[Len(Pending) + 1] = Action("UNSUBSCRIBE", c)
      /\ \A i \in 1..Len(Pending) : Pending'[i] = Pending[i]
      /\ \A i \in 1..Len(Pending') : i = Len(Pending) + 1 \/ i \in 1..Len(Pending)
  BY <1>1, <1>2, Appended
<1>6. (c \in Known \/ Adds(c)) /\ ~Drops(c) /\ c \notin fresh
  BY <1>3 DEF InStep, ViewCatchesUp, FreshIsUnknown
<1>7. \A d \in Conns : /\ Action("SUBSCRIBE", d) # Action("UNSUBSCRIBE", c)
                       /\ Action("UNSUBSCRIBE", d) = Action("UNSUBSCRIBE", c)
                             => d = c
  BY DEF Action
<1>8. AddedOnce'
  BY <1>3, <1>4, <1>5, <1>7 DEF InStep, AddedOnce
<1>9. DroppedAfterAdded'
  <2> SUFFICES ASSUME NEW d \in Conns, NEW i \in 1..Len(Pending'),
                      Pending'[i] = Action("UNSUBSCRIBE", d)
               PROVE  /\ d \notin fresh'
                      /\ \A j \in 1..Len(Pending') :
                            Pending'[j] = Pending'[i] => j = i
                      /\ \/ d \in Known'
                         \/ \E j \in 1..i - 1 :
                               Pending'[j] = Action("SUBSCRIBE", d)
    BY DEF DroppedAfterAdded
  <2>1. CASE i = Len(Pending) + 1
    <3>1. d = c
      BY <1>5, <1>7, <2>1
    <3>2. \A j \in 1..Len(Pending) : Pending[j] # Action("UNSUBSCRIBE", c)
      BY <1>6 DEF Drops
    <3>3. QED  BY <1>3, <1>4, <1>5, <1>6, <2>1, <3>1, <3>2 DEF Adds
  <2>2. CASE i \in 1..Len(Pending)
    <3>1. Pending[i] = Action("UNSUBSCRIBE", d)
      BY <1>5, <2>2
    <3>2. d # c
      BY <1>6, <2>2, <3>1 DEF Drops
    <3>3. QED
      BY <1>3, <1>4, <1>5, <1>7, <2>2, <3>1, <3>2 DEF InStep, DroppedAfterAdded
  <2>3. QED  BY <1>5, <2>1, <2>2
<1>10. FreshIsUnknown' /\ IdsAreOld'
  BY <1>3, <1>4 DEF InStep, FreshIsUnknown, IdsAreOld
<1>11. ViewCatchesUp'
  <2>1. \A d \in Conns : (Drops(d)' <=> Drops(d) \/ d = c) /\ (Adds(d)' <=> Adds(d))
    BY <1>5, <1>7 DEF Drops, Adds
  <2>2. QED  BY <1>3, <1>4, <2>1 DEF InStep, ViewCatchesUp
<1>12. QED  BY <1>8, <1>9, <1>10, <1>11 DEF InStep

\* process_messages applies the first action pending; for an UNSUBSCRIBE the
\* connection is known, since no SUBSCRIBE can come before it any more.
LEMMA ApplyStep ==
    ASSUME TypeOK, InStep, Apply
    PROVE  InStep' /\ pc' # "threw"
<1> DEFINE a == Head(inHand)
<1>1. Pending \in Seq(Actions) /\ Pending # <<>>
  BY PendingType, ApplyTakesFirst
<1>2. Pending[1] = a /\ Pending' = Tail(Pending)
  BY ApplyTakesFirst
<1>3. /\ Len(Pending) \in Nat \ {0}
      /\ Len(Pending') = Len(Pending) - 1
      /\ \A i \in 1..Len(Pending) - 1 : Pending'[i] = Pending[i + 1]
  BY <1>1, <1>2, Removed
<1>4. a \in Actions
  BY OneInHand DEF Apply
<1>5. \A i \in 1..Len(Pending') : i + 1 \in 2..Len(Pending)
                                  /\ Pending'[i] = Pending[i + 1]
  BY <1>3
<1>6. open' = open /\ fresh' = fresh
  BY DEF Apply
<1>7. connections \in [Conns -> Nat] /\ nextId \in Nat \ {0}
  BY DEF TypeOK, NoSession
<1>8. \A d \in Conns : Adds(d)' => Adds(d)
  BY <1>3 DEF Adds
<1>9. \A d \in Conns : Drops(d)' => Drops(d)
  BY <1>3 DEF Drops
<1>10. \A d \in Conns : Adds(d) => Adds(d)' \/ a = Action("SUBSCRIBE", d)
  <2> SUFFICES ASSUME NEW d \in Conns, NEW i \in 1..Len(Pending),
                      Pending[i] = Action("SUBSCRIBE", d),
                      a # Action("SUBSCRIBE", d)
               PROVE  Adds(d)'
    BY DEF Adds
  <2>1. i - 1 \in 1..Len(Pending') /\ Pending'[i - 1] = Pending[i]
    BY <1>2, <1>3
  <2>2. QED  BY <2>1 DEF Adds
<1>11. \A d \in Conns : Drops(d) => Drops(d)' \/ a = Action("UNSUBSCRIBE", d)
  <2> SUFFICES ASSUME NEW d \in Conns, NEW i \in 1..Len(Pending),
                      Pending[i] = Action("UNSUBSCRIBE", d),
                      a # Action("UNSUBSCRIBE", d)
               PROVE  Drops(d)'
    BY DEF Drops
  <2>1. i - 1 \in 1..Len(Pending') /\ Pending'[i - 1] = Pending[i]
    BY <1>2, <1>3
  <2>2. QED  BY <2>1 DEF Drops
<1>12. CASE a.type = "SUBSCRIBE"
  <2>1. PICK h \in Conns : a = Action("SUBSCRIBE", h)
    BY <1>4, <1>12 DEF Actions, Action
  <2>2. /\ connections' = [connections EXCEPT ![h] = nextId]
        /\ nextId' = nextId + 1
        /\ pc' = "check"
    BY <1>12, <2>1 DEF Apply, Action
  <2>3. Known' = Known \cup {h}
    BY <1>7, <2>1, <2>2 DEF Known, NoSession
  <2>4. \A i \in 2..Len(Pending) : Pending[i] # a
    BY <1>2, <1>3, <2>1 DEF InStep, AddedOnce
  <2>5. h \notin fresh /\ h \notin Known
    BY <1>2, <1>3, <2>1 DEF InStep, AddedOnce
  <2>6. AddedOnce'
    <3> SUFFICES ASSUME NEW d \in Conns, NEW i \in 1..Len(Pending'),
                        Pending'[i] = Action("SUBSCRIBE", d)
                 PROVE  /\ d \notin fresh'
                        /\ d \notin Known'
                        /\ \A j \in 1..Len(Pending') :
                              Pending'[j] = Pending'[i] => j = i
      BY DEF AddedOnce
    <3>1. i + 1 \in 1..Len(Pending) /\ Pending[i + 1] = Action("SUBSCRIBE", d)
      BY <1>3
    <3>2. d # h
      BY <1>5, <2>1, <2>4
    <3>3. d \notin fresh /\ d \notin Known
      BY <3>1 DEF InStep, AddedOnce
    <3>4. \A j \in 1..Len(Pending') : Pending'[j] = Pending'[i] => j = i
      BY <1>3, <3>1 DEF InStep, AddedOnce
    <3>5. QED  BY <1>6, <2>3, <3>2, <3>3, <3>4
  <2>7. DroppedAfterAdded'
    <3> SUFFICES ASSUME NEW d \in Conns, NEW i \in 1..Len(Pending'),
                        Pending'[i] = Action("UNSUBSCRIBE", d)
                 PROVE  /\ d \notin fresh'
                        /\ \A j \in 1..Len(Pending') :
                              Pending'[j] = Pending'[i] => j = i
                        /\ \/ d \in Known'
                           \/ \E j \in 1..i - 1 :
                                 Pending'[j] = Action("SUBSCRIBE", d)
      BY DEF DroppedAfterAdded
    <3>1. i + 1 \in 1..Len(Pending) /\ Pending[i + 1] = Action("UNSUBSCRIBE", d)
      BY <1>3
    <3>2. d \notin fresh
      BY <3>1 DEF InStep, DroppedAfterAdded
    <3>3. \A j \in 1..Len(Pending') : Pending'[j] = Pending'[i] => j = i
      BY <1>3, <3>1 DEF InStep, DroppedAfterAdded
    <3>4. CASE d \in Known
      BY <1>6, <2>3, <3>2, <3>3, <3>4
    <3>5. ASSUME NEW j \in 1..i, Pending[j] = Action("SUBSCRIBE", d)
          PROVE  d \in Known' \/ \E k \in 1..i - 1 :
                                   Pending'[k] = Action("SUBSCRIBE", d)
      <4>1. CASE j = 1
        BY <1>2, <2>1, <2>3, <3>5, <4>1 DEF Action
      <4>2. CASE j # 1
        <5>1. j - 1 \in 1..i - 1 /\ Pending'[j - 1] = Pending[j]
          BY <1>3, <4>2
        <5>2. QED  BY <3>5, <5>1
      <4>3. QED  BY <4>1, <4>2
    <3>6. d \in Known \/ \E j \in 1..i : Pending[j] = Action("SUBSCRIBE", d)
      BY <3>1 DEF InStep, DroppedAfterAdded
    <3>7. QED  BY <1>6, <3>2, <3>3, <3>4, <3>5, <3>6
  <2>8. FreshIsUnknown' /\ IdsAreOld'
    BY <1>6, <1>7, <2>1, <2>2, <2>3, <2>5 DEF InStep, FreshIsUnknown, IdsAreOld, Known
  <2>9. ViewCatchesUp'
    <3>1. ~Adds(h)'
      BY <1>5, <2>1, <2>4 DEF Adds
    <3>2. \A d \in Conns : Action("SUBSCRIBE", d) = a => d = h
      BY <2>1 DEF Action
    <3>3. \A d \in Conns : Action("UNSUBSCRIBE", d) # a
      BY <2>1 DEF Action
    <3>4. \A d \in Conns : Drops(d)' <=> Drops(d)
      BY <1>9, <1>11, <3>3
    <3>5. \A d \in Conns \ {h} : Adds(d)' <=> Adds(d)
      BY <1>8, <1>10, <3>2
    <3>6. Adds(h)
      BY <1>2, <1>3, <2>1 DEF Adds
    <3>7. open' = {d \in Conns : (d \in Known \/ Adds(d)) /\ ~Drops(d)}'
      BY <1>6, <2>1, <2>3, <3>1, <3>4, <3>5, <3>6 DEF InStep, ViewCatchesUp
    <3>8. \A c, d \in Known' : connections'[c] = connections'[d] => c = d
      BY <1>7, <2>1, <2>2, <2>3, <2>5
      DEF InStep, ViewCatchesUp, IdsAreOld, Known
    <3>9. QED  BY <3>7, <3>8 DEF ViewCatchesUp
  <2>10. QED  BY <2>2, <2>6, <2>7, <2>8, <2>9 DEF InStep
<1>13. CASE a.type = "UNSUBSCRIBE"
  <2>1. PICK h \in Conns : a = Action("UNSUBSCRIBE", h)
    BY <1>4, <1>13 DEF Actions, Action
  <2>2. h \in Known /\ \A i \in 2..Len(Pending) : Pending[i] # a
    BY <1>2, <1>3, <2>1 DEF InStep, DroppedAfterAdded
  <2>3. /\ connections' = [connections EXCEPT ![h] = NoSession]
        /\ nextId' = nextId
        /\ pc' = "check"
    BY <1>13, <2>1, <2>2 DEF Apply, Action
  <2>4. Known' = Known \ {h}
    BY <1>7, <2>1, <2>3 DEF Known
  <2>5. AddedOnce'
    BY <1>3, <1>6, <2>4 DEF InStep, AddedOnce
  <2>6. DroppedAfterAdded'
    <3> SUFFICES ASSUME NEW d \in Conns, NEW i \in 1..Len(Pending'),
                        Pending'[i] = Action("UNSUBSCRIBE", d)
                 PROVE  /\ d \notin fresh'
                        /\ \A j \in 1..Len(Pending') :
                              Pending'[j] = Pending'[i] => j = i
                        /\ \/ d \in Known'
                           \/ \E j \in 1..i - 1 :
                                 Pending'[j] = Action("SUBSCRIBE", d)
      BY DEF DroppedAfterAdded
    <3>1. i + 1 \in 1..Len(Pending) /\ Pending[i + 1] = Action("UNSUBSCRIBE", d)
      BY <1>3
    <3>2. d \notin fresh
      BY <3>1 DEF InStep, DroppedAfterAdded
    <3>3. \A j \in 1..Len(Pending') : Pending'[j] = Pending'[i] => j = i
      BY <1>3, <3>1 DEF InStep, DroppedAfterAdded
    <3>4. d # h
      BY <1>3, <2>1, <2>2, <3>1
    <3>5. ASSUME NEW j \in 1..i, Pending[j] = Action("SUBSCRIBE", d)
          PROVE  \E k \in 1..i - 1 : Pending'[k] = Action("SUBSCRIBE", d)
      <4>1. j # 1
        BY <1>2, <2>1, <3>5 DEF Action
      <4>2. j - 1 \in 1..i - 1 /\ Pending'[j - 1] = Pending[j]
        BY <1>3, <4>1
      <4>3. QED  BY <3>5, <4>2
    <3>6. d \in Known \/ \E j \in 1..i : Pending[j] = Action("SUBSCRIBE", d)
      BY <3>1 DEF InStep, DroppedAfterAdded
    <3>7. QED  BY <1>6, <2>4, <3>2, <3>3, <3>4, <3>5, <3>6
  <2>7. FreshIsUnknown' /\ IdsAreOld'
    BY <1>6, <1>7, <2>1, <2>3, <2>4 DEF InStep, FreshIsUnknown, IdsAreOld, Known
  <2>8. ViewCatchesUp'
    <3>1. ~Drops(h)' /\ Drops(h)
      BY <1>2, <1>3, <1>5, <2>1, <2>2 DEF Drops
    <3>2. ~Adds(h)
      BY <2>1, <2>2 DEF InStep, AddedOnce, Adds
    <3>3. \A d \in Conns : Action("UNSUBSCRIBE", d) = a => d = h
      BY <2>1 DEF Action
    <3>4. \A d \in Conns : Action("SUBSCRIBE", d) # a
      BY <2>1 DEF Action
    <3>5. \A d \in Conns : Adds(d)' <=> Adds(d)
      BY <1>8, <1>10, <3>4
    <3>6. \A d \in Conns \ {h} : Drops(d)' <=> Drops(d)
      BY <1>9, <1>11, <3>3
    <3>7. open' = {d \in Conns : (d \in Known \/ Adds(d)) /\ ~Drops(d)}'
      BY <1>6, <2>1, <2>4, <3>1, <3>2, <3>5, <3>6 DEF InStep, ViewCatchesUp
    <3>8. \A c, d \in Known' : connections'[c] = connections'[d] => c = d
      BY <1>7, <2>1, <2>3, <2>4 DEF InStep, ViewCatchesUp, Known
    <3>9. QED  BY <3>7, <3>8 DEF ViewCatchesUp
  <2>9. QED  BY <2>3, <2>5, <2>6, <2>7, <2>8 DEF InStep
<1>14. CASE a.type = "IN_MESSAGE"
  <2>1. connections' = connections /\ nextId' = nextId /\ pc' = "check"
    BY <1>14 DEF Apply
  <2>2. Known' = Known
    BY <2>1 DEF Known
  <2>3. \A d \in Conns : /\ Action("SUBSCRIBE", d) # a
                         /\ Action("UNSUBSCRIBE", d) # a
    BY <1>14 DEF Action
  <2>4. AddedOnce'
    BY <1>3, <1>6, <2>2 DEF InStep, AddedOnce
  <2>5. DroppedAfterAdded'
    <3> SUFFICES ASSUME NEW d \in Conns, NEW i \in 1..Len(Pending'),
                        Pending'[i] = Action("UNSUBSCRIBE", d)
                 PROVE  /\ d \notin fresh'
                        /\ \A j \in 1..Len(Pending') :
                              Pending'[j] = Pending'[i] => j = i
                        /\ \/ d \in Known'
                           \/ \E j \in 1..i - 1 :
                                 Pending'[j] = Action("SUBSCRIBE", d)
      BY DEF DroppedAfterAdded
    <3>1. i + 1 \in 1..Len(Pending) /\ Pending[i + 1] = Action("UNSUBSCRIBE", d)
      BY <1>3
    <3>2. d \notin fresh
      BY <3>1 DEF InStep, DroppedAfterAdded
    <3>3. \A j \in 1..Len(Pending') : Pending'[j] = Pending'[i] => j = i
      BY <1>3, <3>1 DEF InStep, DroppedAfterAdded
    <3>4. ASSUME NEW j \in 1..i, Pending[j] = Action("SUBSCRIBE", d)
          PROVE  \E k \in 1..i - 1 : Pending'[k] = Action("SUBSCRIBE", d)
      <4>1. j # 1
        BY <1>2, <2>3, <3>4
      <4>2. j - 1 \in 1..i - 1 /\ Pending'[j - 1] = Pending[j]
        BY <1>3, <4>1
      <4>3. QED  BY <3>4, <4>2
    <3>5. d \in Known \/ \E j \in 1..i : Pending[j] = Action("SUBSCRIBE", d)
      BY <3>1 DEF InStep, DroppedAfterAdded
    <3>6. QED  BY <1>6, <2>2, <3>2, <3>3, <3>4, <3>5
  <2>6. FreshIsUnknown' /\ IdsAreOld'
    BY <1>6, <2>1, <2>2 DEF InStep, FreshIsUnknown, IdsAreOld
  <2>7. ViewCatchesUp'
    <3>1. \A d \in Conns : (Adds(d)' <=> Adds(d)) /\ (Drops(d)' <=> Drops(d))
      BY <1>8, <1>9, <1>10, <1>11, <2>3
    <3>2. QED  BY <1>6, <2>1, <2>2, <3>1 DEF InStep, ViewCatchesUp
  <2>8. QED  BY <2>1, <2>4, <2>5, <2>6, <2>7 DEF InStep
<1>15. QED  BY <1>4, <1>12, <1>13, <1>14 DEF Actions

-----------------------------------------------------------------------------
\* Whatever the step, what is pending and what is known stay in step.
LEMMA SyncStep == TypeOK /\ InStep /\ [Next]_vars => InStep'
<1> SUFFICES ASSUME TypeOK, InStep, [Next]_vars PROVE InStep'
  OBVIOUS
<1>1. ASSUME NEW c \in Conns, on_open(c) \/ on_message(c) \/ on_close(c)
      PROVE  InStep'
  BY <1>1, OpenStep, MessageStep, CloseStep
<1>2. CASE Apply
  BY <1>2, ApplyStep
<1>3. ASSUME Pending' = Pending,
             UNCHANGED <<open, fresh, connections, nextId>>
      PROVE  InStep'
  <2>1. Known' = Known
    BY <1>3 DEF Known
  <2>2. \A c \in Conns : (Adds(c)' <=> Adds(c)) /\ (Drops(c)' <=> Drops(c))
    BY <1>3 DEF Adds, Drops
  <2>3. AddedOnce' /\ DroppedAfterAdded' /\ FreshIsUnknown' /\ IdsAreOld'
    BY <1>3, <2>1
    DEF InStep, AddedOnce, DroppedAfterAdded, FreshIsUnknown, IdsAreOld
  <2>4. ViewCatchesUp'
    BY <1>3, <2>1, <2>2 DEF InStep, ViewCatchesUp
  <2>5. QED  BY <2>3, <2>4 DEF InStep
<1>4. CASE Pop
  BY <1>3, <1>4, PopKeeps DEF Pop
<1>5. CASE Notify \/ Stop \/ StopServer \/ Check \/ WakeSpuriously
           \/ UNCHANGED vars
  BY <1>3, <1>5
  DEF Notify, Stop, StopServer, Check, WakeSpuriously, vars, Pending
<1>6. QED
  BY <1>1, <1>2, <1>4, <1>5 DEF Next, Asio, Consumer

\* process_messages does not throw: only an UNSUBSCRIBE of a connection it
\* does not know would make it.
LEMMA ThrowStep ==
    TypeOK /\ InStep /\ NeverThrows /\ [Next]_vars => NeverThrows'
<1> SUFFICES ASSUME TypeOK, InStep, NeverThrows, [Next]_vars
             PROVE  NeverThrows'
  OBVIOUS
<1>1. CASE Apply
  BY <1>1, ApplyStep DEF NeverThrows
<1>2. CASE Asio
  BY <1>2
  DEF NeverThrows, Asio, on_open, on_message, on_close, Push
<1>3. CASE Notify \/ Stop \/ StopServer \/ Check \/ Pop \/ WakeSpuriously
           \/ UNCHANGED vars
  BY <1>3
  DEF NeverThrows, Notify, Stop, StopServer, Check, Pop, WakeSpuriously, vars
<1>4. QED  BY <1>1, <1>2, <1>3 DEF Next, Consumer

\* The loop looks at the flag before it takes an action, so that one it is
\* about to take is the last.
LEMMA StopStep ==
    TypeOK /\ StopIsSeen /\ AtMostOneAfterStop /\ [Next]_vars
        => StopIsSeen' /\ AtMostOneAfterStop'
<1> SUFFICES ASSUME TypeOK, StopIsSeen, AtMostOneAfterStop, [Next]_vars
             PROVE  StopIsSeen' /\ AtMostOneAfterStop'
  OBVIOUS
<1> USE DEF StopIsSeen, AtMostOneAfterStop
<1>1. CASE Asio
  BY <1>1 DEF Asio, on_open, on_message, on_close, Push
<1>2. CASE Notify \/ Stop \/ StopServer \/ Check \/ WakeSpuriously
           \/ UNCHANGED vars
  BY <1>2 DEF Notify, Stop, StopServer, Check, WakeSpuriously, vars
<1>3. CASE Pop
  BY <1>3 DEF Pop
<1>4. CASE Apply
  BY <1>4 DEF Apply
<1>5. QED  BY <1>1, <1>2, <1>3, <1>4 DEF Next, Consumer

\* At the beginning nothing is pending.
LEMMA QueueInit == Init => QueueInv
<1> SUFFICES ASSUME Init PROVE QueueInv
  OBVIOUS
<1>1. TypeOK
  BY TypeInit
<1>2. Pending = <<>> /\ Len(Pending) = 0
  BY ConcatEmptySeq, EmptySeq DEF Init, Pending
<1>3. Known = {}
  BY DEF Init, Known
<1>4. AddedOnce /\ DroppedAfterAdded /\ FreshIsUnknown /\ IdsAreOld
  BY <1>2, <1>3
  DEF Init, AddedOnce, DroppedAfterAdded, FreshIsUnknown, IdsAreOld
<1>5. ViewCatchesUp
  BY <1>2, <1>3 DEF Init, ViewCatchesUp, Adds
<1>6. StopIsSeen /\ AtMostOneAfterStop /\ NeverThrows
  BY DEF Init, StopIsSeen, AtMostOneAfterStop, NeverThrows
<1>7. QED  BY <1>1, <1>4, <1>5, <1>6 DEF QueueInv

-----------------------------------------------------------------------------
\* The conjunction of what is promised with what makes it inductive.
THEOREM QueueInvariant == Spec => []QueueInv
<1>1. QueueInv /\ [Next]_vars => QueueInv'
  BY TypeStep, SyncStep, ThrowStep, StopStep DEF QueueInv, InStep
<1>2. QED  BY QueueInit, <1>1, PTL DEF Spec

\* Every variable keeps its type; in particular an action is only applied when
\* one was taken from the queue.
THEOREM TypeCorrect == Spec => []TypeOK
<1>1. QueueInv => TypeOK
  BY DEF QueueInv
<1>2. QED  BY QueueInvariant, <1>1, PTL

\* get_data_from_hdl finds every connection it is asked for.
THEOREM NeverThrowsHolds == Spec => []NeverThrows
<1>1. QueueInv => NeverThrows
  BY DEF QueueInv
<1>2. QED  BY QueueInvariant, <1>1, PTL

\* The actions pending make m_connections the set of open connections, and no
\* two connections share a session id.
THEOREM ViewHolds == Spec => []ViewCatchesUp
<1>1. QueueInv => ViewCatchesUp
  BY DEF QueueInv
<1>2. QED  BY QueueInvariant, <1>1, PTL

\* After stop() at most one more action is taken.
THEOREM OneAfterStop == Spec => []AtMostOneAfterStop
<1>1. QueueInv => AtMostOneAfterStop
  BY DEF QueueInv
<1>2. QED  BY QueueInvariant, <1>1, PTL
=============================================================================
