----------------------------- MODULE ActionQueue -----------------------------
(***************************************************************************)
(* The web socket server of BalanceEventPluginMT5: the asio thread queues  *)
(* what happens to connections (on_open, on_message, on_close), a thread   *)
(* in process_messages keeps m_connections by it, and stop() may be called *)
(* by a third.  The plugin itself starts no thread in process_messages and *)
(* never calls stop(): both callers are external, as the class is written  *)
(* to be used.  External too: websocketpp opens a connection once, closes  *)
(* it once, reports messages only in between, and one event at a time.     *)
(***************************************************************************)
EXTENDS Naturals, Sequences

CONSTANTS
    Conns,        \* connections; a connection_hdl is never used again
    MaxMessages   \* bound: messages the connections send

ASSUME MessagesAssumption == MaxMessages \in Nat

VARIABLES
    open,         \* connections open at the socket
    fresh,        \* connections that have not been opened yet
    messages,     \* messages sent so far
    notifying,    \* the asio thread has pushed and not yet notified
    actions,      \* m_actions
    connections,  \* m_connections: session id, or NoSession
    nextId,       \* m_next_sessionid, a long: 2^31 connections from its end
    keep,         \* _keepProcessingMessages
    serving,      \* the asio loop runs
    pc,           \* where process_messages is
    inHand,       \* the action it has popped, as a sequence of at most one
    taken         \* ghost: actions popped since stop()

vars == <<open, fresh, messages, notifying, actions, connections, nextId, keep,
          serving, pc, inHand, taken>>

NoSession == 0
Actions == [type : {"SUBSCRIBE", "UNSUBSCRIBE", "IN_MESSAGE"}, hdl : Conns]
Known == {c \in Conns : connections[c] # NoSession}

TypeOK ==
    /\ open \subseteq Conns
    /\ fresh \subseteq Conns
    /\ messages \in 0..MaxMessages
    /\ notifying \in BOOLEAN
    /\ actions \in Seq(Actions)
    /\ connections \in [Conns -> Nat]
    /\ nextId \in Nat \ {NoSession}
    /\ keep \in BOOLEAN
    /\ serving \in BOOLEAN
    /\ pc \in {"check", "lock", "waiting", "apply", "returned", "threw"}
    /\ inHand \in Seq(Actions)
    /\ Len(inHand) = IF pc = "apply" THEN 1 ELSE 0
    /\ taken \in Nat

Init ==
    /\ open = {}
    /\ fresh = Conns
    /\ messages = 0
    /\ notifying = FALSE
    /\ actions = <<>>
    /\ connections = [c \in Conns |-> NoSession]
    /\ nextId = 1
    /\ keep = TRUE
    /\ serving = TRUE
    /\ pc = "check"
    /\ inHand = <<>>
    /\ taken = 0

-----------------------------------------------------------------------------
(* The asio thread. *)

\* Slip: nobody is notified.
PushSilently(type, c) ==
    /\ serving
    /\ ~notifying
    /\ actions' = Append(actions, [type |-> type, hdl |-> c])
    /\ UNCHANGED <<notifying, connections, nextId, keep, serving, pc, inHand,
                   taken>>

\* m_actions.push under m_action_lock; notify_one comes after the unlock.
Push(type, c) ==
    /\ serving
    /\ ~notifying
    /\ actions' = Append(actions, [type |-> type, hdl |-> c])
    /\ notifying' = TRUE
    /\ UNCHANGED <<connections, nextId, keep, serving, pc, inHand, taken>>

on_open(c) ==
    /\ c \in fresh
    /\ Push("SUBSCRIBE", c)
    /\ open' = open \cup {c}
    /\ fresh' = fresh \ {c}
    /\ UNCHANGED messages

on_message(c) ==
    /\ c \in open
    /\ messages < MaxMessages
    /\ Push("IN_MESSAGE", c)
    /\ messages' = messages + 1
    /\ UNCHANGED <<open, fresh>>

on_close(c) ==
    /\ c \in open
    /\ Push("UNSUBSCRIBE", c)
    /\ open' = open \ {c}
    /\ UNCHANGED <<fresh, messages>>

Notify ==
    /\ notifying
    /\ notifying' = FALSE
    /\ pc' = IF pc = "waiting" THEN "lock" ELSE pc
    /\ UNCHANGED <<open, fresh, messages, actions, connections, nextId, keep,
                   serving, inHand, taken>>

\* stop(): the flag, then the loop; process_messages is not notified.
Stop ==
    /\ keep
    /\ keep' = FALSE
    /\ UNCHANGED <<open, fresh, messages, notifying, actions, connections,
                   nextId, serving, pc, inHand, taken>>

StopServer ==
    /\ ~keep
    /\ serving
    /\ serving' = FALSE
    /\ UNCHANGED <<open, fresh, messages, notifying, actions, connections,
                   nextId, keep, pc, inHand, taken>>

-----------------------------------------------------------------------------
(* process_messages. *)

\* Slip: what is queued is finished first.
CheckQueueFirst ==
    /\ pc = "check"
    /\ pc' = IF keep \/ actions # <<>> THEN "lock" ELSE "returned"
    /\ UNCHANGED <<open, fresh, messages, notifying, actions, connections,
                   nextId, keep, serving, inHand, taken>>

Check ==
    /\ pc = "check"
    /\ pc' = IF keep THEN "lock" ELSE "returned"
    /\ UNCHANGED <<open, fresh, messages, notifying, actions, connections,
                   nextId, keep, serving, inHand, taken>>

\* Slip: the newest action is taken.
PopNewest ==
    /\ pc = "lock"
    /\ IF actions = <<>>
       THEN pc' = "waiting" /\ UNCHANGED <<actions, inHand, taken>>
       ELSE /\ pc' = "apply"
            /\ inHand' = <<actions[Len(actions)]>>
            /\ actions' = SubSeq(actions, 1, Len(actions) - 1)
            /\ taken' = IF keep THEN taken ELSE taken + 1
    /\ UNCHANGED <<open, fresh, messages, notifying, connections, nextId, keep,
                   serving>>

\* Under m_action_lock: wait, which releases it, or take the oldest action.
Pop ==
    /\ pc = "lock"
    /\ IF actions = <<>>
       THEN pc' = "waiting" /\ UNCHANGED <<actions, inHand, taken>>
       ELSE /\ pc' = "apply"
            /\ inHand' = <<Head(actions)>>
            /\ actions' = Tail(actions)
            /\ taken' = IF keep THEN taken ELSE taken + 1
    /\ UNCHANGED <<open, fresh, messages, notifying, connections, nextId, keep,
                   serving>>

\* Slip: the queue is not looked at again after a wait.
WakeWithoutLooking ==
    /\ pc = "waiting"
    /\ pc' = "apply"
    /\ UNCHANGED <<open, fresh, messages, notifying, actions, connections,
                   nextId, keep, serving, inHand, taken>>

\* wait() may return although nobody notified.
WakeSpuriously ==
    /\ pc = "waiting"
    /\ pc' = "lock"
    /\ UNCHANGED <<open, fresh, messages, notifying, actions, connections,
                   nextId, keep, serving, inHand, taken>>

\* Slip: the next id is what the last one was.
ApplySameId ==
    /\ pc = "apply"
    /\ LET a == Head(inHand)
       IN /\ connections' = [connections EXCEPT ![a.hdl] =
                                CASE a.type = "SUBSCRIBE" -> nextId
                                  [] a.type = "UNSUBSCRIBE" -> NoSession
                                  [] OTHER -> @]
          /\ pc' = "check"
    /\ inHand' = <<>>
    /\ UNCHANGED <<open, fresh, messages, notifying, actions, nextId, keep,
                   serving, taken>>

\* The branches of process_messages, under m_connection_lock.
Apply ==
    /\ pc = "apply"
    /\ LET a == Head(inHand) IN
       \/ /\ a.type = "SUBSCRIBE"
          /\ connections' = [connections EXCEPT ![a.hdl] = nextId]
          /\ nextId' = nextId + 1
          /\ pc' = "check"
       \/ /\ a.type = "UNSUBSCRIBE"
          /\ connections' = [connections EXCEPT ![a.hdl] = NoSession]
          /\ pc' = IF a.hdl \in Known THEN "check" ELSE "threw"
          /\ UNCHANGED nextId
       \/ /\ a.type = "IN_MESSAGE"
          /\ pc' = "check"
          /\ UNCHANGED <<connections, nextId>>
    /\ inHand' = <<>>
    /\ UNCHANGED <<open, fresh, messages, notifying, actions, keep, serving,
                   taken>>

-----------------------------------------------------------------------------
Asio == \E c \in Conns : on_open(c) \/ on_message(c) \/ on_close(c)
Consumer == Check \/ Pop \/ Apply

Next == Asio \/ Notify \/ Stop \/ StopServer \/ Consumer \/ WakeSpuriously

Spec == Init /\ [][Next]_vars

\* Both threads run; no event need happen, and no spurious wakeup.
FairSpec == Spec /\ WF_vars(Notify) /\ WF_vars(Consumer)

-----------------------------------------------------------------------------
\* get_data_from_hdl finds every connection it is asked for: "this really
\* shouldn't happen and probably means something else is wrong".
NeverThrows == pc # "threw"

\* What is still to be applied to m_connections, oldest first.
Pending == inHand \o actions

Action(t, c) == [type |-> t, hdl |-> c]
Adds(c) == \E i \in 1..Len(Pending) : Pending[i] = Action("SUBSCRIBE", c)
Drops(c) == \E i \in 1..Len(Pending) : Pending[i] = Action("UNSUBSCRIBE", c)

(***************************************************************************)
(* m_connections lags behind the sockets by exactly the actions pending:   *)
(* applied in order they make it the set of open connections.  No two of   *)
(* the connections in it share a session id.                               *)
(***************************************************************************)
ViewCatchesUp ==
    /\ open = {c \in Conns : (c \in Known \/ Adds(c)) /\ ~Drops(c)}
    /\ \A c, d \in Known : connections[c] = connections[d] => c = d

\* After stop() at most one more action is taken: the loop looks at the flag
\* before it waits, and not after.
AtMostOneAfterStop == taken <= 1

\* No wakeup is lost: what is queued while nobody stops the server is taken,
\* although the notification comes after the push and may find nobody waiting.
QueueDrains == [](actions # <<>> => <>(actions = <<>> \/ ~keep))

-----------------------------------------------------------------------------
(***************************************************************************)
(* What makes NeverThrows inductive: a connection is added once, while     *)
(* nobody knows it, and dropped once, after it was added.                  *)
(***************************************************************************)
AddedOnce ==
    \A c \in Conns : \A i \in 1..Len(Pending) :
        Pending[i] = Action("SUBSCRIBE", c) =>
            /\ c \notin fresh
            /\ c \notin Known
            /\ \A j \in 1..Len(Pending) : Pending[j] = Pending[i] => j = i

DroppedAfterAdded ==
    \A c \in Conns : \A i \in 1..Len(Pending) :
        Pending[i] = Action("UNSUBSCRIBE", c) =>
            /\ c \notin fresh
            /\ \A j \in 1..Len(Pending) : Pending[j] = Pending[i] => j = i
            /\ \/ c \in Known
               \/ \E j \in 1..i - 1 : Pending[j] = Action("SUBSCRIBE", c)

FreshIsUnknown == fresh \cap (open \cup Known) = {}

IdsAreOld == \A c \in Known : connections[c] < nextId

StopIsSeen ==
    /\ keep => taken = 0
    /\ pc \in {"lock", "waiting"} => taken = 0

QueueInv ==
    /\ TypeOK
    /\ AddedOnce
    /\ DroppedAfterAdded
    /\ FreshIsUnknown
    /\ IdsAreOld
    /\ ViewCatchesUp
    /\ StopIsSeen
    /\ AtMostOneAfterStop
    /\ NeverThrows
=============================================================================
