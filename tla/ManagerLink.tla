----------------------------- MODULE ManagerLink -----------------------------
(***************************************************************************)
(* Application::managerConnect of PrimeXM_Price, which connects to the MT5 *)
(* server, tries a reduced connection when that fails, and calls itself    *)
(* with a new manager object while the server does not answer.  External:  *)
(* the MT5 manager API, any call of which may fail.                        *)
(***************************************************************************)
EXTENDS Naturals

CONSTANT MaxDepth  \* calls of managerConnect the stack has room for

ASSUME DepthAssumption == MaxDepth \in Nat \ {0}

VARIABLES
    linkPc,    \* where the innermost managerConnect is
    depth,     \* calls of managerConnect on the stack
    pump,      \* what the current manager pumps; "bare": pump mode 0
    answered   \* the current manager has answered NetworkServer

linkVars == <<linkPc, depth, pump, answered>>

LinkTypeOK ==
    /\ linkPc \in {"idle", "connect", "reconnect", "ask", "returned", "overflow",
                  "null"}
    /\ depth \in 0..MaxDepth
    /\ pump \in {"none", "full", "bare"}
    /\ answered \in BOOLEAN

LinkInit ==
    /\ linkPc = "idle"
    /\ depth = 0
    /\ pump = "none"
    /\ answered = FALSE

\* A call: a manager object of its own, its sinks subscribed.  When CreateManager
\* fails, which is only logged, the pointer is NULL or that of the call before.
managerConnect ==
    /\ \/ linkPc' = "connect" /\ pump' = "none"
       \/ linkPc' = "null" /\ pump' = "none"
       \/ depth > 0 /\ linkPc' = "connect" /\ UNCHANGED pump
    /\ depth' = depth + 1
    /\ answered' = FALSE

Connects ==
    /\ linkPc = "connect"
    /\ linkPc' = "ask"
    /\ pump' = "full"
    /\ UNCHANGED <<depth, answered>>

ConnectFails ==
    /\ linkPc = "connect"
    /\ linkPc' = "reconnect"
    /\ UNCHANGED <<depth, pump, answered>>

\* When the name of the server is known and a rescan finds another access
\* point: connect to it by name, without pumping.  The result is not looked at.
serverReconnect(valid) ==
    /\ linkPc = "reconnect"
    /\ linkPc' = "ask"
    /\ pump' \in IF valid THEN {"none", "bare"} ELSE {"none"}
    /\ UNCHANGED <<depth, answered>>

\* Slip: the answer is not looked at either.
AskOnce ==
    /\ linkPc = "ask"
    /\ linkPc' = "returned"
    /\ answered' \in BOOLEAN
    /\ UNCHANGED <<depth, pump>>

\* NetworkServer: with an answer all calls return, each but the innermost after
\* managerStart; without one, the same again.
Ask ==
    /\ linkPc = "ask"
    /\ \/ /\ linkPc' = "returned"
          /\ answered' = TRUE
          /\ UNCHANGED <<depth, pump>>
       \/ /\ depth < MaxDepth
          /\ managerConnect
       \/ /\ depth = MaxDepth
          /\ linkPc' = "overflow"
          /\ UNCHANGED <<depth, pump, answered>>

\* valid: server, login and password are those of a manager account.
LinkStep(valid) ==
    \/ valid /\ Connects
    \/ ConnectFails
    \/ serverReconnect(valid)
    \/ Ask
=============================================================================
