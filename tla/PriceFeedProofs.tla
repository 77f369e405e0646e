--------------------------- MODULE PriceFeedProofs ---------------------------
(***************************************************************************)
(* FeedInv is an inductive invariant of PriceFeed, for every set of        *)
(* symbols and request ids; the safety properties are conjuncts of it.     *)
(***************************************************************************)
EXTENDS PriceFeed, FiniteSetTheorems, TLAPS

\* The requests TLC enumerates are requests: finite sequences of symbols.
LEMMA RequestsTyped == Requests \subseteq RequestType
<1>1. \A n \in 0..MaxGroups : [1..n -> Symbols] \subseteq Seq(Symbols)
  BY ConstantsAssumption
<1>2. QED  BY <1>1 DEF Requests, RequestType

\* The entries of the map can be counted; an erase of one leaves one less, and
\* none are left exactly when their number is 0.
LEMMA CountingEntries ==
    ASSUME TypeOK
    PROVE  /\ Cardinality(Streamed) \in Nat
           /\ Cardinality(Streamed) = 0 => sym_MDReqID = EmptyMap
           /\ \A s \in Streamed :
                  EraseId(s) => Cardinality(Streamed') = Cardinality(Streamed) - 1
<1>1. IsFiniteSet(Streamed)
  <2>1. Streamed \subseteq Symbols
    BY DEF Streamed
  <2>2. QED  BY <2>1, FS_Subset, ConstantsAssumption
<1>2. Cardinality(Streamed) \in Nat
  BY <1>1, FS_CardinalityType
<1>3. ASSUME Cardinality(Streamed) = 0 PROVE sym_MDReqID = EmptyMap
  <2>1. Streamed = {}
    BY <1>1, <1>3, FS_EmptySet
  <2>2. \A s \in Symbols : sym_MDReqID[s] = NoId
    BY <2>1 DEF Streamed
  <2>3. QED  BY <2>2 DEF TypeOK, EmptyMap
<1>4. ASSUME NEW s \in Streamed, EraseId(s)
      PROVE  Cardinality(Streamed') = Cardinality(Streamed) - 1
  <2>1. Streamed' = Streamed \ {s}
    BY <1>4 DEF EraseId, Streamed, TypeOK
  <2>2. Cardinality(Streamed \ {s}) = Cardinality(Streamed) - 1
    BY <1>1, FS_RemoveElement
  <2>3. QED  BY <2>1, <2>2
<1>5. QED  BY <1>2, <1>3, <1>4

\* The invariant holds when the service starts.
LEMMA InitInv == Init => FeedInv
<1> SUFFICES ASSUME Init PROVE FeedInv
  OBVIOUS
<1>1. TypeOK
  <2>1. /\ sym_MDReqID \in [Symbols -> ReqIds \cup {NoId}]
        /\ late \in [Symbols -> 0..2]
    BY DEF Init, EmptyMap
  <2>2. offQuotes \in 0..2 /\ pc \notin {"symbols", "reject"}
    BY DEF Init
  <2>3. QED  BY <2>1, <2>2 DEF Init, TypeOK
<1>2. /\ CallbackMatchesSession /\ CounterIsRight
      /\ OffSessionMapsEmpty /\ TickInFlightUncounted
  BY DEF Init, CallbackMatchesSession, CounterIsRight, OffSessionMapsEmpty,
         TickInFlightUncounted
<1>3. AtMostOneLateQuote
  BY DEF Init, AtMostOneLateQuote
<1>4. AcceptedPrefixTookEffect /\ IteratorValid
  BY DEF Init, AcceptedPrefixTookEffect, IteratorValid
<1>5. QED  BY <1>1, <1>2, <1>3, <1>4 DEF FeedInv

\* Every step keeps the variables within their types.
LEMMA TypeStep == TypeOK /\ IteratorValid /\ [Next]_vars => TypeOK'
<1> SUFFICES ASSUME TypeOK, IteratorValid, [Next]_vars PROVE TypeOK'
  OBVIOUS
<1> USE ConstantsAssumption DEF TypeOK
<1>1. CASE AcceptLogon \/ OnLogon
  BY <1>1 DEF AcceptLogon, OnLogon, mapVars, tickVars, ghostVars, sessionVars
<1>2. CASE Disconnect
  <2>1. offQuotes' \in 0..2 /\ pc' \notin {"symbols", "reject"}
    BY <1>2 DEF Disconnect
  <2>2. size' \in Nat
    BY <1>2, CountingEntries DEF Disconnect
  <2>3. QED  BY <1>2, <2>1, <2>2 DEF Disconnect, tickVars
<1>3. ASSUME NEW s \in Symbols, OnLogoutErase(s) PROVE TypeOK'
  BY <1>3 DEF OnLogoutErase, EraseId, Race, sessionVars
<1>4. CASE OnLogoutDone
  BY <1>4 DEF OnLogoutDone, mapVars, tickVars, ghostVars, sessionVars
<1>5. ASSUME NEW r \in Requests, ReceiveRequest(r) PROVE TypeOK'
  <2>1. r \in RequestType /\ Len(r.symbols) \in Nat
    BY RequestsTyped DEF RequestType
  <2>2. QED
    BY <1>5, <2>1 DEF ReceiveRequest, sessionVars, mapVars, tickVars, ghostVars
<1>6. ASSUME NEW t \in {"sub", "unsub", "other"}, Handling(t)
      PROVE  /\ CurrentSymbol \in Symbols
             /\ request \in RequestType
             /\ request.id \in ReqIds
             /\ symCount + 1 \in 1..(Len(request.symbols) + 1)
             /\ symCount \in 1..(Len(request.symbols) + 1)
  BY <1>6 DEF Handling, CurrentSymbol, RequestType
<1>7. CASE Subscribe \/ SubscribeRejected
  <2>1. Handling("sub")
    BY <1>7 DEF Subscribe, SubscribeRejected
  <2>2. sym_MDReqID' \in [Symbols -> ReqIds \cup {NoId}] /\ late' \in [Symbols -> 0..2]
    BY <1>6, <1>7, <2>1 DEF Subscribe, SubscribeRejected, PutId
  <2>3. sym_sub' \subseteq Symbols /\ racing' \in BOOLEAN
    BY <1>6, <1>7, <2>1 DEF Subscribe, SubscribeRejected, PutId, Race
  <2>4. QED
    BY <1>6, <1>7, <2>1, <2>2, <2>3
    DEF Subscribe, SubscribeRejected, Handling, NextSymbol, Reject, sessionVars
<1>8. CASE Unsubscribe \/ UnsubscribeRejected
  <2>1. Handling("unsub")
    BY <1>8 DEF Unsubscribe, UnsubscribeRejected
  <2>2. sym_MDReqID' \in [Symbols -> ReqIds \cup {NoId}] /\ late' \in [Symbols -> 0..2]
    BY <1>6, <1>8, <2>1 DEF Unsubscribe, UnsubscribeRejected, EraseId
  <2>3. sym_sub' \subseteq Symbols /\ racing' \in BOOLEAN
    BY <1>6, <1>8, <2>1 DEF Unsubscribe, UnsubscribeRejected, EraseId, Race
  <2>4. QED
    BY <1>6, <1>8, <2>1, <2>2, <2>3
    DEF Unsubscribe, UnsubscribeRejected, Handling, NextSymbol, Reject, sessionVars
<1>9. CASE IgnoreSymbol \/ SendReject \/ RequestDone
  BY <1>6, <1>9 DEF IgnoreSymbol, Handling, NextSymbol, SendReject, RequestDone,
                    sessionVars, mapVars, tickVars, ghostVars
<1>10. ASSUME NEW s \in Symbols, TickFind(s) PROVE TypeOK'
  BY <1>10 DEF TickFind, sessionVars, mapVars, fixVars, ghostVars
<1>11. CASE TickRead
  BY <1>11 DEF TickRead, IteratorValid, sessionVars, mapVars, fixVars, ghostVars
<1>12. CASE TickSend
  BY <1>12 DEF TickSend, sessionVars, mapVars, fixVars
<1>13. ASSUME NEW s \in Symbols, EligibilityChange(s) PROVE TypeOK'
  BY <1>13 DEF EligibilityChange, mapVars, fixVars, tickVars, ghostVars
<1>14. CASE Restart
  <2>1. /\ sym_MDReqID' \in [Symbols -> ReqIds \cup {NoId}]
        /\ late' \in [Symbols -> 0..2]
    BY <1>14 DEF Restart, EmptyMap
  <2>2. offQuotes' \in 0..2 /\ pc' \notin {"symbols", "reject"}
    BY <1>14 DEF Restart
  <2>3. QED  BY <1>14, <2>1, <2>2 DEF Restart
<1>15. CASE UNCHANGED vars
  BY <1>15 DEF vars
<1>16. QED
  BY <1>1, <1>2, <1>3, <1>4, <1>5, <1>7, <1>8, <1>9, <1>10, <1>11, <1>12, <1>13, <1>14, <1>15
  DEF Next, FixStep, TickStep

\* What the four handling steps of onMessage have in common: the symbol is
\* one of Symbols, the request stays, and the maps change at that symbol only.
LEMMA HandlingFacts ==
    ASSUME FeedInv, NEW t \in {"sub", "unsub", "other"}, Handling(t)
    PROVE  /\ CurrentSymbol \in Symbols
           /\ request.id \in ReqIds
           /\ symCount \in Nat \ {0}
           /\ pc = "symbols"
           /\ logged /\ logged' = logged
           /\ request' = request
           /\ tickPc' = tickPc /\ tickSym' = tickSym
           /\ offQuotes' = offQuotes
           /\ size' = size
  BY DEF FeedInv, TypeOK, CallbackMatchesSession, Handling, CurrentSymbol,
         RequestType, sessionVars

\* The counter of onLogout goes down with the number of entries: nobody else
\* changes the map while the FIX thread is in the loop.
LEMMA CounterStep == FeedInv /\ [Next]_vars => CounterIsRight'
<1> SUFFICES ASSUME FeedInv, [Next]_vars, pc' = "onLogout"
             PROVE  size' = Cardinality(Streamed')
  BY DEF CounterIsRight
<1>1. TypeOK /\ CounterIsRight
  BY DEF FeedInv
<1>2. CASE Disconnect
  <2>1. Streamed' = Streamed
    BY <1>2 DEF Disconnect, Streamed
  <2>2. QED  BY <1>2, <2>1 DEF Disconnect
<1>3. ASSUME NEW s \in Symbols, OnLogoutErase(s)
      PROVE  size' = Cardinality(Streamed')
  <2>1. s \in Streamed /\ EraseId(s)
    BY <1>3 DEF OnLogoutErase, Streamed
  <2>2. Cardinality(Streamed') = Cardinality(Streamed) - 1
    BY <1>1, <2>1, CountingEntries
  <2>3. QED  BY <1>1, <1>3, <2>2 DEF OnLogoutErase, CounterIsRight
<1>4. ASSUME \/ \E s \in Symbols : TickFind(s) \/ EligibilityChange(s)
             \/ TickStep
             \/ UNCHANGED vars
      PROVE  size' = Cardinality(Streamed')
  <2>1. sym_MDReqID' = sym_MDReqID /\ size' = size /\ pc' = pc
    BY <1>4 DEF TickFind, EligibilityChange, TickStep, TickRead, TickSend,
                mapVars, fixVars, vars
  <2>2. Streamed' = Streamed
    BY <2>1 DEF Streamed
  <2>3. QED  BY <1>1, <2>1, <2>2 DEF CounterIsRight
<1>5. ASSUME \/ AcceptLogon \/ OnLogon \/ OnLogoutDone
             \/ \E r \in Requests : ReceiveRequest(r)
             \/ SendReject \/ RequestDone \/ Restart
      PROVE  FALSE
  BY <1>5 DEF AcceptLogon, OnLogon, OnLogoutDone, ReceiveRequest, SendReject,
              RequestDone, Restart
<1>6. ASSUME \/ Subscribe \/ SubscribeRejected \/ Unsubscribe
             \/ UnsubscribeRejected \/ IgnoreSymbol
      PROVE  FALSE
  BY <1>6 DEF Subscribe, SubscribeRejected, Unsubscribe, UnsubscribeRejected,
              IgnoreSymbol, Handling, NextSymbol, Reject
<1>7. QED
  BY <1>2, <1>3, <1>4, <1>5, <1>6 DEF Next, FixStep

\* Callbacks run in the session state they assume, and logging off ends with
\* both maps empty: the loop has counted down to 0, so no entry is left.
LEMMA SessionStep ==
    FeedInv /\ [Next]_vars => CallbackMatchesSession' /\ OffSessionMapsEmpty'
<1> SUFFICES ASSUME FeedInv, [Next]_vars
             PROVE  CallbackMatchesSession' /\ OffSessionMapsEmpty'
  OBVIOUS
<1> USE DEF FeedInv, CallbackMatchesSession, OffSessionMapsEmpty
<1>1. CASE AcceptLogon \/ OnLogon \/ Disconnect
  BY <1>1 DEF AcceptLogon, OnLogon, Disconnect, sessionVars
<1>2. CASE OnLogoutDone
  <2>1. sym_MDReqID = EmptyMap
    BY <1>2, CountingEntries DEF OnLogoutDone, CounterIsRight
  <2>2. QED
    BY <1>2, <2>1 DEF OnLogoutDone, mapVars, sessionVars, ghostVars, EmptyMap
<1>3. ASSUME NEW s \in Symbols, OnLogoutErase(s)
      PROVE  CallbackMatchesSession' /\ OffSessionMapsEmpty'
  BY <1>3 DEF OnLogoutErase, sessionVars
<1>4. ASSUME NEW r \in Requests, ReceiveRequest(r)
      PROVE  CallbackMatchesSession' /\ OffSessionMapsEmpty'
  BY <1>4 DEF ReceiveRequest, sessionVars
<1>5. CASE Subscribe \/ SubscribeRejected
  BY <1>5 DEF Subscribe, SubscribeRejected, Handling, NextSymbol, Reject,
              sessionVars
<1>6. CASE Unsubscribe \/ UnsubscribeRejected
  BY <1>6 DEF Unsubscribe, UnsubscribeRejected, Handling, NextSymbol, Reject,
              sessionVars
<1>7. CASE IgnoreSymbol \/ SendReject \/ RequestDone
  BY <1>7 DEF IgnoreSymbol, Handling, NextSymbol, SendReject, RequestDone,
              sessionVars
<1>8. ASSUME NEW s \in Symbols, TickFind(s)
      PROVE  CallbackMatchesSession' /\ OffSessionMapsEmpty'
  BY <1>8 DEF TickFind, sessionVars, mapVars, fixVars, ghostVars, EmptyMap
<1>9. CASE TickRead
  BY <1>9 DEF TickRead, sessionVars, mapVars, fixVars, ghostVars, EmptyMap
<1>10. CASE TickSend
  BY <1>10 DEF TickSend, sessionVars, mapVars, fixVars, EmptyMap
<1>11. ASSUME NEW s \in Symbols, EligibilityChange(s)
       PROVE  CallbackMatchesSession' /\ OffSessionMapsEmpty'
  BY <1>11 DEF EligibilityChange, mapVars, fixVars, ghostVars, EmptyMap
<1>12. CASE Restart
  BY <1>12 DEF Restart, EmptyMap
<1>13. CASE UNCHANGED vars
  BY <1>13 DEF vars, EmptyMap
<1>14. QED
  BY <1>1, <1>2, <1>3, <1>4, <1>5, <1>6, <1>7, <1>8, <1>9, <1>10, <1>11, <1>12,
     <1>13
  DEF Next, FixStep, TickStep

\* The pump thread's iterator stays valid unless the FIX thread touched its
\* node.
LEMMA IteratorStep == FeedInv /\ [Next]_vars => IteratorValid'
<1> SUFFICES ASSUME FeedInv, [Next]_vars PROVE IteratorValid'
  OBVIOUS
<1> USE DEF FeedInv, TypeOK, IteratorValid
<1>1. CASE AcceptLogon \/ OnLogon \/ Disconnect \/ OnLogoutDone
  BY <1>1 DEF AcceptLogon, OnLogon, Disconnect, OnLogoutDone, mapVars, tickVars
<1>2. ASSUME NEW s \in Symbols, OnLogoutErase(s) PROVE IteratorValid'
  BY <1>2 DEF OnLogoutErase, EraseId, Race
<1>3. ASSUME NEW r \in Requests, ReceiveRequest(r) PROVE IteratorValid'
  BY <1>3 DEF ReceiveRequest, mapVars, tickVars
<1>4. CASE Subscribe \/ SubscribeRejected
  <2>1. Handling("sub") /\ PutId(CurrentSymbol, request.id)
    BY <1>4 DEF Subscribe, SubscribeRejected
  <2>2. QED  BY <2>1, HandlingFacts, ConstantsAssumption DEF PutId, Race
<1>5. CASE Unsubscribe \/ UnsubscribeRejected
  <2>1. Handling("unsub") /\ EraseId(CurrentSymbol)
    BY <1>5 DEF Unsubscribe, UnsubscribeRejected
  <2>2. QED  BY <2>1, HandlingFacts DEF EraseId, Race
<1>6. CASE IgnoreSymbol
  BY <1>6 DEF IgnoreSymbol, Handling, mapVars
<1>7. CASE SendReject \/ RequestDone
  BY <1>7 DEF SendReject, RequestDone, mapVars, tickVars
<1>8. ASSUME NEW s \in Symbols, TickFind(s) PROVE IteratorValid'
  BY <1>8 DEF TickFind, mapVars
<1>9. CASE TickStep
  BY <1>9 DEF TickStep, TickRead, TickSend
<1>10. ASSUME NEW s \in Symbols, EligibilityChange(s) PROVE IteratorValid'
  BY <1>10 DEF EligibilityChange, mapVars, tickVars
<1>11. CASE Restart
  BY <1>11 DEF Restart
<1>12. CASE UNCHANGED vars
  BY <1>12 DEF vars
<1>13. QED
  BY <1>1, <1>2, <1>3, <1>4, <1>5, <1>6, <1>7, <1>8, <1>9, <1>10, <1>11, <1>12
  DEF Next, FixStep

\* A tick in flight is the only quote that can still follow an erased entry
\* or a logout, and it has not been counted yet.
LEMMA QuoteStep ==
    FeedInv /\ [Next]_vars => /\ TickInFlightUncounted'
                              /\ AtMostOneLateQuote'
<1> DEFINE Goal == /\ TickInFlightUncounted
                   /\ AtMostOneLateQuote
<1> SUFFICES ASSUME FeedInv, [Next]_vars PROVE Goal'
  OBVIOUS
<1> USE DEF FeedInv, TypeOK, TickInFlightUncounted, AtMostOneLateQuote
<1>1. CASE AcceptLogon \/ OnLogon \/ Disconnect \/ OnLogoutDone
  BY <1>1 DEF AcceptLogon, OnLogon, Disconnect, OnLogoutDone, mapVars,
              tickVars, sessionVars, ghostVars
<1>2. ASSUME NEW s \in Symbols, OnLogoutErase(s) PROVE Goal'
  BY <1>2 DEF OnLogoutErase, EraseId, sessionVars
<1>3. ASSUME NEW r \in Requests, ReceiveRequest(r) PROVE Goal'
  BY <1>3 DEF ReceiveRequest, sessionVars, mapVars, tickVars, ghostVars
<1>4. CASE Subscribe \/ SubscribeRejected
  <2>1. Handling("sub") /\ PutId(CurrentSymbol, request.id)
    BY <1>4 DEF Subscribe, SubscribeRejected
  <2>2. QED  BY <2>1, HandlingFacts, ConstantsAssumption DEF PutId
<1>5. CASE Unsubscribe \/ UnsubscribeRejected
  <2>1. Handling("unsub") /\ EraseId(CurrentSymbol)
    BY <1>5 DEF Unsubscribe, UnsubscribeRejected
  <2>2. QED  BY <2>1, HandlingFacts DEF EraseId
<1>6. CASE IgnoreSymbol
  BY <1>6 DEF IgnoreSymbol, Handling, mapVars, sessionVars
<1>7. CASE SendReject \/ RequestDone
  BY <1>7 DEF SendReject, RequestDone, sessionVars, mapVars, tickVars, ghostVars
<1>8. ASSUME NEW s \in Symbols, TickFind(s) PROVE Goal'
  <2>1. ~logged => offQuotes = 0
    BY <1>8 DEF TickFind, OffSessionMapsEmpty, CallbackMatchesSession, EmptyMap
  <2>2. QED  BY <1>8, <2>1 DEF TickFind, sessionVars, mapVars, ghostVars
<1>9. CASE TickRead
  BY <1>9 DEF TickRead, sessionVars, mapVars, ghostVars
<1>10. CASE TickSend
  BY <1>10 DEF TickSend, sessionVars, mapVars
<1>11. ASSUME NEW s \in Symbols, EligibilityChange(s) PROVE Goal'
  BY <1>11 DEF EligibilityChange, mapVars, tickVars, ghostVars
<1>12. CASE Restart
  BY <1>12 DEF Restart
<1>13. CASE UNCHANGED vars
  BY <1>13 DEF vars
<1>14. QED
  BY <1>1, <1>2, <1>3, <1>4, <1>5, <1>6, <1>7, <1>8, <1>9, <1>10, <1>11, <1>12, <1>13
  DEF Next, FixStep, TickStep

\* The symbols of a request that have been passed are as it asked.
LEMMA PrefixStep == FeedInv /\ [Next]_vars => AcceptedPrefixTookEffect'
<1> SUFFICES ASSUME FeedInv, [Next]_vars PROVE AcceptedPrefixTookEffect'
  OBVIOUS
<1> USE DEF FeedInv, TypeOK, AcceptedPrefixTookEffect
<1>1. CASE \/ AcceptLogon \/ OnLogon \/ Disconnect \/ OnLogoutDone
           \/ SendReject \/ RequestDone \/ Restart
  BY <1>1 DEF AcceptLogon, OnLogon, Disconnect, OnLogoutDone, SendReject,
              RequestDone, Restart
<1>2. ASSUME NEW s \in Symbols, OnLogoutErase(s)
      PROVE  AcceptedPrefixTookEffect'
  BY <1>2 DEF OnLogoutErase
<1>3. ASSUME NEW r \in Requests, ReceiveRequest(r)
      PROVE  AcceptedPrefixTookEffect'
  BY <1>3 DEF ReceiveRequest
<1>4. ASSUME NEW j \in 1..(symCount - 1), pc \in {"symbols", "reject"}
      PROVE  request.symbols[j] \in Symbols
  BY <1>4 DEF RequestType
<1>5. CASE Subscribe \/ SubscribeRejected
  <2>1. /\ Handling("sub") /\ PutId(CurrentSymbol, request.id)
        /\ request.type = "sub"
    BY <1>5 DEF Subscribe, SubscribeRejected, Handling
  <2>2. \A j \in 1..(symCount - 1) :
            /\ request.symbols[j] \in sym_sub'
            /\ sym_MDReqID'[request.symbols[j]] = request.id
    BY <1>4, <1>5, <2>1, HandlingFacts
    DEF PutId, Subscribe, SubscribeRejected
  <2>3. CASE Subscribe
    BY <2>1, <2>2, <2>3, HandlingFacts
    DEF Subscribe, PutId, NextSymbol, CurrentSymbol
  <2>4. CASE SubscribeRejected
    BY <2>1, <2>2, <2>4, HandlingFacts DEF SubscribeRejected, Reject
  <2>5. QED  BY <1>5, <2>3, <2>4
<1>6. CASE Unsubscribe \/ UnsubscribeRejected
  <2>1. /\ Handling("unsub") /\ EraseId(CurrentSymbol)
        /\ request.type = "unsub"
    BY <1>6 DEF Unsubscribe, UnsubscribeRejected, Handling
  <2>2. \A j \in 1..(symCount - 1) :
            /\ request.symbols[j] \notin sym_sub'
            /\ sym_MDReqID'[request.symbols[j]] = NoId
    BY <1>4, <1>6, <2>1, HandlingFacts
    DEF EraseId, Unsubscribe, UnsubscribeRejected
  <2>3. CASE Unsubscribe
    BY <2>1, <2>2, <2>3, HandlingFacts
    DEF Unsubscribe, EraseId, NextSymbol, CurrentSymbol
  <2>4. CASE UnsubscribeRejected
    BY <2>1, <2>2, <2>4, HandlingFacts DEF UnsubscribeRejected, Reject
  <2>5. QED  BY <1>6, <2>3, <2>4
<1>7. CASE IgnoreSymbol
  <2>1. Handling("other") /\ request.type = "other"
    BY <1>7 DEF IgnoreSymbol, Handling
  <2>2. QED  BY <1>7, <2>1, HandlingFacts DEF IgnoreSymbol
<1>8. ASSUME NEW s \in Symbols, TickFind(s) \/ EligibilityChange(s)
      PROVE  AcceptedPrefixTookEffect'
  BY <1>8 DEF TickFind, EligibilityChange, mapVars, fixVars
<1>9. CASE TickStep
  BY <1>9 DEF TickStep, TickRead, TickSend, mapVars, fixVars
<1>10. CASE UNCHANGED vars
  BY <1>10 DEF vars
<1>11. QED
  BY <1>1, <1>2, <1>3, <1>5, <1>6, <1>7, <1>8, <1>9, <1>10 DEF Next, FixStep

-----------------------------------------------------------------------------

\* FeedInv is an invariant of the price feed.
THEOREM FeedInvariant == Spec => []FeedInv
<1>1. FeedInv /\ [Next]_vars => FeedInv'
  BY TypeStep, CounterStep, SessionStep, QuoteStep, PrefixStep, IteratorStep DEF FeedInv
<1>2. QED  BY InitInv, <1>1, PTL DEF Spec

\* Every variable keeps its type (the state of class Application).
THEOREM TypeCorrect == Spec => []TypeOK
<1>1. FeedInv => TypeOK
  BY DEF FeedInv
<1>2. QED  BY FeedInvariant, <1>1, PTL

\* A logged-off client has nothing subscribed and nothing streamed: onLogout's
\* counted erase loop ends with the map empty, whatever the pump thread does.
THEOREM OffSession == Spec => []OffSessionMapsEmpty
<1>1. FeedInv => OffSessionMapsEmpty
  BY DEF FeedInv
<1>2. QED  BY FeedInvariant, <1>1, PTL

\* At most one quote follows an unsubscribe, and at most one a logout.
THEOREM LateQuotes == Spec => []AtMostOneLateQuote
<1>1. FeedInv => AtMostOneLateQuote
  BY DEF FeedInv
<1>2. QED  BY FeedInvariant, <1>1, PTL

\* A request that is not rejected has taken effect for each of its symbols.
THEOREM RequestsTakeEffect == Spec => []AcceptedPrefixTookEffect
<1>1. FeedInv => AcceptedPrefixTookEffect
  BY DEF FeedInv
<1>2. QED  BY FeedInvariant, <1>1, PTL

\* A step that leaves the maps and the pump thread alone is a stutter.
LEMMA UnseenStep ==
    UNCHANGED <<sym_MDReqID, tickPc, tickSym>>
        => Streamed' = Streamed /\ InFlight' = InFlight
  BY DEF Streamed, InFlight

\* Assigning an id to a symbol opens its stream; erasing it closes it.
LEMMA EntryStep ==
    ASSUME TypeOK, NEW s \in Symbols, UNCHANGED <<tickPc, tickSym>>
    PROVE  /\ \A id \in ReqIds : PutId(s, id) => Stream!Open(s)
           /\ EraseId(s) => Stream!Close({s})
<1>1. InFlight' = InFlight
  BY DEF InFlight
<1>2. ASSUME NEW id \in ReqIds, PutId(s, id)
      PROVE  Streamed' = Streamed \cup {s}
  BY <1>2, ConstantsAssumption DEF PutId, Streamed, TypeOK
<1>3. ASSUME EraseId(s) PROVE Streamed' = Streamed \ {s}
  BY <1>3 DEF EraseId, Streamed, TypeOK
<1>4. QED  BY <1>1, <1>2, <1>3 DEF Stream!Open, Stream!Close

\* Every step of the feed is a step of the abstract stream, or a stutter.
LEMMA StreamStep == FeedInv /\ [Next]_vars => [Stream!Next]_Stream!vars
<1> SUFFICES ASSUME FeedInv, [Next]_vars PROVE [Stream!Next]_Stream!vars
  OBVIOUS
<1> DEFINE Unseen == UNCHANGED <<sym_MDReqID, tickPc, tickSym>>
<1>1. TypeOK
  BY DEF FeedInv
<1>2. CASE Unseen
  BY <1>2, UnseenStep DEF Stream!vars
<1>3. ASSUME \/ AcceptLogon \/ OnLogon \/ Disconnect \/ OnLogoutDone
             \/ \E r \in Requests : ReceiveRequest(r)
             \/ IgnoreSymbol \/ SendReject \/ RequestDone
             \/ \E s \in Symbols : EligibilityChange(s)
             \/ UNCHANGED vars
      PROVE  Unseen
  BY <1>3 DEF AcceptLogon, OnLogon, Disconnect, OnLogoutDone, ReceiveRequest,
              IgnoreSymbol, Handling, SendReject, RequestDone,
              EligibilityChange, mapVars, tickVars, vars
<1>4. ASSUME NEW s \in Symbols, OnLogoutErase(s) PROVE Stream!Next
  <2>1. Stream!Close({s})
    BY <1>1, <1>4, EntryStep DEF OnLogoutErase
  <2>2. QED  BY <2>1 DEF Stream!Next
<1>5. CASE Subscribe \/ SubscribeRejected
  <2>1. Handling("sub") /\ PutId(CurrentSymbol, request.id)
    BY <1>5 DEF Subscribe, SubscribeRejected
  <2>2. Stream!Open(CurrentSymbol) /\ CurrentSymbol \in Symbols
    BY <1>1, <2>1, HandlingFacts, EntryStep
  <2>3. QED  BY <2>2 DEF Stream!Next
<1>6. CASE Unsubscribe \/ UnsubscribeRejected
  <2>1. Handling("unsub") /\ EraseId(CurrentSymbol)
    BY <1>6 DEF Unsubscribe, UnsubscribeRejected
  <2>2. Stream!Close({CurrentSymbol}) /\ CurrentSymbol \in Symbols
    BY <1>1, <2>1, HandlingFacts, EntryStep
  <2>3. QED  BY <2>2 DEF Stream!Next
<1>7. ASSUME NEW s \in Symbols, TickFind(s) PROVE Stream!Next
  <2>1. s \in Streamed /\ Streamed' = Streamed
    BY <1>7 DEF TickFind, Streamed, mapVars
  <2>2. InFlight = NoId /\ InFlight' = s
    BY <1>7 DEF TickFind, InFlight
  <2>3. QED  BY <2>1, <2>2 DEF Stream!Next, Stream!Begin
<1>8. CASE TickSend
  <2>1. Streamed' = Streamed
    BY <1>8 DEF TickSend, Streamed, mapVars
  <2>2. InFlight # NoId /\ InFlight' = NoId
    BY <1>1, <1>8, ConstantsAssumption DEF TickSend, InFlight, TypeOK
  <2>3. QED  BY <2>1, <2>2 DEF Stream!Next, Stream!Deliver
<1>9. CASE Restart
  <2>1. Streamed' = {} /\ InFlight' = NoId
    BY <1>9 DEF Restart, Streamed, InFlight, EmptyMap
  <2>2. QED  BY <2>1 DEF Stream!Next, Stream!Reset
<1>10. CASE TickRead
  <2>1. Streamed' = Streamed /\ InFlight' = InFlight
    BY <1>10 DEF TickRead, Streamed, InFlight, mapVars
  <2>2. QED  BY <2>1 DEF Stream!vars
<1>11. QED
  BY <1>2, <1>3, <1>4, <1>5, <1>6, <1>7, <1>8, <1>9, <1>10
  DEF Next, FixStep, TickStep

\* The price feed implements the abstract quote stream.
THEOREM Refinement == Spec => ImplementsStream
<1>1. Init => Stream!Init
  BY DEF Init, Stream!Init, Streamed, InFlight, EmptyMap
<1>2. QED
  BY <1>1, StreamStep, FeedInvariant, PTL DEF Spec, Stream!Spec, ImplementsStream
=============================================================================
