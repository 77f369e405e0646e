------------------------------ MODULE PriceFeed ------------------------------
(***************************************************************************)
(* The price feed of PrimeXM_Price: class Application, a FIX acceptor that *)
(* streams MT5 ticks to one FIX client.                                    *)
(*                                                                         *)
(* Two threads share two maps and no lock.  The FIX thread (the            *)
(* ThreadedSocketConnection of the session) runs onLogon, onLogout and     *)
(* onMessage; the MT5 pump thread runs OnTick.  Session::m_mutex is held   *)
(* by Session::sendRaw and by Session::disconnect around onLogout, so a    *)
(* send never overlaps a logout; it does not protect the maps.             *)
(*                                                                         *)
(*   FIX thread   pc     "idle" -> "symbols" (one request) -> "reject"     *)
(*                       "idle" -> "onLogon", "idle" -> "onLogout"         *)
(*   pump thread  tickPc "idle" -> "found" -> "read" -> "idle"             *)
(***************************************************************************)
EXTENDS Naturals, Sequences, FiniteSets

CONSTANTS Symbols,      \* instrument names
          ReqIds,       \* MDReqID values (tag 262) a client may send
          NoId,         \* no entry for the symbol in sym_MDReqID
          Garbage,      \* what a read of released memory may return
          MaxGroups     \* most symbols in one MarketDataRequest

ASSUME ConstantsAssumption ==
    /\ NoId \notin ReqIds \cup Symbols
    /\ Garbage \notin ReqIds
    /\ Garbage # NoId
    /\ MaxGroups \in Nat
    /\ IsFiniteSet(Symbols)

VARIABLES
    eligible,     \* symbols IMTManagerAPI::SymbolGet knows of
    logged,       \* Session::isLoggedOn()
    sym_MDReqID,  \* symbol -> MDReqID, NoId when the map has no such key
    sym_sub,      \* keys of sym_sub (the only value ever stored is TRUE)
    pc,           \* what the FIX thread is running
    request,      \* the MarketDataRequest being handled
    symCount,     \* _symCount, the loop index of onMessage
    size,         \* the loop counter of onLogout
    tickPc,       \* what the pump thread is running
    tickSym,      \* symbol of the tick being handled
    racing,       \* the node the iterator of OnTick points to was released
                  \* or reassigned since find
    tickId,       \* the MDReqID OnTick copied into its message
    late,         \* ghost: per symbol, quotes sent since its entry was erased
    offQuotes     \* ghost: quotes handed to the session since it logged off

sessionVars == <<eligible, logged>>
mapVars     == <<sym_MDReqID, sym_sub>>
fixVars     == <<pc, request, symCount, size>>
tickVars    == <<tickPc, tickSym, racing, tickId>>
ghostVars   == <<late, offQuotes>>
vars == <<eligible, logged, sym_MDReqID, sym_sub, pc, request, symCount,
          size, tickPc, tickSym, racing, tickId, late, offQuotes>>

(***************************************************************************)
(* Tag 263: "sub" is SNAPSHOT_PLUS_UPDATES, "unsub" is DISABLE_PREVIOUS_   *)
(* SNAPSHOT_PLUS_UPDATE_REQUEST, "other" every other value.                *)
(***************************************************************************)
RequestType == [type    : {"sub", "unsub", "other"},
                id      : ReqIds,
                symbols : Seq(Symbols)]

Requests == [type    : {"sub", "unsub", "other"},
             id      : ReqIds,
             symbols : UNION {[1..n -> Symbols] : n \in 0..MaxGroups}]

EmptyMap == [s \in Symbols |-> NoId]

\* The keys of sym_MDReqID.
Streamed == {s \in Symbols : sym_MDReqID[s] # NoId}

TypeOK ==
    /\ eligible \subseteq Symbols
    /\ logged \in BOOLEAN
    /\ sym_MDReqID \in [Symbols -> ReqIds \cup {NoId}]
    /\ sym_sub \subseteq Symbols
    /\ pc \in {"idle", "onLogon", "symbols", "reject", "onLogout"}
    /\ pc \in {"symbols", "reject"} => request \in RequestType
    /\ pc \in {"symbols", "reject"} => symCount \in 1..(Len(request.symbols) + 1)
    /\ size \in Nat
    /\ tickPc \in {"idle", "found", "read"}
    /\ tickPc # "idle" => tickSym \in Symbols
    /\ racing \in BOOLEAN
    /\ tickPc = "read" => tickId \in ReqIds \cup {Garbage}
    /\ late \in [Symbols -> 0..2]
    /\ offQuotes \in 0..2

Init ==
    /\ eligible \in SUBSET Symbols
    /\ logged = FALSE
    /\ sym_MDReqID = EmptyMap
    /\ sym_sub = {}
    /\ pc = "idle"
    /\ request = NoId
    /\ symCount = 0
    /\ size = 0
    /\ tickPc = "idle"
    /\ tickSym = NoId
    /\ racing = FALSE
    /\ tickId = NoId
    /\ late = [s \in Symbols |-> 0]
    /\ offQuotes = 0

-----------------------------------------------------------------------------
(* Helpers: the two map operations of the FIX thread. *)

(***************************************************************************)
(* The FIX thread releases the node of s, or assigns to the string in it,  *)
(* while OnTick holds an iterator to it.                                   *)
(***************************************************************************)
Race(s) ==
    racing' = (racing \/ (/\ tickPc = "found"
                          /\ tickSym = s
                          /\ sym_MDReqID[s] # NoId))

\* sym_MDReqID[s] = id: inserts a node or overwrites its string.
PutId(s, id) ==
    /\ sym_MDReqID' = [sym_MDReqID EXCEPT ![s] = id]
    /\ late' = [late EXCEPT ![s] = 0]
    /\ Race(s)

\* find and erase: releases the node of s.
EraseId(s) ==
    /\ sym_MDReqID' = [sym_MDReqID EXCEPT ![s] = NoId]
    /\ late' = IF sym_MDReqID[s] # NoId THEN [late EXCEPT ![s] = 0] ELSE late
    /\ Race(s)

-----------------------------------------------------------------------------
(* FIX thread: session events. *)

(***************************************************************************)
(* A Logon whose Username and Password match: fromAdmin returns, nextLogon *)
(* marks the session logged on and answers; onLogon runs next.  Logged on  *)
(* already, only a Logon with ResetSeqNumFlag=Y gets this far              *)
(* (validLogonState), and no onLogout precedes it.                         *)
(***************************************************************************)
AcceptLogon ==
    /\ pc = "idle"
    /\ logged' = TRUE
    /\ pc' = "onLogon"
    /\ UNCHANGED <<eligible, mapVars, request, symCount, size, tickVars,
                   ghostVars>>

OnLogon ==
    /\ pc = "onLogon"
    /\ sym_sub' = {}
    /\ pc' = "idle"
    /\ UNCHANGED <<sessionVars, sym_MDReqID, request, symCount, size, tickVars,
                   ghostVars>>

(***************************************************************************)
(* Session::disconnect of a logged-on session, whatever caused it: a       *)
(* Logout, a lost connection, a heartbeat timeout, or a Logon fromAdmin    *)
(* rejects.  Not logged on, it calls nothing of the application.  onLogout *)
(* clears sym_sub and counts the entries of sym_MDReqID.                   *)
(***************************************************************************)
Disconnect ==
    /\ pc = "idle"
    /\ logged
    /\ logged' = FALSE
    /\ sym_sub' = {}
    /\ size' = Cardinality(Streamed)
    /\ pc' = "onLogout"
    /\ offQuotes' = 0
    /\ UNCHANGED <<eligible, sym_MDReqID, request, symCount, tickVars, late>>

\* One turn of the erase loop of onLogout.  The loop stops by its counter and
\* never looks at end(); the order of the map's keys is left open.
OnLogoutErase(s) ==
    /\ pc = "onLogout"
    /\ size > 0
    /\ sym_MDReqID[s] # NoId
    /\ EraseId(s)
    /\ size' = size - 1
    /\ UNCHANGED <<sessionVars, sym_sub, pc, request, symCount, tickPc, tickSym,
                   tickId, offQuotes>>

\* Slip: the loop ends when its counter is 1.
OnLogoutDoneAtOne ==
    /\ pc = "onLogout"
    /\ size <= 1
    /\ size' = 0
    /\ pc' = "idle"
    /\ UNCHANGED <<sessionVars, mapVars, request, symCount, tickVars,
                   ghostVars>>

OnLogoutDone ==
    /\ pc = "onLogout"
    /\ size = 0
    /\ pc' = "idle"
    /\ UNCHANGED <<sessionVars, mapVars, request, symCount, size, tickVars,
                   ghostVars>>

-----------------------------------------------------------------------------
(* FIX thread: onMessage(MarketDataRequest), one step per symbol. *)

CurrentSymbol == request.symbols[symCount]

ReceiveRequest(r) ==
    /\ pc = "idle"
    /\ logged
    /\ request' = r
    /\ symCount' = 1
    /\ pc' = "symbols"
    /\ UNCHANGED <<sessionVars, mapVars, size, tickVars, ghostVars>>

Handling(type) ==
    /\ pc = "symbols"
    /\ symCount <= Len(request.symbols)
    /\ request.type = type
    /\ UNCHANGED <<sessionVars, request, size, tickPc, tickSym, tickId,
                   offQuotes>>

\* Slip: _symCount is incremented twice.
NextSymbolTwice == symCount' = symCount + 2 /\ UNCHANGED pc

NextSymbol == symCount' = symCount + 1 /\ UNCHANGED pc
Reject     == pc' = "reject" /\ UNCHANGED symCount

Subscribe ==
    LET s == CurrentSymbol IN
    /\ Handling("sub")
    /\ PutId(s, request.id)
    /\ s \in eligible
    /\ s \notin sym_sub
    /\ sym_sub' = sym_sub \cup {s}
    /\ NextSymbol

\* "Symbol already subscribed." or "Not eligible for Price Feed."; the entry
\* of sym_MDReqID is written before either is found out.
SubscribeRejected ==
    LET s == CurrentSymbol IN
    /\ Handling("sub")
    /\ PutId(s, request.id)
    /\ s \in sym_sub \/ s \notin eligible
    /\ UNCHANGED sym_sub
    /\ Reject

\* Slip: the entry of sym_MDReqID survives its unsubscribe.
UnsubscribeKeepsId ==
    LET s == CurrentSymbol IN
    /\ Handling("unsub")
    /\ s \in eligible
    /\ s \in sym_sub
    /\ sym_sub' = sym_sub \ {s}
    /\ NextSymbol
    /\ UNCHANGED <<sym_MDReqID, racing, late>>

Unsubscribe ==
    LET s == CurrentSymbol IN
    /\ Handling("unsub")
    /\ EraseId(s)
    /\ s \in eligible
    /\ s \in sym_sub
    /\ sym_sub' = sym_sub \ {s}
    /\ NextSymbol

\* "Symbol not subscribed yet." or "Not eligible for Price Feed.".
UnsubscribeRejected ==
    LET s == CurrentSymbol IN
    /\ Handling("unsub")
    /\ EraseId(s)
    /\ s \notin sym_sub \/ s \notin eligible
    /\ UNCHANGED sym_sub
    /\ Reject

\* Any other SubscriptionRequestType: neither branch is taken.
IgnoreSymbol ==
    /\ Handling("other")
    /\ NextSymbol
    /\ UNCHANGED <<mapVars, racing, late>>

\* sendMarketDataRequestReject, then break.
SendReject ==
    /\ pc = "reject"
    /\ pc' = "idle"
    /\ request' = NoId
    /\ symCount' = 0
    /\ UNCHANGED <<sessionVars, mapVars, size, tickVars, ghostVars>>

RequestDone ==
    /\ pc = "symbols"
    /\ symCount > Len(request.symbols)
    /\ pc' = "idle"
    /\ request' = NoId
    /\ symCount' = 0
    /\ UNCHANGED <<sessionVars, mapVars, size, tickVars, ghostVars>>

-----------------------------------------------------------------------------
(* Pump thread: OnTick. *)

\* Slips: OnTick does not compare with end(); OnTick asks sym_sub as well.
TickFindAny(s) ==
    /\ tickPc = "idle"
    /\ tickPc' = "found"
    /\ tickSym' = s
    /\ racing' = FALSE
    /\ UNCHANGED <<sessionVars, mapVars, fixVars, tickId, ghostVars>>

TickFindSubscribed(s) ==
    /\ s \in sym_sub
    /\ sym_MDReqID[s] # NoId
    /\ TickFindAny(s)

\* sym_MDReqID.find(symbol) != end().  A tick of any other symbol returns.
TickFind(s) ==
    /\ tickPc = "idle"
    /\ sym_MDReqID[s] # NoId
    /\ tickPc' = "found"
    /\ tickSym' = s
    /\ racing' = FALSE
    /\ UNCHANGED <<sessionVars, mapVars, fixVars, tickId, ghostVars>>

(***************************************************************************)
(* it->second.  Without a race it is the entry as it now is.  A racing     *)
(* read returns whatever the memory holds: the old string, the new one,    *)
(* the string of an entry that took over a released node, a torn mixture.  *)
(* (If it ends the process instead, that is Restart.)                      *)
(***************************************************************************)
TickRead ==
    /\ tickPc = "found"
    /\ IF racing THEN tickId' \in ReqIds \cup {Garbage}
                   ELSE tickId' = sym_MDReqID[tickSym]
    /\ tickPc' = "read"
    /\ racing' = FALSE
    /\ UNCHANGED <<sessionVars, mapVars, fixVars, tickSym, ghostVars>>

(***************************************************************************)
(* sendToTarget: sendRaw holds m_mutex, which a logout in progress owns.   *)
(* It stores the quote under the next sequence number and transmits it if  *)
(* the session is logged on; otherwise the stored quote is a gap that the  *)
(* next session may ask to have resent.                                    *)
(***************************************************************************)
TickSend ==
    /\ tickPc = "read"
    /\ pc # "onLogout"
    /\ late' = IF sym_MDReqID[tickSym] = NoId /\ late[tickSym] < 2
               THEN [late EXCEPT ![tickSym] = @ + 1] ELSE late
    /\ offQuotes' = IF ~logged /\ offQuotes < 2 THEN offQuotes + 1
                                                ELSE offQuotes
    /\ tickPc' = "idle"
    /\ tickSym' = NoId
    /\ tickId' = NoId
    /\ UNCHANGED <<sessionVars, mapVars, fixVars, racing>>

-----------------------------------------------------------------------------
(* Environment. *)

\* The MT5 administrator adds a symbol to the manager's view, or removes it.
EligibilityChange(s) ==
    /\ eligible' = IF s \in eligible THEN eligible \ {s} ELSE eligible \cup {s}
    /\ UNCHANGED <<logged, mapVars, fixVars, tickVars, ghostVars>>

\* The process ends, at any point, and the service is started again.
Restart ==
    /\ logged' = FALSE
    /\ sym_MDReqID' = EmptyMap
    /\ sym_sub' = {}
    /\ pc' = "idle"
    /\ request' = NoId
    /\ symCount' = 0
    /\ size' = 0
    /\ tickPc' = "idle"
    /\ tickSym' = NoId
    /\ racing' = FALSE
    /\ tickId' = NoId
    /\ late' = [s \in Symbols |-> 0]
    /\ offQuotes' = 0
    /\ UNCHANGED eligible

-----------------------------------------------------------------------------
\* The steps by which the FIX thread finishes the callback it is in.
FixStep ==
    \/ OnLogon
    \/ \E s \in Symbols : OnLogoutErase(s)
    \/ OnLogoutDone
    \/ Subscribe
    \/ SubscribeRejected
    \/ Unsubscribe
    \/ UnsubscribeRejected
    \/ IgnoreSymbol
    \/ SendReject
    \/ RequestDone

TickStep == TickRead \/ TickSend

Next ==
    \/ AcceptLogon
    \/ Disconnect
    \/ \E r \in Requests : ReceiveRequest(r)
    \/ FixStep
    \/ \E s \in Symbols : TickFind(s)
    \/ TickStep
    \/ \E s \in Symbols : EligibilityChange(s)
    \/ Restart

Spec == Init /\ [][Next]_vars

(***************************************************************************)
(* Both threads are OS threads that keep running: weak fairness of their   *)
(* steps.  Strong fairness of TickFind(s) is about the market: a symbol    *)
(* whose ticks find an entry again and again is found in the end.          *)
(***************************************************************************)
FairSpec ==
    /\ Spec
    /\ WF_vars(FixStep)
    /\ WF_vars(TickStep)
    /\ \A s \in Symbols : SF_vars(TickFind(s))

-----------------------------------------------------------------------------
(* Safety. *)

\* A client that is not logged on has nothing subscribed and nothing to be
\* streamed once onLogout has returned: the entries it counted before its loop
\* are all the entries there are, and it erases one of them in each turn.
OffSessionMapsEmpty ==
    ~logged /\ pc = "idle" => sym_MDReqID = EmptyMap /\ sym_sub = {}

\* After an entry is erased, by an unsubscribe or a logout, the symbol is
\* quoted at most once more: the tick OnTick had already found.  And between a
\* logout and the next logon at most one quote of all symbols goes into the
\* session's message store, from where it could be sent again.
AtMostOneLateQuote ==
    /\ \A s \in Symbols : sym_MDReqID[s] = NoId => late[s] <= 1
    /\ offQuotes <= 1

\* While a request is handled, each symbol before the current one is in the
\* state the request asked for, in both maps at once: what RequestDone leaves
\* behind without a reject is the whole request.
AcceptedPrefixTookEffect ==
    pc \in {"symbols", "reject"} =>
        \A j \in 1..(symCount - 1) :
            LET s == request.symbols[j] IN
            /\ request.type = "sub" => /\ s \in sym_sub
                                       /\ sym_MDReqID[s] = request.id
            /\ request.type = "unsub" => /\ s \notin sym_sub
                                         /\ sym_MDReqID[s] = NoId

-----------------------------------------------------------------------------
(***************************************************************************)
(* The threads and maps implement QuoteStream: the open streams are the    *)
(* keys of sym_MDReqID, the quote in flight is the tick OnTick found.      *)
(***************************************************************************)
InFlight == IF tickPc = "idle" THEN NoId ELSE tickSym

Stream == INSTANCE QuoteStream WITH None <- NoId, open <- Streamed,
                                    owed <- InFlight

\* Every step of the two threads opens or closes one stream, begins or
\* delivers one quote, or changes nothing a client can see.
ImplementsStream == Stream!Spec

-----------------------------------------------------------------------------
(***************************************************************************)
(* What makes the safety properties inductive: which callback runs in      *)
(* which session state, that onLogout's counter is the number of entries   *)
(* left, that a tick in flight has not been counted, and that OnTick's     *)
(* iterator points to an entry unless there was a race.                    *)
(***************************************************************************)
CallbackMatchesSession ==
    /\ pc \in {"onLogon", "symbols", "reject"} => logged
    /\ pc = "onLogout" => ~logged /\ sym_sub = {} /\ offQuotes = 0

\* The turns onLogout's loop still has to make are as many as the entries.
CounterIsRight == pc = "onLogout" => size = Cardinality(Streamed)

TickInFlightUncounted ==
    tickPc # "idle" =>
        /\ sym_MDReqID[tickSym] = NoId => late[tickSym] = 0
        /\ ~logged => offQuotes = 0

\* The iterator of OnTick points to an entry of the map unless the FIX thread
\* touched that node after find.
IteratorValid ==
    tickPc = "found" /\ ~racing => sym_MDReqID[tickSym] # NoId

FeedInv ==
    /\ TypeOK
    /\ CallbackMatchesSession
    /\ CounterIsRight
    /\ OffSessionMapsEmpty
    /\ TickInFlightUncounted
    /\ AtMostOneLateQuote
    /\ AcceptedPrefixTookEffect
    /\ IteratorValid

-----------------------------------------------------------------------------
(* Liveness. *)

\* A symbol that stays in the map is quoted again and again.
StreamKeepsFlowing ==
    \A s \in Symbols :
        <>[](sym_MDReqID[s] # NoId)
            => []<><<TickSend /\ tickSym = s>>_vars

-----------------------------------------------------------------------------
(* Statements of the repository that the code does not keep. *)

\* "Subscribed symbol map is empty then ignore" (OnTick): the map OnTick
\* streams from is the map of the subscribed symbols.
StreamedIsSubscribed ==
    pc = "idle" => \A s \in Symbols : sym_MDReqID[s] # NoId => s \in sym_sub
=============================================================================
