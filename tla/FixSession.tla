----------------------------- MODULE FixSession -----------------------------
(***************************************************************************)
(* A FIX client of the repository (FIXSpreadEngine, FIXEngine) and the     *)
(* venue it asks for prices, which is a quickfix acceptor as PrimeXM_Price *)
(* is: Session.cpp at both ends, in the direction client to venue.  The    *)
(* client numbers and stores what it sends; the venue counts, queues what  *)
(* comes too early, and asks for the rest again.  Connections and          *)
(* processes fail at any point; the files of FileStore survive.            *)
(* The numbers of the venue's own messages are left out: an error in them  *)
(* ends the connection, which may end at any time here.                    *)
(***************************************************************************)
EXTENDS Naturals, Sequences

CONSTANTS
    MaxAsks,    \* requests one process of the client makes
    MaxFaults   \* connections broken and processes killed

ASSUME BoundsAssumption == MaxAsks \in Nat /\ MaxFaults \in Nat

VARIABLES
    reset,     \* toAdmin puts ResetSeqNumFlag=Y on the Logon
    client,    \* the client's session
    store,     \* FileStore: what MsgSeqNum n carried, a request or Admin
    sent,      \* requests handed to sendToTarget so far, named 1..sent
    asked,     \* of them, by the process that runs now
    beat,      \* a heartbeat was sent on this connection
    toVenue,   \* messages on the wire
    toClient,  \* the answer to a Logon, or the BeginSeqNo of a ResendRequest
    venue,     \* the venue's session
    expected,  \* its next target MsgSeqNum, in its FileStore
    queue,     \* m_queue: messages that came too early
    range,     \* m_resendRange: what the venue has asked for again
    handled,   \* ghost: requests given to the venue's application, in order
    faults     \* connections broken and processes killed so far

clientVars == <<client, store, sent, asked, beat>>
venueVars == <<venue, expected, queue, range, handled>>
vars == <<reset, clientVars, toVenue, toClient, venueVars, faults>>

Admin == 0
LogonAnswer == 0
NoRange == <<0, 0>>
MaxSent == MaxAsks * (MaxFaults + 1)

Kinds == {"logon", "reset", "admin", "request", "gapFill"}

\* arg: the request, or the NewSeqNo of a gap fill.
Message == [kind : Kinds, seq : Nat, dup : BOOLEAN, arg : Nat]

TypeOK ==
    /\ reset \in BOOLEAN
    /\ client \in {"down", "connected", "logonSent", "loggedOn"}
    /\ store \in Seq(Nat)
    /\ sent \in 0..MaxSent
    /\ asked \in 0..MaxAsks
    /\ beat \in BOOLEAN
    /\ toVenue \in Seq(Message)
    /\ toClient \in Seq(Nat)
    /\ venue \in {"down", "connected", "loggedOn", "refused"}
    /\ expected \in Nat \ {0}
    /\ queue \subseteq Message
    /\ range \in Nat \X Nat
    /\ handled \in Seq(1..MaxSent)
    /\ faults \in 0..MaxFaults

Init ==
    /\ reset \in BOOLEAN
    /\ client = "down"
    /\ store = <<>>
    /\ sent = 0
    /\ asked = 0
    /\ beat = FALSE
    /\ toVenue = <<>>
    /\ toClient = <<>>
    /\ venue = "down"
    /\ expected = 1
    /\ queue = {}
    /\ range = NoRange
    /\ handled = <<>>
    /\ faults = 0

-----------------------------------------------------------------------------
(* The client. *)

New(kind, seq, arg) == [kind |-> kind, seq |-> seq, dup |-> FALSE, arg |-> arg]

\* Slip: a message sent again does not say so.
StoredPlain(n, dup) ==
    [kind |-> IF store[n] = Admin THEN "admin" ELSE "request",
     seq |-> n, dup |-> FALSE, arg |-> store[n]]

\* The body that MsgSeqNum n carries, with PossDupFlag when it is sent again.
Stored(n, dup) ==
    [kind |-> IF store[n] = Admin THEN "admin" ELSE "request",
     seq |-> n, dup |-> dup, arg |-> store[n]]

\* What is written to a connection the other end has closed is lost.
Transmit(ms) == toVenue' = IF venue = "down" THEN toVenue ELSE toVenue \o ms

\* doConnect: a socket at both ends, a session responder, nobody logged on.
Connect ==
    /\ client = "down"
    /\ venue = "down"
    /\ client' = "connected"
    /\ venue' = "connected"
    /\ beat' = FALSE
    /\ toVenue' = <<>>
    /\ toClient' = <<>>
    /\ UNCHANGED <<reset, store, sent, asked, expected, queue, range, handled,
                   faults>>

\* generateLogon, in sendRaw: a reset comes before the Logon is stored.
SendLogon ==
    /\ client = "connected"
    /\ client' = "logonSent"
    /\ store' = Append(IF reset THEN <<>> ELSE store, Admin)
    /\ Transmit(<<New(IF reset THEN "reset" ELSE "logon", Len(store'), 0)>>)
    /\ UNCHANGED <<reset, sent, asked, beat, toClient, venueVars, faults>>

\* Slip: only what can be sent at once is stored.
RequestUnstored ==
    /\ asked < MaxAsks
    /\ asked' = asked + 1
    /\ sent' = sent + 1
    /\ store' = IF client = "loggedOn" THEN Append(store, sent') ELSE store
    /\ IF client = "loggedOn"
       THEN Transmit(<<New("request", Len(store'), sent')>>)
       ELSE UNCHANGED toVenue
    /\ UNCHANGED <<reset, client, beat, toClient, venueVars, faults>>

\* sendMarketDataRequest, when the main thread has slept long enough and
\* whatever the session is doing: stored in any case, sent if logged on.
Request ==
    /\ asked < MaxAsks
    /\ asked' = asked + 1
    /\ sent' = sent + 1
    /\ store' = Append(store, sent')
    /\ IF client = "loggedOn"
       THEN Transmit(<<New("request", Len(store'), sent')>>)
       ELSE UNCHANGED toVenue
    /\ UNCHANGED <<reset, client, beat, toClient, venueVars, faults>>

\* Any other numbered message of the session; one per connection is enough to
\* show the venue a gap.
Heartbeat ==
    /\ client = "loggedOn"
    /\ ~beat
    /\ beat' = TRUE
    /\ store' = Append(store, Admin)
    /\ Transmit(<<New("admin", Len(store'), 0)>>)
    /\ UNCHANGED <<reset, client, sent, asked, toClient, venueVars, faults>>

ReceiveLogon ==
    /\ client = "logonSent"
    /\ toClient # <<>>
    /\ Head(toClient) = LogonAnswer
    /\ toClient' = Tail(toClient)
    /\ client' = "loggedOn"
    /\ UNCHANGED <<reset, store, sent, asked, beat, toVenue, venueVars, faults>>

\* The first request stored at or after n, or the next number to be given.
NextRequest(n) ==
    LET at == {k \in n..Len(store) : store[k] # Admin} \cup {Len(store) + 1}
    IN CHOOSE k \in at : \A j \in at : k <= j

\* What message n becomes when it is sent again: a request as a possible
\* duplicate; the first of a run of others as a gap fill over the run.
Again(begin, n) ==
    CASE store[n] # Admin -> <<Stored(n, TRUE)>>
      [] store[n] = Admin /\ (n = begin \/ store[n - 1] # Admin) ->
           <<[kind |-> "gapFill", seq |-> n, dup |-> TRUE,
              arg |-> NextRequest(n)]>>
      [] OTHER -> <<>>

Resent(begin) ==
    LET upTo[n \in begin - 1..Len(store)] ==
            IF n < begin THEN <<>> ELSE upTo[n - 1] \o Again(begin, n)
    IN upTo[Len(store)]

\* nextResendRequest: from begin to what was stored last, under m_mutex.
AnswerResend ==
    /\ client = "loggedOn"
    /\ toClient # <<>>
    /\ Head(toClient) # LogonAnswer
    /\ toClient' = Tail(toClient)
    /\ Transmit(Resent(Head(toClient)))
    /\ UNCHANGED <<reset, clientVars, venueVars, faults>>

ClientCloses ==
    /\ client' = "down"
    /\ toClient' = <<>>
    /\ UNCHANGED <<reset, store, sent, beat, toVenue, venueVars>>

\* disconnect(), because the venue has closed the connection.
ClientNotices ==
    /\ client # "down"
    /\ venue \in {"down", "refused"}
    /\ ClientCloses
    /\ UNCHANGED <<asked, faults>>

\* disconnect(), because of a timeout or an error of the socket.
ClientDrops ==
    /\ client # "down"
    /\ faults < MaxFaults
    /\ faults' = faults + 1
    /\ ClientCloses
    /\ UNCHANGED asked

\* The process ends and is started again: its main thread will ask again.
ClientRestarts ==
    /\ faults < MaxFaults
    /\ faults' = faults + 1
    /\ asked' = 0
    /\ ClientCloses

-----------------------------------------------------------------------------
(* The venue. *)

Active == range # NoRange
TooHigh(m) == m.seq > expected

\* doTargetTooLow: no duplicate, so a Logout is sent and the session closed.
TooLow(m) == m.seq < expected /\ ~m.dup

Retrievable(m) == m \in queue /\ m.seq = expected

\* nextQueued runs until nothing in m_queue is next.
Draining == \E m \in queue : Retrievable(m)

\* doTargetTooHigh, after the venue has answered out: queued, and what comes
\* before asked for unless that has been done.
AskAgain(m, out) ==
    /\ queue' = {q \in queue : q.seq # m.seq} \cup {m}
    /\ IF Active /\ m.seq >= range[1]
       THEN toClient' = toClient \o out /\ UNCHANGED range
       ELSE /\ range' = <<expected, m.seq - 1>>
            /\ toClient' = toClient \o out \o <<expected>>

Refuse ==
    /\ venue' = "refused"
    /\ queue' = {}
    /\ range' = NoRange
    /\ UNCHANGED <<toClient, expected, handled>>

\* Slip: every message is given to the application.
TakeAnything(m) ==
    /\ range' = IF Active /\ m.seq >= range[2] THEN NoRange ELSE range
    /\ expected' = IF m.kind = "gapFill" THEN m.arg ELSE expected + 1
    /\ handled' = Append(handled, m.arg)

\* The end of verify, the callback, and the step to the next number.
Take(m) ==
    /\ range' = IF Active /\ m.seq >= range[2] THEN NoRange ELSE range
    /\ expected' = IF m.kind = "gapFill" THEN m.arg ELSE expected + 1
    /\ handled' = IF m.kind = "request" THEN Append(handled, m.arg) ELSE handled

\* Slip: the Logon's own number is not looked at.
AcceptLogonBlindly ==
    /\ venue = "connected"
    /\ toVenue # <<>>
    /\ toVenue' = Tail(toVenue)
    /\ LET m == Head(toVenue)
       IN /\ m.kind \in {"logon", "reset"}
          /\ venue' = "loggedOn"
          /\ expected' = m.seq + 1
          /\ toClient' = Append(toClient, LogonAnswer)
          /\ UNCHANGED <<queue, range, handled>>
    /\ UNCHANGED <<reset, clientVars, faults>>

\* nextLogon: a reset starts at 1; a Logon that is too high is answered all the
\* same, and then asked to be preceded by what is missing.
AcceptLogon ==
    /\ venue = "connected"
    /\ toVenue # <<>>
    /\ toVenue' = Tail(toVenue)
    /\ LET m == Head(toVenue)
           e == IF m.kind = "reset" THEN 1 ELSE expected
       IN /\ m.kind \in {"logon", "reset"}
          /\ IF m.seq < e
             THEN Refuse
             ELSE /\ venue' = "loggedOn"
                  /\ IF m.seq > e
                     THEN /\ AskAgain(m, <<LogonAnswer>>)
                          /\ UNCHANGED expected
                     ELSE /\ expected' = e + 1
                          /\ toClient' = Append(toClient, LogonAnswer)
                          /\ UNCHANGED <<queue, range>>
                  /\ UNCHANGED handled
    /\ UNCHANGED <<reset, clientVars, faults>>

\* next() of a message that is not a Logon.
Receive ==
    /\ venue = "loggedOn"
    /\ ~Draining
    /\ toVenue # <<>>
    /\ toVenue' = Tail(toVenue)
    /\ LET m == Head(toVenue)
       IN IF TooHigh(m) THEN AskAgain(m, <<>>)
                             /\ UNCHANGED <<venue, expected, handled>>
          ELSE IF TooLow(m) THEN Refuse
          ELSE IF m.seq < expected THEN UNCHANGED <<toClient, venueVars>>
          ELSE Take(m) /\ UNCHANGED <<toClient, venue, queue>>
    /\ UNCHANGED <<reset, clientVars, faults>>

\* One turn of nextQueued; a Logon was answered when it came.
NextQueued ==
    /\ venue = "loggedOn"
    /\ \E m \in queue :
          /\ Retrievable(m)
          /\ queue' = queue \ {m}
          /\ IF m.kind = "logon"
             THEN expected' = expected + 1 /\ UNCHANGED <<range, handled>>
             ELSE Take(m)
    /\ UNCHANGED <<reset, clientVars, toVenue, toClient, venue, faults>>

\* Slip: what was asked for again is remembered beyond the connection.
VenueClosesKeepsRange ==
    /\ venue' = "down"
    /\ toVenue' = <<>>
    /\ toClient' = <<>>
    /\ queue' = {}
    /\ UNCHANGED <<reset, clientVars, range>>

\* What neither end has read is lost; what the client could still have read it
\* might as well have read before.
VenueCloses ==
    /\ venue' = "down"
    /\ toVenue' = <<>>
    /\ toClient' = <<>>
    /\ queue' = {}
    /\ range' = NoRange
    /\ UNCHANGED <<reset, clientVars>>

\* disconnect(), because the client has closed; what is unread may be lost.
VenueNotices ==
    /\ venue # "down"
    /\ client = "down"
    /\ VenueCloses
    /\ UNCHANGED <<expected, handled, faults>>

\* disconnect() or the end of the process.
VenueDrops ==
    /\ venue # "down"
    /\ faults < MaxFaults
    /\ faults' = faults + 1
    /\ VenueCloses
    /\ UNCHANGED <<expected, handled>>

\* The process ends after the callback of a request and before the number it
\* expects next is written.
VenueDiesHandling ==
    /\ venue = "loggedOn"
    /\ faults < MaxFaults
    /\ faults' = faults + 1
    /\ \E m \in queue \cup (IF toVenue = <<>> THEN {} ELSE {Head(toVenue)}) :
          /\ m.seq = expected
          /\ m.kind = "request"
          /\ Draining => m \in queue
          /\ handled' = Append(handled, m.arg)
    /\ VenueCloses
    /\ UNCHANGED expected

-----------------------------------------------------------------------------
ClientStep == SendLogon \/ ReceiveLogon \/ AnswerResend \/ ClientNotices
VenueStep == AcceptLogon \/ Receive \/ NextQueued

Next ==
    \/ Connect \/ ClientStep \/ Request \/ Heartbeat
    \/ VenueStep \/ VenueNotices
    \/ ClientDrops \/ ClientRestarts \/ VenueDrops \/ VenueDiesHandling

Spec == Init /\ [][Next]_vars

\* Both processes run, the client reconnects every ReconnectInterval and sends
\* a heartbeat when it has been silent, a closed socket is noticed.  Nothing
\* obliges the application to ask.
FairSpec ==
    /\ Spec
    /\ WF_vars(Connect)
    /\ WF_vars(ClientStep)
    /\ WF_vars(Heartbeat)
    /\ WF_vars(VenueStep)
    /\ WF_vars(VenueNotices)

-----------------------------------------------------------------------------
\* The client's numbers never fall behind the venue's, through any sequence of
\* failures: no message is fatally too low ("MsgSeqNum too low", Session.cpp).
NeverTooLow == venue # "refused"

(***************************************************************************)
(* Whenever messages wait in m_queue for an earlier one, that one is on    *)
(* its way while the connection lasts: it is on the wire, or a             *)
(* ResendRequest that covers it is.                                        *)
(***************************************************************************)
GapIsBeingFilled ==
    venue = "loggedOn" /\ client \in {"logonSent", "loggedOn"}
    /\ queue # {} /\ ~Draining /\ (\E m \in queue : TooHigh(m))
    => \/ \E i \in DOMAIN toVenue : toVenue[i].seq = expected
       \/ \E i \in DOMAIN toClient :
             toClient[i] # LogonAnswer /\ toClient[i] <= expected

\* The venue's application was given the last request and its session does not
\* know: it expects the number that request is stored under.
LastUncertain ==
    /\ handled # <<>>
    /\ expected <= Len(store)
    /\ store[expected] = handled[Len(handled)]

Channel == INSTANCE RequestChannel WITH
    lossy <- reset, uncertain <- LastUncertain

\* Without resets requests arrive in order, each once and none left out; with
\* resets in order and at most once; either way up to the one a dying venue
\* was handling.
ImplementsChannel == Channel!Spec

\* A request in the client's store is handled in the end or erased by the reset
\* of a later Logon: also one made before the Logon was answered, which nothing
\* but a later heartbeat reveals to the venue.  (Requests are finitely many, so
\* it is enough that again and again none is waiting.)
StoredArrives ==
    []<>(\A n \in DOMAIN store :
            store[n] # Admin => \E k \in DOMAIN handled : handled[k] = store[n])
=============================================================================
