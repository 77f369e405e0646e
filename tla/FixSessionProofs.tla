--------------------------- MODULE FixSessionProofs ---------------------------
(***************************************************************************)
(* The session keeps its numbers, fills its gaps and implements            *)
(* RequestChannel, for any number of requests and of failures.             *)
(***************************************************************************)
EXTENDS FixSession, SequenceTheorems, WellFoundedInduction, TLAPS

-----------------------------------------------------------------------------
(***************************************************************************)
(* What makes the safety properties inductive.  A message stands for the   *)
(* numbers from its own to Following(m) - 1, and says what the store says. *)
(***************************************************************************)
Following(m) == IF m.kind = "gapFill" THEN m.arg ELSE m.seq + 1

Reflects(m) ==
    /\ m.seq \in 1..Len(store)
    /\ Following(m) \in m.seq + 1..Len(store) + 1
    /\ IF m.kind = "request"
       THEN m.arg # Admin /\ store[m.seq] = m.arg
       ELSE \A n \in m.seq..Following(m) - 1 : store[n] = Admin

WireReflectsStore ==
    /\ \A i \in 1..Len(toVenue) : Reflects(toVenue[i])
    /\ \A m \in queue : Reflects(m)

\* What there is in each state of a connection.  A Logon comes first, and
\* until it is answered only requests are stored after it.
ConnectionShape ==
    /\ venue # "loggedOn" =>
          queue = {} /\ range = NoRange /\ toClient = <<>> /\ venue # "refused"
    /\ venue = "down" => toVenue = <<>>
    /\ client = "connected" => venue # "loggedOn" /\ toVenue = <<>>
    /\ venue = "connected" => client # "loggedOn" /\ Len(toVenue) \in {0, 1}
    /\ venue = "connected" /\ toVenue # <<>> =>
          LET m == toVenue[1] IN
          /\ m.kind = IF reset THEN "reset" ELSE "logon"
          /\ ~m.dup
          /\ reset => m.seq = 1
          /\ \A n \in m.seq + 1..Len(store) : store[n] # Admin

\* The venue counts in the client's numbers: always, or from a reset on.
InStep == ~reset \/ venue = "loggedOn"

\* A new message comes after all that were sent, queued or taken before it.
NumbersGoForward ==
    /\ InStep => expected <= Len(store) + 1
    /\ \A j \in 1..Len(toVenue) : ~toVenue[j].dup =>
          /\ InStep => expected <= toVenue[j].seq
          /\ \A m \in queue : Following(m) <= toVenue[j].seq
          /\ \A i \in 1..j - 1 : Following(toVenue[i]) <= toVenue[j].seq

LastHandled == IF handled = <<>> THEN 0 ELSE handled[Len(handled)]

Requested == {n \in 1..Len(store) : store[n] # Admin}

\* Requests are stored in order, without a reset all of them; the venue has
\* handled those before the number it expects, and perhaps that one.
RequestsInOrder ==
    /\ \A n \in Requested : store[n] <= sent
    /\ \A j, n \in Requested : j < n => store[j] < store[n]
    /\ ~reset => \A r \in 1..sent : \E n \in Requested : store[n] = r
    /\ \A k \in 1..Len(handled) : handled[k] \in 1..sent
    /\ InStep => \A n \in Requested :
          /\ n > expected => store[n] > LastHandled
          /\ n = expected => store[n] >= LastHandled
          /\ ~reset /\ n < expected => store[n] <= LastHandled
    /\ reset /\ venue = "connected" /\ toVenue # <<>> =>
          \A n \in Requested : store[n] > LastHandled

AsksAreBounded == sent <= MaxAsks * faults + asked

Linked == venue = "loggedOn" /\ client \in {"logonSent", "loggedOn"}

Queued == {m.seq : m \in queue}

\* The numbers of the first p messages on the wire.
Ahead(p) == {toVenue[i].seq : i \in 1..p}

\* Nothing there or queued has been sent again.
AllNew(p) ==
    /\ \A i \in 1..p : ~toVenue[i].dup /\ toVenue[i].kind # "gapFill"
    /\ \A m \in queue : m.kind # "gapFill"

\* Before a gap is seen nothing waits; of the numbers not taken yet, a Logon or
\* heartbeat is unknown to the venue only if it is older than what it knows.
AdminsFollow ==
    \A k \in Queued \cup Ahead(Len(toVenue)), n \in 1..Len(store) :
        n > k /\ store[n] = Admin => n \in Queued \cup Ahead(Len(toVenue))

NoGapSeen ==
    /\ AllNew(Len(toVenue))
    /\ queue = {}
    /\ range = NoRange
    /\ toClient \in {<<>>, <<LogonAnswer>>}
    /\ AdminsFollow

\* One ResendRequest is on its way; nothing that is here can be taken.
AskedAgain ==
    /\ AllNew(Len(toVenue))
    /\ queue # {}
    /\ \A n \in Queued \cup Ahead(Len(toVenue)) : n > expected
    /\ range[1] = expected
    /\ toClient \in {<<expected>>, <<LogonAnswer, expected>>}
    /\ AdminsFollow

\* The number after what can be taken from the queue once p messages are read.
Resumes(p) == IF p < Len(toVenue) THEN toVenue[p + 1].seq ELSE Len(store) + 1

\* The first p messages will be queued; the one behind them is what is missed.
Awaited(p) ==
    /\ p < Len(toVenue)
    /\ range[1] = expected
    /\ toVenue[p + 1].seq = expected
    /\ \A n \in Queued \cup Ahead(p) : n > expected

\* Behind the first p messages each goes on where the one before it ends.
GaplessAfter(p) ==
    /\ p < Len(toVenue) => Following(toVenue[Len(toVenue)]) = Len(store) + 1
    /\ \A i \in p + 1..Len(toVenue) - 1 :
          toVenue[i + 1].seq = Following(toVenue[i])
    /\ \A i, j \in p + 1..Len(toVenue) :
          i < j => Following(toVenue[i]) <= toVenue[j].seq

\* What such a message tells the venue of numbers that wait already, or of
\* numbers before the expected one, is not lost if it comes too late for them.
OverlapKnown(p) ==
    \A i \in p + 1..Len(toVenue) :
        LET m == toVenue[i] IN
        /\ m.seq < expected => expected..Following(m) - 1 \subseteq Queued
        /\ \A n \in Queued \cup Ahead(p) :
              n >= expected /\ n >= m.seq =>
                  n..Following(m) - 1 \subseteq Queued \cup Ahead(p)

\* The answer follows the first p messages on the wire, and everything sent
\* since follows the answer.
AnsweredAfter(p) ==
    /\ AllNew(p)
    /\ p > 0 => Awaited(p)
    /\ expected..Resumes(p) - 1 \subseteq Queued
    /\ GaplessAfter(p)
    /\ OverlapKnown(p)

Answered ==
    /\ client = "loggedOn"
    /\ toClient = <<>>
    /\ \E p \in 0..Len(toVenue) : AnsweredAfter(p)

\* At most one ResendRequest is made in a connection.
OneResend == Linked => NoGapSeen \/ AskedAgain \/ Answered

SessionInv ==
    /\ TypeOK
    /\ ConnectionShape
    /\ WireReflectsStore
    /\ NumbersGoForward
    /\ RequestsInOrder
    /\ AsksAreBounded
    /\ OneResend

-----------------------------------------------------------------------------
(* Numbers and sequences. *)

\* A set of numbers that is not empty has a least one: what induction is here.
LEMMA LeastExists ==
    ASSUME NEW S, S \subseteq Nat, S # {}
    PROVE  \E x \in S : \A y \in S : x <= y
<1> DEFINE R == OpToRel(<, Nat)
<1>1. IsWellFoundedOn(R, Nat)
  BY NatLessThanWellFounded
<1>2. \A x, y \in Nat : y < x => <<y, x>> \in R
  BY Zenon DEF OpToRel
<1> HIDE DEF R
<1>3. PICK x \in S : \A y \in S : <<y, x>> \notin R
  BY <1>1, WFMin
<1>4. ASSUME NEW y \in S PROVE x <= y
  <2>1. x \in Nat /\ y \in Nat /\ ~(y < x)
    BY <1>2, <1>3
  <2>2. QED  BY <2>1
<1>5. QED  BY <1>4

\* What is true of the first number and passed on by each is true of all.
LEMMA Steps ==
    ASSUME NEW a \in Int, NEW b \in Int, NEW S,
           a <= b => a \in S,
           \A n \in a..b - 1 : n \in S => n + 1 \in S
    PROVE  a..b \subseteq S
<1> DEFINE Bad == {k \in Nat : a + k <= b /\ a + k \notin S}
<1> SUFFICES ASSUME Bad # {} PROVE FALSE
  <2>1. ASSUME NEW n \in a..b, n \notin S PROVE Bad # {}
    <3>1. PICK k \in Nat : a + k = n
      <4>1. n - a \in Nat /\ a + (n - a) = n
        OBVIOUS
      <4>2. QED  BY <4>1
    <3>2. k \in Bad
      BY <2>1, <3>1
    <3>3. QED  BY <3>2
  <2>2. QED  BY <2>1
<1>1. PICK k \in Bad : \A j \in Bad : k <= j
  BY LeastExists
<1>2. k \in Nat /\ a + k <= b /\ a + k \notin S
  OBVIOUS
<1>3. k # 0
  BY <1>2
<1>4. k - 1 \in Nat /\ k - 1 \notin Bad
  BY <1>1, <1>2, <1>3
<1>5. a + (k - 1) \in a..b - 1 /\ a + (k - 1) \in S
  BY <1>2, <1>4
<1>6. a + (k - 1) + 1 = a + k
  BY <1>2
<1>7. QED  BY <1>2, <1>5, <1>6

\* A function defined by recursion over an interval of numbers exists.
Unfolds(f, a, b, S, c, Turn) ==
    /\ f \in [a..b -> S]
    /\ f[a] = c
    /\ \A n \in a + 1..b : f[n] = Turn[f[n - 1]][n]

\* A recursion over an interval has a solution, by the least end without one.
LEMMA RecursionExists ==
    ASSUME NEW a \in Int, NEW b \in Int, a <= b, NEW S, NEW c \in S,
           NEW Turn \in [S -> [a + 1..b -> S]]
    PROVE  \E f : Unfolds(f, a, b, S, c, Turn)
<1> DEFINE Known == {n \in a..b : \E f : Unfolds(f, a, n, S, c, Turn)}
<1>1. a \in Known
  <2> DEFINE f == [n \in a..a |-> c]
  <2>1. f \in [a..a -> S] /\ f[a] = c
    OBVIOUS
  <2>2. \A n \in a + 1..a : FALSE
    OBVIOUS
  <2> HIDE DEF f
  <2>3. Unfolds(f, a, a, S, c, Turn)
    BY <2>1, <2>2 DEF Unfolds
  <2>4. a \in a..b
    OBVIOUS
  <2>5. QED  BY <2>3, <2>4
<1>2. ASSUME NEW n \in a..b - 1, n \in Known PROVE n + 1 \in Known
  <2>1. PICK f : Unfolds(f, a, n, S, c, Turn)
    BY <1>2
  <2>2. n + 1 \in a + 1..b /\ n + 1 \in a..b /\ n \in a..n
    OBVIOUS
  <2> DEFINE e == Turn[f[n]][n + 1]
             g == [k \in a..n + 1 |-> IF k = n + 1 THEN e ELSE f[k]]
  <2>3. e \in S
    <3>1. f[n] \in S
      BY <2>1, <2>2 DEF Unfolds
    <3>2. Turn[f[n]] \in [a + 1..b -> S]
      BY <3>1
    <3>3. QED  BY <2>2, <3>2
  <2>4. g \in [a..n + 1 -> S] /\ g[n + 1] = e
        /\ \A k \in a..n : g[k] = f[k]
    <3>1. \A k \in a..n : f[k] \in S
      BY <2>1 DEF Unfolds
    <3>2. \A k \in a..n + 1 : k = n + 1 \/ (k \in a..n /\ k # n + 1)
      OBVIOUS
    <3>3. \A k \in a..n : k # n + 1 /\ k \in a..n + 1
      OBVIOUS
    <3> HIDE DEF e
    <3>4. QED  BY <2>2, <2>3, <3>1, <3>2, <3>3
  <2> HIDE DEF g
  <2>5. g[a] = c
    BY <2>1, <2>4 DEF Unfolds
  <2>6. ASSUME NEW k \in a + 1..n + 1 PROVE g[k] = Turn[g[k - 1]][k]
    <3>1. k - 1 \in a..n /\ (k = n + 1 \/ k \in a + 1..n)
      OBVIOUS
    <3>2. CASE k = n + 1
      <4>1. k - 1 = n
        BY <3>2
      <4>2. QED  BY <2>2, <2>4, <3>2, <4>1 DEF e
    <3>3. CASE k \in a + 1..n
      <4>1. f[k] = Turn[f[k - 1]][k] /\ k \in a..n
        BY <2>1, <3>3 DEF Unfolds
      <4>2. QED  BY <2>4, <3>1, <4>1
    <3>4. QED  BY <3>1, <3>2, <3>3
  <2>7. Unfolds(g, a, n + 1, S, c, Turn)
    BY <2>4, <2>5, <2>6 DEF Unfolds
  <2>8. QED  BY <2>2, <2>7
<1>3. a..b \subseteq Known
  <2> HIDE DEF Known
  <2>1. QED  BY <1>1, <1>2, Steps
<1>4. b \in a..b
  OBVIOUS
<1>5. QED  BY <1>3, <1>4

\* Joining two sequences, taking the first element of one.
LEMMA Joined ==
    ASSUME NEW S, NEW s \in Seq(S), NEW t \in Seq(S)
    PROVE  /\ s \o t \in Seq(S)
           /\ Len(s) \in Nat /\ Len(t) \in Nat
           /\ Len(s \o t) = Len(s) + Len(t)
           /\ \A i \in 1..Len(s) : (s \o t)[i] = s[i]
           /\ \A i \in 1..Len(t) : (s \o t)[Len(s) + i] = t[i]
<1>1. /\ s \o t \in Seq(S)
      /\ Len(s) \in Nat /\ Len(t) \in Nat
      /\ Len(s \o t) = Len(s) + Len(t)
      /\ \A i \in 1..Len(s) + Len(t) :
            (s \o t)[i] = IF i <= Len(s) THEN s[i] ELSE t[i - Len(s)]
  BY ConcatProperties, LenProperties
<1>2. ASSUME NEW i \in 1..Len(s) PROVE (s \o t)[i] = s[i]
  BY <1>1
<1>3. ASSUME NEW i \in 1..Len(t) PROVE (s \o t)[Len(s) + i] = t[i]
  <2>1. /\ Len(s) + i \in 1..Len(s) + Len(t)
        /\ ~(Len(s) + i <= Len(s))
        /\ (Len(s) + i) - Len(s) = i
    BY <1>1
  <2>2. QED  BY <1>1, <2>1
<1>4. QED  BY <1>1, <1>2, <1>3

\* A sequence with one element more.
LEMMA Extended ==
    ASSUME NEW S, NEW s \in Seq(S), NEW e \in S
    PROVE  /\ Append(s, e) \in Seq(S)
           /\ Len(s) \in Nat
           /\ Len(Append(s, e)) = Len(s) + 1
           /\ \A i \in 1..Len(s) : Append(s, e)[i] = s[i]
           /\ Append(s, e)[Len(s) + 1] = e
BY AppendProperties, LenProperties

\* A sequence without its first element.
LEMMA FirstTaken ==
    ASSUME NEW S, NEW s \in Seq(S), s # <<>>
    PROVE  /\ Tail(s) \in Seq(S)
           /\ Len(s) \in Nat \ {0}
           /\ Len(Tail(s)) = Len(s) - 1
           /\ \A i \in 1..Len(s) - 1 : Tail(s)[i] = s[i + 1]
           /\ Head(s) = s[1] /\ s[1] \in S
BY HeadTailProperties, LenProperties, EmptySeq
\* The numbers of a message, in a sequence of them.
LEMMA Numbers ==
    /\ \A m \in Message : /\ m.seq \in Nat /\ m.arg \in Nat /\ m.dup \in BOOLEAN
                          /\ m.kind \in Kinds
                          /\ Following(m) \in Nat
    /\ \A R \in Seq(Message) : \A i \in 1..Len(R) :
          R[i] \in Message /\ R[i].seq \in Nat /\ Following(R[i]) \in Nat
<1>1. \A m \in Message : /\ m.seq \in Nat /\ m.arg \in Nat /\ m.dup \in BOOLEAN
                         /\ m.kind \in Kinds
                         /\ Following(m) \in Nat
  BY DEF Message, Following
<1>2. \A R \in Seq(Message) : \A i \in 1..Len(R) : R[i] \in Message
  BY ElementOfSeq
<1>3. QED  BY <1>1, <1>2

-----------------------------------------------------------------------------
(* What the client answers to a ResendRequest. *)

\* NextRequest finds the end of a run of messages that are no requests.
LEMMA NextRequestFacts ==
    ASSUME TypeOK, NEW n \in 1..Len(store)
    PROVE  /\ NextRequest(n) \in n..Len(store) + 1
           /\ \A k \in n..NextRequest(n) - 1 : store[k] = Admin
           /\ NextRequest(n) <= Len(store) => store[NextRequest(n)] # Admin
<1> DEFINE at == {k \in n..Len(store) : store[k] # Admin} \cup {Len(store) + 1}
<1>1. Len(store) \in Nat
  BY LenProperties DEF TypeOK
<1>2. at \subseteq Nat /\ at # {} /\ at \subseteq n..Len(store) + 1
  BY <1>1
<1>3. NextRequest(n) \in at /\ \A j \in at : NextRequest(n) <= j
  <2>1. \E k \in at : \A j \in at : k <= j
    BY <1>2, LeastExists
  <2>2. QED  BY <2>1 DEF NextRequest
<1> HIDE DEF at
<1>4. NextRequest(n) \in n..Len(store) + 1
  BY <1>2, <1>3
<1>5. ASSUME NEW k \in n..NextRequest(n) - 1, store[k] # Admin PROVE FALSE
  <2>1. k \in at
    BY <1>1, <1>4, <1>5 DEF at
  <2>2. QED  BY <1>1, <1>3, <1>4, <2>1
<1>6. NextRequest(n) <= Len(store) => store[NextRequest(n)] # Admin
  BY <1>1, <1>3, <1>4 DEF at
<1>7. QED  BY <1>4, <1>5, <1>6

\* R answers for the numbers from b to n.
ChainTo(R, b, n) ==
    /\ R \in Seq(Message)
    /\ \A i \in 1..Len(R) : R[i].dup /\ Reflects(R[i]) /\ R[i].seq <= n
    /\ \A i \in 1..Len(R) - 1 : R[i + 1].seq = Following(R[i])
    /\ \A i, j \in 1..Len(R) : i < j => Following(R[i]) <= R[j].seq
    /\ Len(R) > 0 => R[1].seq = b
    /\ n >= b => /\ Len(R) > 0
                 /\ n < Following(R[Len(R)])
                 /\ \/ R[Len(R)].kind = "request"
                    \/ /\ R[Len(R)].kind = "gapFill"
                       /\ R[Len(R)].arg = NextRequest(R[Len(R)].seq)

\* What message n becomes in an answer that begins at b.
LEMMA AgainFacts ==
    ASSUME TypeOK, NEW b \in 1..Len(store), NEW n \in b..Len(store)
    PROVE  /\ Again(b, n) \in Seq(Message)
           /\ store[n] # Admin =>
                Again(b, n) = <<[kind |-> "request", seq |-> n, dup |-> TRUE,
                                 arg |-> store[n]]>>
           /\ store[n] = Admin /\ (n = b \/ store[n - 1] # Admin) =>
                Again(b, n) = <<[kind |-> "gapFill", seq |-> n, dup |-> TRUE,
                                 arg |-> NextRequest(n)]>>
           /\ store[n] = Admin /\ n # b /\ store[n - 1] = Admin =>
                Again(b, n) = <<>>
<1>1. Len(store) \in Nat /\ n \in Nat /\ n \in 1..Len(store)
  BY LenProperties DEF TypeOK
<1>2. store[n] \in Nat
  BY <1>1, ElementOfSeq DEF TypeOK
<1>3. NextRequest(n) \in Nat
  BY <1>1, NextRequestFacts
<1>4. [kind |-> "request", seq |-> n, dup |-> TRUE, arg |-> store[n]] \in Message
  BY <1>1, <1>2 DEF Message, Kinds
<1>5. [kind |-> "gapFill", seq |-> n, dup |-> TRUE, arg |-> NextRequest(n)]
        \in Message
  BY <1>1, <1>3 DEF Message, Kinds
<1>6. CASE store[n] # Admin
  <2>1. Again(b, n) = <<[kind |-> "request", seq |-> n, dup |-> TRUE,
                         arg |-> store[n]]>>
    BY <1>6 DEF Again, Stored
  <2>2. QED  BY <1>4, <1>6, <2>1
<1>7. CASE store[n] = Admin /\ (n = b \/ store[n - 1] # Admin)
  <2>1. Again(b, n) = <<[kind |-> "gapFill", seq |-> n, dup |-> TRUE,
                         arg |-> NextRequest(n)]>>
    BY <1>7 DEF Again
  <2>2. QED  BY <1>5, <1>7, <2>1
<1>8. CASE store[n] = Admin /\ n # b /\ store[n - 1] = Admin
  <2>1. Again(b, n) = <<>>
    BY <1>8 DEF Again
  <2>2. QED  BY <1>8, <2>1, EmptySeq
<1>9. QED  BY <1>6, <1>7, <1>8

\* A message put at the end of an answer for the numbers before it.
LEMMA ChainGrows ==
    ASSUME TypeOK, NEW b \in 1..Len(store), NEW n \in b..Len(store),
           NEW R, ChainTo(R, b, n - 1),
           NEW m \in Message, m.dup, Reflects(m), m.seq = n,
           n > b => Following(R[Len(R)]) = n,
           n = b => Len(R) = 0,
           m.kind = "request" \/ (m.kind = "gapFill" /\ m.arg = NextRequest(n))
    PROVE  ChainTo(R \o <<m>>, b, n)
<1> DEFINE T == R \o <<m>>
<1>1. Len(store) \in Nat /\ n \in Nat /\ R \in Seq(Message)
  BY LenProperties DEF TypeOK, ChainTo
<1>2. /\ T \in Seq(Message)
      /\ Len(R) \in Nat
      /\ Len(T) = Len(R) + 1
      /\ \A i \in 1..Len(R) : T[i] = R[i]
      /\ T[Len(R) + 1] = m
  <2>1. <<m>> \in Seq(Message) /\ Len(<<m>>) = 1 /\ <<m>>[1] = m
    OBVIOUS
  <2>2. QED  BY <1>1, <2>1, Joined
<1> HIDE DEF T
<1>3. \A i \in 1..Len(T) : i \in 1..Len(R) \/ i = Len(R) + 1
  BY <1>2
<1>4. \A i \in 1..Len(T) : T[i].dup /\ Reflects(T[i]) /\ T[i].seq <= n
  <2>1. \A i \in 1..Len(R) : R[i].dup /\ Reflects(R[i]) /\ R[i].seq <= n
    <3>1. \A i \in 1..Len(R) : R[i].dup /\ Reflects(R[i]) /\ R[i].seq <= n - 1
      BY DEF ChainTo
    <3>2. \A i \in 1..Len(R) : R[i].seq \in Nat
      BY <1>1, Numbers
    <3>3. QED  BY <1>1, <3>1, <3>2
  <2>2. QED  BY <1>1, <1>2, <1>3, <2>1
<1>5. \A i \in 1..Len(R) : Following(R[i]) <= n
  <2>1. ASSUME NEW i \in 1..Len(R), i < Len(R) PROVE Following(R[i]) <= n
    <3>1. Len(R) \in 1..Len(R) /\ i \in 1..Len(R) /\ i < Len(R)
      BY <1>2, <2>1
    <3>2. Following(R[i]) <= R[Len(R)].seq /\ R[Len(R)].seq <= n - 1
      BY <3>1 DEF ChainTo
    <3>3. Following(R[i]) \in Nat /\ R[Len(R)].seq \in Nat
      BY <1>1, <3>1, Numbers
    <3>4. QED  BY <1>1, <3>2, <3>3
  <2>2. n = b => Len(R) = 0
    OBVIOUS
  <2>3. Len(R) > 0 => Following(R[Len(R)]) <= n
    BY <1>1, <2>2
  <2>4. QED  BY <1>2, <2>1, <2>3
<1>6. \A i \in 1..Len(T) - 1 : T[i + 1].seq = Following(T[i])
  <2>1. ASSUME NEW i \in 1..Len(R), i < Len(R)
        PROVE  T[i + 1].seq = Following(T[i])
    <3>1. i + 1 \in 1..Len(R) /\ i \in 1..Len(R) - 1
      BY <1>2, <2>1
    <3>2. QED  BY <1>2, <3>1 DEF ChainTo
  <2>2. Len(R) > 0 => T[Len(R) + 1].seq = Following(T[Len(R)])
    <3>1. Len(R) > 0 => Len(R) \in 1..Len(R) /\ n > b
      BY <1>1, <1>2
    <3>2. QED  BY <1>2, <3>1
  <2>3. QED  BY <1>2, <2>1, <2>2
<1>7. \A i, j \in 1..Len(T) : i < j => Following(T[i]) <= T[j].seq
  <2>1. ASSUME NEW i \in 1..Len(T), NEW j \in 1..Len(T), i < j
        PROVE  Following(T[i]) <= T[j].seq
    <3>1. i \in 1..Len(R)
      BY <1>2, <1>3, <2>1
    <3>2. CASE j \in 1..Len(R)
      BY <1>2, <2>1, <3>1, <3>2 DEF ChainTo
    <3>3. CASE j = Len(R) + 1
      BY <1>2, <1>5, <3>1, <3>3
    <3>4. QED  BY <1>3, <3>2, <3>3
  <2>2. QED  BY <2>1
<1>8. T[1].seq = b
  <2>1. CASE Len(R) = 0
    <3>1. n = b
      BY <1>1, <2>1 DEF ChainTo
    <3>2. QED  BY <1>2, <2>1, <3>1
  <2>2. CASE Len(R) # 0
    <3>1. Len(R) > 0 /\ 1 \in 1..Len(R)
      BY <1>2, <2>2
    <3>2. QED  BY <1>2, <3>1 DEF ChainTo
  <2>3. QED  BY <2>1, <2>2
<1>9. n < Following(m)
  BY <1>1 DEF Reflects
<1>10. ChainTo(T, b, n)
  BY <1>2, <1>4, <1>6, <1>7, <1>8, <1>9 DEF ChainTo
<1>11. QED  BY <1>10 DEF T
\* One turn of the loop that answers.
LEMMA ChainStep ==
    ASSUME TypeOK, NEW b \in 1..Len(store), NEW n \in b..Len(store),
           NEW R, ChainTo(R, b, n - 1), n = b => R = <<>>
    PROVE  ChainTo(R \o Again(b, n), b, n)
<1>1. /\ Len(store) \in Nat /\ n \in Nat /\ b \in Nat /\ n \in 1..Len(store)
      /\ R \in Seq(Message) /\ Len(R) \in Nat
  BY LenProperties DEF TypeOK, ChainTo
<1>2. n = b => Len(R) = 0
  BY EmptySeq
<1> DEFINE last == R[Len(R)]
<1>3. n > b => /\ Len(R) \in 1..Len(R)
               /\ last \in Message
               /\ Reflects(last)
               /\ last.seq <= n - 1 /\ n - 1 < Following(last)
               /\ \/ last.kind = "request"
                  \/ (last.kind = "gapFill" /\ last.arg = NextRequest(last.seq))
  <2> SUFFICES ASSUME n > b
               PROVE  /\ Len(R) \in 1..Len(R)
                      /\ last \in Message
                      /\ Reflects(last)
                      /\ last.seq <= n - 1 /\ n - 1 < Following(last)
                      /\ \/ last.kind = "request"
                         \/ /\ last.kind = "gapFill"
                            /\ last.arg = NextRequest(last.seq)
    OBVIOUS
  <2>1. n - 1 >= b
    BY <1>1
  <2>2. Len(R) > 0 /\ n - 1 < Following(last)
        /\ \/ last.kind = "request"
           \/ (last.kind = "gapFill" /\ last.arg = NextRequest(last.seq))
    BY <2>1 DEF ChainTo
  <2>3. Len(R) \in 1..Len(R)
    BY <1>1, <2>2
  <2>4. last \in Message
    BY <1>1, <2>3, Numbers
  <2>5. Reflects(last) /\ last.seq <= n - 1
    BY <2>3 DEF ChainTo
  <2>6. QED  BY <2>2, <2>3, <2>4, <2>5
<1> HIDE DEF last
<1>4. n > b => /\ last.seq \in Nat /\ Following(last) \in Nat
               /\ last.seq \in 1..Len(store)
               /\ last.kind = "request" =>
                     last.seq = n - 1 /\ store[n - 1] # Admin
               /\ last.kind # "request" =>
                     \A k \in last.seq..Following(last) - 1 : store[k] = Admin
               /\ last.kind # "gapFill" => last.seq = n - 1
  <2> SUFFICES ASSUME n > b
               PROVE  /\ last.seq \in Nat /\ Following(last) \in Nat
                      /\ last.seq \in 1..Len(store)
                      /\ last.kind = "request" =>
                            last.seq = n - 1 /\ store[n - 1] # Admin
                      /\ last.kind # "request" =>
                            \A k \in last.seq..Following(last) - 1 : store[k] = Admin
                      /\ last.kind # "gapFill" => last.seq = n - 1
    OBVIOUS
  <2>1. last.seq \in Nat /\ Following(last) \in Nat
    BY <1>3, Numbers
  <2>2. last.kind # "gapFill" => last.seq = n - 1
    BY <1>1, <1>3, <2>1 DEF Following
  <2>3. QED  BY <1>3, <2>1, <2>2 DEF Reflects
<1>5. CASE store[n] # Admin
  <2> DEFINE m == [kind |-> "request", seq |-> n, dup |-> TRUE, arg |-> store[n]]
  <2>1. Again(b, n) = <<m>>
    BY <1>5, AgainFacts
  <2>2. store[n] \in Nat
    BY <1>1, ElementOfSeq DEF TypeOK
  <2>3. m \in Message /\ Reflects(m) /\ m.dup /\ m.seq = n /\ m.kind = "request"
    BY <1>1, <1>5, <2>2 DEF Message, Kinds, Reflects, Following
  <2>4. n > b => Following(last) = n
    <3> SUFFICES ASSUME n > b PROVE Following(last) = n
      OBVIOUS
    <3>1. CASE last.kind = "request"
      BY <1>1, <1>3, <1>4, <3>1 DEF Following
    <3>2. CASE last.kind # "request"
      <4>1. ~(n \in last.seq..Following(last) - 1)
        BY <1>4, <1>5, <3>2
      <4>2. QED  BY <1>1, <1>3, <1>4, <4>1
    <3>3. QED  BY <3>1, <3>2
  <2> HIDE DEF m
  <2>5. /\ m.kind = "request" \/ (m.kind = "gapFill" /\ m.arg = NextRequest(n))
        /\ n > b => Following(R[Len(R)]) = n
    BY <2>3, <2>4 DEF last
  <2>6. ChainTo(R \o <<m>>, b, n)
    BY <1>2, <2>3, <2>5, ChainGrows
  <2>7. QED  BY <2>1, <2>6
<1>6. CASE store[n] = Admin /\ (n = b \/ store[n - 1] # Admin)
  <2> DEFINE m == [kind |-> "gapFill", seq |-> n, dup |-> TRUE,
                   arg |-> NextRequest(n)]
  <2>1. Again(b, n) = <<m>>
    BY <1>6, AgainFacts
  <2>2. /\ NextRequest(n) \in n + 1..Len(store) + 1
        /\ \A k \in n..NextRequest(n) - 1 : store[k] = Admin
    <3>1. /\ NextRequest(n) \in n..Len(store) + 1
          /\ \A k \in n..NextRequest(n) - 1 : store[k] = Admin
          /\ NextRequest(n) <= Len(store) => store[NextRequest(n)] # Admin
      BY <1>1, NextRequestFacts
    <3>2. NextRequest(n) # n
      BY <1>1, <1>6, <3>1
    <3>3. QED  BY <1>1, <3>1, <3>2
  <2>3. m \in Message /\ Reflects(m) /\ m.dup /\ m.seq = n
        /\ m.kind = "gapFill" /\ m.arg = NextRequest(n)
    BY <1>1, <1>6, <2>2 DEF Message, Kinds, Reflects, Following
  <2>4. n > b => Following(last) = n
    <3> SUFFICES ASSUME n > b PROVE Following(last) = n
      OBVIOUS
    <3>1. store[n - 1] # Admin
      BY <1>1, <1>6
    <3>2. n - 1 \in last.seq..Following(last) - 1
      BY <1>1, <1>3, <1>4
    <3>3. last.kind = "request"
      BY <1>4, <3>1, <3>2
    <3>4. QED  BY <1>1, <1>4, <3>3 DEF Following
  <2> HIDE DEF m
  <2>5. ChainTo(R \o <<m>>, b, n)
    BY <1>2, <2>3, <2>4, ChainGrows DEF last
  <2>6. QED  BY <2>1, <2>5
<1>7. CASE store[n] = Admin /\ n # b /\ store[n - 1] = Admin
  <2>1. Again(b, n) = <<>> /\ R \o <<>> = R
    BY <1>1, <1>7, AgainFacts, ConcatEmptySeq
  <2>2. n > b
    BY <1>1, <1>7
  <2>3. last.kind # "request"
    BY <1>4, <1>7, <2>2
  <2>4. last.kind = "gapFill" /\ Following(last) = NextRequest(last.seq)
    BY <1>3, <2>2, <2>3 DEF Following
  <2>5. n < Following(last)
    <3>1. n - 1 < Following(last) /\ Following(last) \in Nat
          /\ last.seq \in 1..Len(store)
      BY <1>3, <1>4, <2>2
    <3>2. NextRequest(last.seq) <= Len(store) => store[NextRequest(last.seq)] # Admin
      BY <3>1, NextRequestFacts
    <3>3. Following(last) # n
      BY <1>1, <1>7, <2>4, <3>2
    <3>4. QED  BY <1>1, <3>1, <3>3
  <2>6. \A i \in 1..Len(R) : R[i].seq <= n
    <3>1. \A i \in 1..Len(R) : R[i].seq <= n - 1 /\ R[i].seq \in Nat
      BY <1>1, Numbers DEF ChainTo
    <3>2. QED  BY <1>1, <3>1
  <2>7. ChainTo(R, b, n)
    <3>1. Len(R) > 0
      BY <1>1, <1>3, <2>2
    <3>2. QED  BY <2>4, <2>5, <2>6, <3>1, <1>3, <2>2 DEF ChainTo, last
  <2>8. QED  BY <2>1, <2>7
<1>8. QED  BY <1>5, <1>6, <1>7
\* What is made in such turns, from nothing, answers for all that is stored.
LEMMA ChainMade ==
    ASSUME TypeOK, NEW b \in 1..Len(store), NEW f, f[b - 1] = <<>>,
           \A n \in b..Len(store) : f[n] = f[n - 1] \o Again(b, n)
    PROVE  ChainTo(f[Len(store)], b, Len(store))
<1> DEFINE Done == {n \in b..Len(store) : ChainTo(f[n], b, n)}
<1>1. Len(store) \in Int /\ b \in Int /\ b <= Len(store)
  BY LenProperties DEF TypeOK
<1>2. b \in Done
  <2>1. ChainTo(<<>>, b, b - 1)
    BY <1>1, EmptySeq DEF ChainTo
  <2>2. b \in b..Len(store)
    BY <1>1
  <2>3. f[b] = f[b - 1] \o Again(b, b)
    BY <2>2
  <2>4. QED  BY <2>1, <2>2, <2>3, ChainStep
<1>3. ASSUME NEW n \in b..Len(store) - 1, n \in Done PROVE n + 1 \in Done
  <2> DEFINE k == n + 1
  <2>1. k \in b..Len(store) /\ k - 1 = n /\ k # b
    BY <1>1
  <2> HIDE DEF k
  <2>2. f[k] = f[n] \o Again(b, k)
    BY <2>1
  <2>3. ChainTo(f[n], b, k - 1)
    BY <1>3, <2>1
  <2>4. ChainTo(f[n] \o Again(b, k), b, k)
    BY <2>1, <2>3, ChainStep
  <2>5. k \in Done
    BY <2>1, <2>2, <2>4
  <2>6. QED  BY <2>5 DEF k
<1> HIDE DEF Done
<1>4. b..Len(store) \subseteq Done
  BY <1>1, <1>2, <1>3, Steps, Zenon
<1>5. QED  BY <1>1, <1>4 DEF Done

\* The client's answer to a ResendRequest, by recursion over the store.
LEMMA ResentFacts ==
    ASSUME TypeOK, NEW b \in 1..Len(store)
    PROVE  ChainTo(Resent(b), b, Len(store))
<1> DEFINE M == Seq(Message)
           Turn == [R \in M |-> [n \in b - 1 + 1..Len(store) |-> R \o Again(b, n)]]
           Body(f) == [n \in b - 1..Len(store) |->
                          IF n < b THEN <<>> ELSE f[n - 1] \o Again(b, n)]
           upTo == CHOOSE f : f = Body(f)
<1>1. Len(store) \in Nat /\ b \in Nat /\ b - 1 \in Int /\ b - 1 <= Len(store)
  BY LenProperties DEF TypeOK
<1>2. \A n \in b..Len(store) : Again(b, n) \in M
  BY AgainFacts
<1>3. b - 1 + 1 = b /\ <<>> \in M
  BY <1>1, EmptySeq
<1>4. Turn \in [M -> [b - 1 + 1..Len(store) -> M]]
  <2>1. \A R \in M, n \in b..Len(store) : R \o Again(b, n) \in M
    BY <1>2, ConcatProperties
  <2>2. QED  BY <1>3, <2>1
<1>5. PICK f : Unfolds(f, b - 1, Len(store), M, <<>>, Turn)
  <2> HIDE DEF M, Turn
  <2>1. Len(store) \in Int /\ b - 1 \in Int /\ b - 1 <= Len(store) /\ <<>> \in M
    BY <1>1, <1>3
  <2>2. QED  BY <1>4, <2>1, RecursionExists, Zenon
<1>6. /\ f \in [b - 1..Len(store) -> M]
      /\ f[b - 1] = <<>>
      /\ \A n \in b..Len(store) : f[n] = f[n - 1] \o Again(b, n)
  <2>1. \A n \in b..Len(store) : n - 1 \in b - 1..Len(store)
    BY <1>1
  <2>2. \A n \in b..Len(store) : f[n] = Turn[f[n - 1]][n] /\ f[n - 1] \in M
    BY <1>3, <1>5, <2>1 DEF Unfolds
  <2>3. QED  BY <1>3, <1>5, <2>2 DEF Unfolds
<1>7. f = Body(f)
  <2>1. ASSUME NEW n \in b - 1..Len(store)
        PROVE  f[n] = IF n < b THEN <<>> ELSE f[n - 1] \o Again(b, n)
    <3>1. IF n < b THEN n = b - 1 ELSE n \in b..Len(store)
      BY <1>1
    <3>2. QED  BY <1>6, <3>1
  <2>2. QED  BY <1>6, <2>1
<1>8. upTo = Body(upTo)
  <2> HIDE DEF Body
  <2>1. QED  BY <1>7
<1>9. /\ upTo[b - 1] = <<>>
      /\ \A n \in b..Len(store) : upTo[n] = upTo[n - 1] \o Again(b, n)
  <2>1. \A n \in b - 1..Len(store) :
           upTo[n] = IF n < b THEN <<>> ELSE upTo[n - 1] \o Again(b, n)
    <3> HIDE DEF upTo
    <3>1. QED  BY <1>8
  <2> HIDE DEF upTo, Body
  <2>2. b - 1 \in b - 1..Len(store) /\ b - 1 < b
    BY <1>1
  <2>3. \A n \in b..Len(store) : n \in b - 1..Len(store) /\ ~(n < b)
    BY <1>1
  <2>4. QED  BY <2>1, <2>2, <2>3
<1>10. Resent(b) = upTo[Len(store)]
  BY DEF Resent
<1> HIDE DEF upTo, Body, Turn, M
<1>11. ChainTo(upTo[Len(store)], b, Len(store))
  BY <1>9, ChainMade
<1>12. QED  BY <1>10, <1>11

-----------------------------------------------------------------------------
(* How the actions move the store, the wire and the queue. *)

\* One number is given out, for a message that is sent if somebody listens.
Sends(kind, x) ==
    /\ store' = Append(store, x)
    /\ \/ toVenue' = toVenue
       \/ toVenue' = Append(toVenue, New(kind, Len(store) + 1, x))
    /\ kind \in {"logon", "admin", "request"}
    /\ x \in Nat
    /\ kind = "request" <=> x # Admin

\* Nothing is sent; what was on the wire is read from its front, or lost.
Reads ==
    /\ store' = store
    /\ \/ toVenue' = <<>>
       \/ toVenue' = toVenue
       \/ toVenue # <<>> /\ toVenue' = Tail(toVenue)
    /\ \/ queue' \subseteq queue
       \/ toVenue # <<>> /\ queue' \subseteq queue \cup {Head(toVenue)}

\* Two ways to put an element at the end.
LEMMA Appended ==
    ASSUME NEW S, NEW s \in Seq(S), NEW e
    PROVE  s \o <<e>> = Append(s, e)
OBVIOUS

\* The answer to a Logon, and the ResendRequest that may follow it.
LEMMA BothJoined ==
    ASSUME NEW a, NEW b
    PROVE  /\ <<>> \o <<a>> \o <<b>> = <<a, b>>
           /\ <<>> \o <<>> \o <<b>> = <<b>>
           /\ <<a>> \o <<>> \o <<b>> = <<a, b>>
<1>1. <<a>> \in Seq({a, b}) /\ <<b>> \in Seq({a, b})
  OBVIOUS
<1>2. <<a>> \o <<b>> = Append(<<a>>, b)
  BY <1>1, Appended
<1>3. Append(<<a>>, b) = <<a, b>>
  <2> DEFINE s == Append(<<a>>, b)
             t == <<a, b>>
  <2>1. s \in Seq({a, b}) /\ Len(s) = 2 /\ s[1] = a /\ s[2] = b
    BY <1>1, AppendProperties
  <2>2. t \in Seq({a, b}) /\ Len(t) = 2 /\ t[1] = a /\ t[2] = b
    OBVIOUS
  <2> HIDE DEF s, t
  <2>3. \A i \in 1..Len(s) : s[i] = t[i]
    BY <2>1, <2>2
  <2>4. s = t
    BY <2>1, <2>2, <2>3, SeqEqual
  <2>5. QED  BY <2>4 DEF s, t
<1>4. <<>> \o <<a>> = <<a>> /\ <<a>> \o <<>> = <<a>> /\ <<>> \o <<b>> = <<b>>
  BY <1>1, ConcatEmptySeq
<1>5. <<>> \o <<>> = <<>>
  <2>1. <<>> \in Seq({a})
    BY EmptySeq
  <2>2. QED  BY <2>1, ConcatEmptySeq
<1>6. QED  BY <1>2, <1>3, <1>4, <1>5

\* A request is numbered and stored, and sent if there is a session.
LEMMA RequestSends ==
    ASSUME TypeOK, Request
    PROVE  Sends("request", sent + 1) /\ queue' = queue
<1>1. store \in Seq(Nat) /\ toVenue \in Seq(Message) /\ sent \in Nat
      /\ Len(store) \in Nat
  BY LenProperties DEF TypeOK
<1>2. sent + 1 \in Nat /\ sent + 1 # Admin
  BY <1>1 DEF Admin
<1>3. store' = Append(store, sent + 1) /\ Len(store') = Len(store) + 1
  BY <1>1, <1>2, Extended DEF Request
<1>4. toVenue' = toVenue
      \/ toVenue' = Append(toVenue, New("request", Len(store) + 1, sent + 1))
  BY <1>1, <1>3, Appended DEF Request, Transmit
<1>5. QED  BY <1>2, <1>3, <1>4 DEF Sends, Request, venueVars

\* So is a heartbeat,
LEMMA HeartbeatSends ==
    ASSUME TypeOK, Heartbeat
    PROVE  Sends("admin", Admin) /\ queue' = queue
<1>1. store \in Seq(Nat) /\ toVenue \in Seq(Message) /\ Len(store) \in Nat
      /\ Admin \in Nat
  BY LenProperties DEF TypeOK, Admin
<1>2. store' = Append(store, Admin) /\ Len(store') = Len(store) + 1
  BY <1>1, Extended DEF Heartbeat
<1>3. toVenue' = toVenue
      \/ toVenue' = Append(toVenue, New("admin", Len(store) + 1, Admin))
  BY <1>1, <1>2, Appended DEF Heartbeat, Transmit, Admin
<1>4. QED  BY <1>1, <1>2, <1>3 DEF Sends, Heartbeat, venueVars

\* and a Logon that resets nothing;
LEMMA LogonSends ==
    ASSUME TypeOK, SendLogon, ~reset
    PROVE  Sends("logon", Admin) /\ queue' = queue
<1>1. store \in Seq(Nat) /\ toVenue \in Seq(Message) /\ Len(store) \in Nat
      /\ Admin \in Nat
  BY LenProperties DEF TypeOK, Admin
<1>2. store' = Append(store, Admin) /\ Len(store') = Len(store) + 1
  BY <1>1, Extended DEF SendLogon
<1>3. toVenue' = toVenue
      \/ toVenue' = Append(toVenue, New("logon", Len(store) + 1, Admin))
  BY <1>1, <1>2, Appended DEF SendLogon, Transmit, Admin
<1>4. QED  BY <1>1, <1>2, <1>3 DEF Sends, SendLogon, venueVars

\* one that does leaves nothing but itself in the store.
LEMMA ResetSends ==
    ASSUME SessionInv, SendLogon, reset
    PROVE  /\ store' = <<Admin>> /\ Len(store') = 1
           /\ toVenue' \in {<<>>, <<New("reset", 1, Admin)>>}
           /\ queue = {} /\ queue' = {}
<1>1. toVenue = <<>> /\ queue = {}
  BY DEF SessionInv, ConnectionShape, SendLogon
<1>2. store' = <<Admin>> /\ Len(store') = 1
  BY DEF SendLogon
<1>3. QED  BY <1>1, <1>2 DEF SendLogon, Transmit, venueVars, Admin

\* A ResendRequest is answered when it is the only one, for what is stored.
LEMMA AnswerFacts ==
    ASSUME SessionInv, AnswerResend
    PROVE  /\ venue = "loggedOn" /\ AskedAgain
           /\ toClient = <<expected>> /\ Tail(toClient) = <<>>
           /\ expected \in 1..Len(store)
           /\ ChainTo(Resent(expected), expected, Len(store))
           /\ Len(Resent(expected)) > 0
           /\ toVenue' = toVenue \o Resent(expected)
<1>1. venue = "loggedOn"
  BY DEF SessionInv, ConnectionShape, AnswerResend
<1>2. expected \in Nat \ {0} /\ Len(store) \in Nat
  BY LenProperties DEF SessionInv, TypeOK
<1>3. AskedAgain /\ toClient = <<expected>>
  BY <1>1, <1>2 DEF SessionInv, OneResend, Linked, NoGapSeen, AskedAgain, Answered,
                    AnswerResend, LogonAnswer
<1>4. expected \in 1..Len(store)
  <2>1. PICK m \in queue : TRUE
    BY <1>3 DEF AskedAgain
  <2>2. m.seq > expected /\ m.seq \in 1..Len(store)
    BY <1>3 DEF AskedAgain, Queued, SessionInv, WireReflectsStore, Reflects
  <2>3. QED  BY <1>2, <2>2
<1>5. ChainTo(Resent(expected), expected, Len(store))
  BY <1>4, ResentFacts DEF SessionInv
<1>6. Len(Resent(expected)) > 0
  BY <1>2, <1>4, <1>5 DEF ChainTo
<1>7. QED  BY <1>1, <1>3, <1>4, <1>5, <1>6 DEF AnswerResend, Transmit

\* The other steps read from the wire or lose it, and store nothing.
LEMMA OthersRead ==
    ASSUME TypeOK,
           \/ Connect \/ ReceiveLogon \/ ClientNotices \/ AcceptLogon \/ Receive
           \/ NextQueued \/ VenueNotices \/ ClientDrops \/ ClientRestarts
           \/ VenueDrops \/ VenueDiesHandling
    PROVE  Reads
<1>1. CASE Connect \/ ReceiveLogon \/ ClientNotices \/ ClientDrops
           \/ ClientRestarts
  BY <1>1 DEF Connect, ReceiveLogon, ClientNotices, ClientDrops, ClientRestarts,
              ClientCloses, Reads, venueVars
<1>2. CASE AcceptLogon
  BY <1>2 DEF AcceptLogon, Refuse, AskAgain, Reads, clientVars
<1>3. CASE Receive
  BY <1>3 DEF Receive, Refuse, AskAgain, Reads, clientVars, venueVars
<1>4. CASE NextQueued
  BY <1>4 DEF NextQueued, Reads, clientVars
<1>5. CASE VenueNotices \/ VenueDrops \/ VenueDiesHandling
  BY <1>5 DEF VenueNotices, VenueDrops, VenueDiesHandling, VenueCloses, Reads,
              clientVars
<1>6. QED  BY <1>1, <1>2, <1>3, <1>4, <1>5

-----------------------------------------------------------------------------
(* What is sent says what is stored. *)

\* A message goes on saying so when something is stored behind it.
LEMMA StillReflects ==
    ASSUME TypeOK, NEW x \in Nat, store' = Append(store, x),
           NEW m \in Message, Reflects(m)
    PROVE  Reflects(m)'
<1>1. /\ Len(store) \in Nat /\ Len(store') = Len(store) + 1
      /\ \A n \in 1..Len(store) : store'[n] = store[n]
  BY Extended DEF TypeOK
<1>2. m.seq \in Nat /\ Following(m) \in Nat
  BY Numbers
<1>3. Following(m)' = Following(m)
  BY DEF Following
<1>4. QED  BY <1>1, <1>2, <1>3 DEF Reflects

\* A new message says what the store says of its number.
LEMMA SentReflects ==
    ASSUME TypeOK, NEW kind, NEW x, Sends(kind, x),
           NEW m, m = New(kind, Len(store) + 1, x)
    PROVE  /\ m \in Message /\ m.kind \notin {"reset", "gapFill"} /\ ~m.dup
           /\ Reflects(m)'
           /\ m.seq = Len(store) + 1 /\ Following(m) = Len(store) + 2
<1>1. /\ Len(store) \in Nat /\ Len(store') = Len(store) + 1
      /\ store'[Len(store) + 1] = x /\ x \in Nat
  BY Extended DEF TypeOK, Sends
<1>2. kind \in {"logon", "admin", "request"}
  BY DEF Sends
<1>3. /\ m \in Message /\ m.seq = Len(store) + 1 /\ m.arg = x
      /\ m.kind = kind /\ ~m.dup
  BY <1>1, <1>2 DEF New, Message, Kinds
<1>4. Following(m) = Len(store) + 2 /\ Following(m)' = Len(store) + 2
  BY <1>1, <1>2, <1>3 DEF Following
<1>5. IF kind = "request" THEN x # Admin ELSE x = Admin
  BY DEF Sends
<1>6. \A n \in m.seq..Following(m)' - 1 : n = Len(store) + 1
  BY <1>1, <1>3, <1>4
<1>7. m.seq \in 1..Len(store') /\ Following(m)' \in m.seq + 1..Len(store') + 1
  BY <1>1, <1>3, <1>4
<1>8. Reflects(m)'
  BY <1>1, <1>3, <1>5, <1>6, <1>7 DEF Reflects
<1>9. QED  BY <1>2, <1>3, <1>4, <1>8

\* The two ways a step leaves the wire.
LEMMA WireAfterSend ==
    ASSUME TypeOK, NEW kind, NEW x, Sends(kind, x)
    PROVE  /\ Len(toVenue) \in Nat /\ Len(toVenue') \in Nat
           /\ \/ Len(toVenue') = Len(toVenue)
              \/ /\ Len(toVenue') = Len(toVenue) + 1
                 /\ toVenue'[Len(toVenue) + 1] = New(kind, Len(store) + 1, x)
           /\ \A i \in 1..Len(toVenue) : toVenue'[i] = toVenue[i]
           /\ toVenue' \in Seq(Message)
<1>1. toVenue \in Seq(Message) /\ New(kind, Len(store) + 1, x) \in Message
  BY SentReflects DEF TypeOK
<1>2. CASE toVenue' = toVenue
  BY <1>1, <1>2, LenProperties
<1>3. CASE toVenue' = Append(toVenue, New(kind, Len(store) + 1, x))
  BY <1>1, <1>3, Extended
<1>4. QED  BY <1>2, <1>3 DEF Sends

\* What is on the wire after one message is read, or none, or all are lost.
LEMMA WireAfterRead ==
    ASSUME TypeOK, Reads
    PROVE  /\ Len(toVenue) \in Nat /\ Len(toVenue') \in Nat
           /\ \/ Len(toVenue') = 0
              \/ /\ Len(toVenue') = Len(toVenue)
                 /\ \A i \in 1..Len(toVenue') : toVenue'[i] = toVenue[i]
              \/ /\ Len(toVenue') = Len(toVenue) - 1
                 /\ \A i \in 1..Len(toVenue') : toVenue'[i] = toVenue[i + 1]
           /\ toVenue' \in Seq(Message)
<1>1. toVenue \in Seq(Message) /\ Len(toVenue) \in Nat
  BY LenProperties DEF TypeOK
<1>2. CASE toVenue' = <<>>
  BY <1>1, <1>2, EmptySeq
<1>3. CASE toVenue' = toVenue
  BY <1>1, <1>3
<1>4. CASE toVenue # <<>> /\ toVenue' = Tail(toVenue)
  BY <1>1, <1>4, FirstTaken
<1>5. QED  BY <1>2, <1>3, <1>4 DEF Reads

\* Every step keeps the wire and the queue saying what the store says.
LEMMA ReflectStep ==
    ASSUME SessionInv, [Next]_vars
    PROVE  WireReflectsStore'
<1>0. TypeOK /\ WireReflectsStore
  BY DEF SessionInv
<1>1. /\ \A m \in queue : m \in Message
      /\ \A i \in 1..Len(toVenue) : toVenue[i] \in Message
  BY <1>0, Numbers DEF TypeOK
<1>2. ASSUME NEW kind, NEW x, Sends(kind, x), queue' = queue
      PROVE  WireReflectsStore'
  <2>1. ASSUME NEW m \in Message, Reflects(m) PROVE Reflects(m)'
    BY <1>0, <1>2, <2>1, StillReflects DEF Sends
  <2>2. \A m : m = New(kind, Len(store) + 1, x) => Reflects(m)'
    BY <1>0, <1>2, SentReflects
  <2>3. \A i \in 1..Len(toVenue') : i \in 1..Len(toVenue)
           \/ toVenue'[i] = New(kind, Len(store) + 1, x)
    BY <1>0, <1>2, WireAfterSend
  <2>4. \A i \in 1..Len(toVenue) : toVenue'[i] = toVenue[i]
    BY <1>0, <1>2, WireAfterSend
  <2>5. ASSUME NEW i \in 1..Len(toVenue'), NEW m, m = toVenue'[i]
        PROVE  Reflects(m)'
    <3>1. i \in 1..Len(toVenue) => m \in Message /\ Reflects(m)
      BY <1>0, <1>1, <2>4, <2>5 DEF WireReflectsStore
    <3>2. QED  BY <2>1, <2>2, <2>3, <2>5, <3>1
  <2>6. \A m \in queue' : Reflects(m)'
    BY <1>0, <1>1, <1>2, <2>1 DEF WireReflectsStore
  <2>7. QED  BY <2>5, <2>6 DEF WireReflectsStore
<1>3. ASSUME Reads PROVE WireReflectsStore'
  <2>1. \A m : Reflects(m)' <=> Reflects(m)
    BY <1>3 DEF Reflects, Following, Reads
  <2>2. \A i \in 1..Len(toVenue') :
           \E j \in 1..Len(toVenue) : toVenue'[i] = toVenue[j]
    BY <1>0, <1>3, WireAfterRead
  <2>3. toVenue # <<>> => \E j \in 1..Len(toVenue) : Head(toVenue) = toVenue[j]
    BY <1>0, FirstTaken DEF TypeOK
  <2>4. \A m \in queue' : m \in queue
           \/ \E j \in 1..Len(toVenue) : m = toVenue[j]
    BY <1>3, <2>3 DEF Reads
  <2>5. QED  BY <1>0, <2>1, <2>2, <2>4 DEF WireReflectsStore
<1>4. CASE SendLogon /\ reset
  BY <1>4, ResetSends DEF WireReflectsStore, Reflects, Following, New
<1>5. CASE AnswerResend
  <2>1. toVenue \in Seq(Message) /\ Resent(expected) \in Seq(Message)
        /\ toVenue' = toVenue \o Resent(expected)
    BY <1>0, <1>5, AnswerFacts DEF TypeOK, ChainTo
  <2>2. \A i \in 1..Len(Resent(expected)) : Reflects(Resent(expected)[i])
    BY <1>5, AnswerFacts DEF ChainTo
  <2>3. \A m : Reflects(m)' <=> Reflects(m)
    BY <1>5 DEF Reflects, Following, AnswerResend, clientVars
  <2>4. \A i \in 1..Len(toVenue') :
           \/ \E j \in 1..Len(toVenue) : toVenue'[i] = toVenue[j]
           \/ \E j \in 1..Len(Resent(expected)) : toVenue'[i] = Resent(expected)[j]
    <3>1. \A i \in 1..Len(toVenue) + Len(Resent(expected)) :
             i \in 1..Len(toVenue)
             \/ (i - Len(toVenue) \in 1..Len(Resent(expected))
                 /\ i = Len(toVenue) + (i - Len(toVenue)))
      BY <2>1, LenProperties
    <3>2. QED  BY <2>1, <3>1, Joined
  <2>5. queue' = queue
    BY <1>5 DEF AnswerResend, venueVars
  <2>6. QED  BY <1>0, <2>2, <2>3, <2>4, <2>5 DEF WireReflectsStore
<1>6. CASE UNCHANGED vars
  BY <1>0, <1>6 DEF vars, clientVars, venueVars, WireReflectsStore, Reflects, Following
<1>7. QED
  BY <1>0, <1>2, <1>3, <1>4, <1>5, <1>6, RequestSends, HeartbeatSends, LogonSends,
     OthersRead DEF Next, ClientStep, VenueStep

-----------------------------------------------------------------------------
(* The states of a connection. *)

\* What SendLogon puts on a connection is the first that comes there.
LEMMA LogonComesFirst ==
    ASSUME SessionInv, SendLogon
    PROVE  ConnectionShape'
<1>1. /\ queue = {} /\ range = NoRange /\ toClient = <<>> /\ toVenue = <<>>
      /\ venue \in {"down", "connected"}
  BY DEF SessionInv, ConnectionShape, SendLogon, TypeOK
<1>2. /\ queue' = {} /\ range' = NoRange /\ toClient' = <<>> /\ venue' = venue
      /\ client' = "logonSent" /\ reset' = reset
  BY <1>1 DEF SendLogon, venueVars
<1>3. CASE venue = "down"
  BY <1>1, <1>2, <1>3 DEF ConnectionShape, SendLogon, Transmit
<1>4. CASE venue = "connected"
  <2> DEFINE m == New(IF reset THEN "reset" ELSE "logon", Len(store'), 0)
  <2>1. toVenue' = <<m>> /\ Len(toVenue') = 1 /\ toVenue'[1] = m
    BY <1>1, <1>4 DEF SendLogon, Transmit
  <2>2. m.kind = (IF reset THEN "reset" ELSE "logon") /\ ~m.dup
        /\ m.seq = Len(store')
    BY DEF New
  <2>3. reset => Len(store') = 1
    BY ResetSends
  <2>4. Len(store') \in Nat
    <3>1. store' = Append(IF reset THEN <<>> ELSE store, 0) /\ store \in Seq(Nat)
      BY DEF SendLogon, Admin, SessionInv, TypeOK
    <3>2. QED  BY <3>1, LenProperties, Extended
  <2>5. \A n \in Len(store') + 1..Len(store') : FALSE
    BY <2>4
  <2> HIDE DEF m
  <2>6. QED  BY <1>2, <1>4, <2>1, <2>2, <2>3, <2>5 DEF ConnectionShape
<1>5. QED  BY <1>1, <1>3, <1>4

\* Every step keeps the shape of the connection.
LEMMA ShapeStep ==
    ASSUME SessionInv, [Next]_vars
    PROVE  ConnectionShape'
<1>1. /\ TypeOK /\ ConnectionShape
      /\ toVenue \in Seq(Message) /\ Len(toVenue) \in Nat
      /\ store \in Seq(Nat) /\ Len(store) \in Nat /\ sent \in Nat
  BY LenProperties DEF SessionInv, TypeOK
<1>2. toVenue # <<>> => /\ Len(Tail(toVenue)) = Len(toVenue) - 1
                        /\ Tail(toVenue) \in Seq(Message)
                        /\ Head(toVenue) = toVenue[1]
                        /\ Len(toVenue) # 0
  BY <1>1, FirstTaken
<1>3. CASE Connect
  BY <1>1, <1>3 DEF Connect, ConnectionShape
<1>4. CASE SendLogon
  BY <1>4, LogonComesFirst
<1>5. CASE ReceiveLogon
  BY <1>1, <1>5 DEF ReceiveLogon, ConnectionShape, venueVars
<1>6. CASE AnswerResend
  <2>1. venue = "loggedOn" /\ toClient' = <<>> /\ client = "loggedOn"
    BY <1>6, AnswerFacts DEF AnswerResend
  <2>2. QED  BY <1>1, <1>6, <2>1 DEF AnswerResend, ConnectionShape, venueVars, clientVars
<1>7. CASE ClientNotices \/ ClientDrops \/ ClientRestarts
  BY <1>1, <1>7 DEF ClientNotices, ClientDrops, ClientRestarts, ClientCloses,
                    ConnectionShape, venueVars
<1>8. CASE Request
  <2>1. /\ reset' = reset /\ client' = client /\ venue' = venue /\ queue' = queue
        /\ range' = range /\ toClient' = toClient
    BY <1>8 DEF Request, venueVars
  <2>2. store' = Append(store, sent + 1) /\ sent + 1 \in Nat /\ sent + 1 # Admin
    BY <1>1, <1>8, RequestSends DEF Sends
  <2>3. /\ Len(store') = Len(store) + 1 /\ store'[Len(store) + 1] = sent + 1
        /\ \A n \in 1..Len(store) : store'[n] = store[n]
    BY <1>1, <2>2, Extended
  <2>4. venue \in {"down", "connected"} => toVenue' = toVenue
    BY <1>1, <1>8 DEF Request, Transmit, ConnectionShape
  <2>5. client = "connected" => toVenue' = toVenue
    BY <1>8 DEF Request
  <2>6. ASSUME NEW m, m \in Message, \A n \in m.seq + 1..Len(store) : store[n] # Admin
        PROVE  \A n \in m.seq + 1..Len(store') : store'[n] # Admin
    <3>1. m.seq \in Nat
      BY <2>6, Numbers
    <3>2. \A n \in m.seq + 1..Len(store') :
             n = Len(store) + 1 \/ (n \in 1..Len(store) /\ n \in m.seq + 1..Len(store))
      BY <1>1, <2>3, <3>1
    <3>3. QED  BY <2>2, <2>3, <2>6, <3>2
  <2>7. toVenue # <<>> => toVenue[1] \in Message
    BY <1>1, FirstTaken
  <2>8. QED  BY <1>1, <2>1, <2>4, <2>5, <2>6, <2>7 DEF ConnectionShape
<1>9. CASE Heartbeat
  BY <1>1, <1>9 DEF Heartbeat, Transmit, ConnectionShape, venueVars
<1>10. CASE AcceptLogon
  <2> DEFINE m == Head(toVenue)
             e == IF m.kind = "reset" THEN 1 ELSE expected
  <2>1. venue = "connected" /\ toVenue # <<>> /\ m = toVenue[1]
        /\ toVenue' = Tail(toVenue)
    BY <1>2, <1>10 DEF AcceptLogon
  <2>2. InStep => expected <= m.seq
    <3>1. 1 \in 1..Len(toVenue) /\ ~m.dup
      BY <1>1, <1>2, <2>1 DEF ConnectionShape
    <3>2. QED  BY <2>1, <3>1 DEF SessionInv, NumbersGoForward
  <2>3. ~(m.seq < e)
    <3>1. m.seq \in Nat /\ expected \in Nat
      BY <1>1, <2>1, FirstTaken, Numbers DEF TypeOK
    <3>2. reset => m.seq = 1 /\ m.kind = "reset"
      BY <1>1, <2>1 DEF ConnectionShape
    <3>3. ~reset => m.kind # "reset"
      BY <1>1, <2>1 DEF ConnectionShape
    <3>4. QED  BY <2>2, <3>1, <3>2, <3>3 DEF InStep
  <2>4. venue' = "loggedOn"
    BY <1>10, <2>3 DEF AcceptLogon
  <2>5. client' = client
    BY <1>10 DEF AcceptLogon, clientVars
  <2>6. client # "connected"
    BY <1>1, <2>1 DEF ConnectionShape
  <2>7. QED  BY <2>4, <2>5, <2>6 DEF ConnectionShape
<1>11. CASE Receive
  <2> DEFINE m == Head(toVenue)
  <2>1. venue = "loggedOn" /\ toVenue # <<>> /\ m = toVenue[1]
    BY <1>2, <1>11 DEF Receive
  <2>2. ~TooLow(m)
    <3>1. 1 \in 1..Len(toVenue)
      BY <1>1, <1>2, <2>1
    <3>2. m.seq \in Nat /\ expected \in Nat
      BY <1>1, <2>1, FirstTaken, Numbers DEF TypeOK
    <3>3. ~m.dup => expected <= m.seq
      BY <2>1, <3>1 DEF SessionInv, NumbersGoForward, InStep
    <3>4. QED  BY <3>2, <3>3 DEF TooLow
  <2>3. venue' = "loggedOn"
    BY <1>11, <2>1, <2>2 DEF Receive, venueVars
  <2>4. client' = client /\ client # "connected"
    BY <1>1, <1>11, <2>1 DEF Receive, clientVars, ConnectionShape
  <2>5. QED  BY <2>3, <2>4 DEF ConnectionShape
<1>12. CASE NextQueued
  BY <1>1, <1>12 DEF NextQueued, clientVars, ConnectionShape
<1>13. CASE VenueNotices \/ VenueDrops \/ VenueDiesHandling
  BY <1>1, <1>13 DEF VenueNotices, VenueDrops, VenueDiesHandling, VenueCloses,
                     clientVars, ConnectionShape
<1>14. CASE UNCHANGED vars
  BY <1>1, <1>14 DEF vars, clientVars, venueVars, ConnectionShape
<1>15. QED
  BY <1>3, <1>4, <1>5, <1>6, <1>7, <1>8, <1>9, <1>10, <1>11, <1>12, <1>13, <1>14
     DEF Next, ClientStep, VenueStep

-----------------------------------------------------------------------------
(* The numbers on the wire and the number the venue expects. *)

\* What the venue does with the first message on the wire, and what that says.
LEMMA ReceiveFacts ==
    ASSUME SessionInv, Receive, NEW m, m = Head(toVenue)
    PROVE  /\ toVenue' = Tail(toVenue) /\ m = toVenue[1] /\ Len(toVenue) \in Nat \ {0}
           /\ m \in Message /\ Reflects(m) /\ m.seq \in Nat /\ Following(m) \in Nat
           /\ expected \in Nat \ {0} /\ InStep /\ InStep'
           /\ store' = store /\ handled \in Seq(1..MaxSent)
           /\ \/ /\ m.seq > expected /\ AskAgain(m, <<>>)
                 /\ UNCHANGED <<venue, expected, handled>>
              \/ /\ m.seq < expected /\ m.dup
                 /\ UNCHANGED <<toClient, venueVars>>
              \/ /\ m.seq = expected /\ Take(m) /\ expected' = Following(m)
                 /\ UNCHANGED <<toClient, venue, queue>>
<1>1. /\ venue = "loggedOn" /\ toVenue # <<>> /\ toVenue' = Tail(toVenue)
      /\ store' = store
  BY DEF Receive, clientVars
<1>2. /\ toVenue \in Seq(Message) /\ Len(toVenue) \in Nat \ {0} /\ m = toVenue[1]
      /\ handled \in Seq(1..MaxSent)
  BY <1>1, FirstTaken DEF SessionInv, TypeOK
<1>3. 1 \in 1..Len(toVenue)
  BY <1>2
<1>4. m \in Message /\ m.seq \in Nat /\ Following(m) \in Nat /\ expected \in Nat \ {0}
  BY <1>2, <1>3, Numbers DEF SessionInv, TypeOK
<1>5. Reflects(m)
  BY <1>2, <1>3 DEF SessionInv, WireReflectsStore
<1>6. InStep
  BY <1>1 DEF InStep
<1>7. ~m.dup => expected <= m.seq
  BY <1>2, <1>3, <1>6 DEF SessionInv, NumbersGoForward
<1>8. \/ /\ m.seq > expected /\ AskAgain(m, <<>>)
         /\ UNCHANGED <<venue, expected, handled>>
      \/ /\ m.seq < expected /\ m.dup
         /\ UNCHANGED <<toClient, venueVars>>
      \/ /\ m.seq = expected /\ Take(m)
         /\ UNCHANGED <<toClient, venue, queue>>
  BY <1>4, <1>7 DEF Receive, TooHigh, TooLow
<1>9. Take(m) /\ m.seq = expected => expected' = Following(m)
  BY DEF Take, Following
<1>10. InStep'
  BY <1>1, <1>8 DEF InStep, venueVars
<1>11. QED  BY <1>1, <1>2, <1>4, <1>5, <1>6, <1>8, <1>9, <1>10

\* What taking a queued message does.
LEMMA QueuedFacts ==
    ASSUME SessionInv, NextQueued
    PROVE  /\ venue = "loggedOn" /\ venue' = "loggedOn" /\ InStep /\ InStep'
           /\ store' = store /\ toVenue' = toVenue /\ toClient' = toClient
           /\ expected \in Nat \ {0} /\ handled \in Seq(1..MaxSent)
           /\ \E m \in queue :
                 /\ m \in Message /\ Reflects(m) /\ m.seq = expected
                 /\ Following(m) \in Nat
                 /\ queue' = queue \ {m}
                 /\ expected' = Following(m)
                 /\ handled' = IF m.kind = "request" THEN Append(handled, m.arg)
                               ELSE handled
<1>1. PICK m \in queue :
         /\ m.seq = expected
         /\ queue' = queue \ {m}
         /\ IF m.kind = "logon"
            THEN expected' = expected + 1 /\ UNCHANGED <<range, handled>>
            ELSE Take(m)
  BY DEF NextQueued, Retrievable
<1>2. m \in Message /\ Reflects(m)
  BY DEF SessionInv, TypeOK, WireReflectsStore
<1>3. expected' = Following(m) /\ Following(m) \in Nat
  BY <1>1, <1>2, Numbers DEF Following, Take
<1>4. handled' = IF m.kind = "request" THEN Append(handled, m.arg) ELSE handled
  BY <1>1 DEF Take
<1>5. /\ venue = "loggedOn" /\ venue' = "loggedOn" /\ store' = store
      /\ toVenue' = toVenue /\ toClient' = toClient
  BY DEF NextQueued, clientVars
<1>6. InStep /\ InStep' /\ expected \in Nat \ {0} /\ handled \in Seq(1..MaxSent)
  BY <1>5 DEF InStep, SessionInv, TypeOK
<1>7. QED  BY <1>1, <1>2, <1>3, <1>4, <1>5, <1>6

\* What accepting a Logon does: in step, or with a gap before it.
LEMMA AcceptFacts ==
    ASSUME SessionInv, AcceptLogon
    PROVE  /\ Len(toVenue) = 1 /\ toVenue' = <<>>
           /\ queue = {} /\ range = NoRange /\ toClient = <<>>
           /\ venue = "connected" /\ venue' = "loggedOn" /\ InStep'
           /\ store' = store /\ handled' = handled /\ client' = client
           /\ client # "loggedOn" /\ reset' = reset
           /\ \E m \in Message, e \in Nat \ {0} :
                 /\ m = toVenue[1] /\ m.seq \in Nat /\ Reflects(m)
                 /\ e = IF reset THEN 1 ELSE expected
                 /\ m.kind \in {"logon", "reset"} /\ Following(m) = m.seq + 1
                 /\ reset => m.seq = e
                 /\ \A n \in m.seq + 1..Len(store) : store[n] # Admin
                 /\ \/ /\ m.seq > e /\ queue' = {m}
                       /\ range' = <<expected, m.seq - 1>>
                       /\ toClient' = <<LogonAnswer, expected>>
                       /\ expected' = expected
                    \/ /\ m.seq = e /\ queue' = {} /\ range' = NoRange
                       /\ toClient' = <<LogonAnswer>>
                       /\ expected' = e + 1
<1> DEFINE m == toVenue[1]
           e == IF reset THEN 1 ELSE expected
<1>1. /\ venue = "connected" /\ toVenue # <<>> /\ toVenue' = Tail(toVenue)
      /\ reset' = reset /\ client' = client /\ store' = store
  BY DEF AcceptLogon, clientVars
<1>2. /\ queue = {} /\ range = NoRange /\ toClient = <<>> /\ client # "loggedOn"
      /\ Len(toVenue) \in {0, 1}
      /\ m.kind = (IF reset THEN "reset" ELSE "logon") /\ ~m.dup
      /\ reset => m.seq = 1
      /\ \A n \in m.seq + 1..Len(store) : store[n] # Admin
  BY <1>1 DEF SessionInv, ConnectionShape
<1>3. toVenue \in Seq(Message) /\ Len(toVenue) = 1 /\ m = Head(toVenue)
      /\ toVenue' = <<>>
  <2>1. toVenue \in Seq(Message) /\ Len(toVenue) = 1 /\ m = Head(toVenue)
    BY <1>1, <1>2, FirstTaken DEF SessionInv, TypeOK
  <2>2. Tail(toVenue) \in Seq(Message) /\ Len(Tail(toVenue)) = 0
    BY <1>1, <2>1, FirstTaken
  <2>3. QED  BY <1>1, <2>1, <2>2, EmptySeq
<1>4. 1 \in 1..Len(toVenue)
  BY <1>3
<1>5. m \in Message /\ m.seq \in Nat /\ Reflects(m) /\ e \in Nat \ {0}
      /\ expected \in Nat
  <2>1. expected \in Nat \ {0} /\ e \in Nat \ {0}
    BY DEF SessionInv, TypeOK
  <2>2. m \in Message /\ m.seq \in Nat
    BY <1>3, <1>4, Numbers
  <2>3. Reflects(m)
    BY <1>4 DEF SessionInv, WireReflectsStore
  <2>4. QED  BY <2>1, <2>2, <2>3
<1>6. ~(m.seq < e)
  <2>1. ~reset => expected <= m.seq
    BY <1>2, <1>4 DEF SessionInv, NumbersGoForward, InStep
  <2>2. QED  BY <1>2, <1>5, <2>1
<1>7. m.kind \in {"logon", "reset"} /\ Following(m) = m.seq + 1
      /\ e = (IF m.kind = "reset" THEN 1 ELSE expected)
  BY <1>2 DEF Following
<1>8. venue' = "loggedOn" /\ handled' = handled
      /\ IF m.seq > e
         THEN AskAgain(m, <<LogonAnswer>>) /\ expected' = expected
         ELSE /\ expected' = e + 1 /\ toClient' = Append(toClient, LogonAnswer)
              /\ UNCHANGED <<queue, range>>
  <2> HIDE DEF m, e
  <2>1. QED  BY <1>3, <1>6, <1>7 DEF AcceptLogon
<1>9. \/ /\ m.seq > e /\ queue' = {m}
         /\ range' = <<expected, m.seq - 1>>
         /\ toClient' = <<LogonAnswer, expected>>
         /\ expected' = expected
      \/ /\ m.seq = e /\ queue' = {} /\ range' = NoRange
         /\ toClient' = <<LogonAnswer>>
         /\ expected' = e + 1
  <2>1. CASE m.seq > e
    <3> HIDE DEF m, e
    <3>1. queue' = {m} /\ range' = <<expected, m.seq - 1>>
          /\ toClient' = toClient \o <<LogonAnswer>> \o <<expected>>
      BY <1>2, <1>8, <2>1 DEF AskAgain, Active
    <3>2. toClient' = <<LogonAnswer, expected>>
      BY <1>2, <3>1, BothJoined
    <3>3. QED  BY <1>8, <2>1, <3>1, <3>2
  <2>2. CASE ~(m.seq > e)
    <3> HIDE DEF m, e
    <3>1. m.seq = e
      BY <1>5, <1>6, <2>2
    <3>2. QED  BY <1>2, <1>8, <2>2, <3>1
  <2>3. QED  BY <2>1, <2>2
<1>10. InStep'
  BY <1>8 DEF InStep
<1>11. QED
  <2> HIDE DEF m, e
  <2>1. reset => m.seq = e
    BY <1>2 DEF e
  <2>2. e = IF reset THEN 1 ELSE expected
    BY DEF e
  <2>3. QED  BY <1>1, <1>2, <1>3, <1>5, <1>7, <1>8, <1>9, <1>10, <2>1, <2>2 DEF m

\* Every step keeps new messages numbered behind all others.
LEMMA ForwardStep ==
    ASSUME SessionInv, [Next]_vars
    PROVE  NumbersGoForward'
<1>1. /\ TypeOK /\ ConnectionShape /\ WireReflectsStore /\ NumbersGoForward
      /\ toVenue \in Seq(Message) /\ Len(toVenue) \in Nat
      /\ Len(store) \in Nat /\ expected \in Nat \ {0}
  BY LenProperties DEF SessionInv, TypeOK
<1>2. /\ \A m \in queue : Following(m) \in Nat /\ Following(m) <= Len(store) + 1
      /\ \A i \in 1..Len(toVenue) :
            /\ toVenue[i].seq \in Nat
            /\ Following(toVenue[i]) \in Nat
            /\ Following(toVenue[i]) <= Len(store) + 1
  <2>1. \A m \in queue : Reflects(m) /\ Following(m) \in Nat
    BY <1>1, Numbers DEF WireReflectsStore, TypeOK
  <2>2. \A i \in 1..Len(toVenue) : /\ Reflects(toVenue[i])
                                   /\ toVenue[i].seq \in Nat
                                   /\ Following(toVenue[i]) \in Nat
    BY <1>1, Numbers DEF WireReflectsStore
  <2>3. QED  BY <1>1, <2>1, <2>2 DEF Reflects
<1>3. \A m : Following(m)' = Following(m)
  BY DEF Following
<1>4. ASSUME NEW kind, NEW x, Sends(kind, x), queue' = queue, expected' = expected,
             InStep' = InStep
      PROVE  NumbersGoForward'
  <2>1. Len(store') = Len(store) + 1
    BY <1>1, <1>4, Extended DEF Sends, TypeOK
  <2>2. InStep' => expected' <= Len(store') + 1
    BY <1>1, <1>4, <2>1 DEF NumbersGoForward
  <2>3. ASSUME NEW j \in 1..Len(toVenue'), ~toVenue'[j].dup
        PROVE  /\ InStep' => expected' <= toVenue'[j].seq
               /\ \A m \in queue' : Following(m) <= toVenue'[j].seq
               /\ \A i \in 1..j - 1 : Following(toVenue'[i]) <= toVenue'[j].seq
    <3>1. \A i \in 1..Len(toVenue) : toVenue'[i] = toVenue[i]
      BY <1>1, <1>4, WireAfterSend
    <3>2. CASE j \in 1..Len(toVenue)
      <4>1. \A i \in 1..j - 1 : i \in 1..Len(toVenue)
        BY <1>1, <3>2
      <4>2. QED  BY <1>1, <1>4, <2>3, <3>1, <3>2, <4>1 DEF NumbersGoForward
    <3>3. CASE j \notin 1..Len(toVenue)
      <4>1. j = Len(toVenue) + 1 /\ toVenue'[j] = New(kind, Len(store) + 1, x)
        BY <1>1, <1>4, <3>3, WireAfterSend
      <4>2. toVenue'[j].seq = Len(store) + 1
        BY <1>1, <1>4, <4>1, SentReflects
      <4>3. InStep => expected <= Len(store) + 1
        BY <1>1 DEF NumbersGoForward
      <4>4. \A i \in 1..j - 1 : i \in 1..Len(toVenue)
        BY <1>1, <4>1
      <4>5. QED  BY <1>2, <1>4, <3>1, <4>2, <4>3, <4>4
    <3>4. QED  BY <3>2, <3>3
  <2>4. QED  BY <1>3, <2>2, <2>3 DEF NumbersGoForward
<1>5. ASSUME Reads, queue' \subseteq queue, InStep' => InStep /\ expected' = expected
      PROVE  NumbersGoForward'
  <2>1. InStep' => expected' <= Len(store') + 1
    BY <1>1, <1>5 DEF NumbersGoForward, Reads
  <2>2. ASSUME NEW j \in 1..Len(toVenue'), ~toVenue'[j].dup
        PROVE  /\ InStep' => expected' <= toVenue'[j].seq
               /\ \A m \in queue' : Following(m) <= toVenue'[j].seq
               /\ \A i \in 1..j - 1 : Following(toVenue'[i]) <= toVenue'[j].seq
    <3>1. Len(toVenue') \in Nat
      BY <1>1, <1>5, WireAfterRead
    <3>2. CASE /\ Len(toVenue') = Len(toVenue)
               /\ \A i \in 1..Len(toVenue') : toVenue'[i] = toVenue[i]
      <4>1. \A i \in 1..j - 1 : i \in 1..Len(toVenue)
        BY <3>1, <3>2
      <4>2. QED  BY <1>1, <1>5, <2>2, <3>2, <4>1 DEF NumbersGoForward
    <3>3. CASE /\ Len(toVenue') = Len(toVenue) - 1
               /\ \A i \in 1..Len(toVenue') : toVenue'[i] = toVenue[i + 1]
      <4>1. /\ j + 1 \in 1..Len(toVenue)
            /\ \A i \in 1..j - 1 : i + 1 \in 1..(j + 1) - 1 /\ i \in 1..Len(toVenue')
        BY <3>1, <3>3
      <4>2. ~toVenue[j + 1].dup /\ toVenue'[j] = toVenue[j + 1]
        BY <2>2, <3>3
      <4>3. QED  BY <1>1, <1>5, <3>3, <4>1, <4>2 DEF NumbersGoForward
    <3>4. CASE Len(toVenue') = 0
      BY <2>2, <3>4
    <3>5. QED  BY <1>1, <1>5, <3>2, <3>3, <3>4, WireAfterRead
  <2>3. QED  BY <1>3, <2>1, <2>2 DEF NumbersGoForward
<1>6. CASE Request
  BY <1>1, <1>4, <1>6, RequestSends DEF Request, InStep, venueVars
<1>7. CASE Heartbeat
  BY <1>1, <1>4, <1>7, HeartbeatSends DEF Heartbeat, InStep, venueVars
<1>8. CASE SendLogon /\ ~reset
  BY <1>1, <1>4, <1>8, LogonSends DEF SendLogon, InStep, venueVars
<1>9. CASE SendLogon /\ reset
  <2>1. venue' # "loggedOn" /\ reset'
    BY <1>1, <1>9 DEF SendLogon, venueVars, ConnectionShape
  <2>2. ~InStep' /\ queue' = {} /\ (Len(toVenue') = 0 \/ Len(toVenue') = 1)
    BY <1>9, <2>1, ResetSends DEF InStep
  <2>3. ASSUME NEW j \in 1..Len(toVenue'), NEW i \in 1..j - 1 PROVE FALSE
    <3>1. j \in Int /\ j <= 1
      BY <2>2
    <3>2. QED  BY <3>1
  <2>4. QED  BY <2>2, <2>3 DEF NumbersGoForward
<1>10. CASE AnswerResend
  <2>1. /\ toVenue' = toVenue \o Resent(expected) /\ Resent(expected) \in Seq(Message)
        /\ \A i \in 1..Len(Resent(expected)) : Resent(expected)[i].dup
    BY <1>10, AnswerFacts DEF ChainTo
  <2>2. /\ InStep' = InStep /\ expected' = expected /\ queue' = queue
        /\ Len(store') = Len(store)
    BY <1>10 DEF AnswerResend, InStep, venueVars, clientVars
  <2>3. ASSUME NEW j \in 1..Len(toVenue'), ~toVenue'[j].dup
        PROVE  j \in 1..Len(toVenue)
    <3>1. j \in 1..Len(toVenue)
          \/ (j - Len(toVenue) \in 1..Len(Resent(expected))
              /\ Len(toVenue) + (j - Len(toVenue)) = j)
      BY <1>1, <2>1, Joined
    <3>2. QED  BY <1>1, <2>1, <2>3, <3>1, Joined
  <2>4. /\ \A i \in 1..Len(toVenue) : toVenue'[i] = toVenue[i]
        /\ \A j \in 1..Len(toVenue) : \A i \in 1..j - 1 : i \in 1..Len(toVenue)
    BY <1>1, <2>1, Joined
  <2>5. QED  BY <1>1, <1>3, <2>2, <2>3, <2>4 DEF NumbersGoForward
<1>11. CASE Connect \/ ReceiveLogon \/ ClientNotices \/ VenueNotices \/ ClientDrops
            \/ ClientRestarts \/ VenueDrops \/ VenueDiesHandling
  <2>1. Reads
    BY <1>1, <1>11, OthersRead
  <2>2. queue' \subseteq queue /\ (InStep' => InStep /\ expected' = expected)
    BY <1>11 DEF Connect, ReceiveLogon, ClientNotices, VenueNotices, ClientDrops,
                 ClientRestarts, VenueDrops, VenueDiesHandling, ClientCloses,
                 VenueCloses, venueVars, InStep
  <2>3. QED  BY <1>5, <2>1, <2>2
<1>12. CASE AcceptLogon
  <2>1. toVenue' = <<>> /\ Len(toVenue') = 0 /\ store' = store
    BY <1>12, AcceptFacts
  <2>2. expected' <= Len(store) + 1
    <3>1. PICK m \in Message, e \in Nat \ {0} :
             /\ m.seq \in Nat /\ Reflects(m) /\ m.seq >= e
             /\ e = IF reset THEN 1 ELSE expected
             /\ reset => m.seq = e
             /\ (m.seq > e /\ expected' = expected) \/ expected' = e + 1
      <4>1. PICK m \in Message, e \in Nat \ {0} :
               /\ m = toVenue[1] /\ m.seq \in Nat /\ Reflects(m)
               /\ e = IF reset THEN 1 ELSE expected
               /\ reset => m.seq = e
               /\ \/ m.seq > e /\ expected' = expected
                  \/ m.seq = e /\ expected' = e + 1
        BY <1>12, AcceptFacts
      <4>2. QED  BY <4>1
    <3>2. m.seq <= Len(store)
      BY <1>1, <3>1 DEF Reflects
    <3>3. QED  BY <1>1, <3>1, <3>2
  <2>3. QED  BY <2>1, <2>2 DEF NumbersGoForward
<1>13. CASE Receive
  <2> DEFINE m == Head(toVenue)
  <2>1. /\ toVenue' = Tail(toVenue) /\ m = toVenue[1] /\ Len(toVenue) \in Nat \ {0}
        /\ m \in Message /\ Reflects(m) /\ m.seq \in Nat /\ Following(m) \in Nat
        /\ InStep /\ InStep' /\ store' = store
        /\ queue' \subseteq queue \cup {m}
        /\ expected' = expected \/ expected' = Following(m)
    BY <1>13, ReceiveFacts DEF AskAgain, venueVars
  <2>2. expected' <= Len(store') + 1
    BY <1>1, <2>1 DEF NumbersGoForward, Reflects
  <2>3. Len(toVenue') = Len(toVenue) - 1
        /\ \A i \in 1..Len(toVenue') : toVenue'[i] = toVenue[i + 1]
    <3>1. toVenue # <<>>
      BY <1>13 DEF Receive
    <3>2. QED  BY <1>1, <2>1, <3>1, FirstTaken
  <2>4. ASSUME NEW j \in 1..Len(toVenue'), ~toVenue'[j].dup
        PROVE  /\ expected' <= toVenue'[j].seq
               /\ \A q \in queue' : Following(q) <= toVenue'[j].seq
               /\ \A i \in 1..j - 1 : Following(toVenue'[i]) <= toVenue'[j].seq
    <3>1. /\ j + 1 \in 1..Len(toVenue) /\ 1 \in 1..(j + 1) - 1
          /\ \A i \in 1..j - 1 : i + 1 \in 1..(j + 1) - 1 /\ i \in 1..Len(toVenue')
      BY <2>1, <2>3
    <3>2. ~toVenue[j + 1].dup /\ toVenue'[j] = toVenue[j + 1]
      BY <2>3, <2>4
    <3>3. /\ expected <= toVenue[j + 1].seq
          /\ \A q \in queue : Following(q) <= toVenue[j + 1].seq
          /\ \A i \in 1..(j + 1) - 1 : Following(toVenue[i]) <= toVenue[j + 1].seq
      BY <1>1, <2>1, <3>1, <3>2 DEF NumbersGoForward
    <3>4. Following(m) <= toVenue[j + 1].seq
      BY <2>1, <3>1, <3>3
    <3> HIDE DEF m
    <3>5. QED  BY <2>1, <2>3, <3>1, <3>2, <3>3, <3>4
  <2> HIDE DEF m
  <2>5. QED  BY <1>3, <2>2, <2>4 DEF NumbersGoForward
<1>14. CASE NextQueued
  <2>1. /\ InStep /\ InStep' /\ store' = store /\ toVenue' = toVenue
        /\ queue' \subseteq queue
    BY <1>14, QueuedFacts
  <2>2. PICK m \in queue : Reflects(m) /\ expected' = Following(m)
    BY <1>14, QueuedFacts
  <2>3. expected' <= Len(store') + 1
    BY <1>2, <2>1, <2>2
  <2>4. \A j \in 1..Len(toVenue) : ~toVenue[j].dup => expected' <= toVenue[j].seq
    BY <1>1, <2>2 DEF NumbersGoForward
  <2>5. QED  BY <1>1, <1>3, <2>1, <2>3, <2>4 DEF NumbersGoForward
<1>15. CASE UNCHANGED vars
  BY <1>1, <1>3, <1>15 DEF vars, clientVars, venueVars, NumbersGoForward, InStep
<1>16. QED
  BY <1>6, <1>7, <1>8, <1>9, <1>10, <1>11, <1>12, <1>13, <1>14, <1>15
     DEF Next, ClientStep, VenueStep

-----------------------------------------------------------------------------
(* The order of requests. *)

\* What was handled are numbers.
LEMMA HandledNumbers ==
    ASSUME TypeOK
    PROVE  handled \in Seq(Nat)
<1>1. handled \in Seq(1..MaxSent) /\ 1..MaxSent \subseteq Nat
  BY DEF TypeOK
<1>2. QED  BY <1>1, SeqMonotonic

\* Handling what is stored under the number that is expected.
LEMMA LastAfter ==
    ASSUME NEW S, S \subseteq Nat, handled \in Seq(S), NEW r \in S,
           handled' = Append(handled, r)
    PROVE  LastHandled' = r
<1>1. /\ handled' \in Seq(S) /\ Len(handled) \in Nat
      /\ Len(handled') = Len(handled) + 1 /\ handled'[Len(handled) + 1] = r
  BY Extended
<1>2. handled' # <<>>
  BY <1>1, EmptySeq
<1>3. QED  BY <1>1, <1>2 DEF LastHandled

\* The request handled last was made, or there is none.
LEMMA LastIsKnown ==
    ASSUME SessionInv
    PROVE  LastHandled \in 0..sent /\ sent \in Nat
<1>1. handled \in Seq(1..MaxSent) /\ sent \in Nat
  BY DEF SessionInv, TypeOK
<1>2. CASE handled = <<>>
  BY <1>1, <1>2 DEF LastHandled
<1>3. CASE handled # <<>>
  <2>1. Len(handled) \in 1..Len(handled)
    BY <1>1, <1>3, FirstTaken
  <2>2. handled[Len(handled)] \in 1..sent
    BY <2>1 DEF SessionInv, RequestsInOrder
  <2>3. QED  BY <1>1, <1>3, <2>2 DEF LastHandled
<1>4. QED  BY <1>2, <1>3

\* A message that carries a request carries one that was made.
LEMMA RequestIsKnown ==
    ASSUME SessionInv, NEW m \in Message, m.kind = "request", Reflects(m)
    PROVE  m.arg \in 1..sent /\ m.arg \in 1..MaxSent
<1>1. store \in Seq(Nat) /\ sent \in 0..MaxSent /\ sent \in Nat /\ MaxSent \in Nat
  BY BoundsAssumption DEF SessionInv, TypeOK, MaxSent
<1>2. m.seq \in Requested /\ m.arg = store[m.seq]
  BY DEF Reflects, Requested
<1>3. store[m.seq] \in Nat /\ store[m.seq] <= sent /\ store[m.seq] # 0
  BY <1>1, <1>2, ElementOfSeq DEF SessionInv, RequestsInOrder, Requested, Admin
<1>4. QED  BY <1>1, <1>2, <1>3

\* The venue steps over what a message stands for.
LEMMA OrderAfterTaking ==
    ASSUME SessionInv, InStep,
           NEW m \in Message, Reflects(m), m.seq = expected,
           store' = store, sent' = sent, reset' = reset, venue' = "loggedOn",
           expected' = Following(m),
           handled' = IF m.kind = "request" THEN Append(handled, m.arg) ELSE handled
    PROVE  RequestsInOrder'
<1>1. /\ Len(store) \in Nat /\ expected \in Nat \ {0} /\ store \in Seq(Nat)
      /\ handled \in Seq(1..MaxSent) /\ expected' \in Nat /\ sent \in Nat
  BY LenProperties, Numbers DEF SessionInv, TypeOK
<1>2. Requested' = Requested
  BY DEF Requested
<1>3. \A n \in Requested : n \in 1..Len(store) /\ store[n] \in Nat /\ store[n] # Admin
  BY <1>1, ElementOfSeq DEF Requested
<1>4. expected \in 1..Len(store) /\ expected' > expected
  BY <1>1 DEF Reflects
<1>5. CASE m.kind = "request"
  <2>1. expected \in Requested /\ m.arg = store[expected] /\ expected' = expected + 1
    BY <1>4, <1>5 DEF Reflects, Requested, Following
  <2>2. m.arg \in 1..sent /\ m.arg \in Nat
    <3>1. m.arg \in Nat /\ m.arg # 0 /\ m.arg <= sent
      BY <1>3, <2>1 DEF SessionInv, RequestsInOrder, Admin
    <3>2. QED  BY <1>1, <3>1
  <2>3. LastHandled' = m.arg
    <3>1. handled \in Seq(Nat) /\ m.arg \in Nat
      BY <2>2, HandledNumbers DEF SessionInv
    <3>2. QED  BY <1>5, <3>1, LastAfter
  <2>4. \A k \in 1..Len(handled') : handled'[k] \in 1..sent
    <3>1. m.arg \in Nat /\ handled \in Seq(Nat) /\ handled' = Append(handled, m.arg)
      BY <1>5, <2>2, HandledNumbers DEF SessionInv
    <3>2. /\ Len(handled) \in Nat /\ Len(handled') = Len(handled) + 1
          /\ \A k \in 1..Len(handled) : handled'[k] = handled[k]
          /\ handled'[Len(handled) + 1] = m.arg
      BY <3>1, Extended
    <3>3. \A k \in 1..Len(handled') : k \in 1..Len(handled) \/ k = Len(handled) + 1
      BY <3>2
    <3>4. QED  BY <2>2, <3>2, <3>3 DEF SessionInv, RequestsInOrder
  <2>5. ASSUME NEW n \in Requested
        PROVE  /\ n > expected' => store[n] > m.arg
               /\ n = expected' => store[n] >= m.arg
               /\ n < expected' => store[n] <= m.arg
    <3>1. /\ n > expected => store[n] > m.arg
          /\ n < expected => store[n] < m.arg
          /\ n \in Nat /\ store[n] \in Nat
      BY <1>3, <2>1 DEF SessionInv, RequestsInOrder
    <3>2. QED  BY <1>1, <2>1, <2>2, <3>1
  <2>6. QED  BY <1>2, <2>3, <2>4, <2>5 DEF SessionInv, RequestsInOrder
<1>6. CASE m.kind # "request"
  <2>1. \A n \in expected..expected' - 1 : store[n] = Admin
    BY <1>6 DEF Reflects, Following
  <2>2. \A n \in Requested : n < expected \/ n >= expected'
    BY <1>1, <1>3, <2>1
  <2>3. LastHandled' = LastHandled /\ LastHandled \in Nat
    BY <1>6, LastIsKnown DEF LastHandled
  <2>4. ASSUME NEW n \in Requested
        PROVE  /\ n > expected' => store[n] > LastHandled
               /\ n = expected' => store[n] >= LastHandled
               /\ ~reset /\ n < expected' => store[n] <= LastHandled
    <3>1. /\ n > expected => store[n] > LastHandled
          /\ ~reset /\ n < expected => store[n] <= LastHandled
          /\ n \in Nat /\ store[n] \in Nat
      BY <1>3 DEF SessionInv, RequestsInOrder
    <3>2. QED  BY <1>1, <1>4, <2>2, <2>3, <3>1
  <2>5. QED  BY <1>2, <1>6, <2>3, <2>4 DEF SessionInv, RequestsInOrder
<1>7. QED  BY <1>5, <1>6

\* Every step keeps the requests in order, in store and application.
LEMMA OrderStep ==
    ASSUME SessionInv, [Next]_vars
    PROVE  RequestsInOrder'
<1>1. /\ TypeOK /\ RequestsInOrder /\ ConnectionShape
      /\ store \in Seq(Nat) /\ Len(store) \in Nat
      /\ sent \in Nat /\ LastHandled \in 0..sent
      /\ expected \in Nat \ {0} /\ handled \in Seq(Nat)
  BY LenProperties, LastIsKnown, HandledNumbers DEF SessionInv, TypeOK
<1>2. \A n \in Requested : n \in 1..Len(store) /\ store[n] \in Nat /\ store[n] # Admin
  BY <1>1, ElementOfSeq DEF Requested
<1>3. ASSUME UNCHANGED <<reset, store, sent, handled>>,
             InStep' => InStep /\ expected' = expected,
             venue' = "connected" /\ toVenue' # <<>> =>
                venue = "connected" /\ toVenue # <<>>
      PROVE  RequestsInOrder'
  BY <1>1, <1>3 DEF RequestsInOrder, Requested, LastHandled
<1>4. CASE Request
  <2>1. /\ store' = Append(store, sent + 1) /\ sent' = sent + 1 /\ sent + 1 \in Nat
        /\ sent + 1 # Admin
        /\ UNCHANGED <<reset, handled, venue, expected>>
    BY <1>1, <1>4, RequestSends DEF Sends, Request, venueVars
  <2>2. /\ Len(store') = Len(store) + 1 /\ store'[Len(store) + 1] = sent + 1
        /\ \A n \in 1..Len(store) : store'[n] = store[n]
    BY <1>1, <2>1, Extended
  <2>3. /\ \A n \in Requested' : n \in Requested \/ n = Len(store) + 1
        /\ Requested \subseteq Requested'
        /\ Len(store) + 1 \in Requested'
    BY <1>1, <2>1, <2>2 DEF Requested
  <2>4. /\ LastHandled' = LastHandled /\ InStep' = InStep
        /\ InStep => expected <= Len(store) + 1
    BY <2>1 DEF LastHandled, InStep, SessionInv, NumbersGoForward
  <2>5. \A n \in Requested' : store'[n] <= sent'
    <3>1. \A n \in Requested : store[n] <= sent
      BY <1>1 DEF RequestsInOrder
    <3>2. QED  BY <1>1, <1>2, <2>1, <2>2, <2>3, <3>1
  <2>6. ASSUME NEW j \in Requested', NEW n \in Requested', j < n
        PROVE  store'[j] < store'[n]
    <3>1. j \in Requested
      BY <1>1, <1>2, <2>3, <2>6
    <3>2. store'[j] = store[j] /\ store[j] \in Nat /\ store[j] <= sent
      BY <1>1, <1>2, <2>2, <3>1 DEF RequestsInOrder
    <3>3. CASE n \in Requested
      <4>1. store'[n] = store[n] /\ store[j] < store[n]
        BY <1>1, <1>2, <2>2, <2>6, <3>1, <3>3 DEF RequestsInOrder
      <4>2. QED  BY <3>2, <4>1
    <3>4. CASE n = Len(store) + 1
      BY <1>1, <2>2, <3>2, <3>4
    <3>5. QED  BY <2>3, <3>3, <3>4
  <2>7. ~reset' => \A r \in 1..sent' : \E n \in Requested' : store'[n] = r
    <3>1. ASSUME ~reset, NEW r \in 1..sent' PROVE \E n \in Requested' : store'[n] = r
      <4>1. r \in 1..sent \/ r = sent + 1
        BY <1>1, <2>1
      <4>2. CASE r \in 1..sent
        <5>1. PICK n \in Requested : store[n] = r
          BY <1>1, <3>1, <4>2 DEF RequestsInOrder
        <5>2. QED  BY <1>2, <2>2, <2>3, <5>1
      <4>3. QED  BY <2>2, <2>3, <4>1, <4>2
    <3>2. QED  BY <2>1, <3>1
  <2>8. \A k \in 1..Len(handled') : handled'[k] \in 1..sent'
    <3>1. \A k \in 1..Len(handled) : handled[k] \in 1..sent
      BY <1>1 DEF RequestsInOrder
    <3>2. QED  BY <1>1, <2>1, <3>1
  <2>9. store'[Len(store) + 1] > LastHandled
    BY <1>1, <2>2
  <2>10. ASSUME InStep, NEW n \in Requested'
         PROVE  /\ n > expected => store'[n] > LastHandled
                /\ n = expected => store'[n] >= LastHandled
                /\ ~reset /\ n < expected => store'[n] <= LastHandled
    <3>1. CASE n \in Requested
      BY <1>1, <1>2, <2>2, <2>10, <3>1 DEF RequestsInOrder
    <3>2. CASE n = Len(store) + 1
      BY <1>1, <2>2, <2>4, <2>9, <2>10, <3>2
    <3>3. QED  BY <2>3, <3>1, <3>2
  <2>11. reset' /\ venue' = "connected" /\ toVenue' # <<>> =>
            \A n \in Requested' : store'[n] > LastHandled'
    <3>1. ASSUME reset, venue = "connected", toVenue' # <<>>
          PROVE  \A n \in Requested : store[n] > LastHandled
      <4>1. toVenue # <<>>
        BY <1>1, <1>4, <3>1 DEF Request, ConnectionShape
      <4>2. QED  BY <1>1, <3>1, <4>1 DEF RequestsInOrder
    <3>2. QED  BY <1>2, <2>1, <2>2, <2>3, <2>4, <2>9, <3>1
  <2>12. QED  BY <2>1, <2>4, <2>5, <2>6, <2>7, <2>8, <2>10, <2>11 DEF RequestsInOrder
<1>5. ASSUME store' = Append(store, Admin),
             UNCHANGED <<reset, sent, handled, venue, expected>>,
             ~reset \/ venue = "loggedOn" \/ toVenue' = toVenue
      PROVE  RequestsInOrder'
  <2>1. /\ Len(store') = Len(store) + 1 /\ store'[Len(store) + 1] = Admin
        /\ \A n \in 1..Len(store) : store'[n] = store[n]
    BY <1>1, <1>5, Extended DEF Admin
  <2>2. Requested' = Requested /\ \A n \in Requested : store'[n] = store[n]
    BY <1>1, <2>1 DEF Requested
  <2>3. QED  BY <1>1, <1>5, <2>2 DEF RequestsInOrder, InStep, LastHandled
<1>6. CASE Heartbeat
  <2>1. venue = "loggedOn" \/ toVenue' = toVenue
    BY <1>1, <1>6 DEF Heartbeat, Transmit, ConnectionShape, TypeOK
  <2>2. QED  BY <1>1, <1>5, <1>6, <2>1, HeartbeatSends DEF Sends, Heartbeat, venueVars
<1>7. CASE SendLogon /\ ~reset
  BY <1>1, <1>5, <1>7, LogonSends DEF Sends, SendLogon, venueVars
<1>8. CASE SendLogon /\ reset
  <2>1. store' = <<Admin>> /\ Len(store') = 1
    BY <1>8, ResetSends
  <2>2. Requested' = {}
    BY <2>1 DEF Requested
  <2>3. UNCHANGED <<reset, sent, handled>>
    BY <1>8 DEF SendLogon, venueVars
  <2>4. QED  BY <1>1, <1>8, <2>2, <2>3 DEF RequestsInOrder
<1>9. CASE Connect \/ ReceiveLogon \/ AnswerResend \/ ClientNotices \/ ClientDrops
           \/ ClientRestarts \/ VenueNotices \/ VenueDrops
  BY <1>1, <1>3, <1>9 DEF Connect, ReceiveLogon, AnswerResend, ClientNotices,
       ClientDrops, ClientRestarts, VenueNotices, VenueDrops, ClientCloses,
       VenueCloses, venueVars, clientVars, InStep, Transmit, ConnectionShape
<1>10. CASE AcceptLogon
  <2>1. /\ UNCHANGED <<reset, store, sent, handled>> /\ venue' = "loggedOn"
        /\ venue = "connected" /\ toVenue # <<>>
    BY <1>10, AcceptFacts DEF AcceptLogon, clientVars
  <2>2. PICK m \in Message, e \in Nat \ {0} :
           /\ m = toVenue[1] /\ m.seq \in Nat /\ Reflects(m)
           /\ e = IF reset THEN 1 ELSE expected
           /\ m.kind \in {"logon", "reset"} /\ Following(m) = m.seq + 1
           /\ reset => m.seq = e
           /\ \/ m.seq > e /\ expected' = expected
              \/ m.seq = e /\ expected' = e + 1
    BY <1>10, AcceptFacts
  <2>3. store[m.seq] = Admin
    <3>1. m.kind # "request" /\ m.seq \in m.seq..Following(m) - 1
      BY <2>2
    <3>2. QED  BY <2>2, <3>1 DEF Reflects
  <2>4. Requested' = Requested /\ LastHandled' = LastHandled
    BY <2>1 DEF Requested, LastHandled
  <2>5. ASSUME NEW n \in Requested
        PROVE  /\ n > expected' => store[n] > LastHandled
               /\ n = expected' => store[n] >= LastHandled
               /\ ~reset /\ n < expected' => store[n] <= LastHandled
    <3>1. CASE reset
      BY <1>1, <1>2, <2>1, <3>1 DEF RequestsInOrder
    <3>2. CASE ~reset
      <4>1. /\ n > expected => store[n] > LastHandled
            /\ n = expected => store[n] >= LastHandled
            /\ n < expected => store[n] <= LastHandled
            /\ n \in Nat /\ store[n] \in Nat /\ n # m.seq
        BY <1>1, <1>2, <2>3, <3>2 DEF RequestsInOrder, InStep
      <4>2. QED  BY <1>1, <2>2, <3>2, <4>1
    <3>3. QED  BY <3>1, <3>2
  <2>6. QED  BY <1>1, <2>1, <2>4, <2>5 DEF RequestsInOrder
<1>11. CASE Receive
  <2> DEFINE m == Head(toVenue)
  <2>1. /\ m \in Message /\ Reflects(m) /\ InStep /\ store' = store
        /\ \/ /\ m.seq > expected /\ AskAgain(m, <<>>)
              /\ UNCHANGED <<venue, expected, handled>>
           \/ /\ m.seq < expected /\ m.dup
              /\ UNCHANGED <<toClient, venueVars>>
           \/ /\ m.seq = expected /\ Take(m) /\ expected' = Following(m)
              /\ UNCHANGED <<toClient, venue, queue>>
    BY <1>11, ReceiveFacts
  <2>2. venue = "loggedOn" /\ UNCHANGED <<reset, sent>>
    BY <1>11 DEF Receive, clientVars
  <2>3. CASE m.seq = expected /\ Take(m) /\ expected' = Following(m) /\ venue' = venue
    <3>1. handled' = IF m.kind = "request" THEN Append(handled, m.arg) ELSE handled
      BY <2>3 DEF Take
    <3> HIDE DEF m
    <3>2. QED  BY <2>1, <2>2, <2>3, <3>1, OrderAfterTaking
  <2>4. CASE UNCHANGED <<venue, expected, handled>>
    BY <1>3, <2>1, <2>2, <2>4 DEF InStep
  <2>5. QED  BY <2>1, <2>3, <2>4 DEF venueVars
<1>12. CASE NextQueued
  <2>1. UNCHANGED <<reset, sent>>
    BY <1>12 DEF NextQueued, clientVars
  <2>2. QED  BY <1>12, <2>1, QueuedFacts, OrderAfterTaking
<1>13. CASE VenueDiesHandling
  <2>1. /\ venue = "loggedOn" /\ venue' = "down" /\ expected' = expected
        /\ UNCHANGED <<reset, store, sent>>
    BY <1>13 DEF VenueDiesHandling, VenueCloses, clientVars
  <2>2. PICK m : /\ m.seq = expected /\ m.kind = "request" /\ Reflects(m)
                 /\ handled' = Append(handled, m.arg)
    <3>1. PICK m \in queue \cup (IF toVenue = <<>> THEN {} ELSE {Head(toVenue)}) :
             m.seq = expected /\ m.kind = "request" /\ handled' = Append(handled, m.arg)
      BY <1>13 DEF VenueDiesHandling
    <3>2. toVenue # <<>> => Reflects(Head(toVenue))
      BY FirstTaken DEF SessionInv, TypeOK, WireReflectsStore
    <3>3. Reflects(m)
      BY <3>1, <3>2 DEF SessionInv, WireReflectsStore
    <3>4. QED  BY <3>1, <3>3
  <2>3. /\ expected \in Requested /\ m.arg = store[expected] /\ m.arg \in Nat
        /\ m.arg \in 1..sent
    <3>1. expected \in Requested /\ m.arg = store[expected]
      BY <2>2 DEF Reflects, Requested
    <3>2. m.arg \in Nat /\ m.arg # 0 /\ m.arg <= sent
      BY <1>1, <1>2, <3>1 DEF RequestsInOrder, Admin
    <3>3. QED  BY <1>1, <3>1, <3>2
  <2>4. LastHandled' = m.arg
    BY <1>1, <2>2, <2>3, LastAfter
  <2>5. \A k \in 1..Len(handled') : handled'[k] \in 1..sent
    <3>1. /\ Len(handled) \in Nat /\ Len(handled') = Len(handled) + 1
          /\ \A k \in 1..Len(handled) : handled'[k] = handled[k]
          /\ handled'[Len(handled) + 1] = m.arg
      BY <1>1, <2>2, <2>3, Extended
    <3>2. \A k \in 1..Len(handled') : k \in 1..Len(handled) \/ k = Len(handled) + 1
      BY <3>1
    <3>3. QED  BY <1>1, <2>3, <3>1, <3>2 DEF RequestsInOrder
  <2>6. Requested' = Requested
    BY <2>1 DEF Requested
  <2>7. ASSUME NEW n \in Requested
        PROVE  /\ n > expected => store[n] > m.arg
               /\ n = expected => store[n] >= m.arg
               /\ n < expected => store[n] <= m.arg
    <3>1. /\ n > expected => store[n] > m.arg
          /\ n < expected => store[n] < m.arg
          /\ n \in Nat /\ store[n] \in Nat
      BY <1>1, <1>2, <2>3 DEF RequestsInOrder
    <3>2. QED  BY <2>3, <3>1
  <2>8. QED  BY <1>1, <2>1, <2>4, <2>5, <2>6, <2>7 DEF RequestsInOrder
<1>14. CASE UNCHANGED vars
  BY <1>3, <1>14 DEF vars, clientVars, venueVars, InStep
<1>15. QED
  BY <1>4, <1>6, <1>7, <1>8, <1>9, <1>10, <1>11, <1>12, <1>13, <1>14
     DEF Next, ClientStep, VenueStep

-----------------------------------------------------------------------------
(* Bounds, and the types of the variables. *)

\* Multiplying keeps the order of naturals.
LEMMA AtMostProduct ==
    ASSUME NEW a \in Nat, NEW b \in Nat, NEW c \in Nat, b <= c
    PROVE  a * b \in Nat /\ a * c \in Nat /\ a * b <= a * c
<1>1. PICK d \in Nat : c = b + d
  <2>1. c - b \in Nat /\ c = b + (c - b)
    OBVIOUS
  <2>2. QED  BY <2>1
<1>2. a * b \in Nat /\ a * d \in Nat /\ a * c = a * b + a * d
  BY <1>1
<1>3. QED  BY <1>2

\* Every step keeps the counters within their bounds.
LEMMA AskStep ==
    ASSUME SessionInv, [Next]_vars
    PROVE  AsksAreBounded' /\ sent' \in 0..MaxSent /\ asked' \in 0..MaxAsks
           /\ faults' \in 0..MaxFaults
<1>1. /\ MaxAsks \in Nat /\ MaxFaults \in Nat /\ faults \in 0..MaxFaults
      /\ asked \in 0..MaxAsks /\ sent \in Nat
      /\ sent <= MaxAsks * faults + asked
      /\ sent \in 0..MaxSent
  BY BoundsAssumption DEF SessionInv, TypeOK, AsksAreBounded
<1>2. /\ MaxAsks * faults \in Nat
      /\ MaxAsks * (faults + 1) = MaxAsks * faults + MaxAsks
      /\ faults \in Nat
  BY <1>1
<1>3. MaxAsks * (faults + 1) <= MaxSent /\ MaxSent \in Nat
  BY <1>1, AtMostProduct DEF MaxSent
<1>4. CASE Request
  <2>1. asked < MaxAsks /\ asked' = asked + 1 /\ sent' = sent + 1 /\ faults' = faults
    BY <1>4 DEF Request
  <2>2. QED  BY <1>1, <1>2, <1>3, <2>1 DEF AsksAreBounded
<1>5. CASE UNCHANGED <<sent, asked, faults>>
  BY <1>1, <1>5 DEF AsksAreBounded
<1>6. CASE sent' = sent /\ faults < MaxFaults /\ faults' = faults + 1
           /\ asked' \in {0, asked}
  <2>1. MaxAsks * faults' = MaxAsks * faults + MaxAsks
    BY <1>2, <1>6
  <2>2. sent <= MaxAsks * faults + MaxAsks + asked'
    <3> DEFINE p == MaxAsks * faults
    <3>1. p \in Nat /\ sent <= p + asked
      BY <1>1, <1>2
    <3> HIDE DEF p
    <3>2. asked' = asked => sent <= p + MaxAsks + asked'
      BY <1>1, <3>1
    <3>3. asked' = 0 => sent <= p + MaxAsks + asked'
      BY <1>1, <3>1
    <3>4. QED  BY <1>6, <3>2, <3>3 DEF p
  <2>3. AsksAreBounded'
    BY <1>6, <2>1, <2>2 DEF AsksAreBounded
  <2>4. QED  BY <1>1, <1>6, <2>3
<1>7. CASE Connect \/ SendLogon \/ ReceiveLogon \/ AnswerResend \/ ClientNotices
           \/ Heartbeat \/ AcceptLogon \/ Receive \/ NextQueued \/ VenueNotices
           \/ UNCHANGED vars
  BY <1>5, <1>7 DEF Connect, SendLogon, ReceiveLogon, AnswerResend, ClientNotices,
       Heartbeat, AcceptLogon, Receive, NextQueued, VenueNotices, ClientCloses,
       VenueCloses, clientVars, vars
<1>8. CASE ClientDrops \/ ClientRestarts \/ VenueDrops \/ VenueDiesHandling
  BY <1>6, <1>8 DEF ClientDrops, ClientRestarts, VenueDrops, VenueDiesHandling,
       ClientCloses, VenueCloses, clientVars
<1>9. QED
  BY <1>4, <1>7, <1>8 DEF Next, ClientStep, VenueStep

\* Every step keeps the types.
LEMMA TypeStep ==
    ASSUME SessionInv, [Next]_vars
    PROVE  TypeOK'
<1>1. /\ TypeOK /\ ConnectionShape
      /\ store \in Seq(Nat) /\ Len(store) \in Nat
      /\ toVenue \in Seq(Message) /\ toClient \in Seq(Nat) /\ queue \subseteq Message
      /\ range \in Nat \X Nat /\ handled \in Seq(1..MaxSent) /\ expected \in Nat \ {0}
      /\ sent \in Nat
  BY LenProperties DEF SessionInv, TypeOK
<1>2. /\ sent' \in 0..MaxSent /\ asked' \in 0..MaxAsks /\ faults' \in 0..MaxFaults
      /\ Admin \in Nat /\ LogonAnswer \in Nat /\ NoRange \in Nat \X Nat
  BY AskStep DEF Admin, LogonAnswer, NoRange
<1>3. reset' \in BOOLEAN /\ client' \in {"down", "connected", "logonSent", "loggedOn"}
      /\ beat' \in BOOLEAN
  BY <1>1 DEF TypeOK, Next, Connect, ClientStep, SendLogon, ReceiveLogon, AnswerResend,
       ClientNotices, ClientDrops, ClientRestarts, ClientCloses, Request, Heartbeat,
       VenueStep, AcceptLogon, Receive, NextQueued, VenueNotices, VenueDrops,
       VenueDiesHandling, VenueCloses, vars, clientVars
<1>4. ASSUME NEW kind, NEW x, Sends(kind, x)
      PROVE  store' \in Seq(Nat) /\ toVenue' \in Seq(Message)
  BY <1>1, <1>4, Extended, WireAfterSend DEF Sends
<1>5. toVenue # <<>> => Head(toVenue) \in Message
  BY <1>1, FirstTaken
<1>6. ASSUME Reads
      PROVE  store' \in Seq(Nat) /\ toVenue' \in Seq(Message) /\ queue' \subseteq Message
  BY <1>1, <1>5, <1>6, WireAfterRead DEF Reads
<1>7. ASSUME UNCHANGED <<venue, expected, range, handled>>
      PROVE  /\ venue' \in {"down", "connected", "loggedOn", "refused"}
             /\ expected' \in Nat \ {0} /\ range' \in Nat \X Nat
             /\ handled' \in Seq(1..MaxSent)
  BY <1>1, <1>7 DEF TypeOK
<1>8. ASSUME NEW n \in Nat PROVE toClient \o <<>> \o <<n>> \in Seq(Nat)
  <2>1. <<>> \in Seq(Nat) /\ <<n>> \in Seq(Nat)
    BY EmptySeq
  <2>2. QED  BY <1>1, <2>1, ConcatProperties
<1>9. toClient # <<>> => Tail(toClient) \in Seq(Nat)
  BY <1>1, FirstTaken
<1>10. CASE Request \/ Heartbeat \/ (SendLogon /\ ~reset)
  <2>1. UNCHANGED <<toClient, queue, venue, expected, range, handled>>
    BY <1>10 DEF Request, Heartbeat, SendLogon, venueVars
  <2>2. QED
    BY <1>1, <1>2, <1>3, <1>4, <1>7, <1>10, <2>1, RequestSends, HeartbeatSends,
       LogonSends DEF TypeOK
<1>11. CASE SendLogon /\ reset
  <2>1. UNCHANGED <<toClient, queue, venue, expected, range, handled>>
    BY <1>11 DEF SendLogon, venueVars
  <2>2. store' = <<Admin>> /\ toVenue' \in {<<>>, <<New("reset", 1, Admin)>>}
    BY <1>11, ResetSends
  <2>3. New("reset", 1, Admin) \in Message
    BY <1>2 DEF New, Message, Kinds
  <2>4. store' \in Seq(Nat) /\ toVenue' \in Seq(Message)
    <3> HIDE DEF New, Message
    <3>1. <<>> \in Seq(Message) /\ <<New("reset", 1, Admin)>> \in Seq(Message)
      BY <2>3, EmptySeq
    <3>2. <<Admin>> \in Seq(Nat)
      BY <1>2
    <3>3. QED  BY <2>2, <3>1, <3>2
  <2>5. QED  BY <1>1, <1>2, <1>3, <1>7, <2>1, <2>4 DEF TypeOK
<1>12. CASE AnswerResend
  <2>1. UNCHANGED <<store, queue, venue, expected, range, handled>>
    BY <1>12 DEF AnswerResend, venueVars, clientVars
  <2>2. toVenue' = toVenue \o Resent(expected) /\ Resent(expected) \in Seq(Message)
        /\ toClient' \in Seq(Nat)
    BY <1>9, <1>12, AnswerFacts DEF ChainTo, AnswerResend
  <2>3. toVenue' \in Seq(Message)
    BY <1>1, <2>2, ConcatProperties
  <2>4. QED  BY <1>1, <1>2, <1>3, <1>7, <2>1, <2>2, <2>3 DEF TypeOK
<1>13. CASE Connect \/ ReceiveLogon \/ ClientNotices \/ ClientDrops \/ ClientRestarts
            \/ VenueNotices \/ VenueDrops
  <2>1. Reads
    BY <1>1, <1>13, OthersRead
  <2>2. /\ venue' \in {"down", "connected", "loggedOn", "refused"}
        /\ expected' = expected /\ range' \in {range, NoRange} /\ handled' = handled
        /\ toClient' = <<>> \/ toClient' = toClient
           \/ (toClient # <<>> /\ toClient' = Tail(toClient))
    BY <1>1, <1>13 DEF TypeOK, Connect, ReceiveLogon, ClientNotices, ClientDrops,
         ClientRestarts, VenueNotices, VenueDrops, ClientCloses, VenueCloses, venueVars
  <2>3. toClient' \in Seq(Nat)
    BY <1>1, <1>9, <2>2, EmptySeq
  <2>4. QED  BY <1>1, <1>2, <1>3, <1>6, <2>1, <2>2, <2>3 DEF TypeOK
<1>14. CASE VenueDiesHandling
  <2>1. Reads
    BY <1>1, <1>14, OthersRead
  <2>2. venue' = "down" /\ expected' = expected /\ range' = NoRange /\ toClient' = <<>>
    BY <1>14 DEF VenueDiesHandling, VenueCloses
  <2>3. PICK m : /\ m \in Message /\ m.kind = "request" /\ Reflects(m)
                 /\ handled' = Append(handled, m.arg)
    <3>1. PICK m \in queue \cup (IF toVenue = <<>> THEN {} ELSE {Head(toVenue)}) :
             m.kind = "request" /\ handled' = Append(handled, m.arg)
      BY <1>14 DEF VenueDiesHandling
    <3>2. toVenue # <<>> => Reflects(Head(toVenue)) /\ Head(toVenue) \in Message
      BY FirstTaken DEF SessionInv, TypeOK, WireReflectsStore
    <3>3. Reflects(m) /\ m \in Message
      BY <1>1, <3>1, <3>2 DEF SessionInv, WireReflectsStore
    <3>4. QED  BY <3>1, <3>3
  <2>4. m.arg \in 1..MaxSent
    BY <2>3, RequestIsKnown
  <2>5. handled' \in Seq(1..MaxSent)
    BY <1>1, <2>3, <2>4, Extended
  <2>6. toClient' \in Seq(Nat)
    BY <2>2, EmptySeq
  <2>7. QED  BY <1>1, <1>2, <1>3, <1>6, <2>1, <2>2, <2>5, <2>6 DEF TypeOK
<1>15. CASE AcceptLogon
  <2>1. Reads
    BY <1>1, <1>15, OthersRead
  <2>2. venue' = "loggedOn" /\ handled' = handled
    BY <1>15, AcceptFacts
  <2>3. PICK m \in Message, e \in Nat \ {0} :
           /\ m.seq \in Nat
           /\ \/ /\ m.seq > e
                 /\ range' = <<expected, m.seq - 1>>
                 /\ toClient' = <<LogonAnswer, expected>>
                 /\ expected' = expected
              \/ /\ range' = NoRange
                 /\ toClient' = <<LogonAnswer>>
                 /\ expected' = e + 1
    BY <1>15, AcceptFacts
  <2>4. range' \in Nat \X Nat /\ expected' \in Nat \ {0}
    <3>1. m.seq > e => m.seq - 1 \in Nat
      BY <2>3
    <3>2. e + 1 \in Nat \ {0}
      OBVIOUS
    <3>3. m.seq > e => <<expected, m.seq - 1>> \in Nat \X Nat
      BY <1>1, <3>1
    <3>4. CASE m.seq > e /\ range' = <<expected, m.seq - 1>> /\ expected' = expected
      BY <1>1, <3>3, <3>4
    <3>5. CASE range' = NoRange /\ expected' = e + 1
      BY <1>2, <3>2, <3>5
    <3>6. QED  BY <2>3, <3>4, <3>5
  <2>5. toClient' \in Seq(Nat)
    <3>1. <<LogonAnswer, expected>> \in Seq(Nat) /\ <<LogonAnswer>> \in Seq(Nat)
      BY <1>1, <1>2
    <3>2. QED  BY <2>3, <3>1
  <2>6. QED  BY <1>1, <1>2, <1>3, <1>6, <2>1, <2>2, <2>4, <2>5 DEF TypeOK
<1>16. CASE Receive
  <2> DEFINE m == Head(toVenue)
  <2>1. Reads /\ venue = "loggedOn"
    BY <1>1, <1>16, OthersRead DEF Receive
  <2>2. /\ m \in Message /\ Reflects(m) /\ m.seq \in Nat /\ Following(m) \in Nat
        /\ \/ /\ m.seq > expected /\ AskAgain(m, <<>>)
              /\ UNCHANGED <<venue, expected, handled>>
           \/ /\ m.seq < expected /\ m.dup
              /\ UNCHANGED <<toClient, venueVars>>
           \/ /\ m.seq = expected /\ Take(m) /\ expected' = Following(m)
              /\ UNCHANGED <<toClient, venue, queue>>
    BY <1>16, ReceiveFacts
  <2> HIDE DEF m
  <2>3. CASE m.seq > expected /\ AskAgain(m, <<>>) /\ UNCHANGED <<venue, expected, handled>>
    <3>1. range' \in Nat \X Nat
      BY <1>1, <2>2, <2>3 DEF AskAgain
    <3>2. toClient' = toClient \o <<>> \/ toClient' = toClient \o <<>> \o <<expected>>
      BY <2>3 DEF AskAgain
    <3>3. toClient' \in Seq(Nat)
      BY <1>1, <1>8, <3>2, ConcatEmptySeq
    <3>4. QED  BY <1>1, <1>2, <1>3, <1>6, <2>1, <2>3, <3>1, <3>3 DEF TypeOK
  <2>4. CASE UNCHANGED <<toClient, venueVars>>
    BY <1>1, <1>2, <1>3, <1>6, <2>1, <2>4 DEF TypeOK, venueVars
  <2>5. CASE /\ m.seq = expected /\ Take(m) /\ expected' = Following(m)
             /\ UNCHANGED <<toClient, venue, queue>>
    <3>1. range' \in {range, NoRange}
      BY <2>5 DEF Take
    <3>2. handled' \in Seq(1..MaxSent)
      BY <1>1, <2>2, <2>5, RequestIsKnown, Extended DEF Take
    <3>3. expected' \in Nat \ {0}
      BY <1>1, <2>2, <2>5 DEF Reflects
    <3>4. QED  BY <1>1, <1>2, <1>3, <1>6, <2>1, <2>5, <3>1, <3>2, <3>3 DEF TypeOK
  <2>6. QED  BY <2>2, <2>3, <2>4, <2>5
<1>17. CASE NextQueued
  <2>1. Reads /\ venue' = "loggedOn" /\ toClient' = toClient
    BY <1>1, <1>17, OthersRead, QueuedFacts
  <2>2. PICK m \in queue :
           /\ m \in Message /\ Reflects(m) /\ m.seq = expected
           /\ Following(m) \in Nat
           /\ expected' = Following(m)
           /\ handled' = IF m.kind = "request" THEN Append(handled, m.arg) ELSE handled
    BY <1>17, QueuedFacts
  <2>3. range' \in {range, NoRange}
    BY <1>17 DEF NextQueued, Take
  <2>4. handled' \in Seq(1..MaxSent)
    BY <1>1, <2>2, RequestIsKnown, Extended
  <2>5. expected' \in Nat \ {0}
    BY <1>1, <2>2 DEF Reflects
  <2>6. QED  BY <1>1, <1>2, <1>3, <1>6, <2>1, <2>3, <2>4, <2>5 DEF TypeOK
<1>18. CASE UNCHANGED vars
  BY <1>1, <1>18 DEF TypeOK, vars, clientVars, venueVars
<1>19. QED
  BY <1>10, <1>11, <1>12, <1>13, <1>14, <1>15, <1>16, <1>17, <1>18
     DEF Next, ClientStep, VenueStep

-----------------------------------------------------------------------------
(* One ResendRequest in a connection. *)

\* Numbers on the wire and in the queue are numbers of the store.
LEMMA WireFacts ==
    ASSUME SessionInv
    PROVE  /\ Len(toVenue) \in Nat /\ Len(store) \in Nat /\ expected \in Nat \ {0}
           /\ toVenue \in Seq(Message) /\ toClient \in Seq(Nat)
           /\ \A i \in 1..Len(toVenue) :
                 /\ toVenue[i] \in Message
                 /\ toVenue[i].seq \in 1..Len(store)
                 /\ Following(toVenue[i]) \in toVenue[i].seq + 1..Len(store) + 1
           /\ \A m \in queue : m \in Message /\ m.seq \in 1..Len(store)
           /\ Queued \subseteq 1..Len(store)
           /\ \A p \in 0..Len(toVenue) : Ahead(p) \subseteq 1..Len(store)
<1>1. /\ Len(toVenue) \in Nat /\ Len(store) \in Nat /\ expected \in Nat \ {0}
      /\ toVenue \in Seq(Message) /\ toClient \in Seq(Nat)
  BY LenProperties DEF SessionInv, TypeOK
<1>2. \A i \in 1..Len(toVenue) : toVenue[i] \in Message
  BY <1>1, Numbers
<1>3. \A i \in 1..Len(toVenue) :
         /\ toVenue[i].seq \in 1..Len(store)
         /\ Following(toVenue[i]) \in toVenue[i].seq + 1..Len(store) + 1
  BY DEF SessionInv, WireReflectsStore, Reflects
<1>4. \A m \in queue : m \in Message /\ m.seq \in 1..Len(store)
  BY DEF SessionInv, TypeOK, WireReflectsStore, Reflects
<1>5. Queued \subseteq 1..Len(store)
  BY <1>4 DEF Queued
<1>6. ASSUME NEW p \in 0..Len(toVenue) PROVE Ahead(p) \subseteq 1..Len(store)
  <2>1. \A i \in 1..p : i \in 1..Len(toVenue)
    BY <1>1
  <2>2. QED  BY <1>3, <2>1 DEF Ahead
<1>7. QED  BY <1>1, <1>2, <1>3, <1>4, <1>5, <1>6

\* A message sent behind the others, or a request stored before the Logon is
\* answered.
SendsMore(x) ==
    /\ \E kind : Sends(kind, x)
    /\ UNCHANGED <<queue, range, toClient, expected, client>>
    /\ IF client = "loggedOn"
       THEN toVenue' # toVenue
       ELSE toVenue' = toVenue /\ x # Admin

\* One new message: the store grows, and the wire if logged on.
LEMMA SendsMoreFacts ==
    ASSUME SessionInv, NEW x, SendsMore(x)
    PROVE  /\ Len(store') = Len(store) + 1
           /\ \A n \in 1..Len(store) : store'[n] = store[n]
           /\ \A i \in 1..Len(toVenue) : toVenue'[i] = toVenue[i]
           /\ \/ /\ Len(toVenue') = Len(toVenue) /\ toVenue' = toVenue
                 /\ client # "loggedOn"
                 /\ store'[Len(store) + 1] # Admin
              \/ /\ Len(toVenue') = Len(toVenue) + 1
                 /\ client = "loggedOn"
                 /\ toVenue'[Len(toVenue) + 1].seq = Len(store) + 1
                 /\ Following(toVenue'[Len(toVenue) + 1]) = Len(store) + 2
                 /\ ~toVenue'[Len(toVenue) + 1].dup
                 /\ toVenue'[Len(toVenue) + 1].kind # "gapFill"
<1>1. PICK kind : Sends(kind, x)
  BY DEF SendsMore
<1>2. /\ Len(store') = Len(store) + 1 /\ store'[Len(store) + 1] = x
      /\ \A n \in 1..Len(store) : store'[n] = store[n]
  BY <1>1, Extended DEF Sends, SessionInv, TypeOK
<1>3. \A i \in 1..Len(toVenue) : toVenue'[i] = toVenue[i]
  BY <1>1, WireAfterSend DEF SessionInv
<1>4. CASE client = "loggedOn"
  <2> DEFINE m == New(kind, Len(store) + 1, x)
  <2>1. toVenue' = Append(toVenue, m)
    BY <1>1, <1>4 DEF SendsMore, Sends
  <2>2. m \in Message /\ m.kind \notin {"reset", "gapFill"} /\ ~m.dup
        /\ m.seq = Len(store) + 1 /\ Following(m) = Len(store) + 2
    BY <1>1, SentReflects DEF SessionInv
  <2> HIDE DEF m
  <2>3. Len(toVenue') = Len(toVenue) + 1 /\ toVenue'[Len(toVenue) + 1] = m
    BY <2>1, <2>2, Extended DEF SessionInv, TypeOK
  <2>4. QED  BY <1>2, <1>3, <1>4, <2>2, <2>3
<1>5. CASE client # "loggedOn"
  BY <1>2, <1>3, <1>5 DEF SendsMore
<1>6. QED  BY <1>4, <1>5

\* A new message does not hide a gap.
LEMMA NewWhenMore ==
    ASSUME SessionInv, NEW x, SendsMore(x), AllNew(Len(toVenue)), AdminsFollow
    PROVE  /\ AllNew(Len(toVenue))' /\ AdminsFollow'
           /\ Queued' = Queued
           /\ \A n \in Ahead(Len(toVenue))' :
                 n \in Ahead(Len(toVenue)) \/ n = Len(store) + 1
<1>1. /\ Len(store') = Len(store) + 1 /\ Len(store) \in Nat /\ Len(toVenue) \in Nat
      /\ \A n \in 1..Len(store) : store'[n] = store[n]
      /\ \A i \in 1..Len(toVenue) : toVenue'[i] = toVenue[i]
      /\ queue' = queue /\ Queued' = Queued
  BY SendsMoreFacts, WireFacts DEF SendsMore, Queued
<1>2. Queued \subseteq 1..Len(store) /\ Ahead(Len(toVenue)) \subseteq 1..Len(store)
  BY <1>1, WireFacts
<1>3. CASE toVenue' = toVenue /\ store'[Len(store) + 1] # Admin
  <2>1. Ahead(Len(toVenue))' = Ahead(Len(toVenue))
    BY <1>3 DEF Ahead
  <2>2. ASSUME NEW k \in Queued \cup Ahead(Len(toVenue)), NEW n \in 1..Len(store) + 1,
               n > k, store'[n] = Admin
        PROVE  n \in Queued \cup Ahead(Len(toVenue))
    BY <1>1, <1>3, <2>2 DEF AdminsFollow
  <2>3. AdminsFollow'
    BY <1>1, <2>1, <2>2 DEF AdminsFollow
  <2>4. AllNew(Len(toVenue))'
    BY <1>1, <1>3 DEF AllNew
  <2>5. QED  BY <1>1, <2>1, <2>3, <2>4
<1>4. CASE /\ Len(toVenue') = Len(toVenue) + 1
           /\ toVenue'[Len(toVenue) + 1].seq = Len(store) + 1
           /\ ~toVenue'[Len(toVenue) + 1].dup
           /\ toVenue'[Len(toVenue) + 1].kind # "gapFill"
  <2>1. \A i \in 1..Len(toVenue') : i \in 1..Len(toVenue) \/ i = Len(toVenue) + 1
    BY <1>1, <1>4
  <2>2. Ahead(Len(toVenue))' = Ahead(Len(toVenue)) \cup {Len(store) + 1}
    <3>1. Ahead(Len(toVenue))' \subseteq Ahead(Len(toVenue)) \cup {Len(store) + 1}
      BY <1>1, <1>4, <2>1 DEF Ahead
    <3>2. Len(toVenue) + 1 \in 1..Len(toVenue')
          /\ \A i \in 1..Len(toVenue) : i \in 1..Len(toVenue')
      BY <1>1, <1>4
    <3>3. Ahead(Len(toVenue)) \cup {Len(store) + 1} \subseteq Ahead(Len(toVenue))'
      BY <1>1, <1>4, <3>2 DEF Ahead
    <3>4. QED  BY <3>1, <3>3
  <2>3. ASSUME NEW k \in Queued \cup Ahead(Len(toVenue)) \cup {Len(store) + 1},
               NEW n \in 1..Len(store) + 1, n > k, store'[n] = Admin
        PROVE  n \in Queued \cup Ahead(Len(toVenue)) \cup {Len(store) + 1}
    <3>1. CASE n = Len(store) + 1
      BY <3>1
    <3>2. CASE n \in 1..Len(store)
      <4>1. k \in Queued \cup Ahead(Len(toVenue)) /\ store[n] = Admin
        BY <1>1, <2>3, <3>2
      <4>2. QED  BY <2>3, <3>2, <4>1 DEF AdminsFollow
    <3>3. QED  BY <1>1, <3>1, <3>2
  <2>4. AdminsFollow'
    BY <1>1, <2>2, <2>3 DEF AdminsFollow
  <2>5. AllNew(Len(toVenue))'
    BY <1>1, <1>4, <2>1 DEF AllNew
  <2>6. QED  BY <1>1, <2>2, <2>4, <2>5
<1>5. QED  BY <1>3, <1>4, SendsMoreFacts

\* A new message follows the answer on the wire without a gap.
LEMMA AnsweredWhenMore ==
    ASSUME SessionInv, NEW x, SendsMore(x), client = "loggedOn", InStep,
           NEW p \in 0..Len(toVenue), AnsweredAfter(p)
    PROVE  AnsweredAfter(p)' /\ p \in 0..Len(toVenue')
<1>1. /\ Len(toVenue) \in Nat /\ Len(store) \in Nat /\ expected \in Nat \ {0}
      /\ \A i \in 1..Len(toVenue) :
            /\ toVenue[i].seq \in 1..Len(store)
            /\ Following(toVenue[i]) \in toVenue[i].seq + 1..Len(store) + 1
      /\ Queued \subseteq 1..Len(store) /\ Ahead(p) \subseteq 1..Len(store)
  BY WireFacts
<1> DEFINE L == Len(toVenue)
           e == toVenue'[L + 1]
<1>2. /\ Len(store') = Len(store) + 1 /\ Len(toVenue') = L + 1
      /\ \A i \in 1..L : toVenue'[i] = toVenue[i]
      /\ e.seq = Len(store) + 1 /\ Following(e) = Len(store) + 2
      /\ queue' = queue /\ range' = range /\ expected' = expected
  BY SendsMoreFacts DEF SendsMore
<1>3. /\ Queued' = Queued /\ Ahead(p)' = Ahead(p)
      /\ \A i \in 1..p : i \in 1..L
  <2>1. \A i \in 1..p : i \in 1..L
    BY <1>1
  <2>2. QED  BY <1>2, <2>1 DEF Queued, Ahead
<1>4. \A i \in p + 1..L + 1 : i = L + 1 \/ (i \in p + 1..L /\ i \in 1..L)
  BY <1>1
<1>5. L + 1 \in 1..L + 1 /\ p + 1 \in 1..L + 1
  BY <1>1
<1>6. (\A m : Following(m)' = Following(m)) /\ p \in 0..L + 1
  BY <1>1 DEF Following
<1> HIDE DEF e, L
<1>7. AllNew(p)'
  BY <1>2, <1>3 DEF AllNew, AnsweredAfter
<1>8. p > 0 => Awaited(p)'
  <2>1. p > 0 => p < L /\ p + 1 \in 1..L /\ p < L + 1
    BY <1>1 DEF AnsweredAfter, Awaited, L
  <2>2. QED  BY <1>1, <1>2, <1>3, <2>1 DEF AnsweredAfter, Awaited, L
<1>9. Resumes(p)' = Resumes(p)
  <2>1. CASE p < L
    <3>1. p + 1 \in 1..L /\ p < L + 1
      BY <1>1, <2>1 DEF L
    <3>2. QED  BY <1>2, <2>1, <3>1 DEF Resumes, L
  <2>2. CASE p = L
    <3>1. L < L + 1
      BY <1>1 DEF L
    <3>2. QED  BY <1>2, <2>2, <3>1 DEF Resumes, L, e
  <2>3. QED  BY <1>1, <2>1, <2>2 DEF L
<1>10. expected'..Resumes(p)' - 1 \subseteq Queued'
  BY <1>2, <1>3, <1>9 DEF AnsweredAfter
<1>11. Following(toVenue'[L + 1]) = Len(store') + 1
  BY <1>1, <1>2 DEF e
<1>12. ASSUME NEW i \in p + 1..L PROVE toVenue'[i + 1].seq = Following(toVenue'[i])
  <2>1. i \in 1..L /\ (i = L \/ (i \in p + 1..L - 1 /\ i + 1 \in 1..L))
    BY <1>1 DEF L
  <2>2. CASE i = L
    <3>1. p < L
      BY <1>1, <2>2 DEF L
    <3>2. Following(toVenue[L]) = Len(store) + 1
      BY <3>1 DEF AnsweredAfter, L, GaplessAfter
    <3>3. QED  BY <1>2, <2>1, <2>2, <3>2 DEF e
  <2>3. CASE i \in p + 1..L - 1 /\ i + 1 \in 1..L
    BY <1>2, <2>1, <2>3 DEF AnsweredAfter, GaplessAfter, L
  <2>4. QED  BY <2>1, <2>2, <2>3
<1>13. ASSUME NEW i \in p + 1..L + 1, NEW j \in p + 1..L + 1, i < j
       PROVE  Following(toVenue'[i]) <= toVenue'[j].seq
  <2>1. i \in p + 1..L /\ i \in 1..L
    BY <1>1, <1>4, <1>13 DEF L
  <2>2. CASE j = L + 1
    BY <1>1, <1>2, <2>1, <2>2 DEF e, L
  <2>3. CASE j \in p + 1..L /\ j \in 1..L
    BY <1>2, <1>13, <2>1, <2>3 DEF AnsweredAfter, GaplessAfter, L
  <2>4. QED  BY <1>4, <2>2, <2>3 DEF L
<1>14. ASSUME NEW i \in p + 1..L + 1, NEW m, m = toVenue'[i]
       PROVE  /\ m.seq < expected => expected..Following(m) - 1 \subseteq Queued
              /\ \A n \in Queued \cup Ahead(p) :
                    n >= expected /\ n >= m.seq =>
                        n..Following(m) - 1 \subseteq Queued \cup Ahead(p)
  <2>1. CASE i = L + 1
    <3>1. m.seq = Len(store) + 1
      BY <1>2, <1>14, <2>1 DEF e
    <3>2. expected <= Len(store) + 1
      BY DEF SessionInv, NumbersGoForward
    <3>3. \A n \in Queued \cup Ahead(p) : ~(n >= m.seq)
      BY <1>1, <3>1
    <3>4. QED  BY <1>1, <3>1, <3>2, <3>3
  <2>2. CASE i \in p + 1..L /\ i \in 1..L
    <3>1. m = toVenue[i]
      BY <1>2, <1>14, <2>2
    <3>2. QED  BY <2>2, <3>1 DEF AnsweredAfter, OverlapKnown, L
  <2>3. QED  BY <1>4, <2>1, <2>2 DEF L
<1>15. GaplessAfter(p)'
  <2>1. \A i \in p + 1..Len(toVenue') - 1 : i \in p + 1..L
    BY <1>1, <1>2 DEF L
  <2>2. \A i \in p + 1..Len(toVenue') : i \in p + 1..L + 1
    BY <1>2
  <2>3. QED  BY <1>2, <1>6, <1>11, <1>12, <1>13, <2>1, <2>2 DEF GaplessAfter
<1>16. OverlapKnown(p)'
  BY <1>2, <1>3, <1>6, <1>14 DEF OverlapKnown
<1>17. AnsweredAfter(p)'
  BY <1>7, <1>8, <1>10, <1>15, <1>16 DEF AnsweredAfter
<1>18. QED  BY <1>2, <1>6, <1>17

\* The answer to the ResendRequest fills the gap.
LEMMA AnswerFills ==
    ASSUME SessionInv, AnswerResend
    PROVE  Answered'
<1>0. PICK L \in Nat : L = Len(toVenue)
  BY WireFacts
<1> DEFINE R == Resent(expected)
           W == toVenue'
<1>1. /\ L \in Nat /\ Len(store) \in Nat /\ expected \in Nat \ {0}
      /\ toVenue \in Seq(Message)
      /\ Queued \subseteq 1..Len(store) /\ Ahead(L) \subseteq 1..Len(store)
  BY <1>0, WireFacts
<1>2. /\ AskedAgain /\ expected \in 1..Len(store)
      /\ ChainTo(R, expected, Len(store)) /\ Len(R) > 0 /\ R \in Seq(Message)
      /\ Tail(toClient) = <<>> /\ W = toVenue \o R
  BY AnswerFacts DEF ChainTo
<1>3. /\ UNCHANGED <<store, expected, queue, range, client>>
      /\ client = "loggedOn" /\ toClient' = <<>>
  BY <1>2 DEF AnswerResend, clientVars, venueVars
<1>4. /\ Len(W) = L + Len(R) /\ Len(R) \in Nat
      /\ \A i \in 1..L : W[i] = toVenue[i]
      /\ \A i \in 1..Len(R) : W[L + i] = R[i]
  BY <1>0, <1>1, <1>2, Joined
<1>5. /\ Queued' = Queued /\ Ahead(L)' = Ahead(L)
      /\ \A m : Following(m)' = Following(m)
  BY <1>1, <1>3, <1>4 DEF Queued, Ahead, Following
<1>6. \A i \in 1..Len(R) : /\ R[i] \in Message /\ Reflects(R[i])
                           /\ R[i].seq \in 1..Len(store)
                           /\ Following(R[i]) \in R[i].seq + 1..Len(store) + 1
                           /\ Following(R[i]) \in Nat
  BY <1>2, Numbers DEF ChainTo, Reflects
<1> HIDE DEF R, W
<1>7. \A i \in L + 1..Len(W) : i - L \in 1..Len(R) /\ W[i] = R[i - L]
  <2>1. ASSUME NEW i \in L + 1..Len(W) PROVE i - L \in 1..Len(R) /\ W[i] = R[i - L]
    <3>1. i - L \in 1..Len(R) /\ L + (i - L) = i
      BY <1>1, <1>4
    <3>2. QED  BY <1>4, <3>1
  <2>2. QED  BY <2>1
<1>8. AllNew(L)'
  BY <1>0, <1>2, <1>3, <1>4 DEF AskedAgain, AllNew, W
<1>9. L < Len(W) /\ W[L + 1].seq = expected
  <2>1. 1 \in 1..Len(R) /\ R[1].seq = expected
    BY <1>2, <1>4 DEF ChainTo
  <2>2. QED  BY <1>1, <1>4, <2>1
<1>10. Awaited(L)'
  BY <1>0, <1>2, <1>3, <1>5, <1>9 DEF Awaited, AskedAgain, W
<1>11. expected'..Resumes(L)' - 1 \subseteq Queued'
  <2>1. Resumes(L)' = expected
    BY <1>9 DEF Resumes, W
  <2>2. \A n \in expected..expected - 1 : FALSE
    BY <1>1
  <2>3. QED  BY <1>3, <2>1, <2>2
<1>12. GaplessAfter(L)'
  <2>1. Following(W[Len(W)]) = Len(store) + 1
    <3>1. Len(W) \in L + 1..Len(W) /\ Len(W) - L = Len(R) /\ Len(R) \in 1..Len(R)
      BY <1>1, <1>2, <1>4
    <3>2. Len(store) < Following(R[Len(R)])
      BY <1>1, <1>2 DEF ChainTo
    <3>3. Following(R[Len(R)]) \in Nat /\ Following(R[Len(R)]) <= Len(store) + 1
      BY <1>1, <1>6, <3>1
    <3>4. Following(R[Len(R)]) = Len(store) + 1
      BY <1>1, <3>2, <3>3
    <3>5. QED  BY <1>7, <3>1, <3>4
  <2>2. ASSUME NEW i \in L + 1..Len(W) - 1 PROVE W[i + 1].seq = Following(W[i])
    <3>1. /\ i \in L + 1..Len(W) /\ i + 1 \in L + 1..Len(W)
          /\ (i + 1) - L = (i - L) + 1 /\ i - L \in 1..Len(R) - 1
      BY <1>1, <1>4
    <3>2. W[i] = R[i - L] /\ W[i + 1] = R[(i - L) + 1]
      BY <1>7, <3>1
    <3>3. QED  BY <1>2, <3>1, <3>2 DEF ChainTo
  <2>3. ASSUME NEW i \in L + 1..Len(W), NEW j \in L + 1..Len(W), i < j
        PROVE  Following(W[i]) <= W[j].seq
    <3>1. i - L \in 1..Len(R) /\ j - L \in 1..Len(R) /\ i - L < j - L
      BY <1>1, <1>4, <2>3
    <3>2. Following(R[i - L]) <= R[j - L].seq
      BY <1>2, <3>1 DEF ChainTo
    <3>3. QED  BY <1>7, <3>2
  <2>4. QED  BY <1>3, <1>5, <2>1, <2>2, <2>3 DEF GaplessAfter, W
<1>13. OverlapKnown(L)'
  <2>1. ASSUME NEW i \in L + 1..Len(W), NEW m, m = W[i]
        PROVE  /\ ~(m.seq < expected)
               /\ \A n \in Queued \cup Ahead(L) :
                     n >= expected /\ n >= m.seq =>
                         n..Following(m) - 1 \subseteq Queued \cup Ahead(L)
    <3>1. i - L \in 1..Len(R) /\ m = R[i - L]
      BY <1>7, <2>1
    <3>2. /\ m.seq \in Nat /\ Following(m) \in Nat /\ m \in Message /\ Reflects(m)
          /\ Following(m) <= Len(store) + 1
      BY <1>1, <1>6, <3>1
    <3>3. ~(m.seq < expected)
      <4>1. CASE i - L = 1
        BY <1>1, <1>2, <3>1, <3>2, <4>1 DEF ChainTo
      <4>2. CASE i - L # 1
        <5>1. 1 \in 1..Len(R) /\ 1 < i - L
          BY <1>1, <1>4, <3>1, <4>2
        <5>2. Following(R[1]) <= m.seq /\ R[1].seq = expected
          BY <1>2, <3>1, <5>1 DEF ChainTo
        <5>3. Following(R[1]) \in R[1].seq + 1..Len(store) + 1
          BY <1>6, <5>1
        <5>4. QED  BY <1>1, <3>2, <5>2, <5>3
      <4>3. QED  BY <4>1, <4>2
    <3>4. ASSUME NEW n \in Queued \cup Ahead(L), n >= m.seq,
                 NEW k \in n..Following(m) - 1
          PROVE  k \in Queued \cup Ahead(L)
      <4>1. n \in Nat /\ k \in Nat /\ k <= Len(store) /\ k >= n
        BY <1>1, <3>2, <3>4
      <4>2. CASE k = n
        BY <3>4, <4>2
      <4>3. CASE k # n
        <5>1. m.kind # "request"
          <6>1. m.kind = "request" => Following(m) = m.seq + 1
            BY DEF Following
          <6>2. QED  BY <3>2, <3>4, <4>1, <4>3, <6>1
        <5>2. k \in m.seq..Following(m) - 1
          BY <3>2, <3>4, <4>1
        <5>3. store[k] = Admin
          BY <3>2, <5>1, <5>2 DEF Reflects
        <5>4. k > n /\ k \in 1..Len(store)
          BY <1>1, <3>2, <4>1, <4>3
        <5>5. QED  BY <1>0, <1>2, <3>4, <5>3, <5>4 DEF AskedAgain, AdminsFollow
      <4>4. QED  BY <4>2, <4>3
    <3>5. QED  BY <3>3, <3>4
  <2>2. QED  BY <1>3, <1>5, <2>1 DEF OverlapKnown, W
<1>14. AnsweredAfter(L)'
  BY <1>8, <1>10, <1>11, <1>12, <1>13 DEF AnsweredAfter
<1>15. L \in 0..Len(W)
  BY <1>1, <1>4
<1>16. QED  BY <1>3, <1>14, <1>15 DEF Answered, W

\* A message is queued: what is known of the first ones on the wire stays so.
LEMMA Requeued ==
    ASSUME SessionInv, Receive, NEW m, m = Head(toVenue), AskAgain(m, <<>>),
           NEW p \in 1..Len(toVenue), AllNew(p)
    PROVE  /\ Queued' \cup Ahead(p - 1)' = Queued \cup Ahead(p)
           /\ Queued \subseteq Queued' /\ m.seq \in Queued'
           /\ AllNew(p - 1)' /\ queue' # {}
           /\ m.seq \in Ahead(p)
<1>1. /\ toVenue' = Tail(toVenue) /\ m = toVenue[1] /\ Len(toVenue) \in Nat \ {0}
      /\ m \in Message
  BY ReceiveFacts
<1>2. /\ Len(toVenue') = Len(toVenue) - 1
      /\ \A i \in 1..Len(toVenue) - 1 : toVenue'[i] = toVenue[i + 1]
  BY <1>1, FirstTaken DEF SessionInv, TypeOK, Receive
<1>3. queue' = {q \in queue : q.seq # m.seq} \cup {m}
  BY DEF AskAgain
<1>4. Queued' = Queued \cup {m.seq}
  BY <1>3 DEF Queued
<1>5. Ahead(p) = Ahead(p - 1)' \cup {m.seq}
  <2>1. \A i \in 1..p : i = 1 \/ (i - 1 \in 1..p - 1 /\ (i - 1) + 1 = i)
    BY <1>1
  <2>2. \A i \in 1..p - 1 : i + 1 \in 1..p /\ i \in 1..Len(toVenue) - 1
    BY <1>1
  <2>3. 1 \in 1..p
    BY <1>1
  <2>4. Ahead(p - 1)' \cup {m.seq} \subseteq Ahead(p)
    BY <1>1, <1>2, <2>2, <2>3 DEF Ahead
  <2>5. ASSUME NEW i \in 1..p
        PROVE  toVenue[i].seq \in Ahead(p - 1)' \cup {m.seq}
    <3>1. CASE i = 1
      BY <1>1, <3>1
    <3>2. CASE i - 1 \in 1..p - 1 /\ (i - 1) + 1 = i
      <4>1. toVenue'[i - 1] = toVenue[i]
        BY <1>2, <2>2, <3>2
      <4>2. QED  BY <3>2, <4>1 DEF Ahead
    <3>3. QED  BY <2>1, <3>1, <3>2
  <2>6. QED  BY <2>4, <2>5 DEF Ahead
<1>6. AllNew(p - 1)'
  <2>1. \A i \in 1..p - 1 : i + 1 \in 1..p /\ i \in 1..Len(toVenue) - 1
    BY <1>1
  <2>2. 1 \in 1..p /\ m.kind # "gapFill"
    BY <1>1 DEF AllNew
  <2>3. QED  BY <1>2, <1>3, <2>1, <2>2 DEF AllNew
<1>7. QED  BY <1>3, <1>4, <1>5, <1>6

\* The first message on the wire, whatever is waiting for it.
LEMMA ReceiveWire ==
    ASSUME SessionInv, Receive
    PROVE  /\ Len(toVenue) \in Nat \ {0} /\ Len(toVenue') = Len(toVenue) - 1
           /\ \A i \in 1..Len(toVenue) - 1 : toVenue'[i] = toVenue[i + 1]
           /\ UNCHANGED <<store, client>>
           /\ \A m : Following(m)' = Following(m)
BY FirstTaken DEF SessionInv, TypeOK, Receive, clientVars, Following

\* A gap is seen: the first message that is too early is queued.
LEMMA GapIsSeen ==
    ASSUME SessionInv, Receive, NEW m, m = Head(toVenue), m.seq > expected,
           AskAgain(m, <<>>), UNCHANGED expected, NoGapSeen
    PROVE  AskedAgain'
<1>1. /\ Len(toVenue) \in Nat \ {0} /\ Len(toVenue') = Len(toVenue) - 1
      /\ \A i \in 1..Len(toVenue) - 1 : toVenue'[i] = toVenue[i + 1]
      /\ UNCHANGED <<store, client>>
      /\ m = toVenue[1] /\ expected \in Nat \ {0} /\ Len(store) \in Nat
  BY ReceiveWire, ReceiveFacts, WireFacts
<1>2. PICK L \in 1..Len(toVenue) : L = Len(toVenue)
  BY <1>1
<1>3. /\ Queued' \cup Ahead(L - 1)' = Queued \cup Ahead(L)
      /\ AllNew(L - 1)' /\ queue' # {}
  BY <1>2, Requeued DEF NoGapSeen
<1>4. L - 1 = Len(toVenue')
  BY <1>1, <1>2
<1>5. AdminsFollow'
  BY <1>1, <1>2, <1>3, <1>4 DEF AdminsFollow, NoGapSeen
<1>6. range' = <<expected, m.seq - 1>> /\ toClient' = toClient \o <<>> \o <<expected>>
  BY DEF AskAgain, NoGapSeen, Active
<1>7. toClient' \in {<<expected>>, <<LogonAnswer, expected>>}
  BY <1>6, BothJoined DEF NoGapSeen
<1>8. \A n \in Queued \cup Ahead(L) : n > expected
  <2>1. Queued = {}
    BY DEF NoGapSeen, Queued
  <2>2. ASSUME NEW i \in 1..L PROVE toVenue[i].seq > expected
    <3>1. CASE i = 1
      BY <1>1, <3>1
    <3>2. CASE i # 1
      <4>1. 1 \in 1..i - 1 /\ i \in 1..Len(toVenue) /\ 1 \in 1..Len(toVenue)
        BY <1>1, <1>2, <3>2
      <4>2. ~toVenue[i].dup
        BY <4>1 DEF NoGapSeen, AllNew
      <4>3. Following(toVenue[1]) <= toVenue[i].seq
        BY <4>1, <4>2 DEF SessionInv, NumbersGoForward
      <4>4. /\ toVenue[1].seq \in 1..Len(store) /\ toVenue[i].seq \in 1..Len(store)
            /\ Following(toVenue[1]) \in toVenue[1].seq + 1..Len(store) + 1
        BY <4>1, WireFacts
      <4>5. QED  BY <1>1, <4>3, <4>4
    <3>3. QED  BY <3>1, <3>2
  <2>3. QED  BY <2>1, <2>2 DEF Ahead
<1>9. \A n \in Queued' \cup Ahead(L - 1)' : n > expected
  BY <1>3, <1>8
<1>10. QED
  BY <1>3, <1>4, <1>5, <1>6, <1>7, <1>9 DEF AskedAgain

\* Until the ResendRequest is answered more may be queued, and nothing is asked.
LEMMA StillAsked ==
    ASSUME SessionInv, Receive, NEW m, m = Head(toVenue), m.seq > expected,
           AskAgain(m, <<>>), UNCHANGED expected, AskedAgain
    PROVE  AskedAgain'
<1>1. /\ Len(toVenue) \in Nat \ {0} /\ Len(toVenue') = Len(toVenue) - 1
      /\ UNCHANGED <<store, client>>
      /\ expected \in Nat \ {0} /\ m.seq \in Nat /\ toClient \in Seq(Nat)
  BY ReceiveWire, ReceiveFacts, WireFacts
<1>2. PICK L \in 1..Len(toVenue) : L = Len(toVenue)
  BY <1>1
<1>3. /\ Queued' \cup Ahead(L - 1)' = Queued \cup Ahead(L)
      /\ AllNew(L - 1)' /\ queue' # {}
  BY <1>2, Requeued DEF AskedAgain
<1>4. L - 1 = Len(toVenue')
  BY <1>1, <1>2
<1>5. AdminsFollow'
  BY <1>1, <1>2, <1>3, <1>4 DEF AdminsFollow, AskedAgain
<1>6. range' = range /\ toClient' = toClient
  <2>1. range[1] = expected /\ range # NoRange
    BY <1>1 DEF AskedAgain, NoRange
  <2>2. range' = range /\ toClient' = toClient \o <<>>
    BY <1>1, <2>1 DEF AskAgain, Active
  <2>3. QED  BY <1>1, <2>2, ConcatEmptySeq
<1>7. \A n \in Queued' \cup Ahead(L - 1)' : n > expected
  BY <1>2, <1>3 DEF AskedAgain
<1>8. QED
  BY <1>3, <1>4, <1>5, <1>6, <1>7 DEF AskedAgain

\* The same once it is answered, for what was sent before the answer.
LEMMA StillAnswered ==
    ASSUME SessionInv, Receive, NEW m, m = Head(toVenue), m.seq > expected,
           AskAgain(m, <<>>), UNCHANGED expected,
           NEW p \in 1..Len(toVenue), AnsweredAfter(p)
    PROVE  /\ AnsweredAfter(p - 1)' /\ p - 1 \in 0..Len(toVenue')
           /\ toClient' = toClient
<1>1. /\ Len(toVenue) \in Nat \ {0} /\ Len(toVenue') = Len(toVenue) - 1
      /\ \A i \in 1..Len(toVenue) - 1 : toVenue'[i] = toVenue[i + 1]
      /\ UNCHANGED <<store, client>>
      /\ expected \in Nat \ {0} /\ m.seq \in Nat /\ toClient \in Seq(Nat)
      /\ \A q : Following(q)' = Following(q)
  BY ReceiveWire, ReceiveFacts, WireFacts
<1>2. Awaited(p)
  BY DEF AnsweredAfter
<1>3. /\ Queued' \cup Ahead(p - 1)' = Queued \cup Ahead(p) /\ Queued \subseteq Queued'
      /\ AllNew(p - 1)'
  BY Requeued DEF AnsweredAfter
<1>4. range' = range /\ toClient' = toClient
  <2>1. range[1] = expected /\ range # NoRange
    BY <1>1, <1>2 DEF Awaited, NoRange
  <2>2. range' = range /\ toClient' = toClient \o <<>>
    BY <1>1, <2>1 DEF AskAgain, Active
  <2>3. QED  BY <1>1, <2>2, ConcatEmptySeq
<1>5. /\ p < Len(toVenue) /\ p - 1 < Len(toVenue') /\ p - 1 \in 0..Len(toVenue')
      /\ p \in 1..Len(toVenue) - 1 /\ (p - 1) + 1 = p
  BY <1>1, <1>2 DEF Awaited
<1>6. Awaited(p - 1)'
  BY <1>1, <1>2, <1>3, <1>4, <1>5 DEF Awaited
<1>7. expected'..Resumes(p - 1)' - 1 \subseteq Queued'
  <2>1. Resumes(p - 1)' = Resumes(p)
    BY <1>1, <1>5 DEF Resumes
  <2>2. QED  BY <1>3, <2>1 DEF AnsweredAfter
<1>8. GaplessAfter(p - 1)'
  <2>1. Following(toVenue'[Len(toVenue')]) = Len(store) + 1
    <3>1. /\ Len(toVenue') \in 1..Len(toVenue) - 1 /\ Len(toVenue') + 1 = Len(toVenue)
      BY <1>1, <1>5
    <3>2. QED  BY <1>1, <1>5, <3>1 DEF AnsweredAfter, GaplessAfter
  <2>2. ASSUME NEW i \in (p - 1) + 1..Len(toVenue') - 1
        PROVE  toVenue'[i + 1].seq = Following(toVenue'[i])
    <3>1. /\ i \in 1..Len(toVenue) - 1 /\ i + 1 \in 1..Len(toVenue) - 1
          /\ i + 1 \in p + 1..Len(toVenue) - 1
      BY <1>1
    <3>2. QED  BY <1>1, <3>1 DEF AnsweredAfter, GaplessAfter
  <2>3. ASSUME NEW i \in (p - 1) + 1..Len(toVenue'),
               NEW j \in (p - 1) + 1..Len(toVenue'), i < j
        PROVE  Following(toVenue'[i]) <= toVenue'[j].seq
    <3>1. /\ i \in 1..Len(toVenue) - 1 /\ j \in 1..Len(toVenue) - 1
          /\ i + 1 \in p + 1..Len(toVenue) /\ j + 1 \in p + 1..Len(toVenue)
          /\ i + 1 < j + 1
      BY <1>1, <2>3
    <3>2. QED  BY <1>1, <3>1 DEF AnsweredAfter, GaplessAfter
  <2>4. QED  BY <1>1, <2>1, <2>2, <2>3 DEF GaplessAfter
<1>9. OverlapKnown(p - 1)'
  <2>1. ASSUME NEW i \in (p - 1) + 1..Len(toVenue'), NEW q, q = toVenue'[i]
        PROVE  /\ q.seq < expected => expected..Following(q) - 1 \subseteq Queued
               /\ \A n \in Queued \cup Ahead(p) :
                     n >= expected /\ n >= q.seq =>
                         n..Following(q) - 1 \subseteq Queued \cup Ahead(p)
    <3>1. i \in 1..Len(toVenue) - 1 /\ i + 1 \in p + 1..Len(toVenue)
      BY <1>1
    <3>2. q = toVenue[i + 1]
      BY <1>1, <2>1, <3>1
    <3>3. QED  BY <3>1, <3>2 DEF AnsweredAfter, OverlapKnown
  <2>2. QED  BY <1>1, <1>3, <2>1 DEF OverlapKnown
<1>10. QED  BY <1>3, <1>4, <1>5, <1>6, <1>7, <1>8, <1>9 DEF AnsweredAfter

\* While no gap has been seen a message that is next is taken, and that is all.
LEMMA TakenInOrder ==
    ASSUME SessionInv, Receive, NEW m, m = Head(toVenue), m.seq = expected, Take(m),
           UNCHANGED <<toClient, queue>>, NoGapSeen
    PROVE  NoGapSeen'
<1>1. /\ Len(toVenue) \in Nat \ {0} /\ Len(toVenue') = Len(toVenue) - 1
      /\ \A i \in 1..Len(toVenue) - 1 : toVenue'[i] = toVenue[i + 1]
      /\ UNCHANGED <<store, client>>
      /\ m = toVenue[1] /\ m.seq \in Nat /\ Len(store) \in Nat
  BY ReceiveWire, ReceiveFacts, WireFacts
<1>2. range' = NoRange
  BY DEF Take, NoGapSeen
<1>3. \A i \in 1..Len(toVenue') : i \in 1..Len(toVenue) - 1 /\ i + 1 \in 1..Len(toVenue)
  BY <1>1
<1>4. AllNew(Len(toVenue))'
  BY <1>1, <1>3 DEF AllNew, NoGapSeen
<1>5. Queued = {} /\ Queued' = {}
  BY DEF NoGapSeen, Queued
<1>6. Ahead(Len(toVenue))' \subseteq Ahead(Len(toVenue))
  BY <1>1, <1>3 DEF Ahead
<1>7. \A n \in Ahead(Len(toVenue)) : n = m.seq \/ n \in Ahead(Len(toVenue))'
  <2>1. ASSUME NEW i \in 1..Len(toVenue), i # 1
        PROVE  toVenue[i].seq \in Ahead(Len(toVenue))'
    <3>1. i - 1 \in 1..Len(toVenue') /\ (i - 1) + 1 = i
      BY <1>1, <2>1
    <3>2. toVenue'[i - 1] = toVenue[i]
      BY <1>1, <1>3, <3>1
    <3>3. QED  BY <3>1, <3>2 DEF Ahead
  <2>2. QED  BY <1>1, <2>1 DEF Ahead
<1>8. \A n \in Ahead(Len(toVenue))' : n > m.seq
  <2>1. ASSUME NEW i \in 1..Len(toVenue') PROVE toVenue'[i].seq > m.seq
    <3>1. /\ i + 1 \in 1..Len(toVenue) /\ 1 \in 1..(i + 1) - 1 /\ 1 \in 1..Len(toVenue)
          /\ toVenue'[i] = toVenue[i + 1]
      BY <1>1, <1>3
    <3>2. ~toVenue[i + 1].dup
      BY <3>1 DEF NoGapSeen, AllNew
    <3>3. Following(toVenue[1]) <= toVenue[i + 1].seq
      BY <3>1, <3>2 DEF SessionInv, NumbersGoForward
    <3>4. /\ toVenue[1].seq \in 1..Len(store) /\ toVenue[i + 1].seq \in 1..Len(store)
          /\ Following(toVenue[1]) \in toVenue[1].seq + 1..Len(store) + 1
      BY <3>1, WireFacts
    <3>5. QED  BY <1>1, <3>1, <3>3, <3>4
  <2>2. QED  BY <2>1 DEF Ahead
<1>9. ASSUME NEW k \in Ahead(Len(toVenue))', NEW n \in 1..Len(store),
             n > k, store[n] = Admin
      PROVE  n \in Ahead(Len(toVenue))'
  <2>1. n \in Ahead(Len(toVenue))
    BY <1>5, <1>6, <1>9 DEF NoGapSeen, AdminsFollow
  <2>2. k \in Nat /\ k > m.seq
    <3>1. Ahead(Len(toVenue)) \subseteq 1..Len(store)
      BY <1>1, WireFacts
    <3>2. QED  BY <1>1, <1>6, <1>8, <3>1
  <2>3. n # m.seq
    BY <1>1, <1>9, <2>2
  <2>4. QED  BY <1>7, <2>1, <2>3
<1>10. AdminsFollow'
  BY <1>1, <1>5, <1>9 DEF AdminsFollow
<1>11. QED  BY <1>2, <1>4, <1>10 DEF NoGapSeen

\* The numbers between the expected one and the next that comes are queued, but
\* the expected one is not: nothing that comes next is too early.
LEMMA NothingTooEarly ==
    ASSUME SessionInv, AnsweredAfter(0), ~Draining
    PROVE  Resumes(0) <= expected /\ expected \notin Queued
<1>1. expected \notin Queued
  BY DEF Draining, Retrievable, Queued
<1>2. Resumes(0) \in Nat /\ expected \in Nat
  <2>1. 0 < Len(toVenue) => 1 \in 1..Len(toVenue)
    BY WireFacts
  <2>2. QED  BY <2>1, WireFacts DEF Resumes
<1>3. expected \notin expected..Resumes(0) - 1
  BY <1>1 DEF AnsweredAfter
<1>4. QED  BY <1>1, <1>2, <1>3

\* What is left when the first message behind the answer has been read.
LEMMA AnswerShortens ==
    ASSUME SessionInv, Receive, NEW m, m = Head(toVenue), AnsweredAfter(0),
           UNCHANGED queue
    PROVE  /\ GaplessAfter(0)' /\ AllNew(0)' /\ Queued' = Queued
           /\ Resumes(0)' = Following(m) /\ 0 \in 0..Len(toVenue')
           /\ \A i \in 1..Len(toVenue') :
                 /\ i + 1 \in 1..Len(toVenue) /\ toVenue'[i] = toVenue[i + 1]
                 /\ Following(m) <= toVenue'[i].seq
<1>1. /\ Len(toVenue) \in Nat \ {0} /\ Len(toVenue') = Len(toVenue) - 1
      /\ \A i \in 1..Len(toVenue) - 1 : toVenue'[i] = toVenue[i + 1]
      /\ UNCHANGED <<store, client>> /\ m = toVenue[1]
      /\ \A q : Following(q)' = Following(q)
  BY ReceiveWire, ReceiveFacts
<1>2. \A i \in 1..Len(toVenue') :
         /\ i + 1 \in 0 + 1..Len(toVenue) /\ toVenue'[i] = toVenue[i + 1]
         /\ 1 \in 0 + 1..Len(toVenue) /\ 1 < i + 1
  BY <1>1
<1>3. \A i \in 1..Len(toVenue') : Following(m) <= toVenue'[i].seq
  BY <1>1, <1>2 DEF AnsweredAfter, GaplessAfter
<1>4. GaplessAfter(0)'
  <2>1. 0 < Len(toVenue') => Following(toVenue'[Len(toVenue')]) = Len(store) + 1
    <3>1. 0 < Len(toVenue') =>
             Len(toVenue') \in 1..Len(toVenue) - 1 /\ Len(toVenue') + 1 = Len(toVenue)
      BY <1>1
    <3>2. 0 < Len(toVenue)
      BY <1>1
    <3>3. QED  BY <1>1, <3>1, <3>2 DEF AnsweredAfter, GaplessAfter
  <2>2. ASSUME NEW i \in 0 + 1..Len(toVenue') - 1
        PROVE  toVenue'[i + 1].seq = Following(toVenue'[i])
    <3>1. /\ i \in 1..Len(toVenue) - 1 /\ i + 1 \in 1..Len(toVenue) - 1
          /\ i + 1 \in 0 + 1..Len(toVenue) - 1
      BY <1>1
    <3>2. QED  BY <1>1, <3>1 DEF AnsweredAfter, GaplessAfter
  <2>3. ASSUME NEW i \in 0 + 1..Len(toVenue'), NEW j \in 0 + 1..Len(toVenue'), i < j
        PROVE  Following(toVenue'[i]) <= toVenue'[j].seq
    <3>1. /\ i \in 1..Len(toVenue) - 1 /\ j \in 1..Len(toVenue) - 1
          /\ i + 1 \in 0 + 1..Len(toVenue) /\ j + 1 \in 0 + 1..Len(toVenue)
          /\ i + 1 < j + 1
      BY <1>1, <2>3
    <3>2. QED  BY <1>1, <3>1 DEF AnsweredAfter, GaplessAfter
  <2>4. QED  BY <1>1, <2>1, <2>2, <2>3 DEF GaplessAfter
<1>5. AllNew(0)' /\ Queued' = Queued
  BY DEF AllNew, AnsweredAfter, Queued
<1>6. Resumes(0)' = Following(m)
  <2>1. CASE Len(toVenue') = 0
    <3>1. Len(toVenue) = 1 /\ 0 < Len(toVenue)
      BY <1>1, <2>1
    <3>2. Following(m) = Len(store) + 1
      BY <1>1, <3>1 DEF AnsweredAfter, GaplessAfter
    <3>3. ~(0 < Len(toVenue'))
      BY <2>1
    <3>4. store' = store
      BY <1>1
    <3>5. Resumes(0)' = Len(store) + 1
      BY <3>3, <3>4 DEF Resumes
    <3>6. QED  BY <3>2, <3>5
  <2>2. CASE 0 < Len(toVenue')
    <3>1. 1 \in 0 + 1..Len(toVenue) - 1 /\ 1 \in 1..Len(toVenue) - 1
      BY <1>1, <2>2
    <3>2. toVenue[1 + 1].seq = Following(toVenue[1])
      BY <3>1 DEF AnsweredAfter, GaplessAfter
    <3>3. toVenue'[1].seq = Following(m)
      BY <1>1, <3>1, <3>2
    <3>4. QED  BY <2>2, <3>3 DEF Resumes
  <2>3. QED  BY <1>1, <2>1, <2>2
<1>7. QED  BY <1>1, <1>2, <1>3, <1>4, <1>5, <1>6

\* Reading a message of the answer never opens a second gap.
LEMMA AnswerIsRead ==
    ASSUME SessionInv, Receive, NEW m, m = Head(toVenue), AnsweredAfter(0)
    PROVE  AnsweredAfter(0)' /\ 0 \in 0..Len(toVenue') /\ toClient' = toClient
<1>1. /\ Len(toVenue) \in Nat \ {0} /\ m = toVenue[1] /\ m.seq \in Nat
      /\ Following(m) \in Nat /\ expected \in Nat \ {0} /\ Reflects(m)
      /\ \/ /\ m.seq > expected /\ AskAgain(m, <<>>)
            /\ UNCHANGED <<venue, expected, handled>>
         \/ /\ m.seq < expected /\ m.dup
            /\ UNCHANGED <<toClient, venueVars>>
         \/ /\ m.seq = expected /\ Take(m) /\ expected' = Following(m)
            /\ UNCHANGED <<toClient, venue, queue>>
  BY ReceiveFacts
<1>2. m.seq <= expected /\ expected \notin Queued
  <2>1. ~Draining
    BY DEF Receive
  <2>2. Resumes(0) = m.seq
    BY <1>1 DEF Resumes
  <2>3. QED  BY <2>1, <2>2, NothingTooEarly
<1>3. Ahead(0) = {} /\ Ahead(0)' = {}
  BY DEF Ahead
<1>4. CASE m.seq < expected /\ UNCHANGED <<toClient, venueVars>>
  <2>1. UNCHANGED <<queue, expected, range>>
    BY <1>4 DEF venueVars
  <2>2. /\ GaplessAfter(0)' /\ AllNew(0)' /\ Queued' = Queued
        /\ Resumes(0)' = Following(m) /\ 0 \in 0..Len(toVenue')
        /\ \A i \in 1..Len(toVenue') :
              i + 1 \in 1..Len(toVenue) /\ toVenue'[i] = toVenue[i + 1]
    BY <2>1, AnswerShortens
  <2>3. expected..Following(m) - 1 \subseteq Queued
    <3>1. 1 \in 0 + 1..Len(toVenue)
      BY <1>1
    <3>2. QED  BY <1>1, <1>4, <3>1 DEF AnsweredAfter, OverlapKnown
  <2>4. OverlapKnown(0)'
    <3>1. \A q : Following(q)' = Following(q)
      BY ReceiveWire
    <3>2. ASSUME NEW i \in 0 + 1..Len(toVenue'), NEW q, q = toVenue'[i]
          PROVE  /\ q.seq < expected => expected..Following(q) - 1 \subseteq Queued
                 /\ \A n \in Queued \cup Ahead(0) :
                       n >= expected /\ n >= q.seq =>
                           n..Following(q) - 1 \subseteq Queued \cup Ahead(0)
      <4>1. i + 1 \in 0 + 1..Len(toVenue) /\ q = toVenue[i + 1]
        BY <2>2, <3>2
      <4>2. QED  BY <4>1 DEF AnsweredAfter, OverlapKnown
    <3>3. QED  BY <1>3, <2>1, <2>2, <3>1, <3>2 DEF OverlapKnown
  <2>5. QED  BY <1>4, <2>1, <2>2, <2>3, <2>4 DEF AnsweredAfter
<1>5. CASE /\ m.seq = expected /\ expected' = Following(m)
           /\ UNCHANGED <<toClient, queue>>
  <2>1. /\ GaplessAfter(0)' /\ AllNew(0)' /\ Queued' = Queued
        /\ Resumes(0)' = Following(m) /\ 0 \in 0..Len(toVenue')
        /\ \A i \in 1..Len(toVenue') :
              /\ i + 1 \in 1..Len(toVenue) /\ toVenue'[i] = toVenue[i + 1]
              /\ Following(m) <= toVenue'[i].seq
    BY <1>5, AnswerShortens
  <2>2. expected'..Resumes(0)' - 1 \subseteq Queued'
    <3>1. \A n \in Following(m)..Following(m) - 1 : FALSE
      BY <1>1
    <3>2. QED  BY <1>5, <2>1, <3>1
  <2>3. expected' > expected
    BY <1>1, <1>5 DEF Reflects
  <2>4. OverlapKnown(0)'
    <3>1. \A q : Following(q)' = Following(q)
      BY ReceiveWire
    <3>2. ASSUME NEW i \in 0 + 1..Len(toVenue'), NEW q, q = toVenue'[i]
          PROVE  /\ ~(q.seq < expected')
                 /\ \A n \in Queued \cup Ahead(0) :
                       n >= expected' /\ n >= q.seq =>
                           n..Following(q) - 1 \subseteq Queued \cup Ahead(0)
      <4>1. i + 1 \in 0 + 1..Len(toVenue) /\ q = toVenue[i + 1] /\ Following(m) <= q.seq
        BY <2>1, <3>2
      <4>2. q.seq \in Nat
        BY <4>1, WireFacts
      <4>3. \A n \in Queued \cup Ahead(0) : n >= expected' => n >= expected
        BY <1>1, <1>3, <1>5, <2>3, WireFacts
      <4>4. QED  BY <1>1, <1>5, <4>1, <4>2, <4>3 DEF AnsweredAfter, OverlapKnown
    <3>3. QED  BY <1>3, <2>1, <3>1, <3>2 DEF OverlapKnown
  <2>5. QED  BY <1>5, <2>1, <2>2, <2>4 DEF AnsweredAfter
<1>6. QED  BY <1>1, <1>2, <1>4, <1>5

\* A queued message is next: it is from before the answer, of one number.
LEMMA QueueIsRead ==
    ASSUME SessionInv, NextQueued, NEW p \in 0..Len(toVenue), AnsweredAfter(p)
    PROVE  AnsweredAfter(0)'
<1>1. PICK m \in queue : /\ m.seq = expected /\ m \in Message
                         /\ queue' = queue \ {m} /\ expected' = Following(m)
  BY QueuedFacts
<1>2. /\ store' = store /\ toVenue' = toVenue /\ expected \in Nat \ {0}
      /\ Len(toVenue) \in Nat /\ Len(store) \in Nat
  BY QueuedFacts, WireFacts
<1>3. expected \in Queued /\ Queued \subseteq 1..Len(store)
  BY <1>1, WireFacts DEF Queued
<1>4. p = 0
  BY <1>2, <1>3 DEF AnsweredAfter, Awaited
<1>5. AllNew(0) /\ expected..Resumes(0) - 1 \subseteq Queued /\ GaplessAfter(0)
      /\ OverlapKnown(0)
  BY <1>4 DEF AnsweredAfter
<1>6. expected' = expected + 1
  BY <1>1, <1>5 DEF AllNew, Following
<1>7. Queued' \subseteq Queued /\ \A n \in Queued : n = expected \/ n \in Queued'
  BY <1>1 DEF Queued
<1>8. \A q : Following(q)' = Following(q)
  BY DEF Following
<1>9. Ahead(0) = {} /\ Ahead(0)' = {}
  BY DEF Ahead
<1>10. AllNew(0)'
  BY <1>1, <1>5 DEF AllNew
<1>11. GaplessAfter(0)'
  BY <1>2, <1>5, <1>8 DEF GaplessAfter
<1>12. expected'..Resumes(0)' - 1 \subseteq Queued'
  <2>1. Resumes(0)' = Resumes(0)
    BY <1>2 DEF Resumes
  <2>2. Resumes(0) \in Nat
    <3>1. 0 < Len(toVenue) => 1 \in 1..Len(toVenue)
      BY <1>2
    <3>2. QED  BY <1>2, <3>1, WireFacts DEF Resumes
  <2>3. \A n \in expected + 1..Resumes(0) - 1 :
           n # expected /\ n \in expected..Resumes(0) - 1
    BY <1>2, <2>2
  <2>4. QED  BY <1>5, <1>6, <1>7, <2>1, <2>3
<1>13. OverlapKnown(0)'
  <2>1. ASSUME NEW i \in 0 + 1..Len(toVenue), NEW q, q = toVenue[i],
               NEW n \in Queued, n >= expected, n >= q.seq,
               NEW k \in n..Following(q) - 1, k # expected
        PROVE  k \in Queued'
    <3>1. n..Following(q) - 1 \subseteq Queued
      BY <1>5, <1>9, <2>1 DEF OverlapKnown
    <3>2. QED  BY <1>7, <2>1, <3>1
  <2>2. ASSUME NEW i \in 0 + 1..Len(toVenue), NEW q, q = toVenue[i],
               q.seq < expected + 1, NEW k \in expected + 1..Following(q) - 1
        PROVE  k \in Queued'
    <3>1. q.seq \in 1..Len(store) /\ Following(q) \in q.seq + 1..Len(store) + 1
      BY <2>2, WireFacts
    <3>2. k \in expected..Following(q) - 1 /\ k # expected
      BY <1>2, <3>1
    <3>3. CASE q.seq < expected
      <4>1. expected..Following(q) - 1 \subseteq Queued
        BY <1>5, <2>2, <3>3 DEF OverlapKnown
      <4>2. QED  BY <1>7, <3>2, <4>1
    <3>4. CASE q.seq = expected
      BY <1>2, <1>3, <2>1, <2>2, <3>2, <3>4
    <3>5. QED  BY <1>2, <2>2, <3>1, <3>3, <3>4
  <2>3. ASSUME NEW i \in 0 + 1..Len(toVenue), NEW q, q = toVenue[i],
               NEW n \in Queued', n >= expected + 1, n >= q.seq,
               NEW k \in n..Following(q) - 1
        PROVE  k \in Queued'
    <3>1. q.seq \in 1..Len(store) /\ Following(q) \in q.seq + 1..Len(store) + 1
      BY <2>3, WireFacts
    <3>2. n \in Queued /\ n >= expected /\ k # expected
      BY <1>2, <1>3, <1>7, <2>3, <3>1
    <3>3. QED  BY <2>1, <2>3, <3>2
  <2>4. QED  BY <1>2, <1>6, <1>8, <1>9, <2>2, <2>3 DEF OverlapKnown
<1>14. QED  BY <1>10, <1>11, <1>12, <1>13 DEF AnsweredAfter

\* Every step keeps it at one ResendRequest to a connection.
LEMMA ResendStep ==
    ASSUME SessionInv, [Next]_vars
    PROVE  OneResend'
<1> SUFFICES ASSUME Linked' PROVE NoGapSeen' \/ AskedAgain' \/ Answered'
  BY DEF OneResend
<1>1. /\ TypeOK /\ ConnectionShape /\ OneResend
      /\ toClient \in Seq(Nat) /\ Len(store) \in Nat /\ expected \in Nat \ {0}
  BY WireFacts DEF SessionInv, TypeOK
<1>2. ASSUME UNCHANGED <<store, toVenue, queue, range, expected>>
      PROVE  /\ AllNew(Len(toVenue)) /\ AdminsFollow =>
                   AllNew(Len(toVenue))' /\ AdminsFollow'
             /\ Queued' \cup Ahead(Len(toVenue))' = Queued \cup Ahead(Len(toVenue))
  BY <1>2 DEF AllNew, AdminsFollow, Queued, Ahead
<1>3. CASE AcceptLogon
  <2>1. toVenue' = <<>> /\ Len(toVenue') = 0 /\ store' = store
    BY <1>3, AcceptFacts
  <2>2. PICK m \in Message, e \in Nat \ {0} :
           /\ m = toVenue[1] /\ m.seq \in Nat
           /\ e = IF reset THEN 1 ELSE expected
           /\ m.kind \in {"logon", "reset"}
           /\ reset => m.seq = e
           /\ \A n \in m.seq + 1..Len(store) : store[n] # Admin
           /\ \/ /\ m.seq > e /\ queue' = {m}
                 /\ range' = <<expected, m.seq - 1>>
                 /\ toClient' = <<LogonAnswer, expected>>
                 /\ expected' = expected
              \/ /\ m.seq = e /\ queue' = {} /\ range' = NoRange
                 /\ toClient' = <<LogonAnswer>>
                 /\ expected' = e + 1
    BY <1>3, AcceptFacts
  <2>3. Ahead(Len(toVenue))' = {}
    BY <2>1 DEF Ahead
  <2>4. CASE m.seq = e /\ queue' = {} /\ range' = NoRange /\ toClient' = <<LogonAnswer>>
    <3>1. Queued' = {}
      BY <2>4 DEF Queued
    <3>2. AllNew(Len(toVenue))' /\ AdminsFollow'
      BY <2>1, <2>3, <2>4, <3>1 DEF AllNew, AdminsFollow
    <3>3. QED  BY <2>4, <3>2 DEF NoGapSeen
  <2>5. CASE /\ m.seq > e /\ queue' = {m}
             /\ range' = <<expected, m.seq - 1>>
             /\ toClient' = <<LogonAnswer, expected>>
             /\ expected' = expected
    <3>1. Queued' = {m.seq} /\ m.kind # "gapFill" /\ e = expected
      BY <2>2, <2>5 DEF Queued
    <3>2. AllNew(Len(toVenue))'
      BY <2>1, <2>5, <3>1 DEF AllNew
    <3>3. AdminsFollow'
      <4>1. ASSUME NEW n \in 1..Len(store), n > m.seq, store[n] = Admin PROVE FALSE
        BY <1>1, <2>2, <4>1
      <4>2. QED  BY <2>1, <2>3, <3>1, <4>1 DEF AdminsFollow
    <3>4. range'[1] = expected' /\ queue' # {}
      BY <2>5
    <3>5. QED  BY <2>3, <2>5, <3>1, <3>2, <3>3, <3>4 DEF AskedAgain
  <2>6. QED  BY <2>2, <2>4, <2>5
<1>4. CASE ReceiveLogon
  <2>1. /\ UNCHANGED <<store, toVenue, queue, range, expected, venue>>
        /\ client = "logonSent" /\ toClient # <<>> /\ Head(toClient) = LogonAnswer
        /\ toClient' = Tail(toClient)
    BY <1>4 DEF ReceiveLogon, venueVars
  <2>2. Linked
    BY <2>1 DEF Linked
  <2>3. CASE NoGapSeen
    <3>1. toClient' \in {<<>>, <<LogonAnswer>>}
      BY <2>1, <2>3 DEF NoGapSeen
    <3>2. QED  BY <1>2, <2>1, <2>3, <3>1 DEF NoGapSeen
  <2>4. CASE AskedAgain
    <3>1. toClient = <<LogonAnswer, expected>>
      BY <1>1, <2>1, <2>4 DEF AskedAgain, LogonAnswer
    <3>2. toClient' = <<expected>>
      BY <2>1, <3>1
    <3>3. QED  BY <1>2, <2>1, <2>4, <3>2 DEF AskedAgain
  <2>5. QED  BY <1>1, <2>1, <2>2, <2>3, <2>4 DEF OneResend, Answered
<1>5. CASE AnswerResend
  BY <1>5, AnswerFills
<1>6. ASSUME NEW x, SendsMore(x), venue' = venue PROVE NoGapSeen' \/ AskedAgain' \/ Answered'
  <2>1. Linked /\ UNCHANGED <<queue, range, toClient, expected, client>>
    BY <1>6 DEF SendsMore, Linked
  <2>2. InStep
    BY <2>1 DEF InStep, Linked
  <2>3. CASE NoGapSeen
    BY <1>6, <2>1, <2>3, NewWhenMore DEF NoGapSeen
  <2>4. CASE AskedAgain
    <3>1. /\ AllNew(Len(toVenue))' /\ AdminsFollow' /\ Queued' = Queued
          /\ \A n \in Ahead(Len(toVenue))' :
                n \in Ahead(Len(toVenue)) \/ n = Len(store) + 1
      BY <1>6, <2>4, NewWhenMore DEF AskedAgain
    <3>2. Len(store) + 1 > expected
      <4>1. PICK m \in queue : m.seq \in Queued
        BY <2>4 DEF AskedAgain, Queued
      <4>2. m.seq > expected /\ m.seq \in 1..Len(store)
        BY <2>4, <4>1, WireFacts DEF AskedAgain
      <4>3. QED  BY <1>1, <4>2
    <3>3. \A n \in Queued' \cup Ahead(Len(toVenue))' : n > expected
      BY <2>4, <3>1, <3>2 DEF AskedAgain
    <3>4. QED  BY <2>1, <2>4, <3>1, <3>3 DEF AskedAgain
  <2>5. CASE Answered
    <3>1. PICK p \in 0..Len(toVenue) : AnsweredAfter(p)
      BY <2>5 DEF Answered
    <3>2. AnsweredAfter(p)' /\ p \in 0..Len(toVenue')
      BY <1>6, <2>2, <2>5, <3>1, AnsweredWhenMore DEF Answered
    <3>3. QED  BY <2>1, <2>5, <3>2 DEF Answered
  <2>6. QED  BY <1>1, <2>1, <2>3, <2>4, <2>5 DEF OneResend
<1>7. ASSUME NEW x, NEW kind, Sends(kind, x), queue' = queue, x # Admin \/ client = "loggedOn",
             UNCHANGED <<venue, range, toClient, expected, client>>,
             IF client = "loggedOn"
             THEN Transmit(<<New(kind, Len(store'), x)>>) ELSE toVenue' = toVenue
      PROVE  NoGapSeen' \/ AskedAgain' \/ Answered'
  <2>1. client = "loggedOn" => toVenue' # toVenue
    <3>1. client = "loggedOn" => toVenue' = toVenue \o <<New(kind, Len(store'), x)>>
      BY <1>7 DEF Transmit, Linked
    <3>2. Len(store') = Len(store) + 1
      BY <1>1, <1>7, Extended DEF Sends, TypeOK
    <3>3. toVenue \in Seq(Message) /\ New(kind, Len(store) + 1, x) \in Message
      BY <1>1, <1>7, SentReflects DEF TypeOK
    <3>4. client = "loggedOn" => Len(toVenue') = Len(toVenue) + 1
      BY <3>1, <3>2, <3>3, Appended, Extended
    <3>5. Len(toVenue) \in Nat
      BY WireFacts
    <3>6. QED  BY <3>4, <3>5
  <2>2. SendsMore(x)
    BY <1>7, <2>1 DEF SendsMore
  <2>3. QED  BY <1>6, <1>7, <2>2
<1>8. CASE Request
  <2>1. Sends("request", sent + 1) /\ queue' = queue
    BY <1>1, <1>8, RequestSends
  <2>2. sent + 1 # Admin /\ sent' = sent + 1
    BY <2>1, <1>8 DEF Sends, Request
  <2>3. UNCHANGED <<venue, range, toClient, expected, client>>
    BY <1>8 DEF Request, venueVars
  <2>4. IF client = "loggedOn"
        THEN Transmit(<<New("request", Len(store'), sent + 1)>>) ELSE toVenue' = toVenue
    BY <1>8, <2>2 DEF Request, Transmit
  <2>5. QED  BY <1>7, <2>1, <2>2, <2>3, <2>4
<1>9. CASE Heartbeat
  <2>1. Sends("admin", Admin) /\ queue' = queue
    BY <1>1, <1>9, HeartbeatSends
  <2>2. UNCHANGED <<venue, range, toClient, expected, client>> /\ client = "loggedOn"
    BY <1>9 DEF Heartbeat, venueVars
  <2>3. Transmit(<<New("admin", Len(store'), Admin)>>)
    BY <1>9 DEF Heartbeat, Admin
  <2>4. QED  BY <1>7, <2>1, <2>2, <2>3
<1>10. CASE Receive
  <2> DEFINE m == Head(toVenue)
  <2>1. Linked
    BY <1>10 DEF Receive, clientVars, Linked
  <2>2. /\ m \in Message /\ m = toVenue[1] /\ m.seq \in Nat /\ Len(toVenue) \in Nat \ {0}
        /\ \/ /\ m.seq > expected /\ AskAgain(m, <<>>)
              /\ UNCHANGED <<venue, expected, handled>>
           \/ /\ m.seq < expected /\ m.dup
              /\ UNCHANGED <<toClient, venueVars>>
           \/ /\ m.seq = expected /\ Take(m) /\ expected' = Following(m)
              /\ UNCHANGED <<toClient, venue, queue>>
    BY <1>10, ReceiveFacts
  <2>3. client' = client
    BY <1>10, ReceiveWire
  <2> HIDE DEF m
  <2>4. CASE NoGapSeen
    <3>1. ~m.dup
      <4>1. 1 \in 1..Len(toVenue)
        BY <2>2
      <4>2. QED  BY <2>2, <2>4, <4>1 DEF NoGapSeen, AllNew
    <3>2. QED  BY <1>10, <2>2, <2>4, <3>1, GapIsSeen, TakenInOrder DEF m
  <2>5. CASE AskedAgain
    <3>1. m.seq > expected
      <4>1. m.seq \in Ahead(Len(toVenue))
        <5>1. 1 \in 1..Len(toVenue)
          BY <2>2
        <5>2. QED  BY <2>2, <5>1 DEF Ahead
      <4>2. QED  BY <2>5, <4>1 DEF AskedAgain
    <3>2. AskAgain(m, <<>>) /\ UNCHANGED expected
      BY <1>1, <2>2, <3>1
    <3>3. QED  BY <1>10, <2>5, <3>1, <3>2, StillAsked DEF m
  <2>6. CASE Answered
    <3>1. PICK p \in 0..Len(toVenue) : AnsweredAfter(p)
      BY <2>6 DEF Answered
    <3>2. CASE p = 0
      <4>1. AnsweredAfter(0)' /\ 0 \in 0..Len(toVenue') /\ toClient' = toClient
        BY <1>10, <3>1, <3>2, AnswerIsRead
      <4>2. QED  BY <2>3, <2>6, <4>1 DEF Answered
    <3>3. CASE p # 0
      <4>1. p \in 1..Len(toVenue) /\ p > 0
        BY <2>2, <3>3
      <4>2. m.seq > expected
        <5>1. m.seq \in Ahead(p)
          <6>1. 1 \in 1..p
            BY <4>1
          <6>2. QED  BY <2>2, <6>1 DEF Ahead
        <5>2. QED  BY <3>1, <4>1, <5>1 DEF AnsweredAfter, Awaited
      <4>3. AskAgain(m, <<>>) /\ UNCHANGED expected
        BY <1>1, <2>2, <4>2
      <4>4. /\ AnsweredAfter(p - 1)' /\ p - 1 \in 0..Len(toVenue')
            /\ toClient' = toClient
        BY <1>10, <3>1, <4>1, <4>2, <4>3, StillAnswered DEF m
      <4>5. QED  BY <2>3, <2>6, <4>4 DEF Answered
    <3>4. QED  BY <3>2, <3>3
  <2>7. QED  BY <1>1, <2>1, <2>4, <2>5, <2>6 DEF OneResend
<1>11. CASE NextQueued
  <2>1. /\ Linked /\ client' = client /\ toClient' = toClient /\ toVenue' = toVenue
        /\ expected \in Queued
    BY <1>11, QueuedFacts DEF NextQueued, clientVars, Linked, Queued
  <2>2. Answered
    <3>1. ~NoGapSeen
      BY <2>1 DEF NoGapSeen, Queued
    <3>2. ~AskedAgain
      <4>1. ~(expected > expected)
        BY <1>1
      <4>2. QED  BY <2>1, <4>1 DEF AskedAgain
    <3>3. QED  BY <1>1, <2>1, <3>1, <3>2 DEF OneResend
  <2>3. AnsweredAfter(0)'
    BY <1>11, <2>2, QueueIsRead DEF Answered
  <2>4. 0 \in 0..Len(toVenue')
    BY <2>1, WireFacts
  <2>5. QED  BY <2>1, <2>2, <2>3, <2>4 DEF Answered
<1>12. CASE Connect \/ SendLogon \/ ClientNotices \/ ClientDrops \/ ClientRestarts
            \/ VenueNotices \/ VenueDrops \/ VenueDiesHandling
  <2>1. ~Linked'
    BY <1>1, <1>12 DEF Connect, SendLogon, ClientNotices, ClientDrops, ClientRestarts,
         VenueNotices, VenueDrops, VenueDiesHandling, ClientCloses, VenueCloses,
         venueVars, ConnectionShape, Linked
  <2>2. QED  BY <2>1
<1>13. CASE UNCHANGED vars
  <2>1. Linked /\ UNCHANGED <<store, toVenue, queue, range, expected, toClient, client>>
    BY <1>13 DEF vars, clientVars, venueVars, Linked
  <2>2. NoGapSeen => NoGapSeen'
    BY <1>2, <2>1 DEF NoGapSeen
  <2>3. AskedAgain => AskedAgain'
    BY <1>2, <2>1 DEF AskedAgain
  <2>4. ASSUME NEW p PROVE AnsweredAfter(p) => AnsweredAfter(p)'
    BY <2>1 DEF AnsweredAfter, AllNew, Awaited, GaplessAfter, OverlapKnown, Resumes,
                Queued, Ahead, Following
  <2>5. Answered => Answered'
    BY <2>1, <2>4 DEF Answered
  <2>6. QED  BY <1>1, <2>1, <2>2, <2>3, <2>5 DEF OneResend
<1>14. QED
  BY <1>3, <1>4, <1>5, <1>8, <1>9, <1>10, <1>11, <1>12, <1>13
     DEF Next, ClientStep, VenueStep

-----------------------------------------------------------------------------
(* The session keeps what makes it correct. *)

\* Every state of the session has the types declared, the shape of a
\* connection, a wire that says what the store says, numbers that go forward,
\* requests in order and at most one ResendRequest to a connection.
THEOREM SessionInvariant == Spec => []SessionInv
<1>1. Init => SessionInv
  <2> SUFFICES ASSUME Init PROVE SessionInv
    OBVIOUS
  <2>1. TypeOK
    <3>1. MaxSent \in Nat
      BY BoundsAssumption DEF MaxSent
    <3>2. <<>> \in Seq(Nat) /\ <<>> \in Seq(Message) /\ <<>> \in Seq(1..MaxSent)
      BY EmptySeq
    <3>3. NoRange \in Nat \X Nat /\ 0 \in 0..MaxAsks /\ 0 \in 0..MaxFaults
          /\ 0 \in 0..MaxSent /\ 1 \in Nat \ {0} /\ {} \subseteq Message
      BY <3>1, BoundsAssumption DEF NoRange
    <3>4. QED  BY <3>2, <3>3 DEF Init, TypeOK
  <2>2. \A i \in 1..0 : FALSE
    OBVIOUS
  <2>3. Len(store) = 0 /\ Len(toVenue) = 0 /\ Len(handled) = 0
    BY DEF Init
  <2>4. ConnectionShape /\ WireReflectsStore /\ NumbersGoForward
    BY <2>2, <2>3 DEF Init, ConnectionShape, WireReflectsStore, NumbersGoForward
  <2>5. RequestsInOrder
    <3>1. Requested = {}
      BY <2>2, <2>3 DEF Requested
    <3>2. QED  BY <2>2, <2>3, <3>1 DEF Init, RequestsInOrder
  <2>6. AsksAreBounded /\ OneResend
    BY BoundsAssumption DEF Init, AsksAreBounded, OneResend, Linked
  <2>7. QED  BY <2>1, <2>4, <2>5, <2>6 DEF SessionInv
<1>2. SessionInv /\ [Next]_vars => SessionInv'
  BY TypeStep, ShapeStep, ReflectStep, ForwardStep, OrderStep, AskStep, ResendStep
     DEF SessionInv
<1>3. QED  BY <1>1, <1>2, PTL DEF Spec

\* Every variable of the session keeps its type, for any number of requests,
\* of broken connections and of killed processes.
THEOREM TypeCorrect == Spec => []TypeOK
<1>1. SessionInv => TypeOK
  BY DEF SessionInv
<1>2. QED  BY <1>1, SessionInvariant, PTL

\* No sequence of failures makes the venue refuse a message as too low.
THEOREM NeverTooLowHolds == Spec => []NeverTooLow
<1>1. SessionInv => NeverTooLow
  BY DEF SessionInv, ConnectionShape, NeverTooLow
<1>2. QED  BY <1>1, SessionInvariant, PTL

\* While messages wait for an earlier one, that one or a ResendRequest for it
\* is on its way.
THEOREM GapIsBeingFilledHolds == Spec => []GapIsBeingFilled
<1>1. ASSUME SessionInv PROVE GapIsBeingFilled
  <2> SUFFICES ASSUME Linked, ~Draining, NEW m \in queue, TooHigh(m)
               PROVE  \/ \E i \in DOMAIN toVenue : toVenue[i].seq = expected
                      \/ \E i \in DOMAIN toClient :
                            toClient[i] # LogonAnswer /\ toClient[i] <= expected
    BY DEF GapIsBeingFilled, Linked
  <2>1. /\ Len(toVenue) \in Nat /\ Len(store) \in Nat /\ expected \in Nat \ {0}
        /\ DOMAIN toVenue = 1..Len(toVenue)
        /\ m.seq \in 1..Len(store) /\ m.seq > expected
    BY <1>1, WireFacts, LenProperties DEF TooHigh
  <2>2. CASE NoGapSeen
    BY <2>2 DEF NoGapSeen
  <2>3. CASE AskedAgain
    <3>1. expected # LogonAnswer /\ expected <= expected
      BY <2>1 DEF LogonAnswer
    <3>2. CASE toClient = <<expected>>
      <4>1. 1 \in DOMAIN toClient /\ toClient[1] = expected
        BY <3>2
      <4>2. QED  BY <3>1, <4>1
    <3>3. CASE toClient = <<LogonAnswer, expected>>
      <4>1. 2 \in DOMAIN toClient /\ toClient[2] = expected
        BY <3>3
      <4>2. QED  BY <3>1, <4>1
    <3>4. QED  BY <2>3, <3>2, <3>3 DEF AskedAgain
  <2>4. CASE Answered
    <3>1. PICK p \in 0..Len(toVenue) : AnsweredAfter(p)
      BY <2>4 DEF Answered
    <3>2. CASE p # 0
      <4>1. p < Len(toVenue) /\ toVenue[p + 1].seq = expected
        BY <2>1, <3>1, <3>2 DEF AnsweredAfter, Awaited
      <4>2. p + 1 \in DOMAIN toVenue
        BY <2>1, <4>1
      <4>3. QED  BY <4>1, <4>2
    <3>3. CASE p = 0
      <4>1. AnsweredAfter(0) /\ Resumes(0) <= expected /\ expected \notin Queued
        BY <1>1, <3>1, <3>3, NothingTooEarly
      <4>2. 0 < Len(toVenue)
        BY <2>1, <4>1 DEF Resumes
      <4> SUFFICES ASSUME \A i \in 1..Len(toVenue) : toVenue[i].seq # expected
                   PROVE  FALSE
        BY <2>1
      <4> DEFINE Early == {i \in 1..Len(toVenue) : toVenue[i].seq < expected}
      <4>3. 1 \in Early
        <5>1. 1 \in 1..Len(toVenue) /\ toVenue[1].seq <= expected
          BY <2>1, <4>1, <4>2 DEF Resumes
        <5>2. toVenue[1].seq \in Nat /\ toVenue[1].seq # expected
          BY <1>1, <5>1, WireFacts
        <5>3. QED  BY <2>1, <5>1, <5>2
      <4>4. \A i \in Early : Following(toVenue[i]) <= expected
        <5>1. ASSUME NEW i \in Early PROVE Following(toVenue[i]) <= expected
          <6>1. i \in 0 + 1..Len(toVenue) /\ i \in 1..Len(toVenue)
            BY <2>1
          <6>2. expected..Following(toVenue[i]) - 1 \subseteq Queued
            BY <4>1, <6>1 DEF AnsweredAfter, OverlapKnown
          <6>3. /\ toVenue[i].seq \in 1..Len(store)
                /\ Following(toVenue[i]) \in toVenue[i].seq + 1..Len(store) + 1
            BY <1>1, <6>1, WireFacts
          <6>4. expected \notin expected..Following(toVenue[i]) - 1
            BY <4>1, <6>2
          <6>5. QED  BY <2>1, <6>3, <6>4
        <5>2. QED  BY <5>1
      <4>5. ASSUME NEW i \in 1..Len(toVenue) - 1, i \in Early PROVE i + 1 \in Early
        <5>1. i \in 0 + 1..Len(toVenue) - 1 /\ i + 1 \in 1..Len(toVenue)
          BY <2>1
        <5>2. toVenue[i + 1].seq = Following(toVenue[i])
          BY <4>1, <5>1 DEF AnsweredAfter, GaplessAfter
        <5>3. toVenue[i + 1].seq \in Nat /\ toVenue[i + 1].seq # expected
          BY <1>1, <5>1, WireFacts
        <5>4. toVenue[i + 1].seq <= expected
          BY <4>4, <4>5, <5>2
        <5>5. QED  BY <2>1, <5>1, <5>3, <5>4
      <4>6. Len(toVenue) \in Early
        <5> HIDE DEF Early
        <5>1. 1 \in Int /\ Len(toVenue) \in Int
          BY <2>1
        <5>2. 1..Len(toVenue) \subseteq Early
          BY <4>3, <4>5, <5>1, Steps, Zenon
        <5>3. QED  BY <2>1, <4>2, <5>2
      <4>7. Following(toVenue[Len(toVenue)]) = Len(store) + 1
        BY <4>1, <4>2 DEF AnsweredAfter, GaplessAfter
      <4>8. Len(store) + 1 <= expected
        BY <4>4, <4>6, <4>7
      <4>9. QED  BY <2>1, <4>8
    <3>4. QED  BY <3>2, <3>3
  <2>5. QED  BY <1>1, <2>2, <2>3, <2>4 DEF SessionInv, OneResend
<1>2. SessionInv => GapIsBeingFilled
  BY <1>1
<1>3. QED  BY <1>2, SessionInvariant, PTL

-----------------------------------------------------------------------------
(* The session implements RequestChannel. *)

\* Whether the last request is uncertain, in terms of what was handled last.
LEMMA UncertainFacts ==
    ASSUME SessionInv
    PROVE  /\ LastUncertain <=> /\ handled # <<>> /\ expected <= Len(store)
                                /\ store[expected] = LastHandled
           /\ LastUncertain => expected \in Requested
           /\ handled # <<>> => LastHandled \in 1..sent
           /\ handled = <<>> => LastHandled = 0
           /\ LastHandled \in 0..sent /\ sent \in Nat
           /\ expected \in Nat \ {0} /\ Len(store) \in Nat
           /\ \A n \in Requested : /\ n \in 1..Len(store)
                                   /\ store[n] \in Nat \ {0} /\ store[n] <= sent
<1>1. /\ store \in Seq(Nat) /\ Len(store) \in Nat /\ expected \in Nat \ {0}
      /\ LastHandled \in 0..sent /\ sent \in Nat /\ handled \in Seq(Nat)
  BY LastIsKnown, WireFacts, HandledNumbers DEF SessionInv, TypeOK
<1>2. handled # <<>> => LastHandled \in 1..sent
  <2>1. handled # <<>> => Len(handled) \in 1..Len(handled)
    BY <1>1, FirstTaken
  <2>2. QED  BY <2>1 DEF LastHandled, SessionInv, RequestsInOrder
<1>3. LastUncertain <=> /\ handled # <<>> /\ expected <= Len(store)
                        /\ store[expected] = LastHandled
  BY DEF LastUncertain, LastHandled
<1>4. LastUncertain => expected \in Requested
  BY <1>1, <1>2, <1>3 DEF Requested, Admin
<1>5. ASSUME NEW n \in Requested
      PROVE  n \in 1..Len(store) /\ store[n] \in Nat \ {0} /\ store[n] <= sent
  <2>1. n \in 1..Len(store) /\ store[n] # 0
    BY DEF Requested, Admin
  <2>2. store[n] \in Nat
    BY <1>1, <2>1, ElementOfSeq
  <2>3. QED  BY <2>1, <2>2 DEF SessionInv, RequestsInOrder
<1>6. handled = <<>> => LastHandled = 0
  BY DEF LastHandled
<1>7. QED  BY <1>1, <1>2, <1>3, <1>4, <1>5, <1>6

\* The request under the expected number is the next one, or the last again.
LEMMA RequestIsDelivered ==
    ASSUME SessionInv, InStep, NEW m \in Message, m.kind = "request", Reflects(m),
           m.seq = expected, handled' = Append(handled, m.arg),
           UNCHANGED <<reset, sent>>
    PROVE  Channel!Next
<1>1. expected \in Requested /\ m.arg = store[expected]
  BY DEF Reflects, Requested
<1>2. /\ m.arg \in 1..sent /\ m.arg >= LastHandled /\ sent \in Nat
      /\ LastHandled \in 0..sent
  BY <1>1, UncertainFacts DEF SessionInv, RequestsInOrder
<1>3. LastUncertain' \in BOOLEAN
  BY DEF LastUncertain
<1>4. CASE LastUncertain
  <2>1. m.arg = LastHandled
    BY <1>1, <1>4, UncertainFacts
  <2>2. QED
    BY <1>3, <1>4, <2>1 DEF Channel!Next, Channel!Redeliver, Channel!LastHandled,
                            LastHandled
<1>5. CASE ~LastUncertain
  <2>1. m.arg # LastHandled
    <3>1. expected <= Len(store)
      BY <1>1, UncertainFacts
    <3>2. CASE handled = <<>>
      BY <1>2, <3>2, UncertainFacts
    <3>3. CASE handled # <<>>
      BY <1>1, <1>5, <3>1, <3>3, UncertainFacts
    <3>4. QED  BY <3>2, <3>3
  <2>2. m.arg \in LastHandled + 1..sent
    BY <1>2, <2>1
  <2>3. ASSUME ~reset PROVE m.arg = LastHandled + 1
    <3> SUFFICES ASSUME m.arg # LastHandled + 1 PROVE FALSE
      OBVIOUS
    <3>1. LastHandled + 1 \in 1..sent /\ LastHandled + 1 < m.arg
      BY <1>2, <2>2
    <3>2. PICK n \in Requested : store[n] = LastHandled + 1
      BY <2>3, <3>1 DEF SessionInv, RequestsInOrder
    <3>3. n \in Nat /\ expected \in Nat
      BY <3>2, UncertainFacts
    <3>4. CASE n < expected
      <4>1. store[n] <= LastHandled
        BY <2>3, <3>4 DEF SessionInv, RequestsInOrder
      <4>2. QED  BY <1>2, <3>2, <4>1
    <3>5. CASE n = expected
      BY <1>1, <1>2, <3>1, <3>2, <3>5
    <3>6. CASE n > expected
      <4>1. store[expected] < store[n]
        BY <1>1, <3>3, <3>6 DEF SessionInv, RequestsInOrder
      <4>2. QED  BY <1>1, <1>2, <3>1, <3>2, <4>1
    <3>7. QED  BY <3>3, <3>4, <3>5, <3>6
  <2>4. Channel!Deliver(m.arg)
    BY <1>3, <1>5, <2>2, <2>3 DEF Channel!Deliver, Channel!LastHandled, LastHandled
  <2>5. QED  BY <1>2, <2>4 DEF Channel!Next
<1>6. QED  BY <1>4, <1>5

\* Stepping over numbers that carry no request changes nothing for the channel.
LEMMA OthersAreSkipped ==
    ASSUME SessionInv, InStep, NEW m \in Message, m.kind # "request",
           Reflects(m), m.seq = expected, expected' = Following(m),
           UNCHANGED <<reset, sent, store, handled>>
    PROVE  ~LastUncertain /\ ~LastUncertain'
<1>1. Requested' = Requested /\ LastHandled' = LastHandled /\ expected' > expected
      /\ expected \in Nat /\ LastHandled \in Nat
  BY UncertainFacts DEF Requested, LastHandled, Reflects
<1>2. store[expected] = Admin
  <2>1. m.seq \in m.seq..Following(m) - 1
    BY <1>1 DEF Reflects
  <2>2. QED  BY <2>1 DEF Reflects
<1>3. ~LastUncertain
  BY <1>2, UncertainFacts DEF Requested
<1>4. ASSUME LastUncertain' PROVE FALSE
  <2>1. /\ handled # <<>> /\ expected' <= Len(store)
        /\ store[expected'] = LastHandled
    BY <1>4 DEF LastUncertain, LastHandled
  <2>2. expected' \in 1..Len(store) /\ LastHandled # Admin
    BY <1>1, <2>1, UncertainFacts, Numbers DEF Admin
  <2>3. expected' \in Requested
    BY <2>1, <2>2 DEF Requested
  <2>4. store[expected'] > LastHandled
    BY <1>1, <2>3 DEF SessionInv, RequestsInOrder
  <2>5. QED  BY <1>1, <2>1, <2>4
<1>5. QED  BY <1>3, <1>4

\* Numbers given out leave alone what the venue is uncertain of.
LEMMA StoredBehind ==
    ASSUME SessionInv, NEW x \in Nat, store' = Append(store, x),
           UNCHANGED <<expected, handled>>, x \notin 1..sent
    PROVE  LastUncertain' = LastUncertain
<1>1. /\ Len(store') = Len(store) + 1 /\ store'[Len(store) + 1] = x
      /\ \A n \in 1..Len(store) : store'[n] = store[n]
      /\ Len(store) \in Nat /\ expected \in Nat \ {0}
  BY Extended, WireFacts DEF SessionInv, TypeOK
<1>2. CASE handled = <<>>
  BY <1>2 DEF LastUncertain
<1>3. CASE handled # <<>>
  <2>1. LastHandled \in 1..sent /\ LastHandled = handled[Len(handled)]
    BY <1>3, UncertainFacts DEF LastHandled
  <2>2. CASE expected <= Len(store)
    <3>1. expected <= Len(store') /\ store'[expected] = store[expected]
      BY <1>1, <2>2
    <3>2. QED  BY <2>2, <3>1 DEF LastUncertain
  <2>3. CASE expected = Len(store) + 1
    <3>1. ~(expected <= Len(store)) /\ store'[expected] # handled'[Len(handled')]
      BY <1>1, <2>1, <2>3
    <3>2. QED  BY <3>1 DEF LastUncertain
  <2>4. CASE expected > Len(store) + 1
    <3>1. ~(expected <= Len(store)) /\ ~(expected' <= Len(store'))
      BY <1>1, <2>4
    <3>2. QED  BY <3>1 DEF LastUncertain
  <2>5. QED  BY <1>1, <2>2, <2>3, <2>4
<1>4. QED  BY <1>2, <1>3

\* Every step of the session is one of the channel, or none.
LEMMA ChannelStep ==
    ASSUME SessionInv, [Next]_vars
    PROVE  [Channel!Next]_Channel!vars
<1>1. /\ TypeOK /\ ConnectionShape /\ sent \in Nat /\ Admin \notin 1..sent
      /\ Len(store) \in Nat /\ expected \in Nat \ {0}
  BY WireFacts DEF SessionInv, TypeOK, Admin
<1>2. ASSUME UNCHANGED <<reset, sent, handled>>, LastUncertain' = LastUncertain
      PROVE  UNCHANGED Channel!vars
  BY <1>2 DEF Channel!vars
<1>3. ASSUME UNCHANGED <<reset, sent, handled, store, expected>>
      PROVE  UNCHANGED Channel!vars
  BY <1>3, <1>2 DEF LastUncertain
<1>4. CASE Request
  <2>1. /\ store' = Append(store, sent + 1) /\ sent + 1 \in Nat /\ sent' = sent + 1
        /\ UNCHANGED <<reset, handled, expected>>
    BY <1>1, <1>4, RequestSends DEF Sends, Request, venueVars
  <2>2. LastUncertain' = LastUncertain
    BY <1>1, <2>1, StoredBehind
  <2>3. Channel!Ask
    BY <2>1, <2>2 DEF Channel!Ask
  <2>4. QED  BY <2>3 DEF Channel!Next
<1>5. CASE Heartbeat \/ (SendLogon /\ ~reset)
  <2>1. store' = Append(store, Admin) /\ UNCHANGED <<reset, sent, handled, expected>>
    BY <1>1, <1>5, HeartbeatSends, LogonSends DEF Sends, Heartbeat, SendLogon, venueVars
  <2>2. Admin \in Nat
    BY DEF Admin
  <2>3. QED  BY <1>1, <1>2, <2>1, <2>2, StoredBehind
<1>6. CASE SendLogon /\ reset
  <2>1. /\ store' = <<Admin>> /\ Len(store') = 1
        /\ UNCHANGED <<reset, sent, handled, expected>> /\ reset
    BY <1>6, ResetSends DEF SendLogon, venueVars
  <2>2. ~LastUncertain'
    <3>1. handled # <<>> => handled[Len(handled)] \in 1..sent
      BY UncertainFacts DEF LastHandled
    <3>2. expected <= 1 => store'[expected] = Admin
      BY <1>1, <2>1
    <3>3. QED  BY <1>1, <2>1, <3>1, <3>2 DEF LastUncertain
  <2>3. Channel!Forget
    BY <2>1, <2>2 DEF Channel!Forget
  <2>4. QED  BY <2>3 DEF Channel!Next
<1>7. CASE Connect \/ ReceiveLogon \/ AnswerResend \/ ClientNotices \/ ClientDrops
           \/ ClientRestarts \/ VenueNotices \/ VenueDrops \/ UNCHANGED vars
  BY <1>3, <1>7 DEF Connect, ReceiveLogon, AnswerResend, ClientNotices, ClientDrops,
       ClientRestarts, VenueNotices, VenueDrops, ClientCloses, VenueCloses, venueVars,
       clientVars, vars
<1>8. ASSUME InStep, NEW m \in Message, Reflects(m), m.seq = expected,
             expected' = Following(m), UNCHANGED <<reset, sent, store>>,
             handled' = IF m.kind = "request" THEN Append(handled, m.arg) ELSE handled
      PROVE  [Channel!Next]_Channel!vars
  <2>1. CASE m.kind = "request"
    BY <1>8, <2>1, RequestIsDelivered
  <2>2. CASE m.kind # "request"
    <3>1. handled' = handled /\ ~LastUncertain /\ ~LastUncertain'
      BY <1>8, <2>2, OthersAreSkipped
    <3>2. LastUncertain' = LastUncertain
      BY <3>1 DEF LastUncertain
    <3>3. QED  BY <1>2, <1>8, <3>1, <3>2
  <2>3. QED  BY <2>1, <2>2
<1>9. CASE AcceptLogon
  <2>1. /\ UNCHANGED <<reset, store, sent, handled>> /\ venue = "connected"
        /\ toVenue # <<>>
    BY <1>9, AcceptFacts DEF AcceptLogon, clientVars
  <2>2. PICK m \in Message, e \in Nat \ {0} :
           /\ m.seq \in Nat /\ Reflects(m)
           /\ e = IF reset THEN 1 ELSE expected
           /\ m.kind \in {"logon", "reset"} /\ Following(m) = m.seq + 1
           /\ reset => m.seq = e
           /\ \/ m.seq > e /\ expected' = expected
              \/ m.seq = e /\ expected' = e + 1
    BY <1>9, AcceptFacts
  <2>3. CASE m.seq > e /\ expected' = expected
    BY <1>3, <2>1, <2>3
  <2>4. CASE m.seq = e /\ expected' = e + 1 /\ ~reset
    <3>1. /\ InStep /\ m.seq = expected /\ expected' = Following(m)
          /\ m.kind # "request"
      BY <2>2, <2>4 DEF InStep
    <3>2. QED  BY <1>8, <2>1, <2>2, <3>1
  <2>5. CASE m.seq = e /\ expected' = e + 1 /\ reset
    <3>1. ~LastUncertain'
      <4> SUFFICES ASSUME LastUncertain' PROVE FALSE
        OBVIOUS
      <4>1. /\ handled # <<>> /\ expected' <= Len(store)
            /\ store[expected'] = LastHandled
        BY <2>1 DEF LastUncertain, LastHandled
      <4>2. expected' \in 1..Len(store) /\ LastHandled # Admin /\ LastHandled \in Nat
        BY <2>5, <4>1, UncertainFacts DEF Admin
      <4>3. expected' \in Requested
        BY <4>1, <4>2 DEF Requested
      <4>4. store[expected'] > LastHandled
        BY <2>1, <2>5, <4>3 DEF SessionInv, RequestsInOrder
      <4>5. QED  BY <4>1, <4>2, <4>4
    <3>2. Channel!Forget
      BY <2>1, <2>5, <3>1 DEF Channel!Forget
    <3>3. QED  BY <3>2 DEF Channel!Next
  <2>6. QED  BY <2>2, <2>3, <2>4, <2>5
<1>10. CASE Receive
  <2> DEFINE m == Head(toVenue)
  <2>1. /\ m \in Message /\ Reflects(m) /\ InStep /\ store' = store
        /\ \/ /\ m.seq > expected /\ AskAgain(m, <<>>)
              /\ UNCHANGED <<venue, expected, handled>>
           \/ /\ m.seq < expected /\ m.dup
              /\ UNCHANGED <<toClient, venueVars>>
           \/ /\ m.seq = expected /\ Take(m) /\ expected' = Following(m)
              /\ UNCHANGED <<toClient, venue, queue>>
    BY <1>10, ReceiveFacts
  <2>2. UNCHANGED <<reset, sent>>
    BY <1>10 DEF Receive, clientVars
  <2> HIDE DEF m
  <2>3. CASE m.seq = expected /\ Take(m) /\ expected' = Following(m)
    <3>1. handled' = IF m.kind = "request" THEN Append(handled, m.arg) ELSE handled
      BY <2>3 DEF Take
    <3>2. QED  BY <1>8, <2>1, <2>2, <2>3, <3>1
  <2>4. CASE UNCHANGED <<expected, handled>>
    BY <1>3, <2>1, <2>2, <2>4
  <2>5. QED  BY <2>1, <2>3, <2>4 DEF venueVars
<1>11. CASE NextQueued
  <2>1. UNCHANGED <<reset, sent>>
    BY <1>11 DEF NextQueued, clientVars
  <2>2. QED  BY <1>8, <1>11, <2>1, QueuedFacts
<1>12. CASE VenueDiesHandling
  <2>1. venue = "loggedOn" /\ UNCHANGED <<reset, store, sent>>
    BY <1>12 DEF VenueDiesHandling, VenueCloses, clientVars
  <2>2. PICK m \in Message : /\ m.seq = expected /\ m.kind = "request" /\ Reflects(m)
                             /\ handled' = Append(handled, m.arg)
    <3>1. PICK m \in queue \cup (IF toVenue = <<>> THEN {} ELSE {Head(toVenue)}) :
             m.seq = expected /\ m.kind = "request" /\ handled' = Append(handled, m.arg)
      BY <1>12 DEF VenueDiesHandling
    <3>2. toVenue # <<>> => Reflects(Head(toVenue)) /\ Head(toVenue) \in Message
      BY FirstTaken DEF SessionInv, TypeOK, WireReflectsStore
    <3>3. Reflects(m) /\ m \in Message
      BY <1>1, <3>1, <3>2 DEF SessionInv, WireReflectsStore, TypeOK
    <3>4. QED  BY <3>1, <3>3
  <2>3. InStep
    BY <2>1 DEF InStep
  <2>4. QED  BY <2>1, <2>2, <2>3, RequestIsDelivered
<1>13. QED
  BY <1>4, <1>5, <1>6, <1>7, <1>9, <1>10, <1>11, <1>12 DEF Next, ClientStep, VenueStep

\* The session implements the channel: requests reach the venue's application
\* in order, each once and none left out, but for what a reset erases and for
\* the one a dying venue was handling.
THEOREM Refinement == Spec => ImplementsChannel
<1>1. Init => Channel!Init
  BY DEF Init, Channel!Init, LastUncertain
<1>2. SessionInv /\ [Next]_vars => [Channel!Next]_Channel!vars
  BY ChannelStep
<1>3. Spec => Channel!Spec
  BY <1>1, <1>2, SessionInvariant, PTL DEF Spec, Channel!Spec
<1>4. QED  BY <1>3 DEF ImplementsChannel
=============================================================================
