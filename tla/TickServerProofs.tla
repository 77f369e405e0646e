-------------------------- MODULE TickServerProofs --------------------------
(***************************************************************************)
(* What one map of subscriptions and one handle are enough for, with any   *)
(* number of connections: whoever subscribes is the last requester, and    *)
(* the handler of any close clears the map.                                *)
(***************************************************************************)
EXTENDS TickServer, SequenceTheorems, TLAPS

-----------------------------------------------------------------------------
(* Types. *)

\* A message is a sequence of words.
LEMMA MessageIsSeq ==
    ASSUME NEW m \in Messages
    PROVE  /\ m \in Seq(Words)
           /\ Len(m) \in Nat
           /\ DOMAIN m = 1..Len(m)
           /\ \A i \in 1..Len(m) : m[i] \in Words
<1>1. PICK n \in 0..MaxTokens : m \in [1..n -> Words]
  BY DEF Messages
<1>2. n \in Nat
  BY ServerAssumption
<1>3. m \in Seq(Words)
  BY <1>1, <1>2, SeqDef
<1>4. QED  BY <1>3, LenProperties, ElementOfSeq

\* No words are a message, too.
LEMMA NothingIsMessage == <<>> \in Messages /\ Len(<<>>) = 0
<1>1. <<>> \in [1..0 -> Words] /\ 0 \in 0..MaxTokens
  BY ServerAssumption
<1>2. QED  BY <1>1 DEF Messages

\* A word is a keyword or a symbol, and only one of the two.
LEMMA WordFacts ==
    ASSUME NEW w \in Words
    PROVE  /\ IsKeyword(w) => /\ w.keyword \in Keywords
                              /\ w = [keyword |-> w.keyword]
                              /\ \A s : w # [symbol |-> s]
           /\ ~IsKeyword(w) => /\ w.symbol \in Symbols
                               /\ w = [symbol |-> w.symbol]
                               /\ \A k : w # [keyword |-> k]
<1>1. CASE w \in [keyword : Keywords]
  <2>1. w = [keyword |-> w.keyword] /\ w.keyword \in Keywords /\ DOMAIN w = {"keyword"}
    BY <1>1
  <2>2. \A s : DOMAIN [symbol |-> s] = {"symbol"}
    OBVIOUS
  <2>3. QED  BY <2>1, <2>2 DEF IsKeyword
<1>2. CASE w \in [symbol : Symbols]
  <2>1. w = [symbol |-> w.symbol] /\ w.symbol \in Symbols /\ DOMAIN w = {"symbol"}
    BY <1>2
  <2>2. \A k : DOMAIN [keyword |-> k] = {"keyword"}
    OBVIOUS
  <2>3. QED  BY <2>1, <2>2 DEF IsKeyword
<1>3. QED  BY <1>1, <1>2 DEF Words

\* The word that is read next is one.
LEMMA NextWordFacts ==
    ASSUME TypeOK, at < Len(message)
    PROVE  /\ at + 1 \in 1..Len(message)
           /\ at + 1 \in 0..Len(message)
           /\ at \in Nat
           /\ Word \in Words
<1>1. Len(message) \in Nat /\ \A i \in 1..Len(message) : message[i] \in Words
  BY MessageIsSeq DEF TypeOK
<1>2. at + 1 \in 1..Len(message) /\ at + 1 \in 0..Len(message) /\ at \in Nat
  BY <1>1 DEF TypeOK
<1>3. QED  BY <1>1, <1>2 DEF Word

\* Every step keeps the types.
LEMMA TypeStep ==
    ASSUME TypeOK, [Next]_vars
    PROVE  TypeOK'
<1>1. ASSUME NEW c \in Clients, on_open(c)
      PROVE  TypeOK'
  BY <1>1, NothingIsMessage DEF on_open, NoMessage, tickVars, TypeOK
<1>2. ASSUME NEW c \in Clients, on_close(c)
      PROVE  TypeOK'
  BY <1>2, NothingIsMessage DEF on_close, NoMessage, TypeOK
<1>3. ASSUME NEW c \in Clients, Closes(c)
      PROVE  TypeOK'
  BY <1>3 DEF Closes, messageVars, tickVars, TypeOK
<1>4. ASSUME NEW c \in Clients, NEW m \in Messages, on_message(c, m)
      PROVE  TypeOK'
  <2>1. 0 \in 0..Len(m)
    BY MessageIsSeq
  <2>2. QED  BY <1>4, <2>1 DEF on_message, connectionVars, TypeOK
<1>5. CASE ReadKeyword
  <2>1. at < Len(message) /\ IsKeyword(Word)
    BY <1>5 DEF ReadKeyword, NextWord
  <2>2. at + 1 \in 0..Len(message) /\ Word.keyword \in Keywords
    BY <2>1, NextWordFacts, WordFacts
  <2>3. QED  BY <1>5, <2>2 DEF ReadKeyword, NextWord, connectionVars, tickVars, TypeOK
<1>6. CASE ReadSymbol
  <2>1. at < Len(message) /\ ~IsKeyword(Word)
    BY <1>6 DEF ReadSymbol, NextWord
  <2>2. at + 1 \in 0..Len(message) /\ Word.symbol \in Symbols
    BY <2>1, NextWordFacts, WordFacts
  <2>3. sym_sub' \subseteq Symbols
    BY <1>6, <2>2 DEF ReadSymbol, TypeOK
  <2>4. QED  BY <1>6, <2>2, <2>3 DEF ReadSymbol, NextWord, connectionVars, tickVars, TypeOK
<1>7. ASSUME NEW s \in Symbols, TickFind(s)
      PROVE  TypeOK'
  BY <1>7 DEF TickFind, connectionVars, messageVars, TypeOK
<1>8. CASE TickSend
  BY <1>8 DEF TickSend, connectionVars, messageVars, TypeOK
<1>9. CASE UNCHANGED vars
  BY <1>9 DEF vars, TypeOK
<1>10. QED
  BY <1>1, <1>2, <1>3, <1>4, <1>5, <1>6, <1>7, <1>8, <1>9 DEF Next, AsioStep

\* At the beginning the types hold.
LEMMA InitType == Init => TypeOK
<1> SUFFICES ASSUME Init PROVE TypeOK
  OBVIOUS
<1>1. message \in Messages /\ at \in 0..Len(message)
  BY NothingIsMessage DEF Init
<1>2. /\ hdl_1 \in Clients \cup {NoClient}
      /\ overtaken \in BOOLEAN /\ failed \in BOOLEAN
  BY DEF Init
<1>3. tick \in {<<>>} \cup {<<s>> : s \in Symbols}
  BY DEF Init
<1>4. /\ fresh \subseteq Clients
      /\ open \subseteq Clients \ fresh
      /\ closing \subseteq Clients \ (fresh \cup open)
      /\ connectionlist \subseteq Clients \ fresh
      /\ sym_sub \subseteq Symbols
      /\ flags \subseteq Keywords
      /\ before \subseteq Symbols
  BY DEF Init
<1>5. QED  BY <1>1, <1>2, <1>3, <1>4 DEF TypeOK

\* The variables have their types; getline never reads behind the message.
THEOREM TypeCorrect == Spec => []TypeOK
BY InitType, TypeStep, PTL DEF Spec

-----------------------------------------------------------------------------
(* Who can be sent to. *)

\* Who is being read from is connected: websocketpp runs no other handler.
RequesterIsOpen == at < Len(message) => hdl_1 \in open

ReachInv == TypeOK /\ RequesterIsOpen /\ ThrowsOnlyAroundClose

\* Between messages nothing is being read.
LEMMA IdleReads ==
    ASSUME TypeOK, AsioIdle
    PROVE  ~(at < Len(message))
BY MessageIsSeq DEF TypeOK, AsioIdle

\* Opening a connection, its closing and its handler leave at most the tick
\* that was found before to be sent to a connection that is gone.
LEMMA ConnectionStep ==
    ASSUME ReachInv, NEW c \in Clients, on_open(c) \/ Closes(c) \/ on_close(c)
    PROVE  RequesterIsOpen' /\ ThrowsOnlyAroundClose'
<1>1. CASE on_open(c) \/ on_close(c)
  <2>1. sym_sub' = {} /\ message' = <<>> /\ at' = 0 /\ hdl_1' = hdl_1 /\ tick' = tick
    BY <1>1 DEF on_open, on_close, NoMessage, tickVars
  <2>2. tick # <<>> => hdl_1 \in open' \cup closing' \/ overtaken'
    BY <1>1 DEF on_open, on_close, tickVars, ReachInv, ThrowsOnlyAroundClose
  <2>3. QED
    BY <2>1, <2>2 DEF RequesterIsOpen, ThrowsOnlyAroundClose
<1>2. CASE Closes(c)
  <2>1. open' \cup closing' = open \cup closing /\ ~(at < Len(message))
    BY <1>2, IdleReads DEF Closes, ReachInv
  <2>2. QED
    BY <1>2, <2>1 DEF Closes, messageVars, tickVars, ReachInv,
                      RequesterIsOpen, ThrowsOnlyAroundClose
<1>3. QED  BY <1>1, <1>2

\* A word is read from a connection that is open, and stays so.
LEMMA WordStep ==
    ASSUME ReachInv, AsioStep
    PROVE  RequesterIsOpen' /\ ThrowsOnlyAroundClose'
<1>1. NextWord
  BY DEF AsioStep, ReadKeyword, ReadSymbol
<1>2. hdl_1 \in open /\ hdl_1' = hdl_1 /\ open' = open
  BY <1>1 DEF NextWord, connectionVars, ReachInv, RequesterIsOpen
<1>3. QED
  BY <1>2 DEF RequesterIsOpen, ThrowsOnlyAroundClose

\* Every step keeps the requester reachable, or about to be forgotten.
LEMMA ReachStep == ReachInv /\ [Next]_vars => ReachInv'
<1> SUFFICES ASSUME ReachInv, [Next]_vars
             PROVE  RequesterIsOpen' /\ ThrowsOnlyAroundClose'
  BY TypeStep DEF ReachInv
<1> USE DEF ReachInv, RequesterIsOpen, ThrowsOnlyAroundClose
<1>1. ASSUME NEW c \in Clients, on_open(c) \/ Closes(c) \/ on_close(c)
      PROVE  RequesterIsOpen' /\ ThrowsOnlyAroundClose'
  BY <1>1, ConnectionStep
<1>2. ASSUME NEW c \in Clients, NEW m \in Messages, on_message(c, m)
      PROVE  RequesterIsOpen' /\ ThrowsOnlyAroundClose'
  BY <1>2 DEF on_message, connectionVars
<1>3. CASE AsioStep
  BY <1>3, WordStep
<1>4. ASSUME NEW s \in Symbols, TickFind(s)
      PROVE  RequesterIsOpen' /\ ThrowsOnlyAroundClose'
  BY <1>4 DEF TickFind, connectionVars, messageVars
<1>5. CASE TickSend
  BY <1>5 DEF TickSend, connectionVars, messageVars
<1>6. CASE UNCHANGED vars
  BY <1>6 DEF vars
<1>7. QED
  BY <1>1, <1>2, <1>3, <1>4, <1>5, <1>6 DEF Next

\* A send can throw only between the requester's close and its on_close, and
\* for the one tick that was found before on_close ran, for any number of
\* clients, symbols and words (sendJSONTick sends to hdl_1 what sym_sub holds).
THEOREM Reachable == Spec => []ThrowsOnlyAroundClose
<1>1. Init => ReachInv
  BY InitType DEF Init, ReachInv, RequesterIsOpen, ThrowsOnlyAroundClose
<1>2. ReachInv => ThrowsOnlyAroundClose
  BY DEF ReachInv
<1>3. QED  BY <1>1, <1>2, ReachStep, PTL DEF Spec

-----------------------------------------------------------------------------
(* What a message does. *)

\* Whether a keyword is among the first words of a message.
Said(m, i, keyword) == \E j \in 1..i : m[j] = [keyword |-> keyword]

\* The mentions of a symbol under a keyword among them.
Mentions(m, i, s) ==
    {j \in 1..i : m[j] = [symbol |-> s] /\ \E k \in Keywords : Said(m, j - 1, k)}

\* Whether the words up to i leave a symbol subscribed, given what was before.
Wanted(m, i, s, old) ==
    LET mentions == Mentions(m, i, s)
        last     == CHOOSE j \in mentions : \A x \in mentions : x <= j
    IN  IF mentions = {} THEN s \in old ELSE ~Said(m, last - 1, "UNSUBSCRIBE")

\* isSubscribe and isUnSubscribe say which keywords have been read.
FlagsAreSaid == \A k \in Keywords : k \in flags <=> Said(message, at, k)

EffectInv ==
    /\ TypeOK
    /\ FlagsAreSaid
    /\ \A s \in Symbols : s \in sym_sub <=> Wanted(message, at, s, before)

\* A word that mentions a symbol under a keyword decides; others change nothing.
LEMMA WantedStep ==
    ASSUME NEW m, NEW i \in Nat, NEW s, NEW old
    PROVE  IF /\ m[i + 1] = [symbol |-> s]
              /\ \E k \in Keywords : Said(m, i, k)
           THEN Wanted(m, i + 1, s, old) <=> ~Said(m, i, "UNSUBSCRIBE")
           ELSE Wanted(m, i + 1, s, old) <=> Wanted(m, i, s, old)
<1> DEFINE n == i + 1
           hits == Mentions(m, n, s)
<1>0. n - 1 = i /\ n \in Nat /\ \A j : j \in 1..n <=> j \in 1..i \/ j = n
  OBVIOUS
<1>1. CASE m[n] = [symbol |-> s] /\ \E k \in Keywords : Said(m, n - 1, k)
  <2> DEFINE last == CHOOSE j \in hits : \A x \in hits : x <= j
  <2>1. n \in hits /\ hits \subseteq 1..n
    BY <1>0, <1>1 DEF Mentions
  <2>2. Wanted(m, n, s, old) = IF hits = {} THEN s \in old
                               ELSE ~Said(m, last - 1, "UNSUBSCRIBE")
    BY DEF Wanted
  <2> HIDE DEF hits, n
  <2>3. hits \subseteq Nat /\ \A x \in hits : x <= n
    BY <1>0, <2>1
  <2>4. last \in hits /\ \A x \in hits : x <= last
    BY <2>1, <2>3
  <2> HIDE DEF last
  <2>5. last \in Nat /\ n <= last /\ last <= n
    BY <2>1, <2>3, <2>4
  <2>6. last = n
    BY <1>0, <2>5
  <2>7. Wanted(m, n, s, old) <=> ~Said(m, n - 1, "UNSUBSCRIBE")
    BY <2>1, <2>2, <2>6
  <2>8. QED  BY <1>0, <1>1, <2>7 DEF n
<1>2. CASE ~(m[n] = [symbol |-> s] /\ \E k \in Keywords : Said(m, n - 1, k))
  <2> HIDE DEF n
  <2>1. hits = Mentions(m, i, s)
    BY <1>0, <1>2 DEF Mentions
  <2>2. Wanted(m, n, s, old) <=> Wanted(m, i, s, old)
    BY <2>1 DEF Wanted
  <2>3. QED  BY <1>0, <1>2, <2>2 DEF n
<1>3. QED  BY <1>1, <1>2

\* Between messages the map is what was found, whatever that is.
LEMMA NothingRead ==
    ASSUME NEW m, NEW s, NEW old, NEW k
    PROVE  ~Said(m, 0, k) /\ (Wanted(m, 0, s, old) <=> s \in old)
<1>1. ~\E j \in 1..0 : TRUE
  OBVIOUS
<1>2. Mentions(m, 0, s) = {}
  BY <1>1 DEF Mentions
<1>3. QED  BY <1>1, <1>2 DEF Said, Wanted

\* One more word says the keyword it is, and what was said before.
LEMMA SaidStep ==
    ASSUME NEW m, NEW i \in Nat, NEW k
    PROVE  Said(m, i + 1, k) <=> Said(m, i, k) \/ m[i + 1] = [keyword |-> k]
<1>1. \A j : j \in 1..(i + 1) <=> j \in 1..i \/ j = i + 1
  OBVIOUS
<1>2. QED  BY <1>1 DEF Said

\* At the beginning of a message, or between two, the invariant holds.
LEMMA EffectAfresh ==
    ASSUME TypeOK', at' = 0, flags' = {}, sym_sub' = before'
    PROVE  EffectInv'
<1>1. FlagsAreSaid'
  <2>1. \A k \in Keywords : ~Said(message', 0, k)
    BY NothingRead
  <2>2. QED  BY <2>1 DEF FlagsAreSaid
<1>2. (\A s \in Symbols : s \in sym_sub <=> Wanted(message, at, s, before))'
  <2>1. ASSUME NEW s \in Symbols
        PROVE  s \in sym_sub' <=> Wanted(message', at', s, before')
    <3>1. Wanted(message', 0, s, before') <=> s \in before'
      BY NothingRead
    <3>2. QED  BY <3>1
  <2>2. QED  BY <2>1
<1>3. QED  BY <1>1, <1>2 DEF EffectInv

\* A keyword is remembered, and touches no symbol.
LEMMA KeywordEffect ==
    ASSUME EffectInv, TypeOK', ReadKeyword
    PROVE  EffectInv'
<1> DEFINE w == message[at + 1]
<1>1. /\ at < Len(message) /\ IsKeyword(w)
      /\ flags' = flags \cup {w.keyword}
      /\ at' = at + 1
      /\ message' = message /\ before' = before /\ sym_sub' = sym_sub
  BY DEF ReadKeyword, NextWord, Word
<1>2. at \in Nat /\ w \in Words
  BY <1>1, NextWordFacts DEF EffectInv, Word
<1>3. w.keyword \in Keywords /\ w = [keyword |-> w.keyword] /\ \A s : w # [symbol |-> s]
  BY <1>1, <1>2, WordFacts
<1>4. \A k \in Keywords : w = [keyword |-> k] <=> k = w.keyword
  <2>1. ASSUME NEW k, w = [keyword |-> k]
        PROVE  k = w.keyword
    BY <2>1
  <2>2. QED  BY <1>3, <2>1
<1>5. FlagsAreSaid'
  <2>1. ASSUME NEW k \in Keywords
        PROVE  k \in flags' <=> Said(message', at', k)
    <3>1. Said(message, at + 1, k) <=> Said(message, at, k) \/ w = [keyword |-> k]
      BY <1>2, SaidStep
    <3>2. k \in flags <=> Said(message, at, k)
      BY DEF EffectInv, FlagsAreSaid
    <3>3. k \in flags' <=> k \in flags \/ k = w.keyword
      BY <1>1
    <3>4. QED  BY <1>1, <1>4, <3>1, <3>2, <3>3
  <2>2. QED  BY <2>1 DEF FlagsAreSaid
<1>6. ASSUME NEW s \in Symbols
      PROVE  s \in sym_sub' <=> Wanted(message', at', s, before')
  <2>1. s \in sym_sub <=> Wanted(message, at, s, before)
    BY DEF EffectInv
  <2>2. w # [symbol |-> s]
    BY <1>3
  <2>3. Wanted(message, at + 1, s, before) <=> Wanted(message, at, s, before)
    BY <1>2, <2>2, WantedStep
  <2>4. QED  BY <1>1, <2>1, <2>3
<1>7. QED  BY <1>5, <1>6 DEF EffectInv

\* A symbol is taken in or out as the flags say, the others stay.
LEMMA SymbolEffect ==
    ASSUME EffectInv, TypeOK', ReadSymbol
    PROVE  EffectInv'
<1> DEFINE w == message[at + 1]
<1>1. /\ at < Len(message) /\ ~IsKeyword(w)
      /\ sym_sub' = LET added == IF "SUBSCRIBE" \in flags
                                 THEN sym_sub \cup {w.symbol} ELSE sym_sub
                    IN  IF "UNSUBSCRIBE" \in flags THEN added \ {w.symbol}
                                                   ELSE added
      /\ at' = at + 1
      /\ message' = message /\ before' = before /\ flags' = flags
  BY DEF ReadSymbol, NextWord, Word
<1>2. at \in Nat /\ w \in Words
  BY <1>1, NextWordFacts DEF EffectInv, Word
<1>3. w = [symbol |-> w.symbol] /\ \A k : w # [keyword |-> k]
  BY <1>1, <1>2, WordFacts
<1>4. \A k \in Keywords : k \in flags <=> Said(message, at, k)
  BY DEF EffectInv, FlagsAreSaid
<1>5. FlagsAreSaid'
  <2>1. ASSUME NEW k \in Keywords
        PROVE  k \in flags' <=> Said(message', at', k)
    <3>1. Said(message, at + 1, k) <=> Said(message, at, k) \/ w = [keyword |-> k]
      BY <1>2, SaidStep
    <3>2. QED  BY <1>1, <1>3, <1>4, <3>1
  <2>2. QED  BY <2>1 DEF FlagsAreSaid
<1>6. ASSUME NEW s \in Symbols
      PROVE  s \in sym_sub' <=> Wanted(message', at', s, before')
  <2>1. s \in sym_sub <=> Wanted(message, at, s, before)
    BY DEF EffectInv
  <2>2. w = [symbol |-> s] <=> s = w.symbol
    <3>1. ASSUME w = [symbol |-> s]
          PROVE  s = w.symbol
      BY <3>1
    <3>2. QED  BY <1>3, <3>1
  <2>3. CASE s = w.symbol /\ \E k \in Keywords : Said(message, at, k)
    <3>1. Wanted(message, at + 1, s, before) <=> ~Said(message, at, "UNSUBSCRIBE")
      BY <1>2, <2>2, <2>3, WantedStep
    <3>2. "SUBSCRIBE" \in flags \/ "UNSUBSCRIBE" \in flags
      BY <1>4, <2>3 DEF Keywords
    <3>3. s \in sym_sub' <=> "UNSUBSCRIBE" \notin flags
      BY <1>1, <2>3, <3>2
    <3>4. QED  BY <1>1, <1>4, <3>1, <3>3 DEF Keywords
  <2>4. CASE ~(s = w.symbol /\ \E k \in Keywords : Said(message, at, k))
    <3>1. Wanted(message, at + 1, s, before) <=> Wanted(message, at, s, before)
      BY <1>2, <2>2, <2>4, WantedStep
    <3>2. s = w.symbol => "SUBSCRIBE" \notin flags /\ "UNSUBSCRIBE" \notin flags
      BY <1>4, <2>4 DEF Keywords
    <3>3. s \in sym_sub' <=> s \in sym_sub
      BY <1>1, <3>2
    <3>4. QED  BY <1>1, <2>1, <3>1, <3>3
  <2>5. QED  BY <2>3, <2>4
<1>7. QED  BY <1>5, <1>6 DEF EffectInv

\* What leaves the words and the map alone keeps the invariant.
LEMMA EffectElsewhere ==
    ASSUME EffectInv, TypeOK',
           UNCHANGED <<sym_sub, message, at, flags, before>>
    PROVE  EffectInv'
BY DEF EffectInv, FlagsAreSaid

\* Every step keeps map and flags at what the words say.
LEMMA EffectStep ==
    ASSUME EffectInv, [Next]_vars
    PROVE  EffectInv'
<1>0. TypeOK'
  BY TypeStep DEF EffectInv
<1>1. ASSUME NEW c \in Clients, on_open(c) \/ on_close(c)
      PROVE  EffectInv'
  BY <1>0, <1>1, EffectAfresh DEF on_open, on_close, NoMessage
<1>2. ASSUME NEW c \in Clients, Closes(c)
      PROVE  EffectInv'
  BY <1>0, <1>2, EffectElsewhere DEF Closes, messageVars
<1>3. ASSUME NEW c \in Clients, NEW m \in Messages, on_message(c, m)
      PROVE  EffectInv'
  BY <1>0, <1>3, EffectAfresh DEF on_message
<1>4. CASE ReadKeyword
  BY <1>0, <1>4, KeywordEffect
<1>5. CASE ReadSymbol
  BY <1>0, <1>5, SymbolEffect
<1>6. ASSUME NEW s \in Symbols, TickFind(s)
      PROVE  EffectInv'
  BY <1>0, <1>6, EffectElsewhere DEF TickFind, messageVars
<1>7. CASE TickSend
  BY <1>0, <1>7, EffectElsewhere DEF TickSend, messageVars
<1>8. CASE UNCHANGED vars
  BY <1>0, <1>8, EffectElsewhere DEF vars
<1>9. QED
  BY <1>1, <1>2, <1>3, <1>4, <1>5, <1>6, <1>7, <1>8 DEF Next, AsioStep

\* The map is what the words read so far make of the one before the message,
\* for messages of any length (isValidRequest, the getline loop).
THEOREM MessageTakesEffectHolds == Spec => []MessageTakesEffect
<1>1. Init => EffectInv
  <2> SUFFICES ASSUME Init PROVE EffectInv
    OBVIOUS
  <2>1. at = 0 /\ flags = {} /\ sym_sub = {} /\ before = {}
    BY DEF Init
  <2>2. TypeOK
    BY InitType
  <2>3. FlagsAreSaid
    BY <2>1, NothingRead DEF FlagsAreSaid
  <2>4. \A s \in Symbols : s \in sym_sub <=> Wanted(message, at, s, before)
    BY <2>1, NothingRead
  <2>5. QED  BY <2>2, <2>3, <2>4 DEF EffectInv
<1>2. EffectInv => MessageTakesEffect
  BY DEF EffectInv, MessageTakesEffect, Wanted, Mentions, Said, Under
<1>3. QED  BY <1>1, <1>2, EffectStep, PTL DEF Spec
=============================================================================
