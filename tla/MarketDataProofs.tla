-------------------------- MODULE MarketDataProofs --------------------------
(***************************************************************************)
(* What the order book prints, for any number of orders, prices and lines, *)
(* as long as no line is irregular: the two containers hold the same       *)
(* prices, and the weighted price is an average.                           *)
(***************************************************************************)
EXTENDS MarketData, FiniteSetTheorems, WellFoundedInduction, TLAPS

Lowest == Min(Prices)

Highest == Max(Prices)

TypeOK ==
    /\ lines \in Nat /\ now \in Nat /\ busy \in Nat
    /\ orderEntry \in [Live -> Prices]
    /\ weightPrice \in Nat /\ total_timestamp \in Nat
    /\ prev_timestamp \in 0..now
    /\ prev_price \in Nat
    /\ regular \in BOOLEAN

\* No two orders have the same price; the multiset holds the orders' prices.
ContainersAgree ==
    /\ \A i, j \in Live : orderEntry[i] = orderEntry[j] => i = j
    /\ DOMAIN orderPx = LivePrices

\* While there are orders the last line is the one the sums go up to, and the
\* price that is added next is one of an order there was.
SumsAreCurrent ==
    IF Live = {} THEN prev_price = 0
                 ELSE prev_price \in Prices /\ prev_timestamp = now

Averages ==
    /\ total_timestamp = busy
    /\ Lowest * busy <= weightPrice
    /\ weightPrice <= Highest * busy

BookInv ==
    /\ TypeOK
    /\ regular => ContainersAgree /\ SumsAreCurrent /\ Averages

-----------------------------------------------------------------------------
(* Numbers. *)

\* A finite set of numbers has a greatest and a least element: a subset that
\* had none would have a smaller one.
LEMMA Extremes ==
    ASSUME NEW S, S \subseteq Nat, S # {}, IsFiniteSet(S)
    PROVE  /\ Max(S) \in S /\ \A x \in S : x <= Max(S)
           /\ Min(S) \in S /\ \A x \in S : Min(S) <= x
<1> DEFINE Greatest(T) == \E x \in T : \A y \in T : y <= x
           Least(T) == \E x \in T : \A y \in T : x <= y
           Bad == {T \in FiniteSubsetsOf(S) : T # {} /\ ~(Greatest(T) /\ Least(T))}
           R == StrictSubsetOrdering(S)
<1>1. Bad = {}
  <2> SUFFICES ASSUME Bad # {} PROVE FALSE
    OBVIOUS
  <2>1. Bad \subseteq FiniteSubsetsOf(S) /\ IsWellFoundedOn(R, FiniteSubsetsOf(S))
    BY FS_StrictSubsetOrderingWellFounded
  <2> HIDE DEF R
  <2>2. PICK T \in Bad : \A U \in Bad : <<U, T>> \notin R
    BY <2>1, WFMin
  <2>3. T \subseteq S /\ IsFiniteSet(T) /\ T # {} /\ T \subseteq Nat
    BY DEF FiniteSubsetsOf
  <2>4. PICK x \in T : TRUE
    BY <2>3
  <2> DEFINE U == T \ {x}
  <2>5. IsFiniteSet(U) /\ U \subseteq S /\ U \in FiniteSubsetsOf(S)
    BY <2>3, FS_RemoveElement DEF FiniteSubsetsOf
  <2>6. <<U, T>> \in R
    BY <2>3, <2>4, <2>5 DEF R, StrictSubsetOrdering
  <2>7. U = {} \/ (Greatest(U) /\ Least(U))
    BY <2>2, <2>5, <2>6
  <2>8. x \in Nat /\ U \subseteq Nat /\ \A y \in T : y = x \/ y \in U
    BY <2>3, <2>4
  <2>9. Greatest(T)
    <3>1. CASE U = {}
      BY <2>4, <2>8, <3>1
    <3>2. CASE Greatest(U)
      <4>1. PICK g \in U : \A y \in U : y <= g
        BY <3>2
      <4>2. CASE x <= g
        BY <2>8, <4>1, <4>2
      <4>3. CASE g < x
        BY <2>4, <2>8, <4>1, <4>3
      <4>4. QED  BY <2>8, <4>1, <4>2, <4>3
    <3>3. QED  BY <2>7, <3>1, <3>2
  <2>10. Least(T)
    <3>1. CASE U = {}
      BY <2>4, <2>8, <3>1
    <3>2. CASE Least(U)
      <4>1. PICK g \in U : \A y \in U : g <= y
        BY <3>2
      <4>2. CASE g <= x
        BY <2>8, <4>1, <4>2
      <4>3. CASE x < g
        BY <2>4, <2>8, <4>1, <4>3
      <4>4. QED  BY <2>8, <4>1, <4>2, <4>3
    <3>3. QED  BY <2>7, <3>1, <3>2
  <2>11. QED  BY <2>2, <2>9, <2>10
<1>2. S \in FiniteSubsetsOf(S)
  BY DEF FiniteSubsetsOf
<1>3. Greatest(S) /\ Least(S)
  BY <1>1, <1>2
<1>4. Max(S) \in S /\ \A y \in S : Max(S) >= y
  <2>1. \E x \in S : \A y \in S : x >= y
    BY <1>3
  <2>2. QED  BY <2>1 DEF Max
<1>5. Min(S) \in S /\ \A y \in S : Min(S) <= y
  <2>1. \E x \in S : \A y \in S : x =< y
    BY <1>3
  <2>2. QED  BY <2>1 DEF Min
<1>6. QED  BY <1>4, <1>5

\* The bounds are prices.
LEMMA Bounds ==
    /\ Lowest \in Nat /\ Highest \in Nat
    /\ \A p \in Prices : p \in Nat /\ Lowest <= p /\ p <= Highest
BY Extremes, DataAssumption DEF Lowest, Highest

\* A price weighted with a time is between the bounds, times that time.
LEMMA Weighted ==
    ASSUME NEW a \in Nat, NEW p \in Nat, NEW b \in Nat, NEW d \in Nat, NEW e \in Nat,
           NEW w \in Nat, a <= p, p <= b, a * d <= w, w <= b * d
    PROVE  /\ a * (d + e) <= w + p * e
           /\ w + p * e <= b * (d + e)
           /\ p * e \in Nat
<1>1. a * (d + e) = a * d + a * e /\ b * (d + e) = b * d + b * e
  OBVIOUS
<1>2. a * e <= p * e /\ p * e <= b * e
  OBVIOUS
<1>3. a * d \in Nat /\ a * e \in Nat /\ b * d \in Nat /\ b * e \in Nat /\ p * e \in Nat
  OBVIOUS
<1>4. QED  BY <1>1, <1>2, <1>3

-----------------------------------------------------------------------------
(* The steps. *)

\* A line is not before the one that came last.
LEMMA LineFacts ==
    ASSUME TypeOK, NEW t \in 0..MaxTime, Line(t)
    PROVE  /\ now \in Nat /\ t \in Nat /\ now <= t
           /\ lines' \in Nat /\ now' = t
           /\ Elapsed(t) \in Nat
           /\ t - now \in Nat
           /\ busy \in Nat
           /\ busy' = IF Live = {} THEN busy ELSE busy + (t - now)
<1>1. now \in Nat /\ t \in Nat /\ now <= t /\ prev_timestamp \in 0..now
  BY DataAssumption DEF TypeOK, Line
<1>2. QED  BY <1>1 DEF TypeOK, Line, Elapsed

\* An insert of a new id at a new price.
LEMMA InsertStep ==
    ASSUME BookInv, NEW t \in 0..MaxTime, NEW id \in Ids, NEW p \in Prices,
           insertOrderEntry(t, id, p)
    PROVE  BookInv'
<1> DEFINE e == Elapsed(t)
<1>1. /\ now \in Nat /\ t \in Nat /\ now <= t /\ lines' \in Nat /\ now' = t
      /\ e \in Nat /\ busy \in Nat
      /\ busy' = IF Live = {} THEN busy ELSE busy + (t - now)
      /\ t - now \in Nat
  BY LineFacts DEF BookInv, insertOrderEntry
<1>2. /\ weightPrice' = weightPrice + prev_price * e
      /\ total_timestamp' = total_timestamp + (IF Live = {} THEN 0 ELSE e)
      /\ prev_price' = p /\ prev_timestamp' = t
      /\ orderEntry' = [i \in Live \cup {id} |-> IF i = id THEN p ELSE orderEntry[i]]
      /\ orderPx' = orderPx (+) SetToBag({p})
      /\ regular' = (regular /\ id \notin Live /\ p \notin LivePrices)
  BY DEF insertOrderEntry
<1>3. /\ p \in Nat
      /\ weightPrice \in Nat /\ total_timestamp \in Nat /\ prev_price \in Nat
      /\ orderEntry \in [Live -> Prices] /\ regular \in BOOLEAN
  BY DataAssumption DEF BookInv, TypeOK
<1>4. Live' = Live \cup {id}
  BY <1>2 DEF Live
<1>5. orderEntry' \in [Live' -> Prices]
  BY <1>2, <1>3, <1>4
<1>6. prev_price * e \in Nat
  BY <1>1, <1>3, Weighted
<1> HIDE DEF e
<1>7. TypeOK'
  <2>1. regular' \in BOOLEAN
    BY <1>2, <1>3
  <2>2. busy' \in Nat /\ weightPrice' \in Nat /\ total_timestamp' \in Nat
    BY <1>1, <1>2, <1>3, <1>6
  <2>3. prev_timestamp' \in 0..now' /\ now' \in Nat /\ prev_price' \in Nat
    BY <1>1, <1>2, <1>3
  <2>4. QED  BY <1>1, <1>5, <2>1, <2>2, <2>3 DEF TypeOK
<1>8. ASSUME regular'
      PROVE  ContainersAgree' /\ SumsAreCurrent' /\ Averages'
  <2>1. regular /\ id \notin Live /\ p \notin LivePrices
    BY <1>2, <1>8
  <2>2. ContainersAgree /\ SumsAreCurrent /\ Averages
    BY <2>1 DEF BookInv
  <2>3. /\ \A i \in Live : orderEntry'[i] = orderEntry[i]
        /\ orderEntry'[id] = p
    BY <1>2, <1>4, <2>1
  <2>4. LivePrices' = LivePrices \cup {p}
    BY <1>4, <2>3 DEF LivePrices
  <2>5. ContainersAgree'
    <3>1. DOMAIN orderPx' = DOMAIN orderPx \cup {p}
      BY <1>2 DEF (+), SetToBag
    <3>2. \A i, j \in Live' : orderEntry'[i] = orderEntry'[j] => i = j
      BY <1>4, <2>1, <2>2, <2>3 DEF ContainersAgree, LivePrices
    <3>3. QED  BY <2>2, <2>4, <3>1, <3>2 DEF ContainersAgree
  <2>6. SumsAreCurrent'
    BY <1>1, <1>2, <1>4 DEF SumsAreCurrent
  <2>7. Averages'
    <3>1. CASE Live = {}
      <4>1. prev_price = 0 /\ weightPrice' = weightPrice /\ busy' = busy
        BY <1>1, <1>2, <1>3, <2>2, <3>1 DEF SumsAreCurrent
      <4>2. total_timestamp' = total_timestamp
        BY <1>2, <1>3, <3>1
      <4>3. QED  BY <2>2, <4>1, <4>2 DEF Averages
    <3>2. CASE Live # {}
      <4>1. prev_price \in Prices /\ prev_timestamp = now
        BY <2>2, <3>2 DEF SumsAreCurrent
      <4>2. e = t - now /\ busy' = busy + e
        BY <1>1, <3>2, <4>1 DEF e, Elapsed
      <4>3. total_timestamp' = busy'
        BY <1>2, <2>2, <3>2, <4>2 DEF Averages
      <4>4. /\ Lowest \in Nat /\ Highest \in Nat
            /\ Lowest <= prev_price /\ prev_price <= Highest
        BY <4>1, Bounds
      <4>5. Lowest * busy <= weightPrice /\ weightPrice <= Highest * busy
        BY <2>2 DEF Averages
      <4>6. /\ Lowest * (busy + e) <= weightPrice + prev_price * e
            /\ weightPrice + prev_price * e <= Highest * (busy + e)
        BY <1>1, <1>3, <4>4, <4>5, Weighted
      <4>7. QED  BY <1>2, <4>2, <4>3, <4>6 DEF Averages
    <3>3. QED  BY <3>1, <3>2
  <2>8. QED  BY <2>5, <2>6, <2>7
<1>9. QED  BY <1>7, <1>8 DEF BookInv

\* What both ends of an erase keep: the sums' types.
LEMMA SumEraseType ==
    ASSUME TypeOK, NEW t \in 0..MaxTime, Line(t), NEW p \in Nat, NEW left,
           SumErase(t, p, left)
    PROVE  /\ weightPrice' \in Nat /\ total_timestamp' \in Nat
           /\ prev_timestamp' \in 0..now' /\ now' \in Nat
           /\ prev_price' \in Nat
           /\ busy' \in Nat /\ lines' \in Nat
<1> DEFINE e == Elapsed(t)
<1>1. /\ t \in Nat /\ now' = t /\ e \in Nat /\ lines' \in Nat
      /\ busy \in Nat /\ t - now \in Nat
      /\ busy' = IF Live = {} THEN busy ELSE busy + (t - now)
  BY LineFacts
<1>2. weightPrice \in Nat /\ total_timestamp \in Nat /\ prev_price \in Nat
  BY DEF TypeOK
<1>3. prev_price * e \in Nat /\ p * e \in Nat
  BY <1>1, <1>2
<1>4. /\ total_timestamp' = total_timestamp + e
      /\ \/ weightPrice' = weightPrice + prev_price * e
         \/ weightPrice' = weightPrice + p * e
      /\ prev_price' \in {p, 0}
      /\ prev_timestamp' \in {t, 0}
  BY DEF SumErase
<1> HIDE DEF e
<1>5. QED  BY <1>1, <1>2, <1>3, <1>4

\* An erase of an order that is there.
LEMMA EraseStep ==
    ASSUME BookInv, NEW t \in 0..MaxTime, NEW id \in Ids, eraseLive(t, id)
    PROVE  BookInv'
<1> DEFINE e == Elapsed(t)
           p == orderEntry[id]
           left == Live \ {id}
<1>1. /\ id \in Live /\ Line(t)
      /\ orderPx' = EraseAll(orderPx, p)
      /\ orderEntry' = [i \in left |-> orderEntry[i]]
      /\ SumErase(t, p, left)
      /\ regular' = regular
  BY DEF eraseLive
<1>2. orderEntry \in [Live -> Prices] /\ regular \in BOOLEAN
  BY DEF BookInv, TypeOK
<1>3. p \in Prices /\ p \in Nat
  BY <1>1, <1>2, DataAssumption
<1>4. Live' = left /\ orderEntry' \in [Live' -> Prices]
  BY <1>1, <1>2 DEF Live
<1>5. TypeOK'
  <2>1. /\ weightPrice' \in Nat /\ total_timestamp' \in Nat
        /\ prev_timestamp' \in 0..now' /\ now' \in Nat /\ prev_price' \in Nat
        /\ busy' \in Nat /\ lines' \in Nat
    BY <1>1, <1>3, SumEraseType DEF BookInv
  <2>2. QED  BY <1>1, <1>2, <1>4, <2>1 DEF TypeOK
<1>6. ASSUME regular'
      PROVE  ContainersAgree' /\ SumsAreCurrent' /\ Averages'
  <2>1. ContainersAgree /\ SumsAreCurrent /\ Averages
    BY <1>1, <1>6 DEF BookInv
  <2>2. prev_price \in Prices /\ prev_timestamp = now
    BY <1>1, <2>1 DEF SumsAreCurrent
  <2>3. \A i \in Live' : orderEntry'[i] = orderEntry[i] /\ i \in Live /\ i # id
    BY <1>1, <1>4
  <2>4. LivePrices' = LivePrices \ {p}
    BY <1>1, <1>4, <2>1, <2>3 DEF LivePrices, ContainersAgree
  <2>5. ContainersAgree'
    <3>1. DOMAIN orderPx' = DOMAIN orderPx \ {p}
      BY <1>1 DEF EraseAll
    <3>2. \A i, j \in Live' : orderEntry'[i] = orderEntry'[j] => i = j
      BY <2>1, <2>3 DEF ContainersAgree
    <3>3. QED  BY <2>1, <2>4, <3>1, <3>2 DEF ContainersAgree
  <2>6. /\ t \in Nat /\ now' = t /\ e \in Nat /\ busy \in Nat
        /\ busy' = busy + (t - now) /\ e = t - now
    BY <1>1, <2>2, LineFacts DEF BookInv, Elapsed
  <2>7. SumsAreCurrent'
    BY <1>1, <1>3, <1>4, <2>6 DEF SumsAreCurrent, SumErase
  <2>8. Averages'
    <3>1. PICK q \in Prices : weightPrice' = weightPrice + q * e
      BY <1>1, <1>3, <2>2 DEF SumErase
    <3>2. total_timestamp' = total_timestamp + e
      BY <1>1 DEF SumErase
    <3>3. /\ Lowest \in Nat /\ Highest \in Nat /\ q \in Nat
          /\ Lowest <= q /\ q <= Highest
      BY Bounds
    <3>4. /\ Lowest * busy <= weightPrice /\ weightPrice <= Highest * busy
          /\ weightPrice \in Nat /\ total_timestamp = busy
      BY <2>1 DEF Averages, BookInv, TypeOK
    <3> HIDE DEF e
    <3>5. /\ Lowest * (busy + e) <= weightPrice + q * e
          /\ weightPrice + q * e <= Highest * (busy + e)
      BY <2>6, <3>3, <3>4, Weighted
    <3>6. busy' = busy + e /\ total_timestamp' = busy'
      BY <2>6, <3>2, <3>4
    <3>7. QED  BY <3>1, <3>5, <3>6 DEF Averages
  <2>9. QED  BY <2>5, <2>7, <2>8
<1>7. QED  BY <1>5, <1>6 DEF BookInv

\* After an erase of an unknown id nothing is promised.
LEMMA UnknownStep ==
    ASSUME BookInv, NEW t \in 0..MaxTime, NEW id \in Ids, eraseUnknown(t, id)
    PROVE  BookInv'
<1>1. /\ Line(t) /\ SumErase(t, 0, Live) /\ regular' = FALSE
      /\ orderEntry' = orderEntry
  BY DEF eraseUnknown
<1>2. /\ weightPrice' \in Nat /\ total_timestamp' \in Nat
      /\ prev_timestamp' \in 0..now' /\ now' \in Nat /\ prev_price' \in Nat
      /\ busy' \in Nat /\ lines' \in Nat
  BY <1>1, SumEraseType DEF BookInv
<1>3. orderEntry' \in [Live' -> Prices]
  BY <1>1 DEF BookInv, TypeOK, Live
<1>4. QED  BY <1>1, <1>2, <1>3 DEF BookInv, TypeOK

\* BookInv is an inductive invariant of the order book.
THEOREM BookInvariant == Spec => []BookInv
<1>1. Init => BookInv
  <2> SUFFICES ASSUME Init PROVE BookInv
    OBVIOUS
  <2>1. /\ Live = {} /\ LivePrices = {} /\ orderEntry \in [Live -> Prices]
        /\ DOMAIN orderPx = {}
    BY DEF Init, Live, LivePrices, EmptyBag, SetToBag
  <2>2. TypeOK
    BY <2>1 DEF Init, TypeOK
  <2>3. ContainersAgree /\ SumsAreCurrent
    BY <2>1 DEF Init, ContainersAgree, SumsAreCurrent
  <2>4. Averages
    <3>1. Lowest * 0 = 0 /\ Highest * 0 = 0
      BY Bounds
    <3>2. QED  BY <3>1 DEF Init, Averages
  <2>5. QED  BY <2>2, <2>3, <2>4 DEF BookInv
<1>2. BookInv /\ [Next]_vars => BookInv'
  <2> SUFFICES ASSUME BookInv, [Next]_vars PROVE BookInv'
    OBVIOUS
  <2>1. CASE Next
    BY <2>1, InsertStep, EraseStep, UnknownStep DEF Next, eraseOrderEntry
  <2>2. CASE UNCHANGED vars
    BY <2>2 DEF vars, BookInv, TypeOK, ContainersAgree, SumsAreCurrent, Averages,
       Live, LivePrices
  <2>3. QED  BY <2>1, <2>2
<1>3. QED  BY <1>1, <1>2, PTL DEF Spec

\* The highest price printed is the highest price of the orders there are, for
\* a file of any length without an irregular line (getHighPrice, main).
THEOREM HighestIfRegularHolds == Spec => []HighestIfRegular
<1>1. BookInv => HighestIfRegular
  <2> SUFFICES ASSUME BookInv, regular, Live # {}
               PROVE  getHighPrice = Max(LivePrices)
    BY DEF HighestIfRegular, HighestIsHighest
  <2>1. DOMAIN orderPx = LivePrices /\ LivePrices # {}
    BY DEF BookInv, ContainersAgree, LivePrices
  <2>2. DOMAIN EmptyBag = {}
    BY DEF EmptyBag, SetToBag
  <2>3. QED  BY <2>1, <2>2 DEF getHighPrice, BagToSet
<1>2. QED  BY <1>1, BookInvariant, PTL

\* The weighted price printed lies between the lowest and the highest price,
\* and its divisor is the time there was an order, for a file of any length
\* without an irregular line.
THEOREM WeightedIsAverageHolds == Spec => []WeightedIsAverage
<1>1. BookInv => WeightedIsAverage
  <2> SUFFICES ASSUME BookInv, regular
               PROVE  /\ total_timestamp = busy
                      /\ weightPrice >= Min(Prices) * busy
                      /\ weightPrice <= Max(Prices) * busy
    BY DEF WeightedIsAverage
  <2>1. Averages /\ weightPrice \in Nat /\ busy \in Nat
    BY DEF BookInv, TypeOK
  <2>2. Lowest * busy \in Nat /\ Highest * busy \in Nat
    BY <2>1, Bounds
  <2>3. QED  BY <2>1, <2>2 DEF Averages, Lowest, Highest
<1>2. QED  BY <1>1, BookInvariant, PTL
=============================================================================
