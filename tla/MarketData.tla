----------------------------- MODULE MarketData -----------------------------
(***************************************************************************)
(* OxamTest: class MarketData, an order book kept twice - the prices in a  *)
(* std::multiset, the orders in a std::map from id to price - and the sums *)
(* behind the time weighted price printed at the end.  The constructor     *)
(* inserts and erases orders as the lines of a file say, in time order.    *)
(***************************************************************************)
EXTENDS Integers, Bags, FiniteSets, FiniteSetsExt

CONSTANTS Ids,        \* ids of the orders
          Prices,     \* prices, in whole units
          MaxTime,    \* bound: the last timestamp
          MaxLines    \* bound: lines of the file

\* A price is a double, of which there are finitely many.
ASSUME DataAssumption ==
    /\ Prices \subseteq Nat \ {0} /\ Prices # {} /\ IsFiniteSet(Prices)
    /\ MaxTime \in Nat
    /\ MaxLines \in Nat

VARIABLES
    lines, now,       \* lines read, timestamp of the last one
    orderPx,          \* _orderPx, a bag of prices
    orderEntry,       \* _orderEntry: id -> price
    weightPrice, total_timestamp, prev_timestamp, prev_price,
    regular,          \* ghost: no line so far was irregular, see Irregular
    busy              \* ghost: time during which there was an order

vars == <<lines, now, orderPx, orderEntry, weightPrice, total_timestamp,
          prev_timestamp, prev_price, regular, busy>>

Init ==
    /\ lines = 0
    /\ now = 0
    /\ orderPx = EmptyBag
    /\ orderEntry = [id \in {} |-> 0]
    /\ weightPrice = 0
    /\ total_timestamp = 0
    /\ prev_timestamp = 0
    /\ prev_price = 0
    /\ regular = TRUE
    /\ busy = 0

-----------------------------------------------------------------------------
Live == DOMAIN orderEntry

LivePrices == {orderEntry[id] : id \in Live}

\* The next line of the file, at a timestamp not before the last one's.
Line(timestamp) ==
    /\ lines < MaxLines
    /\ lines' = lines + 1
    /\ timestamp \in now..MaxTime
    /\ now' = timestamp
    /\ busy' = IF Live = {} THEN busy ELSE busy + (timestamp - now)

Elapsed(timestamp) == timestamp - prev_timestamp

\* orderEntry[id] = price replaces the price of a live id and leaves the old
\* one in the multiset.
insertOrderEntry(timestamp, id, price) ==
    /\ Line(timestamp)
    /\ weightPrice' = weightPrice + prev_price * Elapsed(timestamp)
    /\ total_timestamp' = total_timestamp
                            + (IF Live = {} THEN 0 ELSE Elapsed(timestamp))
    /\ prev_price' = price
    /\ prev_timestamp' = timestamp
    /\ orderEntry' = [i \in Live \cup {id} |->
                         IF i = id THEN price ELSE orderEntry[i]]
    /\ orderPx' = orderPx (+) SetToBag({price})
    /\ regular' = (regular /\ id \notin Live /\ price \notin LivePrices)

\* Slip: the multiset keeps the price.
EraseNothing(bag, price) == bag

\* multiset::erase(price) removes every element equal to price.
EraseAll(bag, price) == [p \in DOMAIN bag \ {price} |-> bag[p]]

\* Slip: the last price is kept when the book empties.
SumEraseKeepsPrice(timestamp, p, left) ==
    /\ total_timestamp' = total_timestamp + Elapsed(timestamp)
    /\ weightPrice' = weightPrice + prev_price * Elapsed(timestamp)
    /\ prev_price' = p
    /\ prev_timestamp' = IF left = {} THEN 0 ELSE timestamp

\* The two branches at the end of eraseOrderEntry: p is the price of the
\* erased order, 0 when the id was not there; left are the orders left.
SumErase(timestamp, p, left) ==
    /\ total_timestamp' = total_timestamp + Elapsed(timestamp)
    /\ IF left # {}
       THEN /\ weightPrice' = weightPrice + prev_price * Elapsed(timestamp)
            /\ prev_price' = p
            /\ prev_timestamp' = timestamp
       ELSE /\ weightPrice' = weightPrice + p * Elapsed(timestamp)
            /\ prev_price' = 0
            /\ prev_timestamp' = 0

eraseLive(timestamp, id) ==
    /\ id \in Live
    /\ Line(timestamp)
    /\ orderPx' = EraseAll(orderPx, orderEntry[id])
    /\ orderEntry' = [i \in Live \ {id} |-> orderEntry[i]]
    /\ SumErase(timestamp, orderEntry[id], Live \ {id})
    /\ UNCHANGED regular

eraseUnknown(timestamp, id) ==
    /\ id \notin Live
    /\ Line(timestamp)
    /\ UNCHANGED <<orderPx, orderEntry>>
    /\ SumErase(timestamp, 0, Live)
    /\ regular' = FALSE

eraseOrderEntry(timestamp, id) ==
    eraseLive(timestamp, id) \/ eraseUnknown(timestamp, id)

Next ==
    \E t \in 0..MaxTime, id \in Ids :
        \/ \E price \in Prices : insertOrderEntry(t, id, price)
        \/ eraseOrderEntry(t, id)

Spec == Init /\ [][Next]_vars

-----------------------------------------------------------------------------
\* getHighPrice() of a book with orders; 0 stands for the undefined value of
\* *rbegin() of an empty multiset.
getHighPrice == IF orderPx = EmptyBag THEN 0 ELSE Max(BagToSet(orderPx))

HighestIsHighest == Live # {} => getHighPrice = Max(LivePrices)

\* The "Highest Order Price" main prints is the highest price of the orders
\* there are, as long as no line so far was irregular: inserted a live id
\* again, inserted a price a live order had, erased an id not in the book.
HighestIfRegular == regular => HighestIsHighest

\* The printed weighted price is an average over the time there was an order:
\* that time is its divisor, and what it sums lies between the lowest and the
\* highest price, times the divisor.
WeightedIsAverage ==
    regular => /\ total_timestamp = busy
               /\ weightPrice >= Min(Prices) * busy
               /\ weightPrice <= Max(Prices) * busy
=============================================================================
