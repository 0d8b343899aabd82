----------------------- MODULE ExchangeVenue_proofs -----------------------
(***************************************************************************)
(* Theorems about the adapters, for every bucket, every plan and every     *)
(* number of orders and faults: requests stay within the rate however late *)
(* their stamps are, no whole answer to an accepted order is mistaken for  *)
(* a rejection, no answer ends an order that is working, a mid taken from  *)
(* the feed is fresh, an order larger than its slice rests on a made-up    *)
(* specification, and a snapshot has the side of the position the account  *)
(* held.  The bucket, the orders, the feed, the sizes and the snapshot     *)
(* each have an inductive invariant of their own.                          *)
(***************************************************************************)
EXTENDS ExchangeVenue, TLAPS

-----------------------------------------------------------------------------
(* The bucket *)

\* What is in the bucket and what was granted from it are paid for by the burst
\* and the time up to the stamp; and a stored stamp is not later than the
\* moment it was stored, so a key that is forgotten was full.
BucketInv ==
  /\ clock \in Nat /\ granted \in Nat /\ late \in Nat
  /\ bucket \in [tokens : 0 .. Burst, ts : Nat, at : Int]
  /\ bucket.ts <= clock
  /\ granted > 0 => bucket.ts <= bucket.at
  /\ bucket.tokens + granted <= Burst + bucket.ts + late

LEMMA BucketStarts == BucketInit => BucketInv
  BY BucketAssumption DEF BucketInit, BucketInv, BucketAssumption

\* The refilled bucket holds at most the burst, and no more than the time up to
\* the stamp of the call, as late as it is, has paid for.
LEMMA RefillPaid ==
  ASSUME BucketInv, NEW lag \in Nat, lag <= clock
  PROVE  /\ Refilled(clock - lag) \in 0 .. Burst
         /\ Refilled(clock - lag) + granted <= Burst + (clock - lag) + late + lag
  <1> DEFINE now == clock - lag
  <1>1. now \in Nat
    BY DEF BucketInv
  <1>2. CASE clock - bucket.at >= Expiry
    <2>1. Refilled(now) = Burst
      BY <1>1, <1>2, BucketAssumption DEF Refilled, Found, Smaller, Larger, BucketAssumption
    <2>2. granted <= clock + late
      BY <1>2, BucketAssumption DEF BucketInv, BucketAssumption
    <2>3. QED
      BY <2>1, <2>2, BucketAssumption DEF BucketInv, BucketAssumption
  <1>3. CASE ~(clock - bucket.at >= Expiry)
    <2>1. Refilled(now) = Smaller(Burst, bucket.tokens + Larger(0, now - bucket.ts))
      BY <1>3 DEF Refilled, Found
    <2>2. QED
      BY <1>1, <2>1, BucketAssumption DEF Smaller, Larger, BucketInv, BucketAssumption
  <1>4. QED
    BY <1>2, <1>3

LEMMA AllowKeepsBucket ==
  ASSUME BucketInv, NEW lag \in Lags, NEW allowed \in BOOLEAN, Allow(lag, allowed)
  PROVE  BucketInv'
  <1> DEFINE t == Refilled(clock - lag)
  <1>1. lag \in Nat /\ lag <= clock
    BY DEF Lags, Allow
  <1>2. t \in 0 .. Burst /\ t + granted <= Burst + (clock - lag) + late + lag
    BY <1>1, RefillPaid
  <1>3. /\ bucket' = [tokens |-> IF allowed THEN t - 1 ELSE t, ts |-> clock - lag, at |-> clock]
        /\ granted' = IF allowed THEN granted + 1 ELSE granted
        /\ late' = late + lag
        /\ clock' = clock
        /\ allowed => t >= 1
    BY DEF Allow, Stored
  <1>4. CASE allowed
    BY <1>1, <1>2, <1>3, <1>4, BucketAssumption DEF BucketInv, BucketAssumption
  <1>5. CASE ~allowed
    BY <1>1, <1>2, <1>3, <1>5, BucketAssumption DEF BucketInv, BucketAssumption
  <1>6. QED
    BY <1>4, <1>5

LEMMA BucketStep == BucketInv /\ [Next]_vars => BucketInv'
  <1> SUFFICES ASSUME BucketInv, [Next]_vars PROVE BucketInv'
    OBVIOUS
  <1>1. CASE Tick
    BY <1>1, BucketAssumption DEF Tick, BucketInv, BucketAssumption
  <1>2. CASE \E lag \in Lags : RateLimited(lag) \/ PlaceRefused(lag)
    BY <1>2, AllowKeepsBucket DEF RateLimited, PlaceRefused
  <1>3. CASE \E lag \in Lags, state \in {"open", "filled"}, whole \in BOOLEAN : PlaceLimit(lag, state, whole)
    BY <1>3, AllowKeepsBucket DEF PlaceLimit
  <1>4. CASE UNCHANGED bucketVars
    BY <1>4 DEF bucketVars, BucketInv
  <1>5. CASE Feed \/ Funding \/ Reconcile
    BY <1>4, <1>5 DEF Feed, Funding, Reconcile, ReadPositions, PublishSnapshot, ReconcileFails
  <1>6. CASE \E planned \in Slices, buy \in BOOLEAN : PrepareSlice(planned, buy)
    BY <1>4, <1>6 DEF PrepareSlice
  <1>7. CASE \E i \in OrderIds : GetOrderStatus(i) \/ GetOrderStatusFails(i) \/ CancelOrder(i) \/ CancelWithoutEffect(i)
    BY <1>4, <1>7 DEF GetOrderStatus, GetOrderStatusFails, CancelOrder, CancelWithoutEffect
  <1>9. CASE \E i \in OrderIds, state \in {"filled", "killed"} : ExchangeEnds(i, state)
    BY <1>4, <1>9 DEF ExchangeEnds
  <1>10. CASE UNCHANGED vars
    BY <1>4, <1>10 DEF vars
  <1>11. QED
    BY <1>1, <1>2, <1>3, <1>5, <1>6, <1>7, <1>9, <1>10 DEF Next

\* Over any number of calls, from any number of processes with stamps of any
\* age, the orders granted are at most the burst, the time and the lateness.
THEOREM OrdersWithinRate == Spec => []GrantsWithinRate
  <1>1. Init => BucketInv
    BY BucketStarts DEF Init
  <1>2. BucketInv => GrantsWithinRate
    BY BucketAssumption DEF BucketInv, GrantsWithinRate, BucketAssumption
  <1>3. QED
    BY <1>1, <1>2, BucketStep, PTL DEF Spec

-----------------------------------------------------------------------------
(* The orders *)

IsOrder(x) ==
  x \in [planned : {x.planned}, buy : {x.buy}, units : {x.units}, state : {x.state},
         whole : {x.whole}, known : BOOLEAN, gone : BOOLEAN, lapsed : BOOLEAN,
         guessed : {x.guessed}]

\* The order was known if its answer came whole, and is not working if it is
\* known and was reported as ended, but for a cancel that had no effect.
Answered(x) ==
  /\ IsOrder(x)
  /\ x.whole => x.known
  /\ x.known /\ x.gone /\ ~x.lapsed => x.state # "open"

OrdersInv ==
  /\ venue \in Venues
  /\ \E S : orders \in Seq(S)
  /\ \A i \in OrderIds : Answered(orders[i])

\* An answer to the placing of an accepted order: whole, it has the id; it ends
\* the order, for one who has the id, only if the order was traded.
LEMMA PlacedFacts ==
  ASSUME venue \in Venues, NEW state \in {"open", "filled"}, NEW whole \in BOOLEAN,
         NEW answer \in Placed(state, whole)
  PROVE  /\ answer.known \in BOOLEAN
         /\ whole => answer.known
         /\ answer.known /\ Ended(answer.told) => state # "open"
  <1>1. CASE venue = "hyperliquid"
    <2>1. answer \in PlacedHyperliquid(state, whole)
      BY <1>1 DEF Placed
    <2>2. CASE whole
      <3>1. answer.known = TRUE /\ answer.told = (IF state = "filled" THEN "filled" ELSE "ack")
        BY <2>1, <2>2 DEF PlacedHyperliquid
      <3>2. Ended(answer.told) => state # "open"
        BY <3>1 DEF Ended
      <3>3. QED
        BY <3>1, <3>2
    <2>3. CASE ~whole
      <3>1. answer.known = FALSE
        BY <2>1, <2>3 DEF PlacedHyperliquid
      <3>2. QED
        BY <2>3, <3>1
    <2>4. QED
      BY <2>2, <2>3
  <1>2. CASE venue = "okx"
    <2>1. answer \in PlacedOkx(whole)
      BY <1>2 DEF Placed
    <2>2. CASE whole
      <3>1. answer.known = TRUE /\ answer.told = "ack"
        BY <2>1, <2>2 DEF PlacedOkx
      <3>2. Ended(answer.told) => state # "open"
        BY <3>1 DEF Ended
      <3>3. QED
        BY <3>1, <3>2
    <2>3. CASE ~whole
      <3>1. answer.known = FALSE
        BY <2>1, <2>3 DEF PlacedOkx
      <3>2. QED
        BY <2>3, <3>1
    <2>4. QED
      BY <2>2, <2>3
  <1>3. CASE venue = "binance"
    <2>1. answer \in PlacedBinance(state, whole)
      BY <1>3 DEF Placed
    <2>2. CASE whole
      <3>1. answer.known = TRUE /\ answer.told = (IF state = "filled" THEN "filled" ELSE "ack")
        BY <2>1, <2>2 DEF PlacedBinance
      <3>2. Ended(answer.told) => state # "open"
        BY <3>1 DEF Ended
      <3>3. QED
        BY <3>1, <3>2
    <2>3. CASE ~whole
      <3>1. answer.known = FALSE
        BY <2>1, <2>3 DEF PlacedBinance
      <3>2. QED
        BY <2>3, <3>1
    <2>4. QED
      BY <2>2, <2>3
  <1>4. CASE venue = "kucoin"
    <2>1. answer \in PlacedKucoin(whole)
      BY <1>4 DEF Placed
    <2>2. CASE whole
      <3>1. answer.known = TRUE /\ answer.told = "ack"
        BY <2>1, <2>2 DEF PlacedKucoin
      <3>2. Ended(answer.told) => state # "open"
        BY <3>1 DEF Ended
      <3>3. QED
        BY <3>1, <3>2
    <2>3. CASE ~whole
      <3>1. answer.known = FALSE
        BY <2>1, <2>3 DEF PlacedKucoin
      <3>2. QED
        BY <2>3, <3>1
    <2>4. QED
      BY <2>2, <2>3
  <1>5. QED
    BY <1>1, <1>2, <1>3, <1>4 DEF Venues

\* A status that ends an order is given to none that works.
LEMMA StatusFacts ==
  ASSUME venue \in Venues, NEW state
  PROVE  /\ Ended(StatusOf(state)) \in BOOLEAN
         /\ Ended(StatusOf(state)) => state # "open"
         /\ \A told \in StatusFailed : ~Ended(told)
  <1> USE DEF Ended
  <1>1. CASE venue = "hyperliquid"
    BY <1>1 DEF StatusOf, StatusHyperliquid, StatusFailed
  <1>2. CASE venue = "okx"
    BY <1>2 DEF StatusOf, StatusOkx, StatusFailed
  <1>3. CASE venue = "binance"
    BY <1>3 DEF StatusOf, StatusBinance, StatusFailed
  <1>4. CASE venue = "kucoin"
    BY <1>4 DEF StatusOf, StatusKucoin, StatusFailed
  <1>5. QED
    BY <1>1, <1>2, <1>3, <1>4 DEF Venues

\* A step on the record of one order.
LEMMA OneOrder ==
  ASSUME OrdersInv, venue' = venue, NEW i \in OrderIds, NEW y, Answered(y),
         orders' = [orders EXCEPT ![i] = y]
  PROVE  OrdersInv'
  <1>1. PICK S : orders \in Seq(S)
    BY DEF OrdersInv
  <1>2. orders' \in Seq(S \cup {y})
    BY <1>1 DEF OrderIds
  <1>3. DOMAIN orders' = DOMAIN orders /\ \A j \in DOMAIN orders : j # i => orders'[j] = orders[j]
    BY <1>1
  <1>4. orders'[i] = y
    BY <1>1 DEF OrderIds
  <1>5. QED
    BY <1>2, <1>3, <1>4 DEF OrdersInv, OrderIds

\* An order of which only the state changes, and not to open.
LEMMA StateChanged ==
  ASSUME NEW x, Answered(x), NEW state, state # "open", NEW y, y = [x EXCEPT !.state = state]
  PROVE  /\ Answered(y) /\ y.state = state
         /\ y.planned = x.planned /\ y.buy = x.buy
         /\ y.units = x.units /\ y.guessed = x.guessed
  BY DEF Answered, IsOrder

\* An order reported as ended, which does not work or whose cancel had no effect.
LEMMA EndReported ==
  ASSUME NEW x, Answered(x), NEW lapsed \in BOOLEAN, lapsed \/ x.state # "open",
         NEW y, y = [x EXCEPT !.gone = TRUE, !.lapsed = lapsed]
  PROVE  Answered(y)
  BY DEF Answered, IsOrder

LEMMA GoneChanged ==
  ASSUME NEW x, Answered(x), NEW gone \in BOOLEAN, gone => x.state # "open",
         NEW y, y = [x EXCEPT !.gone = gone]
  PROVE  /\ Answered(y) /\ y.state = x.state
         /\ y.planned = x.planned /\ y.buy = x.buy
         /\ y.units = x.units /\ y.guessed = x.guessed
  BY DEF Answered, IsOrder

\* Placing appends an order whose answer has the facts above.
LEMMA PlaceKeepsOrders ==
  ASSUME OrdersInv, NEW lag \in Lags, NEW state \in {"open", "filled"}, NEW whole \in BOOLEAN,
         PlaceLimit(lag, state, whole)
  PROVE  OrdersInv'
  <1>1. PICK S : orders \in Seq(S)
    BY DEF OrdersInv
  <1>2. PICK answer \in Placed(state, whole) :
          \E units, guessed :
            orders' = Append(orders,
              [planned |-> slice.planned, buy |-> slice.buy, units |-> units,
               state |-> state, whole |-> whole, known |-> answer.known,
               gone |-> Ended(answer.told), lapsed |-> FALSE, guessed |-> guessed])
    BY Zenon DEF PlaceLimit
  <1>3. PICK units, guessed :
          orders' = Append(orders,
              [planned |-> slice.planned, buy |-> slice.buy, units |-> units,
               state |-> state, whole |-> whole, known |-> answer.known,
               gone |-> Ended(answer.told), lapsed |-> FALSE, guessed |-> guessed])
    BY <1>2
  <1> DEFINE y == [planned |-> slice.planned, buy |-> slice.buy, units |-> units,
                   state |-> state, whole |-> whole, known |-> answer.known,
                   gone |-> Ended(answer.told), lapsed |-> FALSE, guessed |-> guessed]
  <1>4. Answered(y)
    <2>1. /\ answer.known \in BOOLEAN
          /\ whole => answer.known
          /\ answer.known /\ Ended(answer.told) => state # "open"
      BY PlacedFacts DEF OrdersInv
    <2>2. Ended(answer.told) \in BOOLEAN
      BY DEF Ended
    <2>3. QED
      BY <1>3, <2>1, <2>2 DEF Answered, IsOrder
  <1>5. venue' = venue
    BY DEF PlaceLimit
  <1>6. orders' \in Seq(S \cup {y})
    BY <1>1, <1>3
  <1>7. \A i \in DOMAIN orders' : Answered(orders'[i])
    BY <1>1, <1>3, <1>4 DEF OrdersInv, OrderIds
  <1>8. QED
    BY <1>5, <1>6, <1>7 DEF OrdersInv, OrderIds

LEMMA OrdersStep == OrdersInv /\ [Next]_vars => OrdersInv'
  <1> SUFFICES ASSUME OrdersInv, [Next]_vars PROVE OrdersInv'
    OBVIOUS
  <1>1. ASSUME orders' = orders, venue' = venue PROVE OrdersInv'
    BY <1>1 DEF OrdersInv, OrderIds
  <1>2. ASSUME NEW i \in OrderIds PROVE Answered(orders[i])
    BY <1>2 DEF OrdersInv
  <1>3. CASE Tick \/ Feed \/ Funding
    BY <1>1, <1>3 DEF Tick, Feed, Funding, HandleWsMessage, HandlePartialMessage, ReadFunding,
         quoteVars, orderVars
  <1>4. CASE Reconcile
    BY <1>1, <1>4 DEF Reconcile, ReadPositions, PublishSnapshot, ReconcileFails, quoteVars, orderVars
  <1>5. CASE \E planned \in Slices, buy \in BOOLEAN : PrepareSlice(planned, buy)
    BY <1>1, <1>5 DEF PrepareSlice
  <1>6. CASE \E lag \in Lags : RateLimited(lag) \/ PlaceRefused(lag)
    BY <1>1, <1>6 DEF RateLimited, PlaceRefused, quoteVars, orderVars
  <1>7. CASE \E lag \in Lags, state \in {"open", "filled"}, whole \in BOOLEAN : PlaceLimit(lag, state, whole)
    BY <1>7, PlaceKeepsOrders
  <1>8. ASSUME NEW i \in OrderIds, GetOrderStatus(i) PROVE OrdersInv'
    <2> DEFINE y == [orders[i] EXCEPT !.gone = Ended(StatusOf(orders[i].state))]
    <2>1. orders' = [orders EXCEPT ![i] = y] /\ venue' = venue
      BY <1>8 DEF GetOrderStatus, Told
    <2>2. /\ Ended(StatusOf(orders[i].state)) \in BOOLEAN
          /\ Ended(StatusOf(orders[i].state)) => orders[i].state # "open"
      BY StatusFacts DEF OrdersInv
    <2>3. Answered(y)
      BY <1>2, <1>8, <2>2, GoneChanged
    <2>4. QED
      BY <2>1, <2>3, OneOrder
  <1>9. ASSUME NEW i \in OrderIds, GetOrderStatusFails(i) PROVE OrdersInv'
    <2> DEFINE y == [orders[i] EXCEPT !.gone = FALSE]
    <2>1. PICK told \in StatusFailed : Told(i, told)
      BY <1>9 DEF GetOrderStatusFails
    <2>2. Ended(told) = FALSE
      BY StatusFacts DEF OrdersInv, Ended
    <2>3. orders' = [orders EXCEPT ![i] = y] /\ venue' = venue
      BY <1>9, <2>1, <2>2 DEF GetOrderStatusFails, Told, quoteVars
    <2>4. Answered(y)
      BY <1>2, <1>9, GoneChanged
    <2>5. QED
      BY <2>3, <2>4, OneOrder
  <1>10. ASSUME NEW i \in OrderIds, CancelOrder(i) PROVE OrdersInv'
    <2> DEFINE z == [orders[i] EXCEPT !.state = IF @ = "open" THEN "canceled" ELSE @]
    <2>1. Answered(z) /\ z.state # "open"
      BY <1>2, <1>10, StateChanged DEF Answered, IsOrder
    <2>2. Answered([z EXCEPT !.gone = TRUE])
      <3> HIDE DEF z
      <3>1. QED
        BY <2>1, GoneChanged
    <2>3. orders' = [orders EXCEPT ![i] = [z EXCEPT !.gone = TRUE]]
      BY <1>10 DEF CancelOrder
    <2>4. venue' = venue
      BY <1>10 DEF CancelOrder, quoteVars
    <2>5. QED
      BY <2>2, <2>3, <2>4, OneOrder
  <1>11. ASSUME NEW i \in OrderIds, CancelWithoutEffect(i) PROVE OrdersInv'
    <2> DEFINE y == [orders[i] EXCEPT !.gone = TRUE, !.lapsed = TRUE]
    <2>1. Answered(y)
      BY <1>2, <1>11, EndReported
    <2>2. orders' = [orders EXCEPT ![i] = y]
      BY <1>11 DEF CancelWithoutEffect
    <2>3. venue' = venue
      BY <1>11 DEF CancelWithoutEffect, quoteVars
    <2>4. QED
      BY <2>1, <2>2, <2>3, OneOrder
  <1>12. ASSUME NEW i \in OrderIds, NEW state \in {"filled", "killed"}, ExchangeEnds(i, state) PROVE OrdersInv'
    <2> DEFINE y == [orders[i] EXCEPT !.state = state]
    <2>1. orders' = [orders EXCEPT ![i] = y] /\ venue' = venue
      BY <1>12 DEF ExchangeEnds, quoteVars
    <2>2. Answered(y)
      BY <1>2, <1>12, StateChanged
    <2>3. QED
      BY <2>1, <2>2, OneOrder
  <1>13. CASE UNCHANGED vars
    BY <1>1, <1>13 DEF vars, quoteVars, orderVars
  <1>14. QED
    BY <1>3, <1>4, <1>5, <1>6, <1>7, <1>8, <1>9, <1>10, <1>11, <1>12, <1>13 DEF Next

\* No whole answer to an accepted order is mistaken for a rejection.
THEOREM WholeAnswersKnown == Spec => []KnownUnlessLost
  <1>1. Init => OrdersInv
    BY DEF Init, QuotesInit, OrdersInit, OrdersInv, OrderIds
  <1>2. OrdersInv => KnownUnlessLost
    BY DEF OrdersInv, Answered, KnownUnlessLost
  <1>3. QED
    BY <1>1, <1>2, OrdersStep, PTL DEF Spec

\* An order reported as ended is not working on the exchange, unless its deadline
\* passed and the cancel of then had no effect.
THEOREM EndedOrdersAreGone == Spec => []GoneMeansGone
  <1>1. Init => OrdersInv
    BY DEF Init, QuotesInit, OrdersInit, OrdersInv, OrderIds
  <1>2. OrdersInv => GoneMeansGone
    BY DEF OrdersInv, Answered, GoneMeansGone
  <1>3. QED
    BY <1>1, <1>2, OrdersStep, PTL DEF Spec
-----------------------------------------------------------------------------
(* The feed of mids *)

\* A mid is as old as the last message unless messages have left the symbol out.
FeedInv ==
  /\ feed \in [mid : Int, msg : Int, partial : BOOLEAN]
  /\ ~feed.partial => feed.mid = feed.msg

\* Only the feed's two handlers touch it, and the one that leaves the mid behind
\* says so.
LEMMA FeedStep == BucketInv /\ FeedInv /\ [Next]_vars => FeedInv'
  <1> SUFFICES ASSUME BucketInv, FeedInv, [Next]_vars PROVE FeedInv'
    OBVIOUS
  <1>1. CASE UNCHANGED feed
    BY <1>1 DEF FeedInv
  <1>2. CASE Feed
    <2>1. clock \in Int
      BY DEF BucketInv
    <2>2. CASE HandleWsMessage
      BY <2>1, <2>2 DEF HandleWsMessage, FeedInv
    <2>3. CASE HandlePartialMessage
      BY <2>1, <2>3 DEF HandlePartialMessage, FeedInv
    <2>4. QED
      BY <1>2, <2>2, <2>3 DEF Feed
  <1>3. CASE Tick \/ Funding \/ Reconcile
    BY <1>1, <1>3 DEF Tick, Funding, ReadFunding, Reconcile, ReadPositions, PublishSnapshot,
                      ReconcileFails, quoteVars
  <1>4. CASE \E planned \in Slices, buy \in BOOLEAN : PrepareSlice(planned, buy)
    BY <1>1, <1>4 DEF PrepareSlice
  <1>5. CASE \E lag \in Lags : RateLimited(lag) \/ PlaceRefused(lag)
    BY <1>1, <1>5 DEF RateLimited, PlaceRefused, quoteVars
  <1>6. CASE \E lag \in Lags, state \in {"open", "filled"}, whole \in BOOLEAN : PlaceLimit(lag, state, whole)
    BY <1>1, <1>6 DEF PlaceLimit
  <1>7. CASE \E i \in OrderIds : GetOrderStatus(i) \/ GetOrderStatusFails(i) \/ CancelOrder(i) \/ CancelWithoutEffect(i)
    BY <1>1, <1>7 DEF GetOrderStatus, GetOrderStatusFails, CancelOrder, CancelWithoutEffect, quoteVars
  <1>9. CASE \E i \in OrderIds, state \in {"filled", "killed"} : ExchangeEnds(i, state)
    BY <1>1, <1>9 DEF ExchangeEnds, quoteVars
  <1>10. CASE UNCHANGED vars
    BY <1>1, <1>10 DEF vars, quoteVars
  <1>11. QED
    BY <1>2, <1>3, <1>4, <1>5, <1>6, <1>7, <1>9, <1>10 DEF Next

\* A mid taken from the feed is within the adapter's limit, unless messages have
\* left the symbol out since then.
THEOREM CachedMidsAreFresh == Spec => []CachedMidsFresh
  <1>1. Init => BucketInv /\ FeedInv /\ OrdersInv
    BY BucketStarts
       DEF Init, QuotesInit, OrdersInit, FeedInv, Never, OrdersInv, OrderIds
  <1>2. OrdersInv /\ FeedInv => CachedMidsFresh
    <2> SUFFICES ASSUME OrdersInv, FeedInv, "cache" \in GetAllMids, ~feed.partial
                 PROVE  clock - feed.mid <= FeedStale
      BY DEF CachedMidsFresh, FeedInv
    <2>1. Fresh
      BY DEF GetAllMids, MidsHyperliquid, MidsOkx, MidsBinance, MidsKucoin, OrdersInv, Venues
    <2>2. QED
      BY <2>1 DEF Fresh, FeedInv
  <1>3. QED
    BY <1>1, <1>2, BucketStep, FeedStep, OrdersStep, PTL DEF Spec

-----------------------------------------------------------------------------
(* What becomes of an order's size, side and fill *)

\* The parts of an order that no answer and no event changes, and a fill, which
\* nothing takes back.
Same(x, y) ==
  /\ y.planned = x.planned /\ y.buy = x.buy /\ y.units = x.units /\ y.guessed = x.guessed
  /\ x.state = "filled" => y.state = "filled"

OrdersKept == OrderIds' = OrderIds /\ \A i \in OrderIds : Same(orders[i], orders'[i])

\* A step on the record of one order keeps the others as they are.
LEMMA OneKept ==
  ASSUME OrdersInv, NEW i \in OrderIds, NEW y, Same(orders[i], y),
         orders' = [orders EXCEPT ![i] = y]
  PROVE  OrdersKept
  <1>1. PICK S : orders \in Seq(S)
    BY DEF OrdersInv
  <1>2. DOMAIN orders' = DOMAIN orders /\ \A j \in DOMAIN orders : j # i => orders'[j] = orders[j]
    BY <1>1
  <1>3. orders'[i] = y
    BY <1>1 DEF OrderIds
  <1>4. QED
    BY <1>2, <1>3 DEF OrdersKept, OrderIds, Same

\* Placing apart, orders keep their number, and each what the exchange took.
LEMMA OrdersFrame ==
  ASSUME OrdersInv, [Next]_vars
  PROVE  \/ OrdersKept
         \/ \E lag \in Lags, state \in {"open", "filled"}, whole \in BOOLEAN : PlaceLimit(lag, state, whole)
  <1>1. ASSUME orders' = orders PROVE OrdersKept
    BY <1>1 DEF OrdersKept, OrderIds, Same
  <1>2. ASSUME NEW i \in OrderIds PROVE Answered(orders[i])
    BY <1>2 DEF OrdersInv
  <1>3. CASE Tick \/ Feed \/ Funding
    BY <1>1, <1>3 DEF Tick, Feed, Funding, orderVars
  <1>4. CASE Reconcile
    BY <1>1, <1>4 DEF Reconcile, ReadPositions, PublishSnapshot, ReconcileFails, orderVars
  <1>5. CASE \E planned \in Slices, buy \in BOOLEAN : PrepareSlice(planned, buy)
    BY <1>1, <1>5 DEF PrepareSlice
  <1>6. CASE \E lag \in Lags : RateLimited(lag) \/ PlaceRefused(lag)
    BY <1>1, <1>6 DEF RateLimited, PlaceRefused, orderVars
  <1>7. ASSUME NEW i \in OrderIds, NEW told, Told(i, told) PROVE OrdersKept
    <2> DEFINE y == [orders[i] EXCEPT !.gone = Ended(told)]
    <2>1. orders' = [orders EXCEPT ![i] = y]
      BY <1>7 DEF Told
    <2>2. Same(orders[i], y)
      BY <1>2, <1>7 DEF Answered, IsOrder, Same
    <2>3. QED
      BY <1>7, <2>1, <2>2, OneKept
  <1>9. ASSUME NEW i \in OrderIds, GetOrderStatus(i) \/ GetOrderStatusFails(i) PROVE OrdersKept
    BY <1>7, <1>9 DEF GetOrderStatus, GetOrderStatusFails
  <1>10. ASSUME NEW i \in OrderIds, CancelOrder(i) PROVE OrdersKept
    <2> DEFINE y == [orders[i] EXCEPT !.state = IF @ = "open" THEN "canceled" ELSE @, !.gone = TRUE]
    <2>1. orders' = [orders EXCEPT ![i] = y]
      BY <1>10 DEF CancelOrder
    <2>2. Same(orders[i], y)
      BY <1>2, <1>10 DEF Answered, IsOrder, Same
    <2>3. QED
      BY <1>10, <2>1, <2>2, OneKept
  <1>11. ASSUME NEW i \in OrderIds, CancelWithoutEffect(i) PROVE OrdersKept
    <2> DEFINE y == [orders[i] EXCEPT !.gone = TRUE, !.lapsed = TRUE]
    <2>1. orders' = [orders EXCEPT ![i] = y]
      BY <1>11 DEF CancelWithoutEffect
    <2>2. Same(orders[i], y)
      BY <1>2, <1>11 DEF Answered, IsOrder, Same
    <2>3. QED
      BY <1>11, <2>1, <2>2, OneKept
  <1>12. ASSUME NEW i \in OrderIds, NEW state \in {"filled", "killed"}, ExchangeEnds(i, state) PROVE OrdersKept
    <2> DEFINE y == [orders[i] EXCEPT !.state = state]
    <2>1. orders' = [orders EXCEPT ![i] = y] /\ orders[i].state = "open"
      BY <1>12 DEF ExchangeEnds
    <2>2. Same(orders[i], y)
      BY <1>2, <1>12, <2>1 DEF Answered, IsOrder, Same
    <2>3. QED
      BY <1>12, <2>1, <2>2, OneKept
  <1>13. CASE UNCHANGED vars
    BY <1>1, <1>13 DEF vars, orderVars
  <1>14. QED
    BY <1>3, <1>4, <1>5, <1>6, <1>9, <1>10, <1>11, <1>12, <1>13 DEF Next

-----------------------------------------------------------------------------
(* Sizes *)

\* Rounding down to a multiple never enlarges, and leaves a multiple alone.
LEMMA Multiple ==
  ASSUME NEW q \in Nat, NEW s \in Nat \ {0}
  PROVE  /\ q \div s \in Nat /\ q % s \in Nat
         /\ (q \div s) * s \in Nat /\ (q \div s) * s <= q
         /\ ((q \div s) * s) % s = 0
         /\ q % s = 0 => (q \div s) * s = q
  <1>1. q \div s \in Nat /\ q % s \in 0 .. s - 1 /\ q = s * (q \div s) + (q % s)
    OBVIOUS
  <1>2. (q \div s) * s = s * (q \div s) /\ (q \div s) * s \in Nat
    BY <1>1
  <1>3. ((q \div s) * s) % s = 0
    BY <1>1
  <1>4. QED
    BY <1>1, <1>2, <1>3

\* What the exchange trades for a slice of qty, sent with the true specification,
\* is not larger than qty; on Binance, where the size is rounded to the nearest
\* step, because execution's rounding has left a multiple of the step.
LEMMA SentWithin ==
  ASSUME venue \in Venues, NEW qty \in Nat,
         venue = "binance" => qty % TrueSpec[venue].step = 0
  PROVE  InUnits(Sent(qty, TrueSpec[venue])) \in 0 .. qty
  <1>1. TrueSpec[venue].step \in Nat \ {0} /\ TrueSpec[venue].contract \in Nat \ {0}
    BY OrdersAssumption DEF OrdersAssumption
  <1>2. CASE venue = "hyperliquid"
    <2>1. Sent(qty, TrueSpec[venue]) = qty /\ TrueSpec[venue].contract = 1
      BY <1>2, OrdersAssumption DEF Sent, SizeHyperliquid, OrdersAssumption
    <2>2. QED
      BY <2>1 DEF InUnits
  <1>3. CASE venue = "okx"
    <2>1. Sent(qty, TrueSpec[venue]) = qty \div TrueSpec[venue].contract
      BY <1>3 DEF Sent, SizeOkx
    <2>2. /\ (qty \div TrueSpec[venue].contract) * TrueSpec[venue].contract \in Nat
          /\ (qty \div TrueSpec[venue].contract) * TrueSpec[venue].contract <= qty
      BY <1>1, Multiple
    <2>3. InUnits(Sent(qty, TrueSpec[venue])) \in Nat /\ InUnits(Sent(qty, TrueSpec[venue])) <= qty
      BY <2>1, <2>2 DEF InUnits
    <2>4. QED
      BY <2>3
  <1>4. CASE venue = "binance"
    <2> DEFINE step == TrueSpec[venue].step
    <2>1. Sent(qty, TrueSpec[venue]) = SizeBinance(qty, TrueSpec[venue])
      BY <1>4 DEF Sent
    <2>2. 2 * (qty % step) = 0 /\ step \in Nat /\ step > 0
      BY <1>1, <1>4
    <2>3. SizeBinance(qty, TrueSpec[venue]) = (qty \div step) * step
      BY <2>2 DEF SizeBinance
    <2>4. (qty \div step) * step = qty /\ TrueSpec[venue].contract = 1
      BY <1>1, <1>4, Multiple, OrdersAssumption DEF OrdersAssumption
    <2>5. QED
      BY <2>1, <2>3, <2>4 DEF InUnits
  <1>5. CASE venue = "kucoin"
    <2>1. Sent(qty, TrueSpec[venue]) = qty \div TrueSpec[venue].contract
      BY <1>5 DEF Sent, SizeKucoin
    <2>2. /\ (qty \div TrueSpec[venue].contract) * TrueSpec[venue].contract \in Nat
          /\ (qty \div TrueSpec[venue].contract) * TrueSpec[venue].contract <= qty
      BY <1>1, Multiple
    <2>3. InUnits(Sent(qty, TrueSpec[venue])) \in Nat /\ InUnits(Sent(qty, TrueSpec[venue])) <= qty
      BY <2>1, <2>2 DEF InUnits
    <2>4. QED
      BY <2>3
  <1>6. QED
    BY <1>2, <1>3, <1>4, <1>5 DEF Venues

\* A slice rounded with a specification that was not made up is no larger than
\* planned and, on Binance, a multiple of the step.
SliceInv ==
  slice # NoSlice /\ ~slice.guessed =>
    /\ slice.planned \in Nat /\ slice.qty \in Nat
    /\ slice.qty <= slice.planned
    /\ venue = "binance" => slice.qty % TrueSpec[venue].step = 0

SizesInv ==
  /\ SliceInv
  /\ \A i \in OrderIds :
       ~orders[i].guessed => /\ orders[i].planned \in Nat
                             /\ orders[i].units \in 0 .. orders[i].planned

\* What a read of the specification may give, apart from a made-up one.
LEMMA ReadFacts ==
  ASSUME venue \in Venues, NEW r \in SpecReads, r.spec # "guess"
  PROVE  r.spec = "true" \/ (r.spec = "raise" /\ venue # "binance")
  <1>1. CASE venue = "hyperliquid"
    BY <1>1 DEF SpecReads, FetchedHyperliquid
  <1>2. CASE venue = "okx"
    BY <1>2 DEF SpecReads, FetchedOkx
  <1>3. CASE venue = "binance"
    BY <1>3 DEF SpecReads, FetchedBinance
  <1>4. CASE venue = "kucoin" /\ cached
    BY <1>4 DEF SpecReads
  <1>5. CASE venue = "kucoin" /\ ~cached
    BY <1>5 DEF SpecReads, FetchedKucoin
  <1>6. QED
    BY <1>1, <1>2, <1>3, <1>4, <1>5 DEF Venues

\* Execution's rounding.
LEMMA RoundFacts ==
  ASSUME venue \in Venues, NEW planned \in Slices, NEW r \in SpecReads, r.spec # "guess"
  PROVE  LET qty == RoundSize(planned, r.spec)
         IN  /\ planned \in Nat /\ qty \in Nat /\ qty <= planned
             /\ venue = "binance" => qty % TrueSpec[venue].step = 0
  <1> DEFINE step == IF r.spec = "raise" THEN Whole ELSE SpecOf(r.spec).step
  <1>1. r.spec = "true" \/ (r.spec = "raise" /\ venue # "binance")
    BY ReadFacts
  <1>2. step \in Nat \ {0} /\ (venue = "binance" => step = TrueSpec[venue].step)
    BY <1>1, OrdersAssumption DEF SpecOf, OrdersAssumption
  <1>3. planned \in Nat
    BY OrdersAssumption DEF OrdersAssumption
  <1>4. RoundSize(planned, r.spec) = (planned \div step) * step
    BY DEF RoundSize
  <1> HIDE DEF step
  <1>5. QED
    BY <1>2, <1>3, <1>4, Multiple

\* The slice changes where it is sized and where it is given up or placed.
LEMMA SliceStep == OrdersInv /\ SliceInv /\ [Next]_vars => SliceInv'
  <1> SUFFICES ASSUME OrdersInv, SliceInv, [Next]_vars PROVE SliceInv'
    OBVIOUS
  <1>1. CASE slice' = slice /\ venue' = venue
    BY <1>1 DEF SliceInv
  <1>2. CASE slice' = NoSlice
    BY <1>2 DEF SliceInv
  <1>3. CASE \E planned \in Slices, buy \in BOOLEAN : PrepareSlice(planned, buy)
    <2>1. PICK planned \in Slices, buy \in BOOLEAN : PrepareSlice(planned, buy)
      BY <1>3
    <2>2. PICK r \in SpecReads :
            slice' = IF RoundSize(planned, r.spec) <= 0 THEN NoSlice
                     ELSE [planned |-> planned, buy |-> buy, qty |-> RoundSize(planned, r.spec),
                           guessed |-> r.spec = "guess"]
      BY <2>1 DEF PrepareSlice
    <2>3. venue' = venue /\ venue \in Venues
      BY <2>1 DEF PrepareSlice, OrdersInv
    <2>4. CASE r.spec = "guess"
      BY <2>2, <2>4 DEF SliceInv
    <2>5. CASE r.spec # "guess"
      BY <2>2, <2>3, <2>5, RoundFacts DEF SliceInv
    <2>6. QED
      BY <2>4, <2>5
  <1>4. CASE Tick \/ Feed \/ Funding \/ Reconcile
    BY <1>1, <1>4 DEF Tick, Feed, Funding, ReadFunding, HandleWsMessage, HandlePartialMessage,
                      Reconcile, ReadPositions, PublishSnapshot, ReconcileFails, quoteVars
  <1>5. CASE \E lag \in Lags : RateLimited(lag) \/ PlaceRefused(lag)
    BY <1>2, <1>5 DEF RateLimited, PlaceRefused
  <1>6. CASE \E lag \in Lags, state \in {"open", "filled"}, whole \in BOOLEAN : PlaceLimit(lag, state, whole)
    BY <1>2, <1>6 DEF PlaceLimit
  <1>7. CASE \E i \in OrderIds : GetOrderStatus(i) \/ GetOrderStatusFails(i) \/ CancelOrder(i) \/ CancelWithoutEffect(i)
    BY <1>1, <1>7 DEF GetOrderStatus, GetOrderStatusFails, CancelOrder, CancelWithoutEffect, quoteVars
  <1>9. CASE \E i \in OrderIds, state \in {"filled", "killed"} : ExchangeEnds(i, state)
    BY <1>1, <1>9 DEF ExchangeEnds, quoteVars
  <1>10. CASE UNCHANGED vars
    BY <1>1, <1>10 DEF vars, quoteVars
  <1>11. QED
    BY <1>3, <1>4, <1>5, <1>6, <1>7, <1>9, <1>10 DEF Next

\* Every order that rests on true specifications only is within its slice.
LEMMA SizesStep == OrdersInv /\ SizesInv /\ [Next]_vars => SizesInv'
  <1> SUFFICES ASSUME OrdersInv, SizesInv, [Next]_vars,
                      NEW i \in OrderIds', ~orders'[i].guessed
               PROVE  orders'[i].planned \in Nat /\ orders'[i].units \in 0 .. orders'[i].planned
    BY SliceStep DEF SizesInv
  <1>1. CASE OrdersKept
    BY <1>1 DEF OrdersKept, Same, SizesInv
  <1>2. ASSUME NEW lag \in Lags, NEW state \in {"open", "filled"}, NEW whole \in BOOLEAN,
               PlaceLimit(lag, state, whole)
        PROVE  orders'[i].planned \in Nat /\ orders'[i].units \in 0 .. orders'[i].planned
    <2>1. PICK r \in PlaceReads :
            /\ r.spec # "raise"
            /\ \E known, gone :
                 orders' = Append(orders,
                   [planned |-> slice.planned, buy |-> slice.buy,
                    units |-> InUnits(Sent(slice.qty, SpecOf(r.spec))),
                    state |-> state, whole |-> whole, known |-> known, gone |-> gone, lapsed |-> FALSE,
                    guessed |-> slice.guessed \/ r.spec = "guess"])
      BY <1>2, Zenon DEF PlaceLimit
    <2>2. PICK known, gone :
            orders' = Append(orders,
              [planned |-> slice.planned, buy |-> slice.buy,
               units |-> InUnits(Sent(slice.qty, SpecOf(r.spec))),
               state |-> state, whole |-> whole, known |-> known, gone |-> gone, lapsed |-> FALSE,
               guessed |-> slice.guessed \/ r.spec = "guess"])
      BY <2>1
    <2>3. PICK S : orders \in Seq(S)
      BY DEF OrdersInv
    <2>4. CASE i \in OrderIds
      BY <2>2, <2>3, <2>4 DEF SizesInv, OrderIds
    <2>5. CASE i \notin OrderIds
      <3> DEFINE units == InUnits(Sent(slice.qty, SpecOf(r.spec)))
                 guessed == slice.guessed \/ r.spec = "guess"
                 y == [planned |-> slice.planned, buy |-> slice.buy, units |-> units,
                       state |-> state, whole |-> whole, known |-> known, gone |-> gone, lapsed |-> FALSE,
                       guessed |-> guessed]
      <3>1. orders' = Append(orders, y)
        BY <2>2
      <3>2. orders'[i] = y
        <4> HIDE DEF y
        <4> QED
          BY <2>3, <2>5, <3>1 DEF OrderIds
      <3>3. y.planned = slice.planned /\ y.units = units
        OBVIOUS
      <3>4. y.guessed = guessed
        BY Zenon
      <3>5. /\ orders'[i].planned = slice.planned
            /\ orders'[i].units = InUnits(Sent(slice.qty, SpecOf(r.spec)))
            /\ ~slice.guessed /\ r.spec # "guess"
        BY <3>2, <3>3, <3>4
      <3>6. venue \in Venues /\ slice # NoSlice
        BY <1>2 DEF OrdersInv, PlaceLimit
      <3>7. SpecOf(r.spec) = TrueSpec[venue]
        BY <2>1, <3>5, <3>6, ReadFacts DEF PlaceReads, SpecOf
      <3>8. /\ slice.planned \in Nat /\ slice.qty \in Nat /\ slice.qty <= slice.planned
            /\ venue = "binance" => slice.qty % TrueSpec[venue].step = 0
        BY <3>5, <3>6 DEF SizesInv, SliceInv
      <3>9. InUnits(Sent(slice.qty, TrueSpec[venue])) \in 0 .. slice.qty
        BY <3>6, <3>8, SentWithin
      <3>10. QED
        BY <3>5, <3>7, <3>8, <3>9
    <2>6. QED
      BY <2>4, <2>5
  <1>3. QED
    BY <1>1, <1>2, OrdersFrame

\* An order larger than its slice rests on a specification that was made up.
THEOREM SizesWithinSlices == Spec => []LargerOnlyByGuess
  <1>1. Init => OrdersInv /\ SizesInv
    BY DEF Init, QuotesInit, OrdersInit, OrdersInv, OrderIds, SizesInv, SliceInv
  <1>2. SizesInv => LargerOnlyByGuess
    BY DEF SizesInv, LargerOnlyByGuess
  <1>3. QED
    BY <1>1, <1>2, OrdersStep, SizesStep, PTL DEF Spec

-----------------------------------------------------------------------------
(* Snapshots *)

\* Every order that is there stays, with its size, its side and its fill.
LEMMA OldOrdersKept ==
  ASSUME OrdersInv, [Next]_vars
  PROVE  OrderIds \subseteq OrderIds' /\ \A i \in OrderIds : Same(orders[i], orders'[i])
  <1>1. CASE OrdersKept
    BY <1>1 DEF OrdersKept
  <1>2. ASSUME NEW lag \in Lags, NEW state \in {"open", "filled"}, NEW whole \in BOOLEAN,
               PlaceLimit(lag, state, whole)
        PROVE  OrderIds \subseteq OrderIds' /\ \A i \in OrderIds : Same(orders[i], orders'[i])
    <2>1. PICK y : orders' = Append(orders, y)
      BY <1>2, Zenon DEF PlaceLimit
    <2>2. PICK S : orders \in Seq(S)
      BY DEF OrdersInv
    <2>3. OrderIds \subseteq OrderIds' /\ \A i \in OrderIds : orders'[i] = orders[i]
      BY <2>1, <2>2 DEF OrderIds
    <2>4. QED
      BY <2>3 DEF Same
  <1>3. QED
    BY <1>1, <1>2, OrdersFrame

\* What is traded stays traded, and counts for the same.
LEMMA TradedKept ==
  ASSUME OrdersInv, [Next]_vars, NEW S, S \subseteq Traded
  PROVE  S \subseteq Traded' /\ Net(S)' = Net(S)
  <1>1. OrderIds \subseteq OrderIds' /\ \A i \in OrderIds : Same(orders[i], orders'[i])
    BY OldOrdersKept
  <1>2. S \subseteq OrderIds /\ \A i \in S : orders[i].state = "filled"
    BY DEF Traded
  <1>3. S \subseteq Traded'
    BY <1>1, <1>2 DEF Traded, Same
  <1>4. \A i \in S : orders'[i].buy = orders[i].buy /\ orders'[i].units = orders[i].units
    BY <1>1, <1>2 DEF Same
  <1>5. [i \in S |-> IF orders'[i].buy THEN orders'[i].units ELSE -orders'[i].units]
        = [i \in S |-> IF orders[i].buy THEN orders[i].units ELSE -orders[i].units]
    BY <1>4
  <1>6. Net(S)' = Net(S)
    BY <1>5 DEF Net
  <1>7. QED
    BY <1>3, <1>6

\* What a pass has read, and what it has published, are fills the account still
\* has: the snapshot's position is their sum.
SnapshotInv ==
  /\ reading # NoReading => reading.held \subseteq Traded
  /\ Published => /\ snapshot.held \subseteq Traded
                  /\ ~snapshot.blank => snapshot.qty = Net(snapshot.held)
                  /\ snapshot.held \cap snapshot.resting = {}

\* A position the schema admits is the account's.
LEMMA PositionFacts ==
  ASSUME venue \in Venues, NEW n, ValidPosition(PositionOf(n))
  PROVE  PositionOf(n).qty = n
  <1>1. CASE n = 0
    BY <1>1 DEF PositionOf
  <1>2. CASE n # 0 /\ venue = "okx"
    BY <1>2 DEF PositionOf, PositionOkx, ValidPosition
  <1>3. CASE n # 0 /\ venue = "binance"
    BY <1>3 DEF PositionOf, PositionBinance, ValidPosition
  <1>4. CASE n # 0 /\ venue \notin {"okx", "binance"}
    BY <1>4 DEF PositionOf, PositionSigned
  <1>5. QED
    BY <1>1, <1>2, <1>3, <1>4

LEMMA SnapshotStep == OrdersInv /\ SnapshotInv /\ [Next]_vars => SnapshotInv'
  <1> SUFFICES ASSUME OrdersInv, SnapshotInv, [Next]_vars PROVE SnapshotInv'
    OBVIOUS
  <1> DEFINE True == /\ snapshot'.held \subseteq Traded'
                     /\ ~snapshot'.blank => (snapshot.qty = Net(snapshot.held))'
                     /\ snapshot'.held \cap snapshot'.resting = {}
  <1>a. ASSUME NEW S, S \subseteq Traded, snapshot'.held = S,
               ~snapshot'.blank => snapshot'.qty = Net(S),
               S \cap snapshot'.resting = {}
        PROVE  True
    <2>1. S \subseteq Traded' /\ Net(S)' = Net(S)
      BY <1>a, TradedKept
    <2>2. Net(snapshot.held)' = Net(S)'
      BY <1>a DEF Net
    <2>3. QED
      BY <1>a, <2>1, <2>2
  <1>b. ASSUME snapshot' = snapshot, Published' PROVE True
    <2>1. PICK S : S = snapshot.held
      OBVIOUS
    <2>2. /\ S \subseteq Traded /\ (~snapshot.blank => snapshot.qty = Net(S))
          /\ S \cap snapshot.resting = {}
      BY <1>b, <2>1 DEF Published, SnapshotInv
    <2>3. QED
      BY <1>a, <1>b, <2>1, <2>2
  <1>1. ASSUME reading' = reading, snapshot' = snapshot PROVE SnapshotInv'
    <2>1. reading' # NoReading => reading'.held \subseteq Traded'
      BY <1>1, TradedKept DEF SnapshotInv
    <2>2. QED
      BY <1>1, <1>b, <2>1 DEF SnapshotInv
  <1>2. ASSUME NEW blank \in BOOLEAN, ReadPositions(blank) PROVE SnapshotInv'
    <2>1. reading'.held = Traded /\ Traded' = Traded /\ snapshot' = snapshot
      BY <1>2 DEF ReadPositions, orderVars, Traded, OrderIds
    <2>2. QED
      BY <1>b, <2>1 DEF SnapshotInv
  <1>3. ASSUME NEW blank \in BOOLEAN, PublishSnapshot(blank) PROVE SnapshotInv'
    <2> DEFINE position == PositionOf(IF reading.blank THEN 0 ELSE Net(reading.held))
               shown == IF blank THEN {} ELSE OpenOrders
    <2>1. /\ reading # NoReading /\ reading' = NoReading
          /\ snapshot' = IF ValidPosition(position)
                         THEN [qty |-> position.qty, held |-> reading.held,
                               blank |-> reading.blank, resting |-> shown]
                         ELSE Unhealthy
      BY <1>3, Zenon DEF PublishSnapshot
    <2>2. reading.held \subseteq Traded /\ reading.held \cap shown = {}
      BY <2>1 DEF SnapshotInv, Traded, OpenOrders
    <2>3. CASE ~ValidPosition(position)
      BY <2>1, <2>3 DEF SnapshotInv, Published
    <2>4. CASE ValidPosition(position)
      <3>1. ~reading.blank => position.qty = Net(reading.held)
        BY <2>4, PositionFacts DEF OrdersInv
      <3>2. /\ snapshot'.held = reading.held /\ snapshot'.qty = position.qty
            /\ snapshot'.blank = reading.blank /\ snapshot'.resting = shown
        BY <2>1, <2>4, Zenon
      <3>3. PICK S : S = reading.held
        OBVIOUS
      <3>4. ~snapshot'.blank => snapshot'.qty = Net(S)
        BY <3>1, <3>2, <3>3
      <3>5. True
        BY <1>a, <2>2, <3>2, <3>3, <3>4
      <3>6. QED
        BY <2>1, <3>5 DEF SnapshotInv
    <2>5. QED
      BY <2>3, <2>4
  <1>4. CASE Reconcile
    BY <1>2, <1>3, <1>4 DEF Reconcile, ReconcileFails, SnapshotInv, Published
  <1>5. CASE Tick \/ Feed \/ Funding
    BY <1>1, <1>5 DEF Tick, Feed, Funding
  <1>6. CASE \E planned \in Slices, buy \in BOOLEAN : PrepareSlice(planned, buy)
    BY <1>1, <1>6 DEF PrepareSlice
  <1>7. CASE \E lag \in Lags : RateLimited(lag) \/ PlaceRefused(lag)
    BY <1>1, <1>7 DEF RateLimited, PlaceRefused
  <1>8. CASE \E lag \in Lags, state \in {"open", "filled"}, whole \in BOOLEAN : PlaceLimit(lag, state, whole)
    BY <1>1, <1>8 DEF PlaceLimit
  <1>9. CASE \E i \in OrderIds : GetOrderStatus(i) \/ GetOrderStatusFails(i) \/ CancelOrder(i) \/ CancelWithoutEffect(i)
    BY <1>1, <1>9 DEF GetOrderStatus, GetOrderStatusFails, CancelOrder, CancelWithoutEffect
  <1>11. CASE \E i \in OrderIds, state \in {"filled", "killed"} : ExchangeEnds(i, state)
    BY <1>1, <1>11 DEF ExchangeEnds
  <1>12. CASE UNCHANGED vars
    BY <1>1, <1>12 DEF vars
  <1>13. QED
    BY <1>4, <1>5, <1>6, <1>7, <1>8, <1>9, <1>11, <1>12 DEF Next

\* A snapshot has the side of the account's position, unless the answer with the
\* positions came without its data, and counts no order both as traded and as open.
THEOREM SnapshotsAreTrue == Spec => []SnapshotTrue
  <1>1. Init => OrdersInv /\ SnapshotInv
    BY DEF Init, QuotesInit, OrdersInit, OrdersInv, OrderIds, SnapshotInv, Published
  <1>2. SnapshotInv => SnapshotTrue
    BY DEF SnapshotInv, SnapshotTrue
  <1>3. QED
    BY <1>1, <1>2, OrdersStep, SnapshotStep, PTL DEF Spec

=============================================================================
