--------------------------- MODULE ExchangeVenue ---------------------------
(***************************************************************************)
(* One exchange behind its adapter, as its three users meet it: execution  *)
(* prepares a slice, asks the token bucket and places it; the tracker      *)
(* thread polls and cancels; portfolio_state reads the account, the open   *)
(* orders and the mids and publishes a snapshot.  Each request is a step   *)
(* of its own: the exchange trades and ends orders between any two.        *)
(***************************************************************************)
EXTENDS VenueOrders, Functions

CONSTANTS NoSlice, NoReading, NoSnapshot, Unhealthy

VARIABLES
    slice,     \* execution: the slice being placed, sized but not yet sent
    reading,   \* portfolio_state: the fills behind the positions it asked for
    snapshot   \* latest.state.snapshot

vars == <<bucketVars, quoteVars, orderVars, faults, slice, reading, snapshot>>

Init ==
    /\ BucketInit /\ QuotesInit /\ OrdersInit
    /\ slice = NoSlice /\ reading = NoReading /\ snapshot = NoSnapshot

Tick ==
    /\ clock < MaxClock
    /\ clock' = clock + 1
    /\ UNCHANGED <<bucket, granted, late, quoteVars, orderVars, faults, slice, reading, snapshot>>

Feed ==
    /\ HandleWsMessage \/ HandlePartialMessage
    /\ UNCHANGED <<bucketVars, orderVars, slice, reading, snapshot>>

Funding ==
    /\ \E c \in {"full", "empty", "fails"} : ReadFunding(c)
    /\ UNCHANGED <<bucketVars, orderVars, slice, reading, snapshot>>

-----------------------------------------------------------------------------
(* Execution reads the specification and rounds the slice; one that rounds *)
(* to nothing is skipped (invalid_size).                                   *)
PrepareSlice(planned, buy) ==
    /\ slice = NoSlice
    /\ \E r \in SpecReads :
          /\ ReadSpec(r)
          /\ Faulty(SpecCost(r))
          /\ LET qty == RoundSize(planned, r.spec)
             IN  slice' = IF qty <= 0 THEN NoSlice
                          ELSE [planned |-> planned, buy |-> buy, qty |-> qty,
                                guessed |-> r.spec = "guess"]
    /\ UNCHANGED <<bucketVars, venue, feed, orders, reading, snapshot>>

(* The bucket is empty: the slice is skipped (rate_limited).               *)
RateLimited(lag) ==
    /\ slice # NoSlice
    /\ Allow(lag, FALSE)
    /\ slice' = NoSlice
    /\ UNCHANGED <<quoteVars, orderVars, faults, reading, snapshot>>

(* What place_limit sends: Hyperliquid does not read a specification.      *)
PlaceReads == IF venue = "hyperliquid" THEN {[spec |-> "true", list |-> contracts]} ELSE SpecReads

(* A request that does not get to the exchange, or that it refuses: the    *)
(* contract is not known, nothing would be left of the size, the size is   *)
(* not one of the exchange's, the connection is down.                      *)
PlaceRefused(lag) ==
    /\ slice # NoSlice
    /\ Allow(lag, TRUE)
    /\ \E r \in PlaceReads : ReadSpec(r) /\ Faulty(SpecCost(r))
    /\ slice' = NoSlice
    /\ UNCHANGED <<venue, feed, orders, reading, snapshot>>

(* The exchange accepts the order and may trade it at once; the answer may *)
(* be lost on its way back.                                                *)
PlaceLimit(lag, state, whole) ==
    /\ slice # NoSlice
    /\ Len(orders) < MaxOrders
    /\ Allow(lag, TRUE)
    /\ \E r \in PlaceReads :
          LET size == Sent(slice.qty, SpecOf(r.spec))
          IN  /\ r.spec # "raise"
              /\ ReadSpec(r)
              /\ Faulty(SpecCost(r) + IF whole THEN 0 ELSE 1)
              /\ Accepts(size)
              /\ \E answer \in Placed(state, whole) :
                    orders' = Append(orders,
                        [planned |-> slice.planned, buy |-> slice.buy, units |-> InUnits(size),
                         state |-> state, whole |-> whole, known |-> answer.known,
                         gone |-> Ended(answer.told), lapsed |-> FALSE,
                         guessed |-> slice.guessed \/ r.spec = "guess"])
    /\ slice' = NoSlice
    /\ UNCHANGED <<venue, feed, reading, snapshot>>

-----------------------------------------------------------------------------
(* The tracker thread asks about the orders whose id it holds until it     *)
(* reports an end; what it reports of an order after that is in            *)
(* OrderTracker, and asks of the exchange nothing that could still act.    *)
Watched(i) == orders[i].known /\ ~orders[i].gone

Told(i, told) == orders' = [orders EXCEPT ![i].gone = Ended(told)]

GetOrderStatus(i) ==
    /\ Watched(i)
    /\ Told(i, StatusOf(orders[i].state))
    /\ IF venue = "kucoin"
       THEN \E r \in SpecReads : r.spec # "raise" /\ ReadSpec(r) /\ Faulty(SpecCost(r))
       ELSE UNCHANGED <<contracts, cached, faults>>
    /\ UNCHANGED <<bucketVars, venue, feed, slice, reading, snapshot>>

(* The request fails: no answer, or one the adapter makes up.              *)
GetOrderStatusFails(i) ==
    /\ Watched(i)
    /\ Faulty(1)
    /\ \E told \in StatusFailed : Told(i, told)
    /\ UNCHANGED <<bucketVars, quoteVars, cached, slice, reading, snapshot>>

(* An order past its deadline: the tracker cancels it, whatever            *)
(* cancel_order returns reports its end, and drops it from its list.  A    *)
(* cancel that reaches the exchange takes if the order still works.        *)
CancelOrder(i) ==
    /\ Watched(i)
    /\ orders' = [orders EXCEPT ![i].state = IF @ = "open" THEN "canceled" ELSE @,
                                ![i].gone = TRUE]
    /\ UNCHANGED <<bucketVars, quoteVars, cached, faults, slice, reading, snapshot>>

(* The same without effect: the cancels' own bucket is empty, the request  *)
(* is lost (every adapter returns False for it) or the exchange declines   *)
(* it in an answer, which KuCoin's adapter takes for success.              *)
CancelWithoutEffect(i) ==
    /\ Watched(i)
    /\ Faulty(1)
    /\ orders' = [orders EXCEPT ![i].gone = TRUE, ![i].lapsed = TRUE]
    /\ UNCHANGED <<bucketVars, quoteVars, cached, slice, reading, snapshot>>

(* The exchange fills an order, or ends it for reasons of its own.         *)
ExchangeEnds(i, state) ==
    /\ orders[i].state = "open"
    /\ orders' = [orders EXCEPT ![i].state = state]
    /\ UNCHANGED <<bucketVars, quoteVars, cached, faults, slice, reading, snapshot>>

-----------------------------------------------------------------------------
(* get_account_state reads the positions first, then the open orders; the  *)
(* mids are asked for after it.                                            *)
OrderIds == DOMAIN orders
Traded == {i \in OrderIds : orders[i].state = "filled"}

OpenOrders == {i \in OrderIds : orders[i].state = "open"}

Net(S) == SumFunction([i \in S |-> IF orders[i].buy THEN orders[i].units ELSE -orders[i].units])

Magnitude(n) == IF n < 0 THEN -n ELSE n

(* The position as the adapters report it.  Hyperliquid and KuCoin keep    *)
(* the exchange's sign; OKX and Binance derive it from a position side     *)
(* that in the one-way mode they trade in is always "net", or "both".      *)
PositionSigned(n) == [qty |-> n, side |-> IF n > 0 THEN "LONG" ELSE "SHORT"]
PositionOkx(n) == [qty |-> -Magnitude(n), side |-> "NET"]
PositionBinance(n) == [qty |-> -Magnitude(n), side |-> "BOTH"]

PositionOf(n) ==
    CASE n = 0             -> [qty |-> 0, side |-> "FLAT"]
      [] n # 0 /\ venue = "okx"     -> PositionOkx(n)
      [] n # 0 /\ venue = "binance" -> PositionBinance(n)
      [] OTHER             -> PositionSigned(n)

(* A plausible slip: the snapshot takes any side.                          *)
ValidAnySide(position) == TRUE

(* The schema of the snapshot admits three sides.                          *)
ValidPosition(position) == position.side \in {"LONG", "SHORT", "FLAT"}

(* An answer without its data that does not raise is blank: an account     *)
(* without positions, or without open orders, whatever it really has.      *)
ReadPositions(blank) ==
    /\ reading = NoReading
    /\ Faulty(IF blank THEN 1 ELSE 0)
    /\ reading' = [held |-> Traded, blank |-> blank]
    /\ UNCHANGED <<bucketVars, quoteVars, orderVars, slice, snapshot>>

(* The rest of the pass: open orders, mids, snapshot.  A position the      *)
(* schema refuses fails the pass; one without a mid is marked at zero.     *)
PublishSnapshot(blank) ==
    /\ reading # NoReading
    /\ Faulty(IF blank THEN 1 ELSE 0)
    /\ LET position == PositionOf(IF reading.blank THEN 0 ELSE Net(reading.held))
       IN  snapshot' = IF ValidPosition(position)
                       THEN [qty |-> position.qty, held |-> reading.held, blank |-> reading.blank,
                             resting |-> IF blank THEN {} ELSE OpenOrders]
                       ELSE Unhealthy
    /\ reading' = NoReading
    /\ UNCHANGED <<bucketVars, quoteVars, orderVars, slice>>

(* A request of the pass fails, or a mid on Hyperliquid cannot be had.     *)
ReconcileFails ==
    /\ reading # NoReading
    /\ reading' = NoReading
    /\ snapshot' = Unhealthy
    /\ UNCHANGED <<bucketVars, quoteVars, orderVars, faults, slice>>

Reconcile ==
    \/ \E blank \in BOOLEAN : ReadPositions(blank) \/ PublishSnapshot(blank)
    \/ ReconcileFails

-----------------------------------------------------------------------------
Lags == 0 .. MaxLate

Next ==
    \/ Tick \/ Feed \/ Funding
    \/ \E planned \in Slices, buy \in BOOLEAN : PrepareSlice(planned, buy)
    \/ \E lag \in Lags : RateLimited(lag) \/ PlaceRefused(lag)
    \/ \E lag \in Lags, state \in {"open", "filled"}, whole \in BOOLEAN : PlaceLimit(lag, state, whole)
    \/ \E i \in OrderIds : GetOrderStatus(i) \/ GetOrderStatusFails(i) \/ CancelOrder(i) \/ CancelWithoutEffect(i)
    \/ \E i \in OrderIds, state \in {"filled", "killed"} : ExchangeEnds(i, state)
    \/ Reconcile

Spec == Init /\ [][Next]_vars

-----------------------------------------------------------------------------
(* An order execution does not hold the id of is one whose answer was lost *)
(* or came without an id: no whole answer of any exchange, for an order    *)
(* that rests or trades at once, is mistaken for a rejection.              *)
KnownUnlessLost == \A i \in OrderIds : orders[i].whole => orders[i].known

(* An order that execution knows and has reported as ended, be it for the  *)
(* answer to its placing, a status or its deadline, is one the exchange is *)
(* not working any more, unless its deadline passed and the cancel of then *)
(* had no effect: no answer of an exchange ends an order that still works. *)
GoneMeansGone ==
    \A i \in OrderIds :
        orders[i].known /\ orders[i].gone /\ ~orders[i].lapsed => orders[i].state # "open"

(* An accepted order is larger than the slice it came from only if one of  *)
(* the two readings of the specification was a made-up one.                *)
LargerOnlyByGuess ==
    \A i \in OrderIds : orders[i].units > orders[i].planned => orders[i].guessed

Published == snapshot \notin {NoSnapshot, Unhealthy}

(* A published snapshot has the side of the position the account held when *)
(* it was read, unless the answer to that reading came without its data:   *)
(* the sign OKX and Binance get wrong never leaves portfolio_state, whose  *)
(* schema refuses the side that comes with it.  And no order counts twice  *)
(* in it, as traded in the position and as still open: the positions are   *)
(* read first, and what trades between the two requests is in neither.     *)
SnapshotTrue ==
    Published =>
        LET net == Net(snapshot.held)
        IN  /\ ~snapshot.blank => (snapshot.qty > 0 <=> net > 0) /\ (snapshot.qty < 0 <=> net < 0)
            /\ snapshot.held \cap snapshot.resting = {}
=============================================================================
