---------------------------- MODULE VenueOrders ----------------------------
(***************************************************************************)
(* Orders of one symbol through the adapters of the four exchanges:        *)
(* shared/exchange/adapters/*.py as execution (place_limit, cancel_order,  *)
(* get_order_status, get_instrument_spec) uses them.  An exchange accepts  *)
(* or refuses an order, fills, cancels or ends it by itself; its answers   *)
(* may be lost.  Quantities are multiples of a smallest unit.              *)
(***************************************************************************)
EXTENDS VenueQuotes, Sequences, FiniteSets

CONSTANTS
    Slices,       \* quantities a plan may ask for
    TrueSpec,     \* [venue -> [step, contract]] as the exchange states it
    GuessedSpec,  \* the one the adapter makes up when it cannot fetch it
    Whole,        \* units of one whole coin: the step of zero decimals
    MaxOrders     \* bound: orders accepted by the exchange

(* Hyperliquid and Binance are traded in the coin itself: their adapters   *)
(* hand on a contract of one.                                              *)
ASSUME OrdersAssumption ==
    /\ Slices \subseteq Nat
    /\ Whole \in Nat \ {0}
    /\ \A v \in Venues : TrueSpec[v].step \in Nat \ {0} /\ TrueSpec[v].contract \in Nat \ {0}
    /\ \A v \in {"hyperliquid", "binance"} : TrueSpec[v].contract = 1

VARIABLES
    orders,       \* orders the exchange has accepted, in that order
    cached        \* the adapter's _instrument_cache holds the symbol

orderVars == <<orders, cached>>

OrdersInit == orders = <<>> /\ cached = FALSE

-----------------------------------------------------------------------------
(* get_instrument_spec: what a read may give.  Hyperliquid's is not cached *)
(* and fails with the request; the others put a made-up specification in   *)
(* the place of one they cannot fetch, without caching it, and KuCoin      *)
(* raises when its list of contracts lacks the symbol.                     *)

FetchedHyperliquid == {"true", "raise"}
FetchedOkx == IF cached THEN {"true"} ELSE {"true", "guess"}
FetchedBinance == IF cached THEN {"true"} ELSE {"true", "guess"}
FetchedKucoin(c) ==
    CASE cached \/ c = "full" -> "true" [] c = "empty" -> "raise" [] OTHER -> "guess"

(* Each read with the list of contracts it leaves behind.                  *)
SpecReads ==
    IF venue = "kucoin" /\ ~cached
    THEN {[spec |-> FetchedKucoin(c), list |-> ContractsAfter(c)] : c \in GetContracts}
    ELSE {[spec |-> r, list |-> contracts] :
             r \in CASE venue = "hyperliquid" -> FetchedHyperliquid
                     [] venue = "okx"         -> FetchedOkx
                     [] venue = "binance"     -> FetchedBinance
                     [] venue = "kucoin"      -> {"true"}}

SpecOf(read) == IF read = "true" THEN TrueSpec[venue] ELSE GuessedSpec[venue]

(* A read leaves the list and, when it succeeds, the adapter's cache.  It  *)
(* costs a fault unless it succeeds or finds the symbol missing in a list  *)
(* it already had.                                                         *)
ReadSpec(r) ==
    /\ r \in SpecReads
    /\ contracts' = r.list
    /\ cached' = (cached \/ (venue # "hyperliquid" /\ r.spec = "true"))

SpecCost(r) ==
    IF r.spec = "true" \/ (venue = "kucoin" /\ r.spec = "raise" /\ ContractsFresh) THEN 0 ELSE 1

-----------------------------------------------------------------------------
(* Quantities: execution rounds a slice down to the decimals of the step   *)
(* it read, zero decimals if the read failed; the adapter makes of it what *)
(* it sends, from a specification it reads again.                          *)

RoundSize(qty, read) ==
    LET step == IF read = "raise" THEN Whole ELSE SpecOf(read).step
    IN  (qty \div step) * step

SizeHyperliquid(qty, spec) == qty
SizeOkx(qty, spec) == qty \div spec.contract

(* round(qty / step): to the nearest, a half to the even multiple.         *)
SizeBinance(qty, spec) ==
    LET n == qty \div spec.step
        twice == 2 * (qty % spec.step)
        up == twice > spec.step \/ (twice = spec.step /\ n % 2 = 1)
    IN  (IF up THEN n + 1 ELSE n) * spec.step

(* A plausible slip: contracts rounded up, so that no slice is lost.       *)
SizeKucoinUp(qty, spec) == (qty + spec.contract - 1) \div spec.contract

SizeKucoin(qty, spec) == qty \div spec.contract

Sent(qty, spec) ==
    CASE venue = "hyperliquid" -> SizeHyperliquid(qty, spec)
      [] venue = "okx"         -> SizeOkx(qty, spec)
      [] venue = "binance"     -> SizeBinance(qty, spec)
      [] venue = "kucoin"      -> SizeKucoin(qty, spec)

(* What the exchange understands: contracts or units, in its own steps.    *)
Accepts(size) == size > 0 /\ (venue = "binance" => size % TrueSpec[venue].step = 0)
InUnits(size) == size * TrueSpec[venue].contract

-----------------------------------------------------------------------------
(* place_limit's answers for an order the exchange accepted, by its state  *)
(* and by whether the answer arrived whole.  Every failure becomes an      *)
(* OrderRejectedError (or a None execution cannot read): "rejected".       *)

(* A plausible slip: only a resting order is looked for in the answer.     *)
PlacedHyperliquidResting(state, whole) ==
    IF whole /\ state = "open" THEN {[known |-> TRUE, told |-> "ack"]}
                               ELSE {[known |-> FALSE, told |-> "rejected"]}

PlacedHyperliquid(state, whole) ==
    IF whole THEN {[known |-> TRUE, told |-> IF state = "filled" THEN "filled" ELSE "ack"]}
             ELSE {[known |-> FALSE, told |-> "rejected"]}

PlacedOkx(whole) ==
    {[known |-> whole, told |-> IF whole THEN "ack" ELSE "rejected"]}

PlacedBinance(state, whole) ==
    IF whole THEN {[known |-> TRUE, told |-> IF state = "filled" THEN "filled" ELSE "ack"]}
             ELSE {[known |-> FALSE, told |-> "rejected"]}

(* An answer without an order id is taken as an acknowledgement.           *)
PlacedKucoin(whole) ==
    IF whole THEN {[known |-> TRUE, told |-> "ack"]}
             ELSE {[known |-> FALSE, told |-> t] : t \in {"ack", "rejected"}}

Placed(state, whole) ==
    CASE venue = "hyperliquid" -> PlacedHyperliquid(state, whole)
      [] venue = "okx"         -> PlacedOkx(whole)
      [] venue = "binance"     -> PlacedBinance(state, whole)
      [] venue = "kucoin"      -> PlacedKucoin(whole)

Ended(told) == told \in {"filled", "canceled", "rejected"}

-----------------------------------------------------------------------------
(* get_order_status: words for the states of an order.  "killed" is an end *)
(* the exchange decided (marginCanceled, mmp_canceled, EXPIRED): those     *)
(* the adapter does not list are passed on as "ack".                       *)

StatusHyperliquid(state) ==
    CASE state = "filled" -> "filled" [] state = "canceled" -> "canceled" [] OTHER -> "ack"
StatusOkx(state) ==
    CASE state = "filled" -> "filled" [] state = "canceled" -> "canceled" [] OTHER -> "ack"
StatusBinance(state) ==
    CASE state = "filled" -> "filled" [] state = "open" -> "ack" [] OTHER -> "canceled"

(* KuCoin has one word, done, for every end.                               *)
StatusKucoin(state) == IF state = "open" THEN "ack" ELSE "filled"

StatusOf(state) ==
    CASE venue = "hyperliquid" -> StatusHyperliquid(state)
      [] venue = "okx"         -> StatusOkx(state)
      [] venue = "binance"     -> StatusBinance(state)
      [] venue = "kucoin"      -> StatusKucoin(state)

(* A plausible slip: an order that cannot be found is taken as canceled.   *)
StatusFailedCanceled == {"canceled"}

(* An answer without the order in it reads as an order still working, and  *)
(* so does, on OKX and Binance, a request that raised; the others hand the *)
(* exception on to the tracker, which leaves the order where it is.        *)
StatusFailed == {"ack"}
=============================================================================
