---------------------------- MODULE VenueQuotes ----------------------------
(***************************************************************************)
(* Market data of one symbol through the adapters, and the two caches they *)
(* answer from: Hyperliquid's websocket feed of mids, filled by a thread   *)
(* of its own, and KuCoin's list of contracts.                             *)
(***************************************************************************)
EXTENDS TokenBucket

CONSTANTS
    FeedStale,       \* ticks for which the feed's mids are used
    ContractsStale,  \* ticks after which the contracts are fetched again
    MaxFaults        \* bound: requests and messages that fail

Venues == {"hyperliquid", "okx", "binance", "kucoin"}

(* The time of a thing that has not happened.                              *)
Never == -1

VARIABLES
    venue,      \* create_exchange_adapter's choice
    faults,
    feed,       \* _ws_mid_cache: mid and msg are times; partial: a later message left the symbol out
    contracts   \* _contracts_cache: content and time

quoteVars == <<venue, feed, contracts>>

QuotesInit ==
    /\ venue \in Venues
    /\ faults = 0
    /\ feed = [mid |-> Never, msg |-> Never, partial |-> FALSE]
    /\ contracts = [content |-> "none", at |-> Never]

Faulty(n) == faults + n <= MaxFaults /\ faults' = faults + n

-----------------------------------------------------------------------------
(* _handle_ws_message: a message refreshes the stamp of the whole cache,   *)
(* also when it lacks this symbol or its price cannot be read.             *)
HandleWsMessage ==
    /\ venue = "hyperliquid"
    /\ feed' = [mid |-> clock, msg |-> clock, partial |-> FALSE]
    /\ UNCHANGED <<venue, faults, contracts>>

HandlePartialMessage ==
    /\ venue = "hyperliquid"
    /\ feed' = [feed EXCEPT !.msg = clock, !.partial = TRUE]
    /\ Faulty(1)
    /\ UNCHANGED <<venue, contracts>>

(* A plausible slip: the cache is used while the feed has ever worked.     *)
FreshOnceFed == feed.msg # Never

Fresh == feed.msg # Never /\ clock - feed.msg <= FeedStale

(* get_all_mids: what may come back for the symbol.  Hyperliquid asks the  *)
(* exchange when the feed is stale or lacks the symbol, and raises with    *)
(* the request; the other three leave out what they could not read.        *)
MidsHyperliquid ==
    IF Fresh /\ feed.mid # Never THEN {"cache"} ELSE {"priced", "missing", "raise"}
MidsOkx == {"priced", "missing"}
MidsBinance == {"priced", "missing"}
MidsKucoin == {"priced", "missing"}

GetAllMids ==
    CASE venue = "hyperliquid" -> MidsHyperliquid
      [] venue = "okx"         -> MidsOkx
      [] venue = "binance"     -> MidsBinance
      [] venue = "kucoin"      -> MidsKucoin

-----------------------------------------------------------------------------
(* _get_contracts: the list within its five minutes, else a new one.  An   *)
(* answer without data is kept like any other: until it is stale no symbol *)
(* is found.                                                               *)
ContractsFresh == contracts.at # Never /\ clock - contracts.at < ContractsStale

GetContracts ==
    IF ContractsFresh THEN {contracts.content} ELSE {"full", "empty", "fails"}

ContractsAfter(c) ==
    IF ContractsFresh \/ c = "fails" THEN contracts ELSE [content |-> c, at |-> clock]

(* get_funding_rate, get_open_interest on KuCoin, which read that list; an *)
(* answer that fails or lacks the symbol is the rate zero.                 *)
ReadFunding(c) ==
    /\ venue = "kucoin"
    /\ c \in GetContracts
    /\ contracts' = ContractsAfter(c)
    /\ Faulty(IF c = "full" \/ ContractsFresh THEN 0 ELSE 1)
    /\ UNCHANGED <<venue, feed>>

-----------------------------------------------------------------------------
(* A mid that would be taken from the feed is no older than the adapter's  *)
(* limit, unless messages since then left the symbol out: the stamp is one *)
(* for the whole cache.                                                    *)
CachedMidsFresh ==
    "cache" \in GetAllMids => clock - feed.mid <= FeedStale \/ feed.partial
=============================================================================
