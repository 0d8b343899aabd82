--------------------------- MODULE DecisionCycle ---------------------------
(***************************************************************************)
(* Layer 2 of services/ai_decision/app.py: the handler of one 15m feature  *)
(* message, step by step, with the keys it reads and writes in Redis, over *)
(* messages that are retried, dead-lettered or reclaimed after a restart.  *)
(*                                                                         *)
(* A cycle is one message of market_data, which publishes the features of  *)
(* the last 15 minutes every minute and may miss one; the message is named *)
(* by its minute 1 .. Cycles, however late it is handled.  There           *)
(* is one symbol; weights are reduced to their sign and prices to high and *)
(* low, low being more than PRICE_DROP_EMERGENCY_PCT below high.  The      *)
(* signal, and whether the candidate is AI_SIGNAL_DELTA_THRESHOLD away     *)
(* from the position, may be anything.  Redis outlives a restart; the      *)
(* price of the last cycle is a local variable of main and does not.       *)
(***************************************************************************)
EXTENDS Integers, Sequences, FiniteSets

CONSTANTS
  Cycles,     \* bound of the model: minutes, each with a feature message at most
  Days,       \* bound of the model: UTC days
  Interval,   \* AI_MIN_MAJOR_INTERVAL_MIN
  Expiry,     \* the ex of latest.alpha.major.ts, in minutes
  MaxTrades,  \* MAX_TRADES_PER_DAY
  Window,     \* DIRECTION_REVERSAL_WINDOW_MIN, in cycles
  Threshold,  \* DIRECTION_REVERSAL_THRESHOLD
  MaxFaults   \* bound of the model: restarts and steps that raise

ASSUME DecisionAssumption ==
  /\ {Cycles, Days, Interval, Expiry, MaxTrades, Threshold} \subseteq Nat \ {0}
  /\ {Window, MaxFaults} \subseteq Nat

VARIABLES
  px,         \* [1 .. Cycles -> price]: what the features say
  sent,       \* the clock: minutes so far
  inbox,      \* entries of md.features.15m not yet read, by their cycle
  pending,    \* entries read by a process that died
  pc, cur,    \* the handler and its cycle, 0 between messages
  lastPx,     \* last_mid_px
  capped,     \* daily_cap_reached
  emergency,  \* emergency
  act, dir,   \* decision_action and the sign of final_w
  tradeDay,   \* history: the day of the counter this decision incremented
  latest,     \* the sign of latest.alpha.target
  lastMajor,  \* latest.alpha.major.ts, 0 when absent
  majorAt,    \* the minute in which it was written, 0 when absent
  count,      \* [1 .. Days -> Nat]: daily_trade_count
  reversals,  \* direction_reversals, a sorted set of cycles
  cooldown,   \* the key cooldown:<symbol> exists
  day,        \* the UTC day
  faults,     \* faults so far
  published,  \* history: alpha.target
  unmarked,   \* history: REBALANCE cycles whose latest.alpha.major.ts was not written
  turned      \* history: cycles whose signal was opposite to latest

queues == <<sent, inbox, pending>>
locals == <<capped, emergency, act, dir, tradeDay>>
keys == <<latest, lastMajor, majorAt, count, reversals, cooldown>>
history == <<published, unmarked, turned>>
vars == <<px, sent, inbox, pending, pc, cur, lastPx, capped, emergency, act, dir,
          tradeDay, latest, lastMajor, majorAt, count, reversals, cooldown, day, faults,
          published, unmarked, turned>>

Signs == {-1, 0, 1}
CycleIds == 1 .. Cycles
Decision == [cycle : CycleIds, at : 0 .. Cycles, act : {"REBALANCE", "HOLD"},
             day : 0 .. Days]

TypeOK ==
  /\ px \in [CycleIds -> {"high", "low"}]
  /\ sent \in 0 .. Cycles
  /\ inbox \in Seq(1 .. sent)
  /\ pending \in Seq(1 .. sent)
  /\ pc \in {"idle", "price", "reversal", "decide", "count", "publish", "latest",
             "major", "ack", "retry"}
  /\ cur \in 0 .. sent
  /\ lastPx \in {"none", "high", "low"}
  /\ capped \in BOOLEAN
  /\ emergency \in BOOLEAN
  /\ act \in {"none", "REBALANCE", "HOLD"}
  /\ dir \in Signs
  /\ tradeDay \in 0 .. Days
  /\ latest \in Signs
  /\ lastMajor \in 0 .. sent
  /\ majorAt \in 0 .. sent
  /\ count \in [1 .. Days -> Nat]
  /\ reversals \subseteq CycleIds
  /\ cooldown \in BOOLEAN
  /\ day \in 1 .. Days
  /\ faults \in 0 .. MaxFaults
  /\ published \in Seq(Decision)
  /\ unmarked \subseteq CycleIds
  /\ turned \subseteq CycleIds

Forget ==
  /\ cur' = 0
  /\ capped' = FALSE
  /\ emergency' = FALSE
  /\ act' = "none"
  /\ dir' = 0
  /\ tradeDay' = 0

Init ==
  /\ px \in [CycleIds -> {"high", "low"}]
  /\ sent = 0
  /\ inbox = <<>>
  /\ pending = <<>>
  /\ pc = "idle"
  /\ cur = 0
  /\ lastPx = "none"
  /\ capped = FALSE
  /\ emergency = FALSE
  /\ act = "none"
  /\ dir = 0
  /\ tradeDay = 0
  /\ latest = 0
  /\ lastMajor = 0
  /\ majorAt = 0
  /\ count = [d \in 1 .. Days |-> 0]
  /\ reversals = {}
  /\ cooldown = FALSE
  /\ day = 1
  /\ faults = 0
  /\ published = <<>>
  /\ unmarked = {}
  /\ turned = {}

Fault == faults < MaxFaults /\ faults' = faults + 1

-----------------------------------------------------------------------------
(* One message *)

\* Variant: the count of the first day for ever.
CapOfFirstDay == count[1] >= MaxTrades

\* check_daily_trade_cap
CapReached == count[day] >= MaxTrades

\* xreadgroup_json: the next new entry, or one that a dead process left.
Take ==
  /\ pc = "idle"
  /\ \/ /\ inbox # <<>>
        /\ cur' = Head(inbox)
        /\ inbox' = Tail(inbox)
        /\ UNCHANGED pending
     \/ /\ pending # <<>>
        /\ cur' = Head(pending)
        /\ pending' = Tail(pending)
        /\ UNCHANGED inbox
  /\ capped' = CapReached
  /\ pc' = "price"
  /\ UNCHANGED <<px, sent, lastPx, emergency, act, dir, tradeDay, keys, day, faults, history>>

FallsFrom(before, now) == now = "low" /\ before = "high"

\* check_emergency_shutdown, by the price
EmergencyNow == FallsFrom(lastPx, px[cur])

CheckPrice ==
  /\ pc = "price"
  /\ emergency' = EmergencyNow
  /\ lastPx' = px[cur]
  /\ pc' = "reversal"
  /\ UNCHANGED <<px, queues, cur, capped, act, dir, tradeDay, keys, day, faults, history>>

Recent(set) == {c \in set : cur - Window <= c /\ c <= cur}

\* Variant: reversals count without the window.
TooManyEver(set) == Cardinality(set) >= Threshold

\* get_reversal_counts against DIRECTION_REVERSAL_THRESHOLD
TooMany(set) == Cardinality(Recent(set)) >= Threshold

\* apply_reversal_penalty. The signal is zero under the cap, in an emergency and
\* during a cooldown, which is not even looked at for reversals.
Reversal ==
  /\ pc = "reversal"
  /\ \E signal \in IF capped \/ emergency THEN {0} ELSE Signs :
       LET opposite == ~cooldown /\ signal * latest = -1
       IN  /\ reversals' = IF opposite THEN reversals \cup {cur} ELSE reversals
           /\ turned' = IF opposite THEN turned \cup {cur} ELSE turned
           /\ cooldown' = (cooldown \/ TooMany(reversals'))
  /\ pc' = "decide"
  /\ UNCHANGED <<px, queues, cur, lastPx, locals, latest, lastMajor, majorAt, count, day,
                 faults, published, unmarked>>

\* Variant: an older cycle than the last one is let through.
LongAgoEitherWay == cur - lastMajor \notin 0 .. Interval - 1

\* should_rebalance, by latest.alpha.major.ts
LongAgo == cur - lastMajor >= Interval

\* should_rebalance and the daily cap; smoothing, caps and the floor leave any
\* sign to a candidate. HOLD repeats the previous target.
Decide ==
  /\ pc = "decide"
  /\ \/ /\ ~capped
        /\ lastMajor = 0 \/ LongAgo
        /\ act' = "REBALANCE"
        /\ dir' \in Signs
        /\ pc' = "count"
     \/ /\ act' = "HOLD"
        /\ dir' = latest
        /\ pc' = "publish"
  /\ UNCHANGED <<px, queues, cur, lastPx, capped, emergency, tradeDay, keys, day, faults,
                 history>>

\* increment_daily_trade_count and record_trade_executed, before the publication
CountTrade ==
  /\ pc = "count"
  /\ count' = [count EXCEPT ![day] = @ + 1]
  /\ tradeDay' = day
  /\ pc' = "publish"
  /\ UNCHANGED <<px, queues, cur, lastPx, capped, emergency, act, dir, latest, lastMajor,
                 majorAt, reversals, cooldown, day, faults, history>>

Publish ==
  /\ pc = "publish"
  /\ published' = Append(published, [cycle |-> cur, at |-> sent, act |-> act,
                                     day |-> tradeDay])
  /\ pc' = "latest"
  /\ UNCHANGED <<px, queues, cur, lastPx, locals, keys, day, faults, unmarked, turned>>

SetLatest ==
  /\ pc = "latest"
  /\ latest' = dir
  /\ pc' = IF act = "REBALANCE" THEN "major" ELSE "ack"
  /\ UNCHANGED <<px, queues, cur, lastPx, locals, lastMajor, majorAt, count, reversals,
                 cooldown, day, faults, history>>

SetMajor ==
  /\ pc = "major"
  /\ lastMajor' = cur
  /\ majorAt' = sent
  /\ pc' = "ack"
  /\ UNCHANGED <<px, queues, cur, lastPx, locals, latest, count, reversals, cooldown, day,
                 faults, history>>

\* The audit record and XACK
Ack ==
  /\ pc = "ack"
  /\ Forget
  /\ pc' = "idle"
  /\ UNCHANGED <<px, queues, lastPx, keys, day, faults, history>>

Unmarked ==
  unmarked' = IF pc \in {"latest", "major"} /\ act = "REBALANCE"
              THEN unmarked \cup {cur} ELSE unmarked

\* Any step raises.
HandlerRaises ==
  /\ pc \notin {"idle", "retry"}
  /\ Fault
  /\ Unmarked
  /\ pc' = "retry"
  /\ UNCHANGED <<px, queues, cur, lastPx, locals, keys, day, published, turned>>

\* with_retry_count
Copy == cur

\* retry_or_dlq: the message is added again, or dead-lettered.
RetryOrDlq ==
  /\ pc = "retry"
  /\ inbox' \in {inbox, Append(inbox, Copy)}
  /\ pc' = "ack"
  /\ UNCHANGED <<px, sent, pending, cur, lastPx, locals, keys, day, faults, history>>

-----------------------------------------------------------------------------
(* The process and its environment *)

\* The entry that is handled, and the rest of the batch, stay pending.
Crash ==
  /\ Fault
  /\ Unmarked
  /\ LET mine == IF cur = 0 THEN <<>> ELSE <<cur>>
     IN  \E n \in 0 .. Len(inbox) :
           /\ \/ pending' = mine \o pending \o SubSeq(inbox, 1, n)
              \/ pending' = pending \o mine \o SubSeq(inbox, 1, n)
           /\ inbox' = SubSeq(inbox, n + 1, Len(inbox))
  /\ Forget
  /\ lastPx' = "none"
  /\ pc' = "idle"
  /\ UNCHANGED <<px, sent, keys, day, published, turned>>

\* The next minute: market_data publishes its features or misses it.
Feature ==
  /\ sent < Cycles
  /\ sent' = sent + 1
  /\ inbox' \in {inbox, Append(inbox, sent + 1)}
  /\ UNCHANGED <<px, pending, pc, cur, lastPx, locals, keys, day, faults, history>>

NextDay ==
  /\ day < Days
  /\ day' = day + 1
  /\ UNCHANGED <<px, queues, pc, cur, lastPx, locals, keys, faults, history>>

\* COOLDOWN_MINUTES have passed.
CooldownEnds ==
  /\ cooldown
  /\ cooldown' = FALSE
  /\ UNCHANGED <<px, queues, pc, cur, lastPx, locals, latest, lastMajor, majorAt, count,
                 reversals, day, faults, history>>

\* latest.alpha.major.ts expires by the clock, whatever minute it speaks of.
MajorExpires ==
  /\ lastMajor # 0
  /\ sent - majorAt >= Expiry
  /\ lastMajor' = 0
  /\ majorAt' = 0
  /\ UNCHANGED <<px, queues, pc, cur, lastPx, locals, latest, count, reversals, cooldown,
                 day, faults, history>>

Handler ==
  \/ Take \/ CheckPrice \/ Reversal \/ Decide \/ CountTrade \/ Publish
  \/ SetLatest \/ SetMajor \/ Ack \/ RetryOrDlq

Next ==
  \/ Handler \/ HandlerRaises \/ Crash
  \/ Feature \/ NextDay \/ CooldownEnds \/ MajorExpires

Spec == Init /\ [][Next]_vars

-----------------------------------------------------------------------------
(* Properties *)

Rebalances == {i \in DOMAIN published : published[i].act = "REBALANCE"}
TradesOn(d) == {i \in Rebalances : published[i].day = d}

\* No day's counter stands for more than MAX_TRADES_PER_DAY published REBALANCEs,
\* over retries, restarts and a midnight between check and count: a trade is
\* counted before it is published and never published without being counted.
DailyCapBinds ==
  /\ \A d \in 1 .. Days : Cardinality(TradesOn(d)) <= count[d] /\ count[d] <= MaxTrades
  /\ \A i \in Rebalances : published[i].day # 0

\* A REBALANCE comes at least AI_MIN_MAJOR_INTERVAL_MIN of features after each
\* earlier one, also when messages are handled late and out of order, unless a
\* fault kept the earlier one from writing latest.alpha.major.ts. Because that key
\* is kept by the clock and compared in feature time, features that are handled
\* late may come closer than the interval, or even before the earlier ones, but
\* then the two decisions are an expiry of the key apart.
RebalancesApart ==
  \A i, j \in Rebalances :
    i < j => \/ published[j].cycle - published[i].cycle >= Interval
             \/ published[j].at - published[i].at >= Expiry
             \/ published[i].cycle \in unmarked

\* A cooldown takes DIRECTION_REVERSAL_THRESHOLD different cycles whose signals
\* were opposite to the target, within the window: a message that is handled
\* twice counts once.
CooldownEarned ==
  [][~cooldown /\ cooldown' =>
       Cardinality({c \in turned' : cur - Window <= c /\ c <= cur}) >= Threshold]_vars

=============================================================================
