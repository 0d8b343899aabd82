# hl-ai-trader in TLA+

TLA+ models of the trading system in `src/`: its message bus, the features that
market_data publishes, the decisions of the two layers of ai_decision, the risk engine,
the submission and tracking of orders, the control modes, the exchange adapters, the
state of the portfolio, and the v17 shadow pipeline. Each module is translated from the
Python code (with its tests and documents at hand), checked by TLC on a small instance
and, where that is possible, proved by TLAPS for every value of its constants.
`PROJECT.json` maps every definition to the lines it stands for.

## 1. The system

Services are separate Python processes that talk through Redis: streams with
consumer groups for messages, keys for the latest value of something.

    market_data --md.features.*--> ai_decision --alpha.target--> risk_engine
                                                                     |
      portfolio_state --latest.state.snapshot--> (risk_engine)   risk.approved
             ^                                                       v
             '------ exec.reports <--------- execution ---> exchange adapter
                                                ^
                  openclaw_ops --ctl.commands---'  (execution writes ctl.mode,
                                                    risk_engine reads it too)

    csv bars --> v17 runners --> shadow ledger --> target bridge --> alpha.target.v17_shadow
    md.features.15m --> v17_alpha --> alpha.target.v17_shadow (or, as a canary, its live twin)

Every edge that is a stream goes through the same library, `shared/bus`. A handler
reads a message, works, publishes its own output and acknowledges; on an exception
it re-adds the message with a higher retry count or dead-letters it.

### Inventory

| Component | State it keeps | Operations | What is hard | Correct when |
|---|---|---|---|---|
| message bus (`shared/bus`) | stream, group cursor, pending entries | XADD, XREADGROUP, XAUTOCLAIM, XACK, `retry_or_dlq` | a reply is lost after the command took effect; restarts; at-least-once delivery; dead letters | nothing is lost; dead letters are earned; repeats have a cause |
| market_data | last emitted minute, histories, caches | sample, publish 1m / 15m / 1h features | a failure between the publications of one minute; restarts; late passes | minutes in order; a block for the hour when it is needed |
| ai_decision | direction bias (twice), last decision times, counters, last prices | layer 1 (1h), layer 2 (15m), weights, daily cap, emergency | two loops on two clocks; counters before publication; retries; limits that undo one another | decisions under the right block; cap and distance hold; what is closed stays closed |
| risk_engine | daily baseline, peak, IC streak (Redis) | one handler, six guards, limits | a retry after a guard has stored; midnight; a guard that locks itself in; limits that undo one another | modes answer to losses; caps hold; HALT can end |
| execution, orders | dedup keys, `exec.order_tracking`, `exec.cycle.done`, the exchange | slice loop, `place_limit`, reports, the tracker thread | two threads on one queue; a crash between order and dedup key; a timeout against a fill | one order per client id, every open order watched, one outcome |
| execution, control | `ctl.mode`, `ctl.commands`, tail of `risk.approved` | apply commands, merge modes, guard each slice | a mode, or a newer portfolio, that comes while a batch is executed; commands that come late | HALT stops, REDUCE_ONLY reduces, a replaced portfolio is given up |
| exchange adapters (`shared/exchange`) | feed of mids, specification caches | mids, funding, specifications, place, cancel, status, account | answers lost, failed reads that become defaults, four dialects | no accepted order is forgotten, no order grows by accident, snapshots are true |
| rate limiter (`shared/hl`) | bucket in Redis | `allow` | clocks read before the script runs | the rate holds |
| portfolio_state | active order ids, latest snapshot, health | consume reports, reconcile, poll orders | reports that overtake one another; snapshots that expire | every open order polled, none polled forever |
| v17 data builder, signal engine | none | bars, features, score, candidates | the bar of the running hour, stale bars | signals rest on complete, fresh bars |
| v17 shadow runner, ledger, report | csv ledger | run, append a leg, report | read, then append; two runners; kills; late bars | a leg and a bar count once |
| v17 target bridge, alpha | none | targets of ledger rows or of features | partial events, rounding | caps hold, production streams are left alone |
| openclaw_ops | idempotency keys | `set_mode`, `propose_param_change` | check, then act, then remember | a request acts once |
| reporting | SQLite | insert, commit, acknowledge | acknowledgement against commit | nothing acknowledged that is not stored |
| shared schemas | none | validation | what a refused snapshot stops | |
| live canary, research, backtester, scripts, LLM client, metrics | none, or files | validation, batch computation, reports | numerical | not for a state machine |

The hazards, each at its line with the properties that would catch it, are in
`PROJECT.json`.

## 2. Modules

| Module | Models | EXTENDS / role |
|---|---|---|
| `DeliveryContract` | what the bus promises | abstract specification: send, settle |
| `StreamGroup` | `shared/bus`, the message loops of `risk_engine` and `execution` | refines `DeliveryContract` |
| `FeatureClock` | the loop of `market_data` | |
| `FeatureFlow` | market_data with both layers of `ai_decision`, as far as the bias goes | composes: `FeatureClock` |
| `DecisionCycle` | one message of layer 2, from reading to acknowledgement | |
| `Weights` | exact lists of weights | `Units` |
| `QuantBias` | `compute_quant_bias` | `Weights` |
| `TargetWeights` | the arithmetic of layer 2 | `QuantBias` |
| `PositionLimits` | `apply_position_limits` and what follows it in risk_engine | `Weights` |
| `TargetLimits` | a target from the signals to its approval | composes: `TargetWeights`, `PositionLimits` |
| `RiskEngine` | the handler of a target and the guards | |
| `OrderTracker` | slices of one approved REBALANCE, dedup keys, the tracker thread | |
| `ControlModes` | `consume_ctl_commands`, `ctl.mode`, the guards of a slice, the `reduce_only` flag | |
| `TokenBucket` | `shared/hl/rate_limiter.py` | |
| `VenueQuotes` | mids, contract lists, funding through four adapters | `TokenBucket` |
| `VenueOrders` | specifications, sizes, orders, answers of four adapters | `VenueQuotes` |
| `ExchangeVenue` | one adapter between execution, the tracker and portfolio_state | composes: `VenueOrders` |
| `PortfolioState` | the loop of `services/portfolio_state` | |
| `Units` | magnitudes, clipping, rounding, sums | |
| `ShadowSignals` | bars, features, score, candidates, merging | `Units` |
| `V17Alpha` | the target of `v17_alpha` | `Units` |
| `ShadowTrading` | runners, ledger, bridge, report, alpha service | composes: `ShadowSignals`, `V17Alpha` |
| `Approval_proofs` | theorems about `RiskEngine` and `TargetLimits` | |
| `AIDecision_proofs` | theorems about `DecisionCycle` and `FeatureFlow` | |
| `X_proofs` | theorems about `X`: `StreamGroup`, `OrderTracker`, `ControlModes`, `PortfolioState`, `ExchangeVenue`, `ShadowTrading` | |
| `MC*` | instances for TLC | |

Where services meet over a stream, a module has as much of the stream as its own
recovery depends on: `StreamGroup` delivers a message some number of times, in an order
of its own, and `OrderTracker` starts from that (`copies` of one approved message, each
taken, repeated or dropped). `TargetLimits` takes a target through two services, because
each of them has limits that could undo those of the other. `ExchangeVenue` puts three
users on one exchange, because each acts on what the others' requests have changed.

### StreamGroup

`log` is the stream, an entry's position its id; `delivered` and `pel` are the
group's cursor and pending list; `idle` marks pending entries that XAUTOCLAIM would
return. All of these are in Redis and survive `Crash`; `batch` and `pc` are the
process's and do not. Actions: `Publish` (XADD, twice when the reply was lost and
`_retry_on_disconnect` repeats it), `Reclaim` and `ReadNew` (the two halves of
`_xreadgroup_json_inner`; `Receive` may lose the reply after the server has counted
the entries as delivered), `HandleOk`, `HandleMalformed`, `HandleFails` (the three
ways through a handler; `Finish` lets the audit record fail after the output is
out), `RetryOrDlq`, `Ack`, `Crash`, `Age`.

### FeatureClock and FeatureFlow

A pass of market_data is `Sample` (mids, caches, the current minute), and when the
minute has changed `BuildFeatures`, `Publish1m`, `Publish15m`, `Publish1h`, `Finish`:
`last_emitted_minute` moves on only in the last of them. `PassFails` is the handler
around the pass (the publication may have taken effect), `BlockFails` the one around the
block of the hour, which only logs. A snapshot is the minute it is for.

In `FeatureFlow` layer 1 takes blocks (`PollBlocks`, `ProcessBlock` with the debounce,
`BlockRaises`; every block is acknowledged, none is reclaimed) and leaves a bias in
memory and in Redis; layer 2 takes snapshots (`PollSnapshots`) and picks the bias that is
valid at the minute of the snapshot (`DecideSnapshot`). `Tick` lets a minute pass when
both loops are done with it; a minute that passes earlier is a hitch, like a death or a
step that raises.

### DecisionCycle

`Take`, `CheckPrice`, `Reversal`, `Decide`, `CountTrade`, `Publish`, `SetLatest`,
`SetMajor`, `Ack` are the writes of one message in the order of the code, and
between any two of them the handler may raise (`HandlerRaises`, `RetryOrDlq`) or the
process die (`Crash`). What is in Redis (the counter of the day, the reversals, the
cooldown, `latest.alpha.target`, `latest.alpha.major.ts`) stays, what is in memory
(`last_mid_px`) does not. Retried messages come after newer ones, reclaimed ones
before or after. Of a target only the sign is kept, of a price only whether it is
below the other by more than the emergency threshold. `Feature` is also the clock of
the module, in minutes: `latest.alpha.major.ts` is written with ex=3600 and forgotten an
hour of the clock later (`MajorExpires`, `majorAt`), whereas `should_rebalance` compares
the minutes of features.

### Weights, QuantBias, TargetWeights, PositionLimits, TargetLimits

All of these compute with exact fractions: a list of weights is `[n, d]`, and each
function of the code is an operator on such lists. `QuantBias` turns three factors into
a tier, a direction and a market state. `TargetWeights` goes from there through the
confirmations, the funding overlay, profit targets and stops, the bearish block, the
emergency and the cooldowns to the weights, and then through the eight constraints in the
order of `main` (`Constrained`): scale, gate, smooth, turnover, direction, net, leverage,
smallest notional. `PositionLimits` has the limits of risk_engine (clip, scale to gross and
net, move only part of the way, clip and scale again, compare with the position).
`TargetLimits` has three actions: `Layer2` or `Alpha17` proposes, `RiskEngine` approves.
In the code both services measure the position with the same leverage.

### RiskEngine

The handler in steps that can be interrupted (`Raise`): `Load`, `DailyLoss`,
`PeakEquity`, `IcDecay`, `Decide`, `Ack`. Around it the equity moves, the UTC day passes,
the health report writes observations of the signal, and `execution` turns approved
portfolios into reports: with a snapshot it answers (`Answer`: reports of the orders of
a REBALANCE, a heartbeat for everything else), without one, for a malformed message or
when its handler raises it gives the message up (`GiveUp`), in which case the guard sees
no heartbeat. The quality of the market (`MarketMode`) and the operator's word
(`GetControlMode`) are read once per target and are any outcome. `opening` and
`highest` are history: the first and the highest equity the guards have evaluated.
A process that dies behaves like `Raise`: what is stored stays, the target comes
again.

### OrderTracker

The main thread has one label per write of the code: `Take` (with
`live_cycle_guard`), `SkipSlice` / `LeaveLoop` (every reason to skip, or to stop),
`Intend`, `NotPlaced`, `Place`, `PlaceReplyLost`, `PlaceWithoutId` (an answer without an
order id), `WriteDedup`, `ReportSubmit`, `Track` (or `ReportUntracked`, `DedupUntracked`
for an order id that is not an integer), `MarkDone`, `HandlerRaises`, `RetryOrDlq`, `Ack`.
The tracker thread makes passes over the queue: `Scan` (LRANGE), for each item `Timeout`
(with `timeout_terminal_decision`), `NotPolled`, `PollOpen` or `PollTerminal`, then
`ReportOutcome`, `ReadDedup`, `WriteOutcome`, and at the end `Remove`, one LREM by value
at a time. An item of the queue carries a bit `poll` that flips with each LSET, because
the text that LREM compares contains the time of the last poll: this is what makes LSET
and LREM disagree. Ends of an order without a fill (cancelled, expired, refused) are
folded into "canceled".

### ControlModes

The loop of `execution/app.py` in the order of the code: commands (`ReadCommands`,
`Apply`, `Ack`), `ReadMode`, `ReadBatch`, then for each message `StartCycle` (merge
the modes, take the position from the snapshot, plan), for each slice
`LatestApprovalGuard` (in live trading: is the last entry of `risk.approved` of another
cycle), `SliceSubmitGuard` (read the mode again) and `Place`. Of `risk.approved` the
module has the cycle of the last entry (`last`), of the entries not yet read (`unread`),
of those a dead process left pending (`owed`) and of the messages in hand (`batch`).
`Approve` is the risk engine appending to it meanwhile; `GiveUp` is a message whose
handler raises or finds no snapshot, which `retry_or_dlq` adds again as the last entry or
dead-letters. A tail that cannot be read stops the message, as in the code. A crash
between the XADD and the XACK of a retry is left to `StreamGroup`. `WriteKey` is an operator or script that writes `ctl.mode`
itself. A read of the key that fails counts as NORMAL, as in `get_control_mode`.
Quantities are lots of one symbol, and the order fills at once or not at all.

### TokenBucket, VenueQuotes, VenueOrders, ExchangeVenue

`TokenBucket` is the Lua script; `Allow(lag)` is a call whose clock was read `lag` ago.
`VenueQuotes` has one definition per adapter of what a read may answer (from the feed,
from the exchange, from a list that is too old, a default), `VenueOrders` the same for
specifications, sizes, `place_limit` and `get_order_status`: what the
caller is told, against what became of the order. What `cancel_order` returns plays no
part, because the tracker does not look at it: past its deadline an order is reported as
ended, whether its cancel took (`CancelOrder`) or was not sent, lost or declined
(`CancelWithoutEffect`). `ExchangeVenue` has the users:
execution (`PrepareSlice`, `RateLimited`, `PlaceRefused`, `PlaceLimit`), the tracker
(`GetOrderStatus`, `GetOrderStatusFails` and the two cancels) and portfolio_state
(`ReadPositions`, then `PublishSnapshot` or `ReconcileFails`), each request one step, and
the exchange (`ExchangeEnds`) between any two. Positions and open orders may come as
answers without their data (`blank`), which no adapter tells from an empty account.

### PortfolioState

One pass of the loop is one trip of `pc`: read `exec.reports` (`ReadReports`, or
`ReadRaises` when the reply is lost), for each entry the calls of
`_track_report_order` one by one (`TrackReport` the set, `MapReport` the hashes),
`EmitEvent`, `AckReport`; then `Reconcile`, `SetLatest`, `ReconcileEvent`; then
`SelectOrders` and, for each order, `AskOrder` and `Forget`. Each of the three parts
has its own `except`: `ReportRaises` leaves the entry pending for XAUTOCLAIM,
`ReconcileRaises` leads to `SetUnhealthy`, `AskRaises` lets the order rest. An
exception inside such an `except` ends the process, as does `Crash`. `due` holds
which of the two periods (POLL_SECONDS, STATUS_POLL_SECONDS) have passed, both of
them in a new process. `resting` stands for the backoff, whatever its length. The
exchange opens and ends orders by itself; "odd" is a status that the adapter of
Hyperliquid passes on as "ack" although the order has ended (rejected,
marginCanceled, ...).

### ShadowSignals, ShadowTrading, V17Alpha

`ShadowSignals` is pure: from the set of bars in the cache to the events of one run.
`ShadowTrading` has the runners (`StartRun`, `WriteSignal`, then for each leg `CheckKey`
and `AppendRow`, which are two steps because `append_row` reads the file and then appends
to it), `Abort` (killed, or the writer raises), the bridge and the daily report as readers
of the same file, bars that arrive late, and the alpha service, deployed instead of the
pipeline. `seen` of a row is how much of the file its writer had read.

The events of a run are a set, since a bar has one event, and `Earliest` is the one that
`sorted(groups)` comes to next; the legs of an event are a function of its symbols, since
`_normalize_symbols` lets no symbol in twice, and `Leg` is the one that is next in the
order of the run. The leg_id, the index of a leg in its event, is therefore determined by
the event's symbols and the leg's own, which is what `LedgerKey` has.

## 3. What is checked

| Run | Properties | Instance |
|---|---|---|
| `stream_group` | `NoLoss`, `DeadLetterAfterRetries`, `RepeatsOnlyByFaults`, `Drains`, `Delivery` | two messages, one malformed; one retry; three faults |
| `feature_flow` | `SnapshotsInOrder`, `CurrentBlockGuides` | nine minutes, hours of three; a debounce of one minute, a bias kept for four; an alarm at one error; two faults |
| `decision_cycle` | `DailyCapBinds`, `RebalancesApart`, `CooldownEarned` | three minutes with a message at most, prices of both kinds, two days, a cap of one trade, an interval of two minutes, an expiry of two, two reversals for a cooldown, two faults |
| `target_limits` | `CandidateWithinLimits`, `ClosedNeverGrows`, `ApprovedWithinLimits`, `ReduceOnlyShrinks`, `TurnoverWithinCap` | three symbols, two of them traded by layer 2; 81 pairs of feature sets, eleven ways a message comes, nine previous targets, ten positions; 36 proposals of v17_alpha; every mode and action |
| `risk_engine` | `DailyLossBinds`, `IcCountedOnce`, `RejectHaltClears` | three equities (no loss, 4 %, 6 %), two days, two observations, one handler that raises or portfolio that execution gives up, one approved portfolio ahead of execution, in and out of live trading |
| `order_tracking` | `SubmitReportedFirst`, `OpenOrdersWatched`, `ReplaceOnlyAfterFailure`, `TrackedOrdersEnd` | one slice, two copies of its message, two orders, both kinds of order id, one fault |
| `control_modes` | `HaltWithinOneOrder`, `ReduceOnlyPlanReduces`, `ReplacedWithinOneOrder`, `CommandsConsumed` | live trading, two commands, portfolios of two cycles, one of them unread; batches of two, plans of two slices, one lot each way, one fault |
| `exchange_venue` | `GrantsWithinRate`, `CachedMidsFresh`, `KnownUnlessLost`, `GoneMeansGone`, `LargerOnlyByGuess`, `SnapshotTrue` | four exchanges, a bucket of one token that expires after two ticks, three calls, lateness of one; two orders, one request that fails, has no effect or is answered without its data |
| `portfolio_state` | `EventsForwarded`, `OpenOrdersFollowed`, `FailureShows`, `EndedOrdersLeave` | one order, two reports of it in any order of handling, two faults |
| `shadow_trading` | `RepeatsOnlyByRace`, `ExposureCountsABarOnce`, `OnlyFreshCompletedBars`, `V17TargetsWithinCaps` | two runners, three runs, one kill; two symbols, bars of four hours, two of them late; three configurations; four feature snapshots |

Runs that are expected to fail, each for a statement of the repository that the
code does not keep (details under `findings` in `PROJECT.json`):

| Run | Statement | What the code does |
|---|---|---|
| `order_outcome` | `docs/services/execution.md` 42-44: after its ACK an order is polled until it fills, or it times out and is cancelled | the item that a poll found filled is rewritten by LSET, LREM by the old text misses it, and the filled order is "timed out" later and reported CANCELED or REJECTED as well |
| `peak_guard` | docstring of `peak_equity_guard`: HALT at the drawdown from the peak | the first peak is never stored, so that the drawdown is always zero |

What the properties say in words:

- Bus: `NoLoss`, `DeadLetterAfterRetries`, `RepeatsOnlyByFaults` (a message is settled
  again only for a fault), `Drains`, and `Delivery`, the refinement of
  `DeliveryContract`.
- `SnapshotsInOrder`: both streams of minutes are in order, each repeat has its failed
  pass, and the 15m stream is never ahead. `CurrentBlockGuides`: an hour and a debounce
  after the last fault each decision rests on the block of its hour.
- `DailyCapBinds`, `RebalancesApart`, `CooldownEarned`: counters and distances survive
  retries, restarts, midnight and messages out of order; the distance is an interval of
  features or, once its key has expired, an hour of the clock.
- `CandidateWithinLimits`: what layer 2 publishes breaks a cap only as far as the
  position or the previous target did. `ClosedNeverGrows`: what layer 2 has closed is
  never enlarged or turned by the smoothing and the limits of either service.
  `ApprovedWithinLimits`, `ReduceOnlyShrinks`, `TurnoverWithinCap`: the limits of
  risk_engine for targets of both producers.
- `DailyLossBinds`, `IcCountedOnce`, `RejectHaltClears`: the guards of risk_engine.
- `SubmitReportedFirst`, `OpenOrdersWatched`, `ReplaceOnlyAfterFailure`,
  `TrackedOrdersEnd`: two threads, one queue.
- `HaltWithinOneOrder`, `ReplacedWithinOneOrder`, `ReduceOnlyPlanReduces`,
  `CommandsConsumed`: what reaches a batch that is under way.
- `GrantsWithinRate` (late clocks add exactly their lateness), `CachedMidsFresh`,
  `KnownUnlessLost` (no whole answer to an accepted order is taken for a rejection),
  `GoneMeansGone` (an order reported as ended does not work, unless its cancel at the
  deadline had no effect: no answer ends an order that works), `LargerOnlyByGuess` (only
  a specification that was made up enlarges an order), `SnapshotTrue` (a published
  snapshot has the side of the position, unless the positions came without their data,
  and counts no order twice).
- `EventsForwarded`, `OpenOrdersFollowed`, `FailureShows`, `EndedOrdersLeave`.
- `RepeatsOnlyByRace`, `ExposureCountsABarOnce`, `OnlyFreshCompletedBars`,
  `V17TargetsWithinCaps`.

Each property of a passing run has a mutant: an operator in its module, introduced as a
variant or a plausible slip, that replaces one definition by the code with a plausible mistake (no comparison of
timestamps, an acknowledgement forgotten, limits applied once...). With it, TLC
finds the property violated. Type correctness is proved, not run:
`TypeCorrect` of six modules; for `ExchangeVenue` and `ShadowTrading` it is part of their
invariants (`BucketInv`, `OrdersInv`; `World`, `Shapes`).

### Bounds

Counters of restarts, failures, commands, orders, days and observations are bounded by
constants (`MaxFaults`, `MaxCmds`, ...) in the guards of the actions that count, and
say so where they are declared. They are chosen so that the cases that matter occur
and combine: three faults on the bus are enough for a duplicated XADD, a lost reply
and a restart in one run; two copies and two orders let a redelivered message race the
tracker on the same key; two commands are an old and a new one; two observations make
a streak at its threshold and one that is broken; equities of 100, 96 and 94 lie on
each side of both daily limits. In `PortfolioState` the orders do not meet, so one is
enough for its properties: two reports are its submission and its end, and two faults
let a report be handled again after the poll has removed the order. In `DecisionCycle`
a cap of one trade and an interval of two minutes make the third message the first that
may trade again, by a new day or not at all; an expiry of two lets the second message,
handled in the third minute, find the key of the first gone; two faults put a message behind its
successor and then kill the process. In `FeatureFlow` hours of three minutes over nine
minutes give three blocks, so that a bias can be lost, replaced and expire; two faults
lose a block and delay the next. `TargetLimits` has weights in units of five percent and
nine kinds of symbol, one for each way through layer 2. In `ExchangeVenue` a coin of four
units, contracts of two and a slice of three make every rounding visible; two orders are
one that ends between the two requests of a reconciliation and one that does not. In
`ShadowTrading` each symbol has a bar that comes late and one bar past the tolerance.
`RiskEngine` starts a target only while `execution` has less than `MaxSent` to read, which
stands for the pace of an hourly service. In `ControlModes` the risk engine approves only
while fewer than `MaxUnread` entries wait, here one; a retry adds another, so that a
batch of two cycles comes about, with the older one behind. Deadlock is not checked where the system may
rest: nobody is obliged to publish, command or trade. `MCRiskEngine` and
`MCPortfolioState` check it.

### Fairness

Weak fairness is put on the loops of the services, which run `while True` and whose
supervisor starts them again, and on the passing of time (idle time of pending
entries, deadlines of orders). It is not put on producers, operators, the exchange,
nor, in `ControlModes`, on reconciliation. `RiskEngine` assumes in addition that
targets keep coming, which is what the hourly cycle of `ai_decision` does, and that
`execution` finds a state snapshot for all but `MaxFaults` of the approved portfolios: in
the code nothing bounds how long a snapshot may be missing, and while it is, no heartbeat
ends the streak. Faults are
finite in number, so that liveness reads: once the faults cease. `DecisionCycle`,
`FeatureFlow`, `TargetLimits`, `ExchangeVenue` and `ShadowTrading` state no liveness and
assume no fairness; what must come back after a fault in `FeatureFlow` is stated with a
time, as safety.

- `Drains`, `Delivery` (its liveness part): nothing stays pending, every message is
  settled.
- `TrackedOrdersEnd`: a tracked order leaves the queue with a final report. Either
  the deadline or a poll does it, whatever the exchange does.
- `CommandsConsumed`: no command stays behind.
- `EndedOrdersLeave`: the exchange's answer to a poll ends it; a late "ack" report
  may put the order back, but only until the next poll. It rests on weak fairness of
  the loop, of the two periods, of idle time and of each backoff.
- `RejectHaltClears`: a HALT for rejected orders stops the orders that could be
  accepted, but the heartbeat of the halted cycle is an ACK report and ends the
  streak; a message that `execution` gives up may send none and only delays it. This holds
  outside live trading only; in it, `execution` reports to
  `exec.reports.v17_live` while the guard reads `exec.reports`, so that the guard
  never acts.

### Not stated as findings, but worth knowing

Each of these follows from a definition at the lines `PROJECT.json` maps it to.

Orders and control
- An order is placed before its dedup key is written, so that a restart in between
  places the slice twice (`docs/streams.md` 66 says idempotent by `client_order_id`);
  `ReplaceOnlyAfterFailure` says that nothing else does. Dedup keys and
  `exec.cycle.done` expire after an hour.
- A command reclaimed after a restart overwrites a newer one in `ctl.mode`
  (`docs/SPEC.md` 281: the latest command).
- A message that was approved as NORMAL and meets REDUCE_ONLY in its slices is compared
  with a position that is several fills old, and its orders carry no `reduce_only` flag
  (`docs/services/risk_engine.md` 26); only what was planned under REDUCE_ONLY is safe.
- `latest_approval_cycle_guard` compares ids of stream entries, not cycles, and
  `retry_or_dlq` adds a failed message behind everything approved meanwhile: after a retry
  the older portfolio is the last entry, trades, and the newer one is dropped slice by
  slice (`test_execution_utils.py` 250 has "blocks stale cycle" for the other order only).
  `ReplacedWithinOneOrder` is stated by the order of the stream for this reason.
- An answer without an order id, and an id that `int()` refuses (KuCoin's), is reported
  REJECTED although the order may rest on the exchange: it is not tracked, and its dedup
  key lets the slice be placed again (`PlaceWithoutId`, `ReportUntracked`).
- An order that is already FILLED when submitted is tracked like an open one and, if its
  deadline passes before a poll finds it, reported CANCELED as well; `OneOutcome` is
  about orders that were ACK first, as the document is.

Risk engine
- The turnover cap of `docs/services/risk_engine.md` 22 does not hold from a book
  that is itself outside the limits: the second pass of the limits moves more than
  the cap allows. Positions that a target leaves out count in the turnover and are not
  moved. The net cap (21) may be exceeded under REDUCE_ONLY, where single weights are
  replaced by positions.

Adapters
- `get_account_state` of OKX and Binance reports a long position with the account's mode
  as its side ("net", "BOTH"), which `schemas.Position` (224) refuses: every
  reconciliation fails while such a position is held. `SnapshotTrue` holds because of it.
- An answer that does not raise and has no `data`, `positions` or `assetPositions` is an
  account without positions (`okx.py` 419-437, `kucoin.py` 415, `binance.py` 397,
  `hyperliquid.py` 335): portfolio_state (431-480) publishes a healthy snapshot that is flat while a position is held. Open
  orders may vanish from a snapshot in the same way. `SnapshotTrue` exempts the first.
- Every lost answer to `place_limit` becomes `OrderRejectedError` (`base.py` 24: the
  exchange rejected the order).
- The tracker reports CANCELED and forgets the order whatever `cancel_order` returned
  (`execution/app.py` 191-198, 878-880), so that an order whose cancel was lost or refused
  works on, unwatched; the adapters turn every exception into False, hence
  `timeout_cancel_error` is never the reason. KuCoin's returns True for an error code as
  well (`test_kucoin_adapter.py` 336-346).
- `cancel_order` of OKX is False for an order that has ended; KuCoin's "done" is read as
  filled also when it was cancelled; statuses Hyperliquid's adapter does not list
  (rejected, marginCanceled) are "ack", so that portfolio_state asks for such an order
  until its set expires.
- OKX and KuCoin work in contracts: sizes of open orders and `qty_step` are contracts where
  the callers expect coins. An empty contract list of KuCoin is kept for 300 s. A
  funding rate or open interest that cannot be read is 0.0, a mark without a mid is 0.
- A snapshot is two requests: an order that trades between them is in neither half.

Market data and decisions
- `md.features.15m` goes out every minute. The group of each layer is created at the end
  of its stream, so what was sent before the first start is never read.
- Layer 1 acknowledges whatever happens; its debounce is five minutes although the
  comment (`ai_decision/app.py` 1291) says 55; after a restart the oldest block of a
  backlog wins, since the debounce refuses the ones after it. A snapshot of the last
  minute of an hour may be decided under the next hour's block.
- `ret_24h`, `macd` and `atr` of a block are computed from 310 minutes of mids; "one day"
  of `vol15_hist` is 96 minutes; `basis_bps` is always zero.
- An emergency is lost on retry: `last_mid_px` is overwritten before the decision is
  published, so that the repeated message compares its price with itself. In an
  emergency on a day whose cap is reached the decision is HOLD.
- Smoothing closes a position after a stop or an emergency only in part, and a HOLD
  publishes the previous target, in which the symbol is still open. With
  MAX_NET_LONG_WHEN_DOWN at zero, longs go to zero after the turnover cap was applied.
- `get_equity_usd` always answers 1000, and `record_pnl` is never called, so that the
  penalty for losses never applies.
- A target that stays is counted as a reversal in every cycle whose signal opposes it.
- The interval between rebalances is kept in feature time by a key that lives for an hour
  of the clock: features that are handled more than an hour after a REBALANCE may bring
  the next one closer than AI_MIN_MAJOR_INTERVAL_MIN, or before it. `RebalancesApart`
  says that nothing else does.

Portfolio, v17
- A failed reconciliation makes a snapshot unhealthy at once, not after 30 s
  (`docs/services/portfolio_state.md` 33).
- An event id names the symbols with usable data: an hour that is run again after a late
  bar is recorded under a second id and counted twice in the exposure of the report
  (`docs/plans/v17-shadow-trading-system.md` 312). The tolerance of 5400 s counts from
  the start of a bar. `bridge_ledger` publishes every event of the file again. Invalid
  events of one hour share an id. Rounding to twelve decimals may take the event over its
  cap by half a unit of the twelfth per leg, where the same plan says "Never exceed event
  gross cap after rounding" (192) and "event cap never exceeded" (311);
  `V17TargetsWithinCaps` grants that half unit.
- Two runners that find the ledger empty may both write the csv header (`ledger.py`
  95-103); the second one is read as a row, whose numbers `read_rows` cannot parse, and
  from then on every append, bridge pass and report raises.

## 4. What is proved

For all values of the constants that satisfy the assumptions of their module. Most of
these only say that a constant is a number or a set of the right kind. The ones that say
more, and why the code justifies them:

- `LayersAssumption`: the debounce of layer 1 is shorter than an hour and the bias lives
  longer than one (5 minutes, and 4200 s, that is 70 minutes, in `ai_decision/app.py`).
- `BiasAssumption`: no factor weight is zero, since `compute_quant_bias` divides by their
  sum (0.047, 0.046 and 0.015, or the ones of `ic.factor_ic_latest`, each at least 0.01).
- `TargetAssumption`: the universe is finite and not empty, the minimum confidence is a
  percentage and not zero. `LimitsAssumption`, `ProposalAssumption`: books and targets have
  a weight for every symbol, a target names symbols of the universe; nothing is assumed
  of their size.
- `ShadowAssumption`: a run has a symbol and none twice (`_normalize_symbols`, and a run
  without symbols is blocked), the cache and the features are finite, the bars, the
  tolerance is not negative, a bar, the window and the caps of events are positive. `AlphaAssumption`: its caps
  are natural numbers; they need not be related.
- `OrdersAssumption`: lots, contracts and the value of a coin are positive, and the
  two exchanges that trade in coins have contracts of one.

| Module | Theorem | Says |
|---|---|---|
| `StreamGroup_proofs` | `TypeCorrect` | Type correctness of the bus for every set of messages, retry limit, batch size and number of faults |
|  | `NeverLost` | `NoLoss` |
|  | `DeadLettersPaid` | `DeadLetterAfterRetries` |
|  | `ImplementsContract` | Every step of the bus is a step of DeliveryContract or leaves its variables alone (the safety part of Delivery) |
| `ControlModes_proofs` | `TypeCorrect` | Type correctness of the control loop for every value of the constants |
|  | `HaltBinds` | `HaltWithinOneOrder` |
|  | `PlanReduces` | `ReduceOnlyPlanReduces` |
|  | `ReplacedBinds` | `ReplacedWithinOneOrder` |
| `Approval_proofs` | `TypeCorrect` | The variables of the risk engine keep their types |
|  | `DailyLossAlwaysBinds` | `DailyLossBinds` |
|  | `IcAlwaysCountedOnce` | `IcCountedOnce` |
| `PortfolioState_proofs` | `TypeCorrect` | The variables of the portfolio loop keep their types |
|  | `EventsAlwaysForwarded` | `EventsForwarded` |
|  | `OpenOrdersAlwaysFollowed` | `OpenOrdersFollowed` |
|  | `ActiveOrdersAlwaysMapped` | An active order has its cycle in the map, or a report that is still pending puts it there |
|  | `FailureAlwaysShows` | `FailureShows` |
| `AIDecision_proofs` | `TypeCorrect` | The variables of the decision cycle keep their types |
|  | `DailyCapAlwaysBinds` | `DailyCapBinds` |
|  | `RebalancesAlwaysApart` | `RebalancesApart` |
|  | `CooldownAlwaysEarned` | `CooldownEarned` |
| `ShadowTrading_proofs` | `LedgerKeepsLegsOnce` | `RepeatsOnlyByRace` |
| `ExchangeVenue_proofs` | `OrdersWithinRate` | `GrantsWithinRate` |
|  | `WholeAnswersKnown` | `KnownUnlessLost` |
|  | `EndedOrdersAreGone` | `GoneMeansGone` |
| `OrderTracker_proofs` | `TypeCorrect` | The variables of submission and tracking keep their types, for every number of slices, copies, orders and faults |
|  | `SubmissionComesFirst` | `SubmitReportedFirst` |
|  | `OpenOrdersAlwaysWatched` | `OpenOrdersWatched` |
|  | `OnlyFailuresAreRepeated` | `ReplaceOnlyAfterFailure` |
| `StreamGroup_proofs` | `OutputsRepeatOnlyByFaults` | `RepeatsOnlyByFaults` |
| `ExchangeVenue_proofs` | `CachedMidsAreFresh` | `CachedMidsFresh` |
|  | `SizesWithinSlices` | `LargerOnlyByGuess` |
|  | `SnapshotsAreTrue` | `SnapshotTrue` |
| `Approval_proofs` | `ApprovedStaysWithinLimits` | `ApprovedWithinLimits` |
|  | `ReduceOnlyNeverEnlarges` | `ReduceOnlyShrinks` |
|  | `ApprovedTurnoverCapped` | `TurnoverWithinCap` |
|  | `CandidateStaysWithinLimits` | `CandidateWithinLimits` |
|  | `ClosedSymbolsOnlyShrink` | `ClosedNeverGrows` |
| `AIDecision_proofs` | `SnapshotsStayInOrder` | `SnapshotsInOrder` |
|  | `CurrentBlockAlwaysGuides` | `CurrentBlockGuides` |
| `ShadowTrading_proofs` | `ReportCountsABarOnce` | `ExposureCountsABarOnce` |
|  | `SignalsAreFresh` | `OnlyFreshCompletedBars` |
|  | `V17TargetsKeepCaps` | `V17TargetsWithinCaps` |

Inductive invariants, and why the properties alone are not inductive:

- `NoLoss` needs `AckSafe`: an entry whose acknowledgement is next has a message
  that is settled or has another outstanding entry; without it nothing is known
  when `Ack` removes the last entry.
- `DeadLetterAfterRetries` needs `RetriesPaid`: the retry count of each entry was
  paid for by failed runs of its message's handler, and a run that has failed but is
  not yet counted in a copy pays for one more. Duplicates of an entry share what
  was paid, which is why the count compares per message, not per entry.
- `HaltWithinOneOrder` needs `Counting` and `GuardPaid`: past the guard with the key
  at HALT, the verdict was read before the key changed, which happens once, or from
  a read that failed, which is counted.
- `ReplacedWithinOneOrder` needs `ReplacedPaid`: between the guard of the latest approval
  and the order, nothing has gone out for a portfolio that is not the last of the stream;
  the order that this permits is the last. A retry of the message in hand moves the end
  of the stream, but ends the message as well.
- `DailyLossBinds` needs `Baselines` (the stored baseline of each day is the first
  equity evaluated on it) and that from the daily guard to the publication the mode
  already answers to the loss: every later guard can only harden it
  (`EscalateFacts`, `DecideFacts`).
- `IcCountedOnce` is inductive together with `TypeOK` (the observation seen last was
  written); its proof counts with `FS_AddElement` and `FS_Subset`.
- `ReduceOnlyPlanReduces` needs only that the flag is kept: the exchange's clipping
  (`Fill`) does the rest.
- `EventsForwarded` needs that the entry at `Ack` is already forwarded or
  dead-lettered (`AckForwards`), and that the entry in hand is one of the batch: the
  least of a set of natural numbers exists (`WFMin`).
- `OpenOrdersFollowed` needs `FollowSafe`: reports are about orders that were placed
  (so that no order becomes open after its report), only ended orders are being
  removed, and from the first step of a report on its order is in the set.
- `ActiveOrdersMapped` needs `MapSafe`: the two writes of a report are not atomic, and
  in between the set is always the smaller one.
- `FailureShows` needs `RepairAhead`: a healthy snapshot that outlived its failure is
  about to be replaced, after a restart because both periods are due at once.
- `DailyCapBinds` needs `CapSafe`: the counter includes a trade that is counted and not
  yet published, days to come have no trades, and a decision found below the cap at
  `Take` still is when it is counted, because midnight only brings an empty day.
- `RebalancesApart` needs `ApartSafe`: of every published REBALANCE, `latest.alpha.major.ts`
  is as late or later in feature time and was written no earlier by the clock, or it is
  about to be written, or a fault has kept it from being written, or the REBALANCE is an
  expiry old. After an expiry a late message may set the key back, which is why the
  second clock is needed.
- `CooldownEarned` needs only that stored reversals had opposite signals; the rest is
  the cardinality of a subset.
- `GrantsWithinRate` needs `BucketInv`: what is in the bucket and what was granted are
  paid for by the time up to the stored stamp, plus the lateness of the calls that put
  the stamp back; a key that Redis forgets was full.
- `KnownUnlessLost` and `GoneMeansGone` need `OrdersInv`, which holds per order; the work
  is in what each of the four adapters may answer (`PlacedFacts`, `StatusFacts`). An order
  whose cancel had no effect carries a mark of its own (`lapsed`).
- `RepeatsOnlyByRace` needs `Checked`: a run about to append has read a prefix of the
  file in which the key does not occur, and the file only grows (`FileGrows`).
- `ExposureCountsABarOnce` follows from `RepeatsOnlyByRace` once the rows are sound
  (`SoundRow`): a valid row's id is that of its bar and of the symbols with usable data
  (`IdOf`), so that two rows of one bar, symbol and set of usable symbols have one key.
  What makes it so is `AggregateFacts`: the candidates of one bar are all valid, or, without
  a bar, all invalid, and a merged event of usable data never has a single leg, whose id
  would be the candidate's.
- `OnlyFreshCompletedBars` needs that the events a run still holds are sound at its own
  as_of (`IsRun`), whatever the clock and the cache say when a signal is written.
- `V17TargetsWithinCaps` is arithmetic: a sum scaled to a cap and rounded leg by leg
  exceeds it by at most half a unit a leg (`ScaledSum`), and a leg that is scaled down does
  not grow by rounding (`ScaledDown`). The net cap of the alpha service holds because its
  weights have one size (`OfOneSize`), before and after each rescaling: legs of several
  sizes of which some round to nothing could exceed it by more.
- `SubmitReportedFirst`, `OpenOrdersWatched` and `ReplaceOnlyAfterFailure` share one
  invariant over both threads of `OrderTracker`: what the main thread has in hand is the
  order it last placed (`CurrentOk`), an item of the queue or of the tracker's pass was
  handed over after its report (`ItemsHanded`), the outcome the tracker is about to write
  is true of its order (`OutcomeOk`), an order without a dedup key of its own is either in
  hand or excused by a fault (`KeysSafe`), and what is not yet placed is not yet reported
  (`UnplacedUnreported`).
- `RepeatsOnlyByFaults` needs `RunsPaid`: for each message the outputs that are out, and
  those its outstanding entries may still cause, are within one and the faults so far.
  An entry that is read again after a restart is one that the restart has paid for.
- `CachedMidsFresh` needs `FeedInv`, which relates the age of the feed to the messages
  that left the symbol out.
- `LargerOnlyByGuess` needs `SizesInv`: each order of the book carries the two readings of
  the specification it was made with, and the prepared slice (`SliceInv`) the first of
  them. The arithmetic of floors is nonlinear and done once, in lemmas.
- `SnapshotTrue` needs `SnapshotInv`: the fills a pass has read, and those it has
  published, are fills the account still has; the published position is their sum, unless
  the answer was blank, and none of them is among the open orders of the same snapshot.
- `ApprovedWithinLimits`, `ReduceOnlyShrinks`, `TurnoverWithinCap`, `CandidateWithinLimits`
  and `ClosedNeverGrows` need `TargetInv`: the approved weights are those of
  `ApplyPositionLimits` for the target, held to the position under REDUCE_ONLY, and a target
  of layer 2 that trades is its candidate, which is `Sound`: within every bound that its position and its previous target
  were within (the bounds are quantified, so that caps, emptied symbols and the direction
  are cases of one invariant). The sums of weights are folds over sets of symbols; what is
  needed of them (a sum is monotone, triangular, scales with its terms) is proved by
  well-founded minimality over finite sets (`WFMin`), because the induction theorems of
  the library cannot be instantiated. The attempt found that an earlier net clause of
  `CandidateWithinLimits` was true of the checked instance only: the symbols dropped as
  dust may add their own weight to the net, and without a net cap there is nothing to
  bound; the clause now says so.
- `SnapshotsInOrder` needs `ClockInv`: before a pass appends a minute that is there
  already, the failed pass that caused it has been counted.
- `CurrentBlockGuides` needs `FlowInv`, which speaks of calm minutes (no hitch and no start
  of a process in them): in a calm minute a block is taken in the minute it is made, at the
  top of the hour; the debounce refuses it only when the bias is of this very minute; the
  snapshots in hand are of the minute just ended. The proof uses the copy of the bias in
  memory only: the copy in Redis matters after restarts, which is before the calm.

Only model-checked: liveness (`Drains`, `Delivery` beyond its safety, `TrackedOrdersEnd`,
`CommandsConsumed`, `EndedOrdersLeave`, `RejectHaltClears`), since the provers handle
neither fairness nor ENABLED. Every safety property of a passing run is a theorem.

## 5. What is not modelled

- Trimming of streams (MAXLEN), creation of a group that is missing, entries without
  the field `p`, expiry of keys (dedup and `exec.cycle.done` after an hour, `ctl.mode`
  and the streak after seven days, the snapshot after one minute: a missing
  snapshot is an input of `RiskEngine`; `latest.alpha.target` an hour after the last
  decision and the reversals a minute after their window, either of which only leaves
  fewer signals to count as reversals). `latest.alpha.major.ts` does expire, in
  `DecisionCycle`.
- The DRY_RUN branch of execution, invalid commands, prices of orders.
- In `ControlModes`, resting orders that fill later; in `PositionLimits`, a target
  that lists a symbol twice, and rounding of floating point (the code's tests allow
  1e-12).
- In `PortfolioState`, the figures of the snapshot and the alarm and error streak that
  accompany it, the order of polling when more than fifty orders are active, the
  lengths of backoffs, the expiry of the active set.
- In `ShadowTrading`, the csv header: that two runners write it twice, after which nothing
  more is read or appended, is not a behaviour of the model.
- In `DecisionCycle`, an XADD repeated after a lost reply. In `ai_decision`, everything for
  a language model: `main` does not call it. `config_loader.py` reads a file.
- The numbers of market_data (returns, volatilities, order book metrics): formulas over
  windows of samples. Those the decisions depend on are inputs of `QuantBias` and
  `TargetWeights`.
- Order books, recent trades, request signing and retries inside the HTTP libraries of the
  adapters; `instrument_registry.py`, which only tests use.
- The idempotency key of `openclaw_ops` (read, act, remember, with nothing between two
  requests), its routes; the live-canary configuration and acceptance, which are
  stateless checks.
- `reporting`: insert, commit, acknowledge. The fault model is that of `StreamGroup`, a
  redelivered entry becomes a second row, and nothing but people read the tables.
- Prices and returns in the shadow ledger, the markdown of its report.
- The research and backtesting code, the operational scripts, the LLM client and the
  metrics: offline computation or input and output.
- Several consumers of one group: each service runs one.

## 6. Plan

1. Done: the bus and its contract, orders and tracker, control modes, the risk
   engine, the portfolio's state, layer 2, with proofs of their safety.
2. Done: market_data with layer 1 (`FeatureFlow`), the arithmetic of the targets through
   both services (`TargetLimits`), the four adapters and the token bucket
   (`ExchangeVenue`), the v17 pipeline (`ShadowTrading`); first proofs for the last two.
3. Done: proofs of every safety property that is checked.
4. Composition: `OrderTracker` with the reports that `PortfolioState` consumes,
   `RiskEngine` with `ControlModes` (one `ctl.mode`, read by two services).
