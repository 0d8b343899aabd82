---------------------------- MODULE RiskEngine ----------------------------
(***************************************************************************)
(* The main loop of services/risk_engine/app.py and its guards: each       *)
(* target portfolio is given a mode from the health of the state snapshot, *)
(* from guards that remember earlier cycles in Redis (the day's first      *)
(* equity, the peak, the streak of bad signal quality), from the rejected  *)
(* orders that execution reported, and from the operator's mode.           *)
(*                                                                         *)
(* The weights that are approved under that mode are in PositionLimits,    *)
(* delivery, retries and dead letters of the targets in StreamGroup.       *)
(***************************************************************************)
EXTENDS Integers, Sequences, FiniteSets

CONSTANTS
  Equities,      \* what the account may be worth
  DailyReduce,   \* DAILY_LOSS_REDUCE_ONLY_PCT, in percent
  DailyHalt,     \* DAILY_LOSS_HALT_PCT, in percent
  PeakHalt,      \* PEAK_DRAWDOWN_HALT_PCT, in percent
  IcStreak,      \* IC_DECAY_STREAK_REDUCE_ONLY
  RejectReduce,  \* CONSECUTIVE_REJECTED_REDUCE_ONLY
  RejectHalt,    \* CONSECUTIVE_REJECTED_HALT
  ScanLimit,     \* EXEC_REPORT_SCAN_LIMIT
  MaxDay,        \* bound of the model: days that pass
  MaxObs,        \* bound of the model: observations of the signal quality
  MaxSent,       \* bound of the model: approved portfolios execution has not read
  MaxFaults      \* bound of the model: handlers that raise, here and in execution,
                 \* and messages execution cannot use

ASSUME RiskAssumption ==
  /\ Equities \subseteq Nat \ {0}
  /\ DailyReduce \in Nat \ {0} /\ DailyHalt \in Nat \ {0} /\ PeakHalt \in Nat \ {0}
  /\ IcStreak \in Nat \ {0}
  /\ RejectReduce \in Nat \ {0} /\ RejectHalt \in Nat \ {0} /\ ScanLimit \in Nat \ {0}
  /\ MaxDay \in Nat \ {0}
  /\ MaxObs \in Nat /\ MaxSent \in Nat \ {0} /\ MaxFaults \in Nat

VARIABLES
  live,      \* V17_LIVE_EXECUTION
  equity,    \* equity in latest.state.snapshot when it is healthy
  day,       \* the UTC day
  icLog,     \* observations written to ic.signal_ic_latest, the last one is there
  baseline,  \* risk.daily_baseline.<day>; 0 when absent
  peak,      \* risk.peak_equity; 0 when absent
  streak,    \* risk.ic_decay_streak: its count and the observation seen last
  rejects,   \* trailing REJECTED reports of exec.reports, within ScanLimit
  pc,        \* what the handler does next
  st,        \* the snapshot it works with, and the day its loss is taken on
  mode,      \* the mode so far, then the mode of the approved portfolio
  sent,      \* decision_action of the approved portfolios execution has not read
  faults,    \* of those bounded by MaxFaults, so far
  opening,   \* history: equity of the first snapshot evaluated on each day
  highest    \* history: highest equity evaluated

world == <<live, equity, day, icLog>>
guards == <<baseline, peak, streak>>
history == <<opening, highest>>
vars == <<live, equity, day, icLog, baseline, peak, streak, rejects, pc, st, mode,
          sent, faults, opening, highest>>

Modes == {"NORMAL", "REDUCE_ONLY", "HALT"}
Days == 1 .. MaxDay
\* PROTECTIVE_ONLY is treated like HOLD by execution.
Actions == {"REBALANCE", "HOLD"}
Observations == {"decayed", "good", "unknown"}
Score == [NORMAL |-> 0, REDUCE_ONLY |-> 1, HALT |-> 2]

\* escalate_mode
Escalate(m1, m2) == IF Score[m2] > Score[m1] THEN m2 ELSE m1

\* mode_from_daily_loss and mode_from_reject_streak: the harder limit first
ModeFrom(halt, reduceOnly) ==
  IF halt THEN "HALT" ELSE IF reduceOnly THEN "REDUCE_ONLY" ELSE "NORMAL"

\* (from - to) / from >= pct
Lost(from, to, pct) == 100 * (from - to) >= pct * from

NoSnapshot == [eq |-> 0, day |-> 0]

Init ==
  /\ live \in BOOLEAN
  /\ equity \in Equities
  /\ day = 1
  /\ icLog = <<>>
  /\ baseline = [d \in Days |-> 0]
  /\ peak = 0
  /\ streak = [n |-> 0, ts |-> 0]
  /\ rejects = 0
  /\ pc = "load"
  /\ st = NoSnapshot
  /\ mode = "NORMAL"
  /\ sent = <<>>
  /\ faults = 0
  /\ opening = [d \in Days |-> 0]
  /\ highest = 0

-----------------------------------------------------------------------------
(* The handler of a target portfolio *)

\* "unfit" is the snapshot of a paper account, or one under the equity floor of
\* live trading.
Snapshots == {"missing", "unhealthy", "unfit", "stale", "fresh"}

\* health_mode
HealthMode(kind) ==
  CASE kind \in {"missing", "unhealthy"} -> "HALT"
    [] kind = "unfit" -> IF live THEN "HALT" ELSE "NORMAL"
    [] kind = "stale" -> "REDUCE_ONLY"
    [] kind = "fresh" -> "NORMAL"

\* A target is read and the latest snapshot with it. The snapshot of a failed
\* reconciliation is worth nothing.
Load ==
  /\ pc = "load"
  /\ Len(sent) < MaxSent
  /\ \E kind \in Snapshots :
       /\ mode' = HealthMode(kind)
       /\ st' = [eq |-> IF kind \in {"missing", "unhealthy"} THEN 0 ELSE equity, day |-> 0]
  /\ pc' = "daily"
  /\ UNCHANGED <<rejects, sent, faults>>
  /\ UNCHANGED world /\ UNCHANGED guards /\ UNCHANGED history

\* Variant: the baseline follows the equity down to the latest snapshot.
RefreshedBaseline ==
  IF baseline[day] > 0 /\ baseline[day] < st.eq THEN baseline[day] ELSE st.eq

\* daily_equity_baseline: what is stored for the day, else the current equity.
DailyEquityBaseline == IF baseline[day] > 0 THEN baseline[day] ELSE st.eq

\* The daily loss guard, on the day of the call.
DailyLoss ==
  /\ pc = "daily"
  /\ IF st.eq > 0
     THEN LET base == DailyEquityBaseline
          IN  /\ baseline' = [baseline EXCEPT ![day] = base]
              /\ st' = [eq |-> st.eq, day |-> day]
              /\ opening' = [opening EXCEPT ![day] = IF @ = 0 THEN st.eq ELSE @]
              /\ mode' = Escalate(mode, ModeFrom(Lost(base, st.eq, DailyHalt),
                                                 Lost(base, st.eq, DailyReduce)))
     ELSE UNCHANGED <<baseline, st, opening, mode>>
  /\ pc' = "peak"
  /\ UNCHANGED <<peak, streak, rejects, sent, faults, highest>>
  /\ UNCHANGED world

\* peak_equity_guard: without a stored peak the current equity is the peak, and
\* only a peak that is exceeded is stored.
PeakEquity ==
  /\ pc = "peak"
  /\ IF st.eq > 0
     THEN LET stored == IF peak > 0 THEN peak ELSE st.eq
              top == IF st.eq > stored THEN st.eq ELSE stored
          IN  /\ peak' = IF st.eq > stored THEN st.eq ELSE peak
              /\ highest' = IF st.eq > highest THEN st.eq ELSE highest
              /\ mode' = Escalate(mode, ModeFrom(Lost(top, st.eq, PeakHalt), FALSE))
     ELSE UNCHANGED <<peak, highest, mode>>
  /\ pc' = "ic"
  /\ UNCHANGED <<baseline, streak, rejects, st, sent, faults, opening>>
  /\ UNCHANGED world

NextStreak(ts) ==
  [n |-> IF icLog[ts] = "decayed" THEN streak.n + 1 ELSE 0, ts |-> ts]

\* Variant: every cycle counts, whether or not it sees a new observation.
IcStreakOfCycles == NextStreak(Len(icLog))

\* The streak with the latest observation, unless that one was counted before.
IcStreakNow ==
  IF Len(icLog) = streak.ts THEN streak ELSE NextStreak(Len(icLog))

\* ic_decay_guard: without a value the guard is silent, whatever the streak is.
IcDecay ==
  /\ pc = "ic"
  /\ IF icLog = <<>> \/ icLog[Len(icLog)] = "unknown"
     THEN UNCHANGED <<streak, mode>>
     ELSE /\ streak' = IcStreakNow
          /\ mode' = Escalate(mode, ModeFrom(FALSE, streak'.n >= IcStreak))
  /\ pc' = "decide"
  /\ UNCHANGED <<baseline, peak, rejects, st, sent, faults>>
  /\ UNCHANGED world /\ UNCHANGED history

MergeModes(base, control) == Escalate(base, control)

\* mode_from_market_quality: rejected orders, latency, liquidity, basis and open
\* interest each call for a mode or for none, and the hardest counts.
MarketMode(calls) == ModeFrom("HALT" \in calls, "REDUCE_ONLY" \in calls)

\* get_control_mode: a missing key, or a word that is no mode, means NORMAL.
GetControlMode(word) == IF word \in Modes THEN word ELSE "NORMAL"

\* The streak of rejected orders, the quality of the market, the operator's
\* mode and, in live trading, the evidence of the target; then the approved
\* portfolio is published.
Decide ==
  /\ pc = "decide"
  /\ \E calls \in SUBSET Modes, word \in Modes \cup {"other"}, evidence \in BOOLEAN :
       LET reject == ModeFrom(rejects >= RejectHalt, rejects >= RejectReduce)
           base == Escalate(Escalate(mode, reject), MarketMode(calls))
           approval == IF live /\ ~evidence THEN "HALT" ELSE "NORMAL"
       IN  mode' = Escalate(MergeModes(base, GetControlMode(word)), approval)
  /\ \E action \in Actions :
       /\ mode' = "HALT" => action = "HOLD"
       /\ sent' = Append(sent, action)
  /\ pc' = "ack"
  /\ UNCHANGED <<rejects, st, faults>>
  /\ UNCHANGED world /\ UNCHANGED guards /\ UNCHANGED history

EndCycle ==
  /\ pc' = "load"
  /\ st' = NoSnapshot
  /\ mode' = "NORMAL"
  /\ UNCHANGED <<rejects, sent>>
  /\ UNCHANGED world /\ UNCHANGED guards /\ UNCHANGED history

\* The audit record and XACK
Ack ==
  /\ pc = "ack"
  /\ EndCycle
  /\ UNCHANGED faults

\* A call to Redis raises: the target goes to retry_or_dlq, and what the guards
\* have stored and what was published stays.
Raise ==
  /\ pc # "load"
  /\ faults < MaxFaults
  /\ faults' = faults + 1
  /\ EndCycle

Handle == Load \/ DailyLoss \/ PeakEquity \/ IcDecay \/ Decide \/ Ack

-----------------------------------------------------------------------------
(* The services around it *)

\* Variant: the heartbeat of a cycle without orders is reported REJECTED.
HeartbeatRejected ==
  rejects' = IF rejects < ScanLimit THEN rejects + 1 ELSE rejects

\* make_heartbeat_report: an ACK ends the streak.
Heartbeat == rejects' = 0

\* What the reports of a rebalance make of the streak, those of orders tracked for
\* a while included: any report but REJECTED ends it, and REJECTED may follow.
OrderReports == rejects' \in 0 .. ScanLimit

\* execution answers an approved portfolio: HOLD, which HALT implies, by a
\* heartbeat, a rebalance by whatever its orders come to. In live trading the
\* reports go to exec.reports.v17_live, which this guard never reads.
Answer ==
  /\ \/ live /\ UNCHANGED rejects
     \/ ~live /\ Head(sent) = "HOLD" /\ Heartbeat
     \/ ~live /\ Head(sent) = "REBALANCE" /\ OrderReports
  /\ sent' = Tail(sent)
  /\ UNCHANGED faults

\* latest.state.snapshot is missing, or the handler raises before or after the
\* reports of the plan: the message goes to the tail of risk.approved, or to its
\* dead letters when its retries are used up. A malformed message goes there at
\* once. None of these ends with a heartbeat.
GiveUp ==
  /\ faults < MaxFaults
  /\ faults' = faults + 1
  /\ sent' \in {Tail(sent), Append(Tail(sent), Head(sent))}
  /\ \/ UNCHANGED rejects
     \/ ~live /\ Head(sent) = "HOLD" /\ Heartbeat
     \/ ~live /\ Head(sent) = "REBALANCE" /\ OrderReports

\* execution reads an approved portfolio.
Execute ==
  /\ sent # <<>>
  /\ Answer \/ GiveUp
  /\ UNCHANGED <<pc, st, mode>>
  /\ UNCHANGED world /\ UNCHANGED guards /\ UNCHANGED history

\* portfolio_state publishes a snapshot of an account that gained or lost.
EquityMoves ==
  /\ equity' \in Equities \ {equity}
  /\ UNCHANGED <<live, day, icLog, rejects, pc, st, mode, sent, faults>>
  /\ UNCHANGED guards /\ UNCHANGED history

NextDay ==
  /\ day < MaxDay
  /\ day' = day + 1
  /\ UNCHANGED <<live, equity, icLog, rejects, pc, st, mode, sent, faults>>
  /\ UNCHANGED guards /\ UNCHANGED history

\* scripts/hourly_trading_health_report.py measures the signal.
ObserveIc ==
  /\ Len(icLog) < MaxObs
  /\ \E ic \in Observations : icLog' = Append(icLog, ic)
  /\ UNCHANGED <<live, equity, day, rejects, pc, st, mode, sent, faults>>
  /\ UNCHANGED guards /\ UNCHANGED history

Next ==
  \/ Handle \/ Raise \/ Execute
  \/ EquityMoves \/ NextDay \/ ObserveIc

Spec == Init /\ [][Next]_vars

\* Targets keep coming, hour after hour, and both services keep running. That
\* execution finds the snapshot but for MaxFaults times is the bound's doing.
FairSpec == Spec /\ WF_vars(Handle) /\ WF_vars(Execute)

-----------------------------------------------------------------------------
(* Properties *)

TypeOK ==
  /\ live \in BOOLEAN
  /\ equity \in Equities
  /\ day \in Days
  /\ icLog \in Seq(Observations) /\ Len(icLog) <= MaxObs
  /\ baseline \in [Days -> Equities \cup {0}]
  /\ peak \in Equities \cup {0}
  /\ streak \in [n : Nat, ts : 0 .. Len(icLog)]
  /\ rejects \in 0 .. ScanLimit
  /\ pc \in {"load", "daily", "peak", "ic", "decide", "ack"}
  /\ st \in [eq : Equities \cup {0}, day : 0 .. day]
  /\ mode \in Modes
  /\ sent \in Seq(Actions)
  /\ faults \in 0 .. MaxFaults
  /\ opening \in [Days -> Equities \cup {0}]
  /\ highest \in Equities \cup {0}

\* The approved portfolio of the current cycle is published.
Approved == pc = "ack" /\ st.eq > 0

\* A portfolio is approved with HALT, or not with NORMAL, when the account lost
\* the limit since the first snapshot evaluated on that day, whatever cycles
\* failed halfway, whatever the equity did in between, and across midnight.
DailyLossBinds ==
  Approved =>
    /\ Lost(opening[st.day], st.eq, DailyHalt) => mode = "HALT"
    /\ Lost(opening[st.day], st.eq, DailyReduce) => mode # "NORMAL"

\* The streak counts decayed observations, each once, however many cycles see it
\* and however often a cycle is retried; a good one that is seen ends it.
IcCountedOnce ==
  /\ streak.n <= Cardinality({k \in 1 .. streak.ts : icLog[k] = "decayed"})
  /\ streak.ts > 0 /\ icLog[streak.ts] # "decayed" => streak.n = 0

\* The docstring of peak_equity_guard: HALT when the drawdown from the peak
\* reaches PEAK_DRAWDOWN_HALT_PCT.
PeakDrawdownHalts == Approved /\ Lost(highest, st.eq, PeakHalt) => mode = "HALT"

\* The guard cannot lock itself in: HALT stops the orders and with them the
\* reports it looks at, yet the streak that caused it ends, also when execution
\* has no snapshot, or fails, for some of the portfolios held back.
RejectHaltClears == (~live /\ rejects >= RejectHalt) ~> (rejects < RejectHalt)

=============================================================================
