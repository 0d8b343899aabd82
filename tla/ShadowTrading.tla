-------------------------- MODULE ShadowTrading --------------------------
(***************************************************************************)
(* The v17 shadow pipeline at work: runners (services/v17_shadow/runner.py)*)
(* that turn the cache of hourly bars into signals and ledger rows, the    *)
(* csv ledger they share (ledger.py), the bridge that turns ledger rows    *)
(* into targets (target_bridge.py), the daily report (reporting.py) and    *)
(* the alpha service (services/v17_alpha/app.py).                          *)
(*                                                                         *)
(* The ledger is a file: append_row reads it, decides, and appends, with   *)
(* nothing that keeps another process out in between.  A run holds its     *)
(* events in memory and loses them when it is killed or when the signal    *)
(* writer raises.                                                          *)
(***************************************************************************)
EXTENDS ShadowSignals, V17Alpha

CONSTANTS
  Runners,         \* processes that may run the pipeline
  StartNow,        \* the clock at the start
  History,         \* [Symbols -> SUBSET hours]: the cache at the start
  LateHours,       \* [Symbols -> SUBSET hours]: bars that arrive during the run
  BridgeSymbolCap, \* caps.max_symbol_gross
  Configs,         \* contents the configuration file may have
  AlphaSnapshots,  \* values of the newest 15-minute features; <<>> for none
  MaxNow,          \* bound of the model: the clock
  MaxRuns,         \* bound of the model: runs started
  MaxFaults        \* bound of the model: kills and signal writes that raise

ASSUME ShadowAssumption ==
  /\ TicksPerBar \in Nat \ {0} /\ Tolerance \in Nat /\ RankWindow \in Nat \ {0}
  /\ EventCap \in Nat \ {0} /\ BridgeSymbolCap \in Nat \ {0}
  /\ SymbolOrder \in Seq(Symbols) \ {<<>>} /\ IsInjective(SymbolOrder)
  /\ Side \in [Symbols -> {"LONG", "SHORT", "FLAT"}]
  /\ StartNow \in Nat
  /\ History \in [Symbols -> SUBSET Nat] /\ LateHours \in [Symbols -> SUBSET Nat]
  /\ \A s \in Symbols : IsFiniteSet(History[s])
  /\ \A f \in AlphaSnapshots : IsFiniteSet(DOMAIN f)

VARIABLES
  service,  \* what is deployed: "pipeline" or "alpha", which share no state
  now,      \* the clock, in ticks
  cache,    \* [Symbols -> SUBSET hours]: the bars in the csv cache
  runner,   \* [Runners -> state of the run]
  ledger,   \* the rows of the ledger file
  signals,  \* signals written: the event and the as_of of its run
  targets,  \* targets published by the last pass of the bridge
  alpha,    \* last target of the alpha service, its stream, and whether
            \* V17_ALPHA_LIVE_TARGET_APPROVED was set
  runs, faults  \* counters of the bounds

vars == <<service, now, cache, runner, ledger, signals, targets, alpha, runs, faults>>

Idle == [pc |-> "idle", asOf |-> 0, events |-> {}, legs |-> {}, seen |-> 0]

\* The event a run is at, those with earlier bars first ("" before all), and the
\* symbol of the leg it is at.
Earliest(events) == CHOOSE e \in events : \A f \in events : e.bar <= f.bar
Event(r) == Earliest(runner[r].events)
Leg(r) == FirstSymbol(runner[r].legs)

----------------------------------------------------------------------------
(* The ledger. *)

\* The leg_id is the index of the leg in its event, which the symbol stands for:
\* the legs of an event are in the order of the run's symbols.
LedgerKey(row) == <<row.id, row.symbol>>
Active == {i \in DOMAIN ledger : ledger[i].status # "duplicate"}

\* As if only valid rows were looked up.
ValidKeys == {LedgerKey(ledger[i]) : i \in {j \in Active : ledger[j].status = "valid"}}

ActiveKeys == {LedgerKey(ledger[i]) : i \in Active}

\* append_leg: the status of the leg, or of the event when that is not valid.
RowOf(event, s, seen) ==
  [id |-> event.id, bar |-> event.bar, symbol |-> s, weight |-> event.legs[s].weight,
   status |-> IF event.status = "valid" THEN event.legs[s].status ELSE event.status,
   seen |-> seen]

DuplicateRow(row) == [row EXCEPT !.status = "duplicate", !.weight = 0]

----------------------------------------------------------------------------
(* The checks on the configuration, made before anything is read or written. *)

PaperOnly(c) == c.mode = "paper_shadow" /\ c.dry_run /\ ~c.real_money

\* validate_shadow_config: the runner also runs without a target stream.
RunnerAccepts(c) ==
  /\ PaperOnly(c)
  /\ c.signals = "v17.signals"
  /\ c.target \in {"", "alpha.target.v17_shadow"}

\* validate_target_bridge_config
BridgeAccepts(c) == PaperOnly(c) /\ c.target = "alpha.target.v17_shadow"

----------------------------------------------------------------------------
(* The runner: one run of run_shadow_once. *)

\* The reader takes the cache file as it is now, and every event of the run is
\* computed from it before the first one is written.  A disabled pipeline
\* reports every symbol as blocked and writes nothing.
StartRun(r) ==
  /\ runner[r].pc = "idle"
  /\ \E c \in Configs : RunnerAccepts(c) /\ c.enabled
  /\ runs < MaxRuns
  /\ runs' = runs + 1
  /\ runner' = [runner EXCEPT ![r] =
       [Idle EXCEPT !.pc = "signal", !.asOf = now, !.events = EventsOf(cache, now)]]
  /\ UNCHANGED <<now, cache, ledger, signals, targets, alpha, faults>>

WriteSignal(r) ==
  /\ runner[r].pc = "signal"
  /\ signals' = signals \cup {[event |-> Event(r), asOf |-> runner[r].asOf]}
  /\ runner' = [runner EXCEPT ![r].pc = "check", ![r].legs = DOMAIN Event(r).legs]
  /\ UNCHANGED <<now, cache, ledger, targets, alpha, runs, faults>>

\* append_row up to the decision: the keys of the rows that are in the file.
CheckKey(r) ==
  /\ runner[r].pc = "check"
  /\ runner' = [runner EXCEPT ![r].seen = Len(ledger),
       ![r].pc = IF <<Event(r).id, Leg(r)>> \in ActiveKeys THEN "repeat" ELSE "append"]
  /\ UNCHANGED <<now, cache, ledger, signals, targets, alpha, runs, faults>>

\* The run goes on with the next leg, the next event, or ends.
AfterLeg(r) ==
  LET legs == runner[r].legs \ {Leg(r)}
      events == runner[r].events \ {Event(r)}
  IN  IF legs # {} THEN [runner[r] EXCEPT !.pc = "check", !.legs = legs]
      ELSE IF events # {} THEN [runner[r] EXCEPT !.pc = "signal", !.events = events, !.legs = {}]
      ELSE Idle

\* The row goes to the end of the file.
AppendRow(r) ==
  /\ runner[r].pc \in {"append", "repeat"}
  /\ LET row == RowOf(Event(r), Leg(r), runner[r].seen)
     IN  ledger' = Append(ledger, IF runner[r].pc = "repeat" THEN DuplicateRow(row) ELSE row)
  /\ runner' = [runner EXCEPT ![r] = AfterLeg(r)]
  /\ UNCHANGED <<now, cache, signals, targets, alpha, runs, faults>>

\* The process is killed, or the signal writer raises: the rest of the run is
\* lost, what was written stays.
Abort(r) ==
  /\ runner[r].pc # "idle"
  /\ faults < MaxFaults
  /\ faults' = faults + 1
  /\ runner' = [runner EXCEPT ![r] = Idle]
  /\ UNCHANGED <<now, cache, ledger, signals, targets, alpha, runs>>

----------------------------------------------------------------------------
(* The bridge. *)

\* As if only the symbol cap were applied.
CapSymbols(legs) ==
  [i \in DOMAIN legs |-> [symbol |-> legs[i].symbol,
                          weight |-> Clip(legs[i].weight, BridgeSymbolCap)]]

\* _cap_legs: each leg to the symbol cap, then all to the event cap.
CapLegs(legs) ==
  LET capped == [i \in DOMAIN legs |-> Clip(legs[i].weight, BridgeSymbolCap)]
      gross == AbsSum(capped)
      fitted(w) == IF gross > EventCap THEN Rounded(w * EventCap, gross) ELSE w
  IN  [i \in DOMAIN legs |-> [symbol |-> legs[i].symbol, weight |-> fitted(capped[i])]]

\* event_from_ledger_rows: a leg for each valid row of the event
ValidRows(id) == {i \in DOMAIN ledger : ledger[i].status = "valid" /\ ledger[i].id = id}
LegsOf(id) ==
  [i \in ValidRows(id) |-> [symbol |-> ledger[i].symbol, weight |-> ledger[i].weight]]

\* bridge_ledger: a target for every event that has a valid row, whenever it
\* was recorded and whether or not all its legs are there.
BridgeLedger ==
  /\ \E c \in Configs :
       /\ BridgeAccepts(c)
       /\ targets' = {[id |-> ledger[i].id, stream |-> c.target,
                       legs |-> CapLegs(LegsOf(ledger[i].id))] :
                         i \in {j \in DOMAIN ledger : ledger[j].status = "valid"}}
  /\ UNCHANGED <<now, cache, runner, ledger, signals, alpha, runs, faults>>

----------------------------------------------------------------------------
(* The daily report, for the bars of a set of hours. *)

RowsFor(hours) == {i \in DOMAIN ledger : ledger[i].bar \in hours}

WithStatus(hours, status) == {i \in RowsFor(hours) : ledger[i].status = status}

\* build_daily_report: duplicates are counted, and add no exposure.
DailyReport(hours) ==
  [signal_count |-> Cardinality(RowsFor(hours)),
   valid_count |-> Cardinality(WithStatus(hours, "valid")),
   duplicate_count |-> Cardinality(WithStatus(hours, "duplicate")),
   exposure |-> [s \in Symbols |->
     Sum([i \in {j \in WithStatus(hours, "valid") : ledger[j].symbol = s} |-> ledger[i].weight])]]

----------------------------------------------------------------------------
(* The alpha service: one run_once. *)

AlphaRunOnce ==
  \E hasState \in BOOLEAN, features \in AlphaSnapshots, approved \in BOOLEAN,
     requested \in {"alpha.target.v17_shadow", "alpha.target.v17_live", "alpha.target"} :
    /\ TargetStream(requested, approved) # "refused"
    /\ alpha' = [stream |-> TargetStream(requested, approved), approved |-> approved,
                 target |-> BuildTarget(hasState, features)]
    /\ UNCHANGED <<now, cache, runner, ledger, signals, targets, runs, faults>>

----------------------------------------------------------------------------

Tick ==
  /\ now < MaxNow
  /\ now' = now + 1
  /\ UNCHANGED <<cache, runner, ledger, signals, targets, alpha, runs, faults>>

\* The cache file is brought up to date by another program; a bar may come
\* before it is complete, late, or not at all.
BarArrives(s) ==
  /\ \E h \in LateHours[s] \ cache[s] :
       /\ h * TicksPerBar <= now
       /\ cache' = [cache EXCEPT ![s] = @ \cup {h}]
  /\ UNCHANGED <<now, runner, ledger, signals, targets, alpha, runs, faults>>

Init ==
  /\ service \in {"pipeline", "alpha"}
  /\ now = StartNow
  /\ cache = History
  /\ runner = [r \in Runners |-> Idle]
  /\ ledger = <<>>
  /\ signals = {}
  /\ targets = {}
  /\ alpha = [stream |-> "", approved |-> FALSE, target |-> BuildTarget(FALSE, NoWeights)]
  /\ runs = 0
  /\ faults = 0

RunnerStep(r) ==
  StartRun(r) \/ WriteSignal(r) \/ CheckKey(r) \/ AppendRow(r) \/ Abort(r)

PipelineStep ==
  \/ \E r \in Runners : RunnerStep(r)
  \/ \E s \in Symbols : BarArrives(s)
  \/ BridgeLedger
  \/ Tick

Next ==
  /\ \/ service = "pipeline" /\ PipelineStep
     \/ service = "alpha" /\ AlphaRunOnce
  /\ UNCHANGED service

Spec == Init /\ [][Next]_vars

----------------------------------------------------------------------------
(* Properties. *)

\* append_row keeps each leg of an event once: a second row of the same key
\* that is not marked duplicate exists only when two runs read the file before
\* either had written it (ledger.py:64-75).  A killed or repeated run alone
\* never counts a leg twice.
RepeatsOnlyByRace ==
  \A i, j \in Active :
    i < j /\ LedgerKey(ledger[i]) = LedgerKey(ledger[j]) => ledger[j].seen < i

\* The report counts a bar of a symbol once, however often the hour is run and
\* whatever was killed, unless two runs raced for the row, or the set of symbols
\* with usable data had changed between them: the event id names that set, and
\* the bar is then counted under both ids.
ExposureCountsABarOnce ==
  \A s \in Symbols, h \in {ledger[i].bar : i \in DOMAIN ledger} \ {None} :
    LET rows == {i \in WithStatus({h}, "valid") : ledger[i].symbol = s}
    IN  (/\ rows # {}
         /\ \A i, j \in rows : ledger[i].id.symbols = ledger[j].id.symbols
         /\ \A i, j \in rows : i < j => ledger[j].seen >= i)
        => \A i \in rows : DailyReport({h}).exposure[s] = ledger[i].weight

\* A valid signal rests on a bar that was complete, and not older than the
\* tolerance, at the as_of of its run, and so does every leg in it.
OnlyFreshCompletedBars ==
  \A sig \in signals : sig.event.status = "valid" =>
    /\ (sig.event.bar + 1) * TicksPerBar <= sig.asOf
    /\ sig.asOf - sig.event.bar * TicksPerBar <= Tolerance
    /\ \A s \in DOMAIN sig.event.legs : sig.event.legs[s].status = "valid"

GrossOf(legs) == AbsSum([i \in DOMAIN legs |-> legs[i].weight])

\* Whatever rows the ledger holds (part of an event, legs repeated by a race),
\* a bridged target keeps the event cap and each leg the symbol cap; the alpha
\* service keeps its gross and net caps. Neither writes the production stream,
\* whatever stream the configuration names, and only an approved alpha service
\* writes the live one. Each rounding may add half a unit, which is 5e-13 of equity.
V17TargetsWithinCaps ==
  /\ \A t \in targets :
       /\ t.stream = "alpha.target.v17_shadow"
       /\ 2 * (GrossOf(t.legs) - EventCap) <= Cardinality(DOMAIN t.legs)
       /\ \A i \in DOMAIN t.legs : AbsOf(t.legs[i].weight) <= BridgeSymbolCap
  /\ \/ alpha.stream \in {"", "alpha.target.v17_shadow"}
     \/ alpha.stream = "alpha.target.v17_live" /\ alpha.approved
  /\ LET w == alpha.target.weights
     IN  /\ 2 * (AbsSum(w) - AlphaMaxGross) <= Cardinality(DOMAIN w)
         /\ 2 * (AbsOf(Sum(w)) - AlphaMaxNet) <= Cardinality(DOMAIN w)
=============================================================================
