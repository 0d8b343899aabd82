-------------------------- MODULE ShadowSignals --------------------------
(***************************************************************************)
(* The pure part of the v17 shadow pipeline: what one run of               *)
(* services/v17_shadow/runner.py makes of the hourly bars in the cache.    *)
(* Reader (v17_data_builder/ohlcv_cache.py), features (features.py),       *)
(* quality score (v17_signal_engine/quality.py), candidate signal          *)
(* (event_aggregator.py) and the merging of the candidates of one hour     *)
(* into an event (runner.py).                                              *)
(*                                                                         *)
(* Times are ticks, TicksPerBar to a bar; a bar is named by its hour and   *)
(* its timestamp is the hour's first tick.  Weights are whole units, ranks *)
(* and scores are percent, returns are basis points.                       *)
(***************************************************************************)
EXTENDS Units, Sequences, FiniteSetsExt

SX == INSTANCE SequencesExt

CONSTANTS
  SymbolOrder,  \* the symbols of the run, in the order they are given, none twice
  Side,         \* [symbol -> "LONG" | "SHORT" | "FLAT"]
  Bar,          \* [symbol -> [hour -> bar]]: what the cache may come to hold
  TicksPerBar,  \* BAR_INTERVAL and the entry delay
  Tolerance,    \* freshness.max_completed_bar_lag_seconds
  RankWindow,   \* DEFAULT_RANK_WINDOW
  AtrCap,       \* atr_pct_cap, in percent
  EventCap      \* caps.max_event_gross

Symbols == Range(SymbolOrder)
FirstSymbol(S) == SymbolOrder[Min({i \in DOMAIN SymbolOrder : SymbolOrder[i] \in S})]
None == -1  \* the hour of an event without a bar: its times are ""

----------------------------------------------------------------------------
(* The cache reader. *)

\* As if a bar counted from its start.
Started(h, asOf) == h * TicksPerBar <= asOf

\* _classify_bar: a bar counts when its hour is over.
Completed(h, asOf) == h * TicksPerBar + TicksPerBar <= asOf

\* read_symbol with min_history = MIN_HISTORY_BARS: a hole in the history is
\* not looked at, only how many bars there are and how old the last one is.
ReadSymbol(cache, s, asOf) ==
  LET hours == {h \in cache[s] : Completed(h, asOf)}
      invalid(reason) == [status |-> "invalid", reason |-> reason, hours |-> {}]
  IN  IF cache[s] = {} THEN invalid("missing_symbol")
      ELSE IF Cardinality(hours) < RankWindow + 1 THEN invalid("insufficient_history")
      ELSE IF asOf - Max(hours) * TicksPerBar > Tolerance THEN invalid("stale_bar")
      ELSE [status |-> "valid", reason |-> "", hours |-> hours]

----------------------------------------------------------------------------
(* Features of the last bar against its window. *)

Momentum(previous, bar) ==
  ((bar.close - previous.close) * 10000) \div previous.close

SideAdjusted(momentum, side) ==
  CASE side = "SHORT" -> -momentum
    [] side = "FLAT"  -> 0
    [] side = "LONG"  -> momentum

TrueRange(previous, bar) ==
  Max({bar.high - bar.low, AbsOf(bar.high - previous.close),
       AbsOf(bar.low - previous.close)})

\* below + half of the equal ones, as a percentage of the window.
PercentileRank(value, window) ==
  LET count(Test(_)) == Cardinality({i \in DOMAIN window : Test(window[i])})
  IN  (100 * (2 * count(LAMBDA x : x < value) + count(LAMBDA x : x = value)))
        \div (2 * Len(window))

Features(bars, side) ==
  LET n == Len(bars)
      window(F(_)) == [i \in 1 .. RankWindow |-> F(n - RankWindow + i)]
      range(i) == bars[i].high - bars[i].low
      volume(i) == bars[i].volume
      momentum(i) == SideAdjusted(Momentum(bars[i - 1], bars[i]), side)
      trueRange(i) == TrueRange(bars[i - 1], bars[i])
  IN  [range_rank |-> PercentileRank(range(n), window(range)),
       volume_rank |-> PercentileRank(volume(n), window(volume)),
       side_momentum_rank |-> PercentileRank(momentum(n), window(momentum)),
       atr_pct |-> (100 * Sum(window(trueRange))) \div (RankWindow * bars[n].close)]

----------------------------------------------------------------------------
(* Quality score and label. *)

Clamp01(percent) == Max({0, Min({percent, 100})})

\* DEFAULT_FEATURE_WEIGHTS and DEFAULT_QUALITY_THRESHOLDS: the configuration
\* has no quality_score section.
QualityScore(f) ==
  (30 * Clamp01(f.range_rank) + 30 * Clamp01(f.volume_rank)
     + 30 * Clamp01(f.side_momentum_rank)
     + 10 * Clamp01((100 * f.atr_pct) \div AtrCap)) \div 100

LabelForScore(score) ==
  IF score >= 75 THEN "Q1"
  ELSE IF score >= 55 THEN "Q2"
  ELSE IF score >= 35 THEN "Q3" ELSE "Q4"

\* label_cap_multipliers, in quarters of the event cap.
CapMultiplier == [Q1 |-> 4, Q2 |-> 3, Q3 |-> 2, Q4 |-> 1]

----------------------------------------------------------------------------
(* Candidate signals and events. *)

\* The text ids say no more than these fields: a candidate's id names symbol,
\* side and bar; a merged event's id names the bar and the set of symbols.
CandidateId(s, h) == [kind |-> "candidate", bar |-> h, symbols |-> {s}, side |-> Side[s]]
MergedId(h, S) == [kind |-> "merged", bar |-> h, symbols |-> S, side |-> ""]

SignedWeight(w, side) == SideAdjusted(w, side)

\* An event has one leg for each of its symbols.
BuildCandidate(cache, s, asOf) ==
  LET read == ReadSymbol(cache, s, asOf)
      valid == read.status = "valid"
      h == IF valid THEN Max(read.hours) ELSE None
      hours == SX!SetToSortSeq(read.hours, <)
      bars == [i \in DOMAIN hours |-> Bar[s][hours[i]]]
      raw == Rounded(EventCap * CapMultiplier[LabelForScore(QualityScore(Features(bars, Side[s])))], 4)
      leg == [status |-> read.status,
              weight |-> IF valid THEN SignedWeight(raw, Side[s]) ELSE 0]
  IN  [id |-> CandidateId(s, h), bar |-> h, status |-> read.status, legs |-> [x \in {s} |-> leg]]

\* _merge_event_group: only the valid legs, scaled to the cap together; the
\* invalid ones only when there is nothing else.
MergeGroup(h, group, candidates) ==
  LET leg(s) == candidates[s].legs[s]
      valid == {s \in group : leg(s).status = "valid"}
      gross == AbsSum([s \in valid |-> leg(s).weight])
      scaled(w) == IF gross > EventCap THEN Rounded(w * EventCap, gross) ELSE w
  IN  IF valid # {}
      THEN [id |-> MergedId(h, valid), bar |-> h, status |-> "valid",
            legs |-> [s \in valid |-> [status |-> "valid", weight |-> scaled(leg(s).weight)]]]
      ELSE [id |-> MergedId(h, group), bar |-> h, status |-> "invalid",
            legs |-> [s \in group |-> leg(s)]]

\* _aggregate_candidate_events: one event for the candidates of each bar.
Aggregate(candidates) ==
  LET group(h) == {s \in Symbols : candidates[s].bar = h}
      event(h) == IF Cardinality(group(h)) = 1
                  THEN candidates[FirstSymbol(group(h))]
                  ELSE MergeGroup(h, group(h), candidates)
  IN  {event(candidates[s].bar) : s \in Symbols}

\* As if the event id carried the time of the run.
EventsStamped(cache, asOf) ==
  {[e EXCEPT !.id.bar = asOf] :
     e \in Aggregate([s \in Symbols |-> BuildCandidate(cache, s, asOf)])}

\* The events of a run
EventsOf(cache, asOf) == Aggregate([s \in Symbols |-> BuildCandidate(cache, s, asOf)])
=============================================================================
