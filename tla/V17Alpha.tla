----------------------------- MODULE V17Alpha -----------------------------
(***************************************************************************)
(* The target that services/v17_alpha/app.py makes of the state snapshot   *)
(* and of the newest 15-minute features.  Weights are whole units (the     *)
(* twelve decimals of round), returns and volatility are basis points,     *)
(* spread is basis points and liquidity percent.                           *)
(***************************************************************************)
EXTENDS Units

CONSTANTS
  AlphaMaxSymbol,  \* caps.max_symbol_gross
  AlphaMaxGross,   \* caps.max_gross
  AlphaMaxNet,     \* caps.max_net
  AlphaBaseWeight  \* the 0.03 of _candidate_weights

ASSUME AlphaAssumption ==
  {AlphaMaxSymbol, AlphaMaxGross, AlphaMaxNet, AlphaBaseWeight} \subseteq Nat

NoWeights == [s \in {} |-> 0]

Tradable(f) ==
  /\ f.spread <= 2
  /\ f.liquidity >= 20
  /\ f.vol \in 1 .. 300

Up(f) == f.ret >= 15 /\ f.trend15 > 0 /\ f.trend1h > 0
Down(f) == f.ret <= -15 /\ f.trend15 < 0 /\ f.trend1h < 0

\* _candidate_weights: the symbols that pass the filters, with a fixed weight
\* in the direction of return and both trends.
CandidateWeights(features) ==
  LET base == IF AlphaMaxSymbol < AlphaBaseWeight THEN AlphaMaxSymbol ELSE AlphaBaseWeight
      chosen == {s \in DOMAIN features :
                   Tradable(features[s]) /\ (Up(features[s]) \/ Down(features[s]))}
  IN  [s \in chosen |-> IF Up(features[s]) THEN base ELSE -base]

\* One rescaling of every weight, rounded as the last step of _apply_caps is.
ScaleTo(w, total, bound) ==
  IF AbsOf(total) > bound
  THEN [s \in DOMAIN w |-> Rounded(w[s] * bound, AbsOf(total))]
  ELSE w

\* _apply_caps: the symbol cap, then the gross cap, then the net cap; the net
\* step can only shrink what the gross step has left.
ApplyCaps(w) ==
  LET clipped == [s \in DOMAIN w |-> Clip(w[s], AlphaMaxSymbol)]
      fitted == ScaleTo(clipped, AbsSum(clipped), AlphaMaxGross)
      netted == ScaleTo(fitted, Sum(fitted), AlphaMaxNet)
  IN  RestrictValues(netted, LAMBDA x : x # 0)

\* build_target_from_inputs: no state, no features or no signal is a flat
\* target, which is published like any other.
BuildTarget(hasState, features) ==
  IF ~hasState THEN [weights |-> NoWeights, reason |-> "missing_state", action |-> "HOLD"]
  ELSE IF DOMAIN features = {}
    THEN [weights |-> NoWeights, reason |-> "missing_market_features", action |-> "HOLD"]
  ELSE LET signals == CandidateWeights(features)
           capped == ApplyCaps(signals)
       IN  IF DOMAIN signals = {}
           THEN [weights |-> NoWeights, reason |-> "no_signal_after_quality_filters", action |-> "HOLD"]
           ELSE IF DOMAIN capped = {}
             THEN [weights |-> NoWeights, reason |-> "signals_removed_by_caps", action |-> "HOLD"]
           ELSE [weights |-> capped, reason |-> "v17_live_canary_trend_momentum",
                 action |-> "REBALANCE"]

\* _target_stream: anything but the live stream by name is the shadow stream;
\* the live stream unapproved raises and nothing is published.
TargetStream(requested, approved) ==
  IF requested # "alpha.target.v17_live" THEN "alpha.target.v17_shadow"
  ELSE IF approved THEN "alpha.target.v17_live" ELSE "refused"
=============================================================================
