--------------------------- MODULE TargetWeights ---------------------------
(***************************************************************************)
(* The arithmetic of Layer 2 in services/ai_decision/app.py: from the bias *)
(* of Layer 1 and the 15m features to the weights of a target portfolio.   *)
(*                                                                         *)
(* Features of a symbol: its block (QuantBias); signal, the positive part  *)
(* of ret_15m over vol_15m; the signs of basis, oi and delta; funding (in  *)
(* 1/100000), imbalance and strength (in percent); ret1h (in 1/10000);     *)
(* agree, liq, regime, spike, thin, slippage as they are; rejects, the     *)
(* reject_rate_15m in percent; fell, a fall of                             *)
(* over PRICE_DROP_EMERGENCY_PCT since the last message; pnl, the floating *)
(* profit of its position in bps; cooled, it is in its cooldown or reaches *)
(* it now.  Confidence is in percent.  No program records the profit of a  *)
(* trade, so that apply_pnl_penalty leaves every weight alone, and no      *)
(* target of Layer 2 has a cash weight.                                    *)
(***************************************************************************)
EXTENDS QuantBias

CONSTANTS
  Traded,        \* UNIVERSE of ai_decision
  Features,      \* messages: a set of [Traded -> features], see above
  AICap,         \* _sym_cap: [Traded -> Nat]
  Gross,         \* MAX_GROSS and MAX_GROSS_*: [{"base", "high", "mid", ...} -> Nat]
  Net,           \* MAX_NET and MAX_NET_HIGH: [{"base", "high"} -> Nat]
  Turn,          \* AI_TURNOVER_CAP and AI_TURNOVER_CAP_HIGH, likewise
  Delta,         \* AI_SIGNAL_DELTA_THRESHOLD
  MinConfidence, \* AI_MIN_CONFIDENCE, in percent
  ProfitTarget,  \* POSITION_PROFIT_TARGET_BPS
  StopLoss,      \* POSITION_STOP_LOSS_BPS
  Floor          \* MIN_NOTIONAL_USD over 1000 dollars, in units times leverage

\* Features of a symbol
SymbolFeatures ==
  [block : SymbolBlocks, signal : Nat, basis : Int, oi : Int, delta : Int, funding : Int,
   imbalance : Int, strength : Int, ret1h : Int, agree : Int, liq : Int, regime : Nat,
   spike : BOOLEAN, thin : BOOLEAN, slippage : Nat, rejects : Nat, fell : BOOLEAN,
   pnl : Int, cooled : BOOLEAN]

ASSUME TargetAssumption ==
  /\ IsFiniteSet(Traded) /\ Traded # {}
  /\ \A m \in Features : DOMAIN m = Traded /\ \A s \in Traded : m[s] \in SymbolFeatures
  /\ AICap \in [Traded -> Nat]
  /\ Gross \in [{"base", "high", "mid", "volatile", "sideways"} -> Nat]
  /\ Net \in [{"base", "high"} -> Nat] /\ Turn \in [{"base", "high"} -> Nat]
  /\ {Delta, Floor} \subseteq Nat
  /\ MinConfidence \in 1 .. 100

Some(x) == IF x THEN 1 ELSE 0

-----------------------------------------------------------------------------
(* What the signals ask for *)

Blocks(m) == [s \in Traded |-> m[s].block]

\* Which of the six signals agree with a direction; trend strength has none.
Confirmations(f, dir) ==
  Some(f.funding * dir > 0) + Some(f.basis * dir > 0) + Some(f.oi * dir > 0)
    + Some(f.imbalance * dir > 10) + Some(f.delta * dir > 0) + Some(f.strength > 60)

\* apply_direction_confirmation, in 1/200 of a unit
Confirmed(m, bias) ==
  [n |-> [s \in Traded |->
            LET b == bias.of[s]
            IN  IF bias.state # "SIDEWAYS" /\ Confirmations(m[s], b.dir) >= 2
                THEN b.dir * AICap[s] * b.conf * b.scale ELSE 0],
   d |-> 200]

\* apply_funding_overlay: half for a side that pays more than 0.05 %
FundingOverlay(m, w) ==
  [n |-> [s \in DOMAIN w.n |->
            IF AbsOf(m[s].funding) > 50 /\ m[s].funding * w.n[s] > 0
            THEN w.n[s] ELSE 2 * w.n[s]],
   d |-> 2 * w.d]

\* build_baseline_weights
Baseline(m) ==
  LET all == Sum([s \in Traded |-> m[s].signal])
  IN  IF all = 0 THEN Flat(Traded)
      ELSE ScaledTo(Whole([s \in Traded |-> m[s].signal]), all, Gross["base"])

\* confidence_from_signals
BaselineConfidence(m) ==
  LET all == Sum([s \in Traded |-> m[s].signal])
  IN  (50 * Cardinality({s \in Traded : m[s].signal > 0})) \div Cardinality(Traded)
        + (50 * all) \div (all + 1)

\* Weights, market state and confidence with a bias, or else from the baseline
Signal(m, biased) ==
  LET bias == DirectionBias(Blocks(m))
      confs == {bias.of[s].conf : s \in {r \in Traded : bias.of[r].dir # 0}}
  IN  IF biased
      THEN [w |-> FundingOverlay(m, Confirmed(m, bias)), state |-> bias.state,
            conf |-> IF confs = {} THEN 0 ELSE CHOOSE c \in confs : \A x \in confs : c >= x]
      ELSE [w |-> Baseline(m), state |-> "TRENDING", conf |-> BaselineConfidence(m)]

-----------------------------------------------------------------------------
(* What is closed whatever the signals say *)

\* get_position_pnl_bps and apply_profit_target
Taken(m, book) ==
  {s \in Traded : book[s] # 0 /\ (m[s].pnl >= ProfitTarget \/ m[s].pnl <= -StopLoss)}

\* apply_bearish_block: longs in a fall that both horizons confirm
Blocked(m, w) ==
  {s \in Traded : w.n[s] > 0 /\ m[s].ret1h < -50 /\ m[s].agree = 1}

\* check_emergency_shutdown
Emergency(m) ==
  \/ /\ Sum([s \in Traded |-> m[s].slippage]) > 5 * Cardinality(Traded)
     /\ \E s \in Traded : m[s].spike
  \/ \E s \in Traded : m[s].fell

Cooled(m) == {s \in Traded : m[s].cooled}

Closed(m, w, book) ==
  IF Emergency(m) THEN Traded
  ELSE Taken(m, book) \cup Blocked(m, w) \cup Cooled(m)

\* Variant: only longs are closed.
WithoutLongs(w, S) ==
  [w EXCEPT !.n = [s \in DOMAIN w.n |->
                     IF s \in S /\ w.n[s] > 0 THEN 0 ELSE w.n[s]]]

Without(w, S) == [w EXCEPT !.n = [s \in DOMAIN w.n |-> IF s \in S THEN 0 ELSE w.n[s]]]

\* adjust_confidence_by_risk; the 0.2 of an emergency comes later and scales
\* weights that are zero.
AdjustedConfidence(m, conf) ==
  LET defensive == \E s \in Traded :
        m[s].regime >= 1 \/ m[s].liq <= 0 \/ m[s].spike \/ m[s].thin
      slow == Sum([s \in Traded |-> m[s].slippage]) > 8 * Cardinality(Traded)
      refused == Sum([s \in Traded |-> m[s].rejects]) > 5 * Cardinality(Traded)
      caps == {conf} \cup {x \in {40} : defensive \/ slow \/ refused}
                \cup {x \in {50} : \E s \in Traded : m[s].agree <= 0}
  IN  CHOOSE c \in caps : \A x \in caps : c <= x

-----------------------------------------------------------------------------
(* The constraints, in the order they are applied, each a function on lists *)

Lists == [n : [Traded -> Int], d : Nat \ {0}]

\* select_max_gross, in half units: the night halves it.
MaxGrossHalves(state, conf, night) ==
  LET base == IF state = "SIDEWAYS" THEN Gross["sideways"]
              ELSE IF state = "VOLATILE" THEN Gross["volatile"]
              ELSE Gross[IF conf >= 70 THEN "high" ELSE "mid"]
  IN  IF night THEN base ELSE 2 * base

\* The limits of a confidence: AI_CONFIDENCE_HIGH_THRESHOLD
Level(conf) == IF conf >= 75 THEN "high" ELSE "base"

\* scale_gross
ScaleGross(halves) ==
  [w \in Lists |->
    LET gross == AbsSum(w.n)
    IN  IF 2 * gross <= halves * w.d THEN w
        ELSE Reduced(ScaledTo(w, 2 * gross, halves))]

\* apply_confidence_gating
Gate(conf) ==
  [w \in Lists |->
    IF conf >= MinConfidence THEN w
    ELSE Reduced([n |-> [s \in DOMAIN w.n |-> w.n[s] * conf], d |-> w.d * MinConfidence])]

\* select_smooth_alpha, in percent
Alpha(conf) == IF conf >= 70 THEN 60 ELSE IF conf >= 55 THEN 40 ELSE 25

\* ewma_smooth
Smooth(prev, alpha) ==
  [w \in Lists |->
    Reduced([n |-> [s \in Traded |->
                      (100 - alpha) * prev[s] * w.d + alpha * w.n[s]],
             d |-> 100 * w.d])]

\* apply_turnover_cap
CapTurnover(book, cap) ==
  [w \in Lists |->
    LET turnover == Distance(w, book, Traded)
    IN  IF cap = 0 \/ turnover <= cap * w.d THEN w
        ELSE Reduced(Towards(w, book, turnover, cap))]

\* apply_net_direction_cap, with both limits at 0: no net exposure against the
\* market, mean being the sign of its return.
CapDirection(mean) ==
  [w \in Lists |->
    LET net == Sum(w.n)
    IN  IF mean * net >= 0 THEN w
        ELSE Without(w, {s \in DOMAIN w.n : (w.n[s] > 0) = (net > 0)})]

\* apply_net_cap
CapNet(cap) ==
  [w \in Lists |->
    LET net == AbsOf(Sum(w.n))
    IN  IF cap = 0 \/ net <= cap * w.d THEN w ELSE Reduced(ScaledTo(w, net, cap))]

\* compute_dynamic_leverage: tiers 6 and 3 around POSITION_LEVERAGE 5
Leverage(m) ==
  LET all == 2 * Sum([s \in Traded |-> m[s].regime])
      n == Cardinality(Traded)
  IN  IF all < n THEN 6 ELSE IF all >= 3 * n THEN 3 ELSE 5

\* apply_min_notional. get_equity_usd looks for the equity where the snapshot
\* does not have it, and always answers 1000.
Dust(w, leverage) ==
  {s \in DOMAIN w.n : AbsOf(w.n[s]) * leverage < Floor * w.d}

\* Variant: net exposure is capped before the turnover.
ConstrainedNetFirst(w, prev, book, halves, conf, mean) ==
  LET sized == Gate(conf)[ScaleGross(halves)[ClipEach(w, AICap)]]
      near == CapNet(Net[Level(conf)])[Smooth(prev, Alpha(conf))[sized]]
  IN  CapDirection(mean)[CapTurnover(book, Turn[Level(conf)])[near]]

Constrained(w, prev, book, halves, conf, mean) ==
  LET sized == Gate(conf)[ScaleGross(halves)[ClipEach(w, AICap)]]
      near == CapTurnover(book, Turn[Level(conf)])[Smooth(prev, Alpha(conf))[sized]]
  IN  CapNet(Net[Level(conf)])[CapDirection(mean)[near]]

-----------------------------------------------------------------------------
(* main, the decision of Layer 2. How a message comes to it: biased, Layer 1  *)
(* has a valid bias; recent, the last trade is less than MIN_TRADE_INTERVAL_  *)
(* MIN ago; capped, the daily cap is reached; due, the last REBALANCE is long *)
(* enough ago; night, the hour is one of NIGHT_PROTECT_HOURS; mean. signal is *)
(* what the message and the bias ask for.                                     *)

Candidate(m, signal, how, prev, book) ==
  LET quiet == how.capped \/ (how.recent /\ signal.conf < 70)
      asked == IF quiet THEN Flat(Traded) ELSE signal.w
      closed == Closed(m, asked, book)
      conf == AdjustedConfidence(m, signal.conf)
      halves == MaxGrossHalves(signal.state, conf, how.night)
      w == Constrained(Without(asked, closed), prev, book, halves, conf, how.mean)
      dust == Dust(w, Leverage(m))
  IN  [w |-> Reduced(Without(w, dust)), closed |-> closed, halves |-> halves,
       net |-> Net[Level(conf)], dust |-> dust]

\* should_rebalance, and the daily cap
Rebalances(candidate, how, book) ==
  /\ Distance(candidate, book, Traded) >= Delta * candidate.d
  /\ how.due
  /\ ~how.capped

=============================================================================
