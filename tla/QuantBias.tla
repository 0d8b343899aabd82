----------------------------- MODULE QuantBias -----------------------------
(***************************************************************************)
(* compute_quant_bias of services/ai_decision/app.py: the direction that   *)
(* Layer 1 takes from the block of an hour.                                *)
(*                                                                         *)
(* A block says of a symbol whether it is known, mom (the return of a day  *)
(* over its volatility), support (the distance from the low in ATRs) and   *)
(* macd (over the volatility), each in percent, and regime, its            *)
(* vol_regime.  market_data gives all three factors of a symbol or none;   *)
(* with none each fallback is zero.  Confidence is cut to whole percent.   *)
(***************************************************************************)
EXTENDS Weights

CONSTANTS
  FactorWeights,   \* weights of the factors: the static ones, or ic.factor_ic_latest
  ThresholdFull,   \* M2_THRESHOLD_FULL, in percent
  ThresholdHalf,   \* M2_THRESHOLD_HALF, in percent
  VolatileRegime   \* VOL_REGIME_VOLATILE_THRESHOLD

\* A dynamic weight is an absolute value, at least 0.01.
ASSUME BiasAssumption ==
  /\ FactorWeights \in [mom : Nat \ {0}, support : Nat \ {0}, macd : Nat \ {0}]
  /\ {ThresholdFull, ThresholdHalf, VolatileRegime} \subseteq Nat

\* Blocks of a symbol
SymbolBlocks == [known : BOOLEAN, mom : Int, support : Int, macd : Int, regime : Nat]

TotalWeight == FactorWeights.mom + FactorWeights.support + FactorWeights.macd

\* The three factors by their information coefficients, in percent times the
\* total weight: momentum and macd are faded, distance from the support is
\* followed.
Composite(b) ==
  IF ~b.known THEN 0
  ELSE FactorWeights.support * Clip((b.support - 100) \div 2, 100)
         - FactorWeights.mom * Clip(b.mom, 100) - FactorWeights.macd * Clip(b.macd, 100)

Volatile(b) == b.regime >= VolatileRegime

\* Direction, confidence in percent and weight_scale in halves
SymbolBias(b) ==
  LET c == Composite(b)
      conf == 50 + (AbsOf(c) * 35) \div (100 * TotalWeight)
      size == IF AbsOf(c) >= ThresholdFull * TotalWeight THEN 2 ELSE 1
  IN  IF Volatile(b) \/ AbsOf(c) < ThresholdHalf * TotalWeight
      THEN [dir |-> 0, conf |-> 40, scale |-> 0]
      ELSE [dir |-> IF c > 0 THEN 1 ELSE -1,
            conf |-> IF conf > 82 THEN 82 ELSE conf,
            scale |-> size]

\* market_state of the blocks of a universe
MarketState(blocks) ==
  LET S == DOMAIN blocks
      volatile == {s \in S : Volatile(blocks[s])}
  IN  IF Cardinality(volatile) >= Larger(1, (Cardinality(S) + 1) \div 2) THEN "VOLATILE"
      ELSE IF \E s \in S : SymbolBias(blocks[s]).dir # 0 THEN "TRENDING"
      ELSE "SIDEWAYS"

\* The bias of Layer 1
DirectionBias(blocks) ==
  [state |-> MarketState(blocks),
   of |-> [s \in DOMAIN blocks |-> SymbolBias(blocks[s])]]

=============================================================================
