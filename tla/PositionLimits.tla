-------------------------- MODULE PositionLimits --------------------------
(***************************************************************************)
(* How services/risk_engine/app.py turns a target portfolio into approved  *)
(* weights once the mode is known: apply_position_limits, the approval of  *)
(* live targets and finalize_risk_mode_targets.                            *)
(*                                                                         *)
(* Weights are exact fractions, see Weights; the tests of the code that    *)
(* allow 1e-12 are plain comparisons.                                      *)
(***************************************************************************)
EXTENDS Weights

CONSTANTS
  Syms,         \* UNIVERSE
  Cap,          \* cap_for: [Syms -> Nat]
  MaxGross,     \* MAX_GROSS
  MaxNet,       \* MAX_NET
  TurnoverCap,  \* TURNOVER_CAP
  Books         \* weights of the positions in the state snapshot

ASSUME LimitsAssumption ==
  /\ IsFiniteSet(Syms)
  /\ Cap \in [Syms -> Nat]
  /\ MaxGross \in Nat /\ MaxNet \in Nat /\ TurnoverCap \in Nat
  /\ \A b \in Books : b \in [Syms -> Int]

VARIABLES
  liveExecution,  \* V17_LIVE_EXECUTION
  approvedMode,   \* the mode of the approved portfolio
  action,         \* decision_action
  allowed,        \* evidence.real_money_execution_allowed of the target
  book,           \* current_position_weights
  target,         \* the weights of the target portfolio
  weights,        \* the approved weights
  done            \* the portfolio is approved

limitVars == <<liveExecution, approvedMode, action, allowed, book, target, weights, done>>

GuardModes == {"NORMAL", "REDUCE_ONLY", "HALT"}

-----------------------------------------------------------------------------
(* apply_position_limits *)

\* _scale_to_gross_net: gross or net exposure, whichever asks for the smaller
\* factor, is brought to its limit, when the factor is below 0.999.
ScaleToGrossNet(w) ==
  LET gross == AbsSum(w.n)
      net == AbsOf(Sum(w.n))
      byNet == net > MaxNet * w.d /\ MaxNet * gross <= MaxGross * net
      total == IF byNet THEN net ELSE gross
      limit == IF byNet THEN MaxNet ELSE MaxGross
  IN  IF total - limit * w.d > total \div 1000
      THEN Reduced(ScaledTo(w, total, limit)) ELSE w

\* Distance between the list and the book, over the symbols of both
Turnover(w) == Distance(w, book, Syms)

\* Variant: the turnover is that of the net exposure.
LimitNetTurnover(w) ==
  LET turnover == AbsOf(Sum([s \in Syms |-> At(w, s) - book[s] * w.d]))
  IN  IF turnover <= TurnoverCap * w.d THEN w
      ELSE Reduced(Towards(w, book, turnover, TurnoverCap))

\* Too much turnover: each listed symbol goes only part of its way, the same
\* part for all.
LimitTurnover(w) ==
  LET turnover == Turnover(w)
  IN  IF turnover <= TurnoverCap * w.d THEN w
      ELSE Reduced(Towards(w, book, turnover, TurnoverCap))

\* Variant: no second pass of the limits after the turnover.
LimitsOnce(w) == LimitTurnover(ScaleToGrossNet(ClipEach(w, Cap)))

ApplyPositionLimits(w) ==
  ScaleToGrossNet(ClipEach(LimitTurnover(ScaleToGrossNet(ClipEach(w, Cap))), Cap))

-----------------------------------------------------------------------------
(* Approval *)

\* enforce_live_target_approval
MayTrade == liveExecution => allowed

\* Variant: signed weights are compared.
ConstrainSigned(w) ==
  [w EXCEPT !.n = [s \in DOMAIN w.n |->
                     IF w.n[s] > book[s] * w.d THEN book[s] * w.d ELSE w.n[s]]]

\* REDUCE_ONLY in finalize_risk_mode_targets: a weight farther from flat than
\* the position is replaced by the position.
Constrain(w) ==
  [w EXCEPT !.n = [s \in DOMAIN w.n |->
                     IF AbsOf(w.n[s]) > AbsOf(book[s]) * w.d THEN book[s] * w.d ELSE w.n[s]]]

\* From the limits to the approved portfolio, in the mode of the guards
Approve(guards) ==
  /\ ~done
  /\ approvedMode' = IF MayTrade THEN guards ELSE "HALT"
  /\ \/ /\ approvedMode' = "HALT"
        /\ action' = "HOLD"
        /\ weights' = EmptyList
     \/ /\ approvedMode' = "REDUCE_ONLY"
        /\ weights' = Constrain(ApplyPositionLimits(target))
        /\ UNCHANGED action
     \/ /\ approvedMode' = "NORMAL"
        /\ weights' = ApplyPositionLimits(target)
        /\ UNCHANGED action
  /\ done' = TRUE
  /\ UNCHANGED <<liveExecution, allowed, book, target>>

-----------------------------------------------------------------------------
(* Properties *)

\* At most the limit; a factor of 0.999 and more is not applied.
WithinSlack(x, limit) == x <= limit \/ x - limit <= limit \div 999

\* Each approved weight is within the cap of its symbol and the portfolio within
\* the gross cap, in every mode, although the turnover limit moves the weights
\* back towards a book that may break both; in NORMAL also within the net cap.
ApprovedWithinLimits ==
  done =>
    /\ \A s \in DOMAIN weights.n : AbsOf(weights.n[s]) <= Cap[s] * weights.d
    /\ WithinSlack(AbsSum(weights.n), MaxGross * weights.d)
    /\ approvedMode = "NORMAL" => WithinSlack(AbsOf(Sum(weights.n)), MaxNet * weights.d)

\* Under REDUCE_ONLY no symbol is approved farther from flat than it is held,
\* whatever the limits did to its weight.
ReduceOnlyShrinks ==
  done /\ approvedMode = "REDUCE_ONLY" =>
    \A s \in DOMAIN weights.n : AbsOf(weights.n[s]) <= AbsOf(book[s]) * weights.d

\* The book respects the limits that the weights must respect.
BookWithinLimits ==
  /\ \A s \in Syms : AbsOf(book[s]) <= Cap[s]
  /\ AbsSum(book) <= MaxGross
  /\ AbsOf(Sum(book)) <= MaxNet

\* From a book within the limits, a target for the whole universe is approved
\* within the turnover cap: the second pass of the limits does not undo it.
TurnoverWithinCap ==
  done /\ approvedMode = "NORMAL" /\ BookWithinLimits /\ DOMAIN target.n = Syms =>
    Turnover(weights) <= TurnoverCap * weights.d

=============================================================================
