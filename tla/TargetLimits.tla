---------------------------- MODULE TargetLimits ----------------------------
(***************************************************************************)
(* One target portfolio from the signals to its approval: Layer 2 of       *)
(* ai_decision, or v17_alpha, proposes weights, and risk_engine approves   *)
(* them.  Both services measure the position with the same leverage, the   *)
(* one in the target's constraints_hint; the position is the same for both *)
(* (one that moves in between is an older target of the next cycle).       *)
(***************************************************************************)
EXTENDS PositionLimits, TargetWeights

CONSTANTS
  Prevs,       \* weights of latest.alpha.target: a set of [Traded -> Int]
  Proposals    \* weights that v17_alpha proposes, on subsets of Syms

ASSUME ProposalAssumption ==
  /\ Traded \subseteq Syms
  /\ \A p \in Prevs : p \in [Traded -> Int]
  /\ \A p \in Proposals : DOMAIN p \subseteq Syms /\ p \in [DOMAIN p -> Int]

VARIABLES
  prev,       \* latest.alpha.target when the message is handled
  decided     \* history: the candidate of Layer 2 and what it was built from

NotDecided ==
  [w |-> EmptyList, closed |-> {}, halves |-> 0, net |-> 0, dust |-> {}]

all == <<limitVars, prev, decided>>

TargetInit ==
  /\ liveExecution \in BOOLEAN
  /\ approvedMode = "NORMAL"
  /\ action = "none"
  /\ allowed = FALSE
  /\ book \in Books
  /\ target = EmptyList
  /\ weights = EmptyList
  /\ done = FALSE
  /\ prev \in Prevs
  /\ decided = NotDecided

\* How a message comes to Layer 2, see TargetWeights
Circumstances ==
  {[biased |-> TRUE, recent |-> FALSE, capped |-> FALSE, due |-> TRUE, night |-> FALSE,
    mean |-> mean] : mean \in {-1, 0, 1}}
    \cup [biased : {TRUE}, recent : {TRUE}, capped : BOOLEAN, due : {TRUE},
          night : {TRUE}, mean : {-1, 0}]
    \cup [biased : {FALSE}, recent : {FALSE}, capped : {FALSE}, due : BOOLEAN,
          night : {FALSE}, mean : {0, 1}]

\* A target for every traded symbol: the candidate, or the previous target again
Layer2 ==
  /\ action = "none"
  /\ \E m \in Features, how \in Circumstances :
     \E signal \in {Signal(m, how.biased)}, held \in {[s \in Traded |-> book[s]]} :
     \E c \in {Candidate(m, signal, how, prev, held)} :
       /\ decided' = c
       /\ IF Rebalances(c.w, how, held)
          THEN action' = "REBALANCE" /\ target' = c.w
          ELSE action' = "HOLD" /\ target' = Whole(prev)
  /\ UNCHANGED <<liveExecution, approvedMode, allowed, book, weights, done, prev>>

\* v17_alpha; only its canary mode allows real money.
Alpha17 ==
  /\ action = "none"
  /\ \E p \in Proposals : target' = Whole(p)
  /\ action' \in {"REBALANCE", "HOLD"}
  /\ allowed' \in BOOLEAN
  /\ UNCHANGED <<liveExecution, approvedMode, book, weights, done, prev, decided>>

RiskEngine ==
  /\ action # "none"
  /\ \E guards \in GuardModes : Approve(guards)
  /\ UNCHANGED <<prev, decided>>

TargetNext == Layer2 \/ Alpha17 \/ RiskEngine

TargetSpec == TargetInit /\ [][TargetNext]_all

-----------------------------------------------------------------------------
(* Properties *)

Highest(S) == CHOOSE x \in S : \A y \in S : x >= y

\* The candidate of Layer 2 breaks a cap only as far as the position or the
\* previous target already did, in each symbol and in sum, whichever way the
\* smoothing and the turnover limit moved it; its net exposure is within the
\* cap, when there is one, but for the symbols that were dropped as too small
\* afterwards, each at a leverage of 3 or more.
CandidateWithinLimits ==
  LET w == decided.w
  IN  decided # NotDecided =>
        /\ \A s \in Traded :
             AbsOf(w.n[s]) <= w.d * Highest({AICap[s], AbsOf(prev[s]), AbsOf(book[s])})
        /\ 2 * AbsSum(w.n) <=
             w.d * Highest({decided.halves, 2 * AbsSum(prev),
                            2 * AbsSum([s \in Traded |-> book[s]])})
        /\ decided.net # 0 =>
             3 * (AbsOf(Sum(w.n)) - decided.net * w.d)
               <= Cardinality(decided.dust) * (Floor * w.d)

Between(w, s, a, b) ==
  /\ w.n[s] <= w.d * Highest({0, a, b})
  /\ -w.n[s] <= w.d * Highest({0, -a, -b})

\* A symbol that Layer 2 closes (a stop, a profit taken, a fall, a cooldown, an
\* emergency) comes out of the smoothing, the limits of both services and the
\* mode of the guards between flat, the previous target and the position: it is
\* never enlarged or turned, as it would be by a limit that moves another way.
ClosedNeverGrows ==
  \A s \in decided.closed :
    /\ Between(decided.w, s, prev[s], book[s])
    /\ action = "REBALANCE" /\ s \in DOMAIN weights.n =>
         Between(weights, s, prev[s], book[s])

=============================================================================
