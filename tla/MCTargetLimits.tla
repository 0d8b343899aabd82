--------------------------- MODULE MCTargetLimits ---------------------------
EXTENDS TargetLimits, TLC

CONSTANTS btc, eth, sol

\* A unit is five percent of the equity.
MCSyms == {btc, eth, sol}
MCTraded == {btc, eth}
MCCap == (btc :> 5) @@ (eth :> 5) @@ (sol :> 3)
MCAICap == (btc :> 6) @@ (eth :> 6)
MCGross == [base |-> 5, high |-> 13, mid |-> 9, volatile |-> 4, sideways |-> 1]
MCNet == [base |-> 6, high |-> 7]
MCTurn == [base |-> 4, high |-> 2]
MCFactorWeights == [mom |-> 47, support |-> 46, macd |-> 15]

\* With the third symbol short, or long beyond its cap when the first is flat
MCBooks ==
  {(btc :> b) @@ (eth :> e) @@ (sol :> IF b = 0 THEN 6 ELSE -2) :
     b \in {-6, 0, 3}, e \in {-6, 0, 3}}
    \cup {(btc :> 3) @@ (eth :> -2) @@ (sol :> 3)}
MCPrevs == [MCTraded -> {-4, 0, 5}]

\* A target lists every symbol, or leaves one out.
MCProposals ==
  UNION {[S -> {-7, -3, 4}] : S \in {MCSyms, MCSyms \ {eth}}}

Quiet ==
  [block |-> [known |-> TRUE, mom |-> 0, support |-> 100, macd |-> 0, regime |-> 0],
   funding |-> 0, basis |-> 0, oi |-> 0, imbalance |-> 0, delta |-> 0,
   strength |-> 0, signal |-> 0, ret1h |-> 0, agree |-> 1, liq |-> 2, regime |-> 0,
   spike |-> FALSE, thin |-> FALSE, slippage |-> 0, rejects |-> 0, fell |-> FALSE,
   pnl |-> 0, cooled |-> FALSE]

\* Oversold and confirmed; overbought and confirmed; a weak long that pays
\* funding, and gained; a long that is stopped; a fall with a long bias
\* and refused orders; a volatile market with slippage; a cooldown; a crash; nothing known.
Long == [Quiet EXCEPT !.block.mom = -120, !.block.support = 220, !.oi = 1, !.delta = 1,
                      !.signal = 3]
Short == [Quiet EXCEPT !.block.mom = 100, !.block.support = 0, !.block.macd = 40,
                       !.oi = -1, !.imbalance = -20]
Paying == [Long EXCEPT !.block.mom = -40, !.block.support = 100, !.funding = 60,
                       !.pnl = 30, !.signal = 1]
StoppedOut == [Long EXCEPT !.pnl = -40, !.agree = 0]
Falling == [Long EXCEPT !.ret1h = -60, !.rejects = 12]
Wild == [Long EXCEPT !.block.regime = 2, !.regime = 2, !.spike = TRUE, !.slippage = 6]
Resting == [Short EXCEPT !.cooled = TRUE, !.thin = TRUE]
Crash == [Short EXCEPT !.fell = TRUE]
Unknown == [Quiet EXCEPT !.block.known = FALSE, !.basis = 1]

MCFeatures ==
  [MCTraded -> {Long, Short, Paying, StoppedOut, Falling, Wild, Resting, Crash, Unknown}]

=============================================================================
