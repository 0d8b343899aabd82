------------------------- MODULE MCShadowTrading -------------------------
EXTENDS ShadowTrading, TLC

CONSTANTS btc, eth, sol, r1, r2

MCOrder == <<btc, eth>>
MCSide == (btc :> "LONG") @@ (eth :> "SHORT")

B(close, low, high, volume) ==
  [close |-> close, low |-> low, high |-> high, volume |-> volume]

\* Rising and falling hours, so that the labels and signs differ by hour.
MCBar ==
  (btc :> <<B(100, 98, 101, 5), B(102, 99, 103, 6), B(105, 101, 106, 8), B(104, 103, 106, 4)>>)
  @@ (eth :> <<B(50, 49, 51, 3), B(51, 50, 52, 4), B(49, 48, 52, 4), B(47, 46, 50, 9)>>)
MCHistory == (btc :> {1, 2, 3}) @@ (eth :> {1, 2})
MCLate == (btc :> {4}) @@ (eth :> {3})

F(ret, trend15, trend1h, spread, liquidity, vol) ==
  [ret |-> ret, trend15 |-> trend15, trend1h |-> trend1h, spread |-> spread,
   liquidity |-> liquidity, vol |-> vol]
Rise == F(15, 1, 1, 2, 20, 300)
Fall == F(-15, -1, -1, 1, 90, 10)
Thin == F(40, 1, 1, 3, 20, 300)

MCSnapshots ==
  {<<>>, (btc :> Rise) @@ (eth :> Rise) @@ (sol :> Rise),
   (btc :> Rise) @@ (eth :> Fall) @@ (sol :> Thin), (btc :> Thin)}

Conf(mode, target, enabled) ==
  [mode |-> mode, dry_run |-> TRUE, real_money |-> FALSE, enabled |-> enabled,
   signals |-> "v17.signals", target |-> target]
MCConfigs ==
  {Conf("paper_shadow", "alpha.target.v17_shadow", TRUE),
   Conf("paper_shadow", "alpha.target", TRUE),
   Conf("live_canary", "alpha.target.v17_shadow", TRUE)}

Sym == Permutations(Runners)
=============================================================================
