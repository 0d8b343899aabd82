------------------------------- MODULE Units -------------------------------
(***************************************************************************)
(* Arithmetic on weights in whole units.                                   *)
(***************************************************************************)
EXTENDS Integers, FiniteSets, Functions

AbsOf(x) == IF x < 0 THEN -x ELSE x
Larger(x, y) == IF x < y THEN y ELSE x
Clip(x, cap) == IF x > cap THEN cap ELSE IF x < -cap THEN -cap ELSE x

\* round(n / d): the nearest unit, for d > 0.
Rounded(n, d) ==
  IF n < 0 THEN -((2 * (-n) + d) \div (2 * d)) ELSE (2 * n + d) \div (2 * d)

Sum(f) == FoldFunction(LAMBDA x, y : x + y, 0, f)
AbsSum(f) == Sum([s \in DOMAIN f |-> AbsOf(f[s])])
=============================================================================
