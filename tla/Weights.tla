------------------------------ MODULE Weights ------------------------------
(***************************************************************************)
(* Lists of portfolio weights, exact where the code has floating point.    *)
(* A list is a record [n, d]: the weight of symbol s is the fraction       *)
(* n[s] / d of one unit.  A symbol the list leaves out is not in the       *)
(* domain of n.                                                            *)
(***************************************************************************)
EXTENDS Units

EmptyList == [n |-> [s \in {} |-> 0], d |-> 1]
Whole(f) == [n |-> f, d |-> 1]
Flat(S) == Whole([s \in S |-> 0])

\* The weight of s, none if the list leaves it out
At(w, s) == IF s \in DOMAIN w.n THEN w.n[s] ELSE 0

Gcd(x, y) ==
  LET g[b \in 0 .. AbsOf(y)] == [a \in Nat |-> IF b = 0 THEN a ELSE g[a % b][b]]
  IN  g[AbsOf(y)][AbsOf(x)]

\* The same weights in lowest terms
Reduced(w) ==
  LET g == FoldFunction(Gcd, w.d, w.n)
  IN  [n |-> [s \in DOMAIN w.n |->
                IF w.n[s] < 0 THEN -((-w.n[s]) \div g) ELSE w.n[s] \div g],
       d |-> w.d \div g]

\* Each weight scaled so that a total of `of` (in units of 1 / w.d) becomes `to`
\* whole units
ScaledTo(w, of, to) == [n |-> [s \in DOMAIN w.n |-> w.n[s] * to], d |-> of]

\* Each weight within the cap of its symbol
ClipEach(w, cap) ==
  [w EXCEPT !.n = [s \in DOMAIN w.n |-> Clip(w.n[s], cap[s] * w.d)]]

\* Distance between a list and a book of whole units over S
Distance(w, book, S) == AbsSum([s \in S |-> At(w, s) - book[s] * w.d])

\* Part of the way from the book to the list, so that the distance is `to`
Towards(w, book, of, to) ==
  [n |-> [s \in DOMAIN w.n |-> book[s] * of + (w.n[s] - book[s] * w.d) * to],
   d |-> of]

=============================================================================
