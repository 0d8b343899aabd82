----------------------- MODULE ShadowTrading_proofs -----------------------
(***************************************************************************)
(* Theorems about the v17 shadow pipeline, for every universe, cache,      *)
(* number of runners, runs and kills: a leg is recorded as new a second    *)
(* time only by a race, the report counts a bar once, signals rest on      *)
(* complete and fresh bars, and targets keep their caps.                   *)
(***************************************************************************)
EXTENDS ShadowTrading, SequenceTheorems, FiniteSetTheorems, WellFoundedInduction, TLAPS

-----------------------------------------------------------------------------
(* Sums over finite sets: the facts that Approval_proofs has for its own   *)
(* universe, since a module with other constants cannot cite them.         *)

\* The element at which a fold takes a set apart
First(t) == CHOOSE x \in t : TRUE

\* What a fold does at each set, its element and what is left of the set.
Folds(iter, S, base, step) ==
  iter = [t \in SUBSET S |-> IF t = {} THEN base ELSE step[t][iter[t \ {First(t)}]]]

\* It is one of the set.
LEMMA FirstIn == \A t : t # {} => First(t) \in t
  BY DEF First

\* A fold over a finite set exists.
LEMMA FoldExists ==
  ASSUME NEW S, IsFiniteSet(S), NEW V, NEW base \in V, NEW step \in [SUBSET S -> [V -> V]]
  PROVE  \E iter \in [SUBSET S -> V] : Folds(iter, S, base, step)
  <1> DEFINE Small(n) == {t \in SUBSET S : Cardinality(t) <= n}
             Def(h, n) == h = [t \in Small(n) |-> IF t = {} THEN base ELSE step[t][h[t \ {First(t)}]]]
             Good == {n \in Nat : \E h \in [Small(n) -> V] : Def(h, n)}
  <1>1. \A t \in SUBSET S : IsFiniteSet(t) /\ Cardinality(t) \in Nat /\ Cardinality(t) <= Cardinality(S)
    BY FS_Subset, FS_CardinalityType
  <1>2. \A t \in SUBSET S : t # {} =>
          /\ t \ {First(t)} \in SUBSET S /\ First(t) \in t
          /\ Cardinality(t \ {First(t)}) = Cardinality(t) - 1 /\ Cardinality(t) # 0
    BY <1>1, FirstIn, FS_RemoveElement, FS_EmptySet
  <1>3. 0 \in Good
    <2>1. Small(0) = {{}}
      BY <1>1, <1>2, FS_EmptySet
    <2>2. Def([t \in Small(0) |-> base], 0) /\ [t \in Small(0) |-> base] \in [Small(0) -> V]
      BY <2>1
    <2>3. QED
      BY <2>2
  <1>4. ASSUME NEW n \in Nat, n \in Good PROVE n + 1 \in Good
    <2>1. PICK h \in [Small(n) -> V] : Def(h, n)
      BY <1>4
    <2> DEFINE g == [t \in Small(n + 1) |->
                       IF t = {} THEN base ELSE step[t][h[t \ {First(t)}]]]
    <2>2. ASSUME NEW t \in Small(n + 1), t # {} PROVE t \ {First(t)} \in Small(n)
      BY <1>1, <1>2, <2>2
    <2>3. ASSUME NEW t \in Small(n) PROVE t \in Small(n + 1) /\ g[t] = h[t]
      <3>1. t \in Small(n + 1)
        BY <1>1
      <3>2. g[t] = IF t = {} THEN base ELSE step[t][h[t \ {First(t)}]]
        <4> HIDE DEF Small
        <4> QED
          BY <3>1
      <3>3. h[t] = IF t = {} THEN base ELSE step[t][h[t \ {First(t)}]]
        <4> HIDE DEF Small
        <4> QED
          BY <2>1
      <3>4. QED
        BY <3>1, <3>2, <3>3
    <2>4. g \in [Small(n + 1) -> V]
      BY <2>2
    <2>5. Def(g, n + 1)
      <3> HIDE DEF Small
      <3> SUFFICES ASSUME NEW t \in Small(n + 1), t # {}
                   PROVE  h[t \ {First(t)}] = g[t \ {First(t)}]
        OBVIOUS
      <3> QED
        BY <2>2, <2>3
    <2>6. QED
      <3> HIDE DEF Small, Def, g
      <3> QED
        BY <2>4, <2>5
  <1>5. Cardinality(S) \in Good
    <2> HIDE DEF Good
    <2>1. Cardinality(S) \in Nat
      BY FS_CardinalityType
    <2>2. SUFFICES ASSUME Nat \ Good # {} PROVE FALSE
      BY <2>1
    <2>3. PICK n \in Nat \ Good : \A m \in Nat \ Good : ~(<<m, n>> \in OpToRel(<, Nat))
      BY <2>2, WFMin, NatLessThanWellFounded, Zenon
    <2>4. \A m \in Nat \ Good : ~(m < n)
      BY <2>3 DEF OpToRel
    <2>5. QED
      BY <1>3, <1>4, <2>4
  <1>6. Small(Cardinality(S)) = SUBSET S
    BY <1>1
  <1>7. QED
    BY <1>5, <1>6 DEF Folds

\* Induction over the subsets of a finite set, along the order of its folds.
LEMMA FoldInduction ==
  ASSUME NEW S, IsFiniteSet(S), NEW P, {} \in P,
         \A t \in SUBSET S : t # {} /\ t \ {First(t)} \in P => t \in P
  PROVE  SUBSET S \subseteq P
  <1> DEFINE B == {n \in Nat : \E t \in SUBSET S : Cardinality(t) = n /\ t \notin P}
  <1>1. SUFFICES ASSUME B # {} PROVE FALSE
    BY FS_Subset, FS_CardinalityType
  <1>2. PICK n \in B : \A m \in B : ~(<<m, n>> \in OpToRel(<, Nat))
    <2>1. B \subseteq Nat
      OBVIOUS
    <2> HIDE DEF B
    <2>2. QED
      BY <1>1, <2>1, WFMin, NatLessThanWellFounded, Zenon
  <1>3. PICK t \in SUBSET S : Cardinality(t) = n /\ t \notin P
    BY <1>2
  <1>4. t # {} /\ t \ {First(t)} \notin P /\ First(t) \in t
    BY <1>3, FirstIn
  <1>5. Cardinality(t \ {First(t)}) = n - 1 /\ n - 1 \in Nat
    BY <1>3, <1>4, FS_Subset, FS_RemoveElement, FS_CardinalityType, FS_EmptySet
  <1>6. n - 1 \in B /\ n - 1 < n
    BY <1>4, <1>5
  <1>7. QED
    BY <1>2, <1>5, <1>6 DEF OpToRel

\* The sums of f over the subsets of S
IsSum(F, S, f) ==
  /\ F \in [SUBSET S -> Int]
  /\ F[{}] = 0
  /\ \A t \in SUBSET S : t # {} => F[t] = f[First(t)] + F[t \ {First(t)}]

\* Sum is the value of the sums of its subsets at the whole domain.
LEMMA SumFold ==
  ASSUME NEW S, IsFiniteSet(S), NEW f \in [S -> Int]
  PROVE  \E F : IsSum(F, S, f) /\ Sum(f) = F[S]
  <1> DEFINE Def(iter) == iter = [t \in SUBSET S |->
                   IF t = {} THEN 0 ELSE f[First(t)] + iter[t \ {First(t)}]]
             I == CHOOSE iter : Def(iter)
             step == [t \in SUBSET S |-> [v \in Int |-> IF t = {} THEN 0 ELSE f[First(t)] + v]]
  <1>1. step \in [SUBSET S -> [Int -> Int]]
    BY FirstIn
  <1>2. PICK h \in [SUBSET S -> Int] : Folds(h, S, 0, step)
    <2> HIDE DEF step
    <2>1. 0 \in Int
      OBVIOUS
    <2>2. QED
      BY <1>1, <2>1, FoldExists, Zenon
  <1>3. Def(h)
    <2>1. ASSUME NEW t \in SUBSET S, t # {}
          PROVE  step[t][h[t \ {First(t)}]] = f[First(t)] + h[t \ {First(t)}]
      <3>1. h[t \ {First(t)}] \in Int
        BY <1>2
      <3>2. QED
        BY <3>1, <2>1
    <2> HIDE DEF step
    <2>2. QED
      BY <1>2, <2>1 DEF Folds
  <1>4. Def(I)
    BY <1>3
  <1>5. Sum(f) = I[S]
    BY DEF Sum, FoldFunction, FoldFunctionOnSet, MapThenFoldSet, First
  <1>6. /\ I = [t \in SUBSET S |-> I[t]]
        /\ I[{}] = 0
        /\ \A t \in SUBSET S : t # {} => I[t] = f[First(t)] + I[t \ {First(t)}]
    <2> HIDE DEF I
    <2> QED
      BY <1>4
  <1> HIDE DEF I
  <1> DEFINE P == {t \in SUBSET S : I[t] \in Int}
  <1>7. {} \in P
    BY <1>6
  <1>8. ASSUME NEW t \in SUBSET S, t # {}, t \ {First(t)} \in P PROVE t \in P
    <2>1. I[t] = f[First(t)] + I[t \ {First(t)}] /\ f[First(t)] \in Int
      BY <1>6, <1>8, FirstIn
    <2>2. QED
      BY <1>8, <2>1
  <1>9. SUBSET S \subseteq P
    <2> HIDE DEF P
    <2> QED
      BY <1>7, <1>8, FoldInduction
  <1>10. I \in [SUBSET S -> Int]
    BY <1>6, <1>9
  <1>11. QED
    BY <1>5, <1>6, <1>10 DEF IsSum

\* A sum of integers is an integer.
LEMMA SumType ==
  ASSUME NEW S, IsFiniteSet(S), NEW f \in [S -> Int]
  PROVE  Sum(f) \in Int
  <1>1. PICK F : IsSum(F, S, f) /\ Sum(f) = F[S]
    BY SumFold
  <1>2. QED
    BY <1>1 DEF IsSum

\* The sum of the empty function is 0.
LEMMA SumOfNothing == \A f : DOMAIN f = {} /\ f \in [{} -> Int] => Sum(f) = 0
  <1>1. IsFiniteSet({})
    BY FS_EmptySet
  <1>2. QED
    BY <1>1, SumFold DEF IsSum

\* A larger function has a larger sum.
LEMMA SumMonotone ==
  ASSUME NEW S, IsFiniteSet(S), NEW f \in [S -> Int], NEW g \in [S -> Int],
         \A s \in S : f[s] <= g[s]
  PROVE  Sum(f) <= Sum(g)
  <1>1. PICK F : IsSum(F, S, f) /\ Sum(f) = F[S]
    BY SumFold
  <1>2. PICK G : IsSum(G, S, g) /\ Sum(g) = G[S]
    BY SumFold
  <1> DEFINE P == {t \in SUBSET S : F[t] <= G[t]}
  <1>3. {} \in P
    BY <1>1, <1>2 DEF IsSum
  <1>4. ASSUME NEW t \in SUBSET S, t # {}, t \ {First(t)} \in P PROVE t \in P
    <2>1. First(t) \in S /\ F[t \ {First(t)}] <= G[t \ {First(t)}]
      BY <1>4, FirstIn
    <2>2. F[t] = f[First(t)] + F[t \ {First(t)}] /\ G[t] = g[First(t)] + G[t \ {First(t)}]
      BY <1>1, <1>2, <1>4 DEF IsSum
    <2>3. /\ f[First(t)] \in Int /\ g[First(t)] \in Int /\ f[First(t)] <= g[First(t)]
          /\ F[t \ {First(t)}] \in Int /\ G[t \ {First(t)}] \in Int
      BY <1>1, <1>2, <1>4, <2>1 DEF IsSum
    <2>4. F[t] <= G[t]
      BY <2>1, <2>2, <2>3
    <2>5. QED
      BY <2>4
  <1>5. SUBSET S \subseteq P
    <2> HIDE DEF P
    <2> QED
      BY <1>3, <1>4, FoldInduction
  <1>6. QED
    BY <1>1, <1>2, <1>5

\* Sums are linear.
LEMMA SumLinear ==
  ASSUME NEW S, IsFiniteSet(S), NEW f \in [S -> Int], NEW g \in [S -> Int],
         NEW a \in Int, NEW b \in Int
  PROVE  Sum([s \in S |-> a * f[s] + b * g[s]]) = a * Sum(f) + b * Sum(g)
  <1> DEFINE h == [s \in S |-> a * f[s] + b * g[s]]
  <1>0. h \in [S -> Int] /\ \A s \in S : h[s] = a * f[s] + b * g[s]
    OBVIOUS
  <1>1. PICK F : IsSum(F, S, f) /\ Sum(f) = F[S]
    BY SumFold
  <1>2. PICK G : IsSum(G, S, g) /\ Sum(g) = G[S]
    BY SumFold
  <1>3. PICK H : IsSum(H, S, h) /\ Sum(h) = H[S]
    <2> HIDE DEF h
    <2> QED
      BY <1>0, SumFold
  <1> HIDE DEF h
  <1> DEFINE P == {t \in SUBSET S : H[t] = a * F[t] + b * G[t]}
  <1>4. {} \in P
    BY <1>1, <1>2, <1>3 DEF IsSum
  <1>5. ASSUME NEW t \in SUBSET S, t # {}, t \ {First(t)} \in P PROVE t \in P
    <2> DEFINE x == First(t)
               u == t \ {First(t)}
    <2>1. x \in S /\ u \in SUBSET S /\ H[u] = a * F[u] + b * G[u]
      BY <1>5, FirstIn
    <2>2. F[t] = f[x] + F[u] /\ G[t] = g[x] + G[u] /\ H[t] = h[x] + H[u]
      BY <1>1, <1>2, <1>3, <1>5 DEF IsSum
    <2>3. /\ f[x] \in Int /\ g[x] \in Int /\ F[u] \in Int /\ G[u] \in Int
          /\ h[x] = a * f[x] + b * g[x]
      BY <1>0, <1>1, <1>2, <2>1 DEF IsSum
    <2> HIDE DEF x, u
    <2>4. /\ a * (f[x] + F[u]) = a * f[x] + a * F[u]
          /\ b * (g[x] + G[u]) = b * g[x] + b * G[u]
      BY <2>3
    <2>5. /\ a * f[x] \in Int /\ a * F[u] \in Int /\ b * g[x] \in Int /\ b * G[u] \in Int
      BY <2>3
    <2>6. H[t] = a * F[t] + b * G[t]
      BY <2>1, <2>2, <2>3, <2>4, <2>5
    <2>7. QED
      BY <2>6
  <1>6. SUBSET S \subseteq P
    <2> HIDE DEF P
    <2> QED
      BY <1>4, <1>5, FoldInduction
  <1>7. H[S] = a * F[S] + b * G[S]
    BY <1>6
  <1>8. QED
    BY <1>1, <1>2, <1>3, <1>7 DEF h

\* A common positive factor
LEMMA CancelLess ==
  ASSUME NEW k \in Nat \ {0}, NEW x \in Int, NEW y \in Int, k * x <= k * y
  PROVE  x <= y
  <1>1. SUFFICES ASSUME x >= y + 1 PROVE FALSE
    OBVIOUS
  <1>2. k * x >= k * (y + 1)
    BY <1>1
  <1>3. k * (y + 1) = k * y + k /\ k * y \in Int
    OBVIOUS
  <1>4. QED
    BY <1>2, <1>3

\* The sum of a constant
LEMMA SumConstant ==
  ASSUME NEW S, IsFiniteSet(S), NEW c \in Int, NEW f \in [S -> Int], \A s \in S : f[s] = c
  PROVE  Sum(f) = c * Cardinality(S)
  <1>1. PICK F : IsSum(F, S, f) /\ Sum(f) = F[S]
    BY SumFold
  <1>2. ASSUME NEW t \in SUBSET S PROVE IsFiniteSet(t) /\ Cardinality(t) \in Nat
    BY FS_Subset, FS_CardinalityType
  <1> DEFINE P == {t \in SUBSET S : F[t] = c * Cardinality(t)}
  <1>3. {} \in P
    BY <1>1, FS_EmptySet DEF IsSum
  <1>4. ASSUME NEW t \in SUBSET S, t # {}, t \ {First(t)} \in P PROVE t \in P
    <2> DEFINE u == t \ {First(t)}
               n == Cardinality(u)
    <2>1. First(t) \in t /\ u \in SUBSET S /\ F[u] = c * n
      BY <1>4, FirstIn
    <2>2. n \in Nat /\ IsFiniteSet(t)
      BY <1>2, <2>1
    <2>3. Cardinality(t) = n + 1
      <3>1. n = Cardinality(t) - 1
        BY <2>1, <2>2, FS_RemoveElement
      <3>2. Cardinality(t) \in Nat
        BY <1>2
      <3> HIDE DEF n
      <3>3. QED
        BY <3>1, <3>2
    <2>4. F[t] = c + F[u]
      BY <1>1, <1>4, <2>1 DEF IsSum
    <2> HIDE DEF n, u
    <2>5. c * (n + 1) = c * n + c /\ c * n \in Int
      BY <2>2
    <2>6. F[t] = c * Cardinality(t)
      BY <2>1, <2>3, <2>4, <2>5
    <2>7. QED
      BY <2>6
  <1>5. SUBSET S \subseteq P
    <2> HIDE DEF P
    <2> QED
      BY <1>3, <1>4, FoldInduction
  <1>6. QED
    BY <1>1, <1>5

\* A multiple of a sum
LEMMA SumTimes ==
  ASSUME NEW S, IsFiniteSet(S), NEW f \in [S -> Int], NEW a \in Int
  PROVE  Sum([s \in S |-> a * f[s]]) = a * Sum(f)
  <1>1. Sum([s \in S |-> a * f[s] + 0 * f[s]]) = a * Sum(f) + 0 * Sum(f)
    BY SumLinear
  <1>2. [s \in S |-> a * f[s] + 0 * f[s]] = [s \in S |-> a * f[s]]
    <2>1. \A s \in S : a * f[s] + 0 * f[s] = a * f[s]
      <3> SUFFICES ASSUME NEW s \in S PROVE a * f[s] + 0 * f[s] = a * f[s]
        OBVIOUS
      <3>1. f[s] \in Int /\ a * f[s] \in Int
        OBVIOUS
      <3>2. QED
        BY <3>1
    <2>2. QED
      BY <2>1, Zenon
  <1>3. Sum(f) \in Int /\ a * Sum(f) \in Int
    BY SumType
  <1>4. a * Sum(f) + 0 * Sum(f) = a * Sum(f)
    BY <1>3
  <1>5. QED
    BY <1>1, <1>2, <1>4

-----------------------------------------------------------------------------
(* Rounding *)

\* A quotient of natural numbers
LEMMA DivFacts ==
  ASSUME NEW m \in Nat, NEW e \in Nat \ {0}
  PROVE  m \div e \in Nat /\ e * (m \div e) <= m
  OBVIOUS

\* Rounding is odd, and adds at most half a unit.
LEMMA RoundedFacts ==
  ASSUME NEW n \in Nat, NEW d \in Nat \ {0}
  PROVE  /\ Rounded(n, d) \in Nat
         /\ (2 * d) * Rounded(n, d) <= 2 * n + d
         /\ Rounded(-n, d) = -Rounded(n, d)
  <1>1. 2 * n + d \in Nat /\ 2 * d \in Nat \ {0}
    OBVIOUS
  <1>2. /\ (2 * n + d) \div (2 * d) \in Nat
        /\ (2 * d) * ((2 * n + d) \div (2 * d)) <= 2 * n + d
    BY <1>1, DivFacts
  <1>3. Rounded(n, d) = (2 * n + d) \div (2 * d)
    BY DEF Rounded
  <1>4. CASE n = 0
    <2>1. d < 2 * d /\ d \in Nat
      OBVIOUS
    <2>2. (2 * 0 + d) \div (2 * d) = 0
      <3> DEFINE q == (2 * 0 + d) \div (2 * d)
      <3>1. q \in Nat /\ (2 * d) * q <= d
        BY <1>2, <1>4
      <3> HIDE DEF q
      <3>2. q = 0 \/ q >= 1
        BY <3>1
      <3>3. q >= 1 => (2 * d) * q >= 2 * d
        BY <3>1
      <3>4. q = 0
        BY <2>1, <3>1, <3>2, <3>3
      <3>5. QED
        BY <3>4 DEF q
    <2>3. QED
      BY <1>2, <1>3, <1>4, <2>2 DEF Rounded
  <1>5. CASE n # 0
    <2>1. -n < 0 /\ -(-n) = n
      BY <1>5
    <2>2. Rounded(-n, d) = -((2 * n + d) \div (2 * d))
      BY <2>1 DEF Rounded
    <2>3. QED
      BY <1>2, <1>3, <2>2
  <1>6. QED
    BY <1>4, <1>5

\* The magnitude of a rounded number
LEMMA RoundedAbs ==
  ASSUME NEW n \in Int, NEW d \in Nat \ {0}
  PROVE  /\ Rounded(n, d) \in Int
         /\ AbsOf(n) \in Nat /\ AbsOf(Rounded(n, d)) = Rounded(AbsOf(n), d)
  <1>1. CASE n >= 0
    <2>1. n \in Nat /\ AbsOf(n) = n
      BY <1>1 DEF AbsOf
    <2>2. Rounded(n, d) \in Nat
      BY <2>1, RoundedFacts
    <2>3. QED
      BY <2>1, <2>2 DEF AbsOf
  <1>2. CASE n < 0
    <2> DEFINE m == -n
    <2>1. m \in Nat /\ AbsOf(n) = m /\ n = -m
      BY <1>2 DEF AbsOf
    <2> HIDE DEF m
    <2>2. Rounded(m, d) \in Nat /\ Rounded(-m, d) = -Rounded(m, d)
      BY <2>1, RoundedFacts
    <2>3. QED
      BY <2>1, <2>2 DEF AbsOf
  <1>3. QED
    BY <1>1, <1>2

\* A weight that is scaled down does not grow by rounding.
LEMMA ScaledDown ==
  ASSUME NEW w \in Nat, NEW c \in Nat, NEW g \in Nat \ {0}, c < g
  PROVE  /\ w * c \in Nat /\ Rounded(w * c, g) \in Nat
         /\ Rounded(w * c, g) <= w
         /\ (2 * g) * Rounded(w * c, g) <= (2 * c) * w + g
  <1> DEFINE r == Rounded(w * c, g)
  <1>1. w * c \in Nat /\ w * c <= w * g
    OBVIOUS
  <1>2. r \in Nat /\ (2 * g) * r <= 2 * (w * c) + g
    BY <1>1, RoundedFacts
  <1> HIDE DEF r
  <1>3. 2 * (w * c) = (2 * c) * w
    OBVIOUS
  <1>4. (2 * g) * r <= 2 * (w * g) + g
    BY <1>1, <1>2
  <1>5. ASSUME r > w PROVE FALSE
    <2>1. r >= w + 1
      BY <1>2, <1>5
    <2>2. (2 * g) * r >= (2 * g) * (w + 1)
      BY <1>2, <2>1
    <2>3. (2 * g) * (w + 1) = 2 * (w * g) + 2 * g
      OBVIOUS
    <2>4. w * g \in Nat /\ (2 * g) * r \in Nat
      BY <1>2
    <2>5. QED
      BY <1>4, <2>2, <2>3, <2>4
  <1>6. QED
    BY <1>1, <1>2, <1>3, <1>5 DEF r

\* Weights scaled to a cap together keep it, but for half a unit each.
LEMMA ScaledSum ==
  ASSUME NEW S, IsFiniteSet(S), NEW w \in [S -> Nat], NEW c \in Nat, c < Sum(w)
  PROVE  2 * Sum([s \in S |-> Rounded(w[s] * c, Sum(w))]) <= 2 * c + Cardinality(S)
  <1> DEFINE g == Sum(w)
             n == Cardinality(S)
             r == [s \in S |-> Rounded(w[s] * c, g)]
             one == [s \in S |-> 1]
             left == [s \in S |-> (2 * g) * r[s]]
             right == [s \in S |-> (2 * c) * w[s] + g * one[s]]
  <1>1. w \in [S -> Int] /\ one \in [S -> Int]
    OBVIOUS
  <1>2. g \in Int
    BY <1>1, SumType
  <1>3. g \in Nat \ {0} /\ c < g
    BY <1>2
  <1>4. n \in Nat
    BY FS_CardinalityType
  <1>5. Sum(one) = n
    <2>1. \A s \in S : one[s] = 1
      OBVIOUS
    <2> HIDE DEF one
    <2>2. Sum(one) = 1 * Cardinality(S)
      BY <1>1, <2>1, SumConstant
    <2>3. QED
      BY <1>4, <2>2
  <1> HIDE DEF g
  <1>6. ASSUME NEW s \in S
        PROVE  r[s] \in Nat /\ left[s] \in Int /\ right[s] \in Int /\ left[s] <= right[s]
    <2>1. r[s] = Rounded(w[s] * c, g) /\ w[s] \in Nat /\ one[s] = 1
      OBVIOUS
    <2>2. r[s] \in Nat /\ (2 * g) * r[s] <= (2 * c) * w[s] + g
      BY <1>3, <2>1, ScaledDown
    <2>3. left[s] = (2 * g) * r[s] /\ right[s] = (2 * c) * w[s] + g * 1
      BY <2>1
    <2> HIDE DEF r, one, left, right
    <2>4. QED
      BY <1>3, <2>1, <2>2, <2>3
  <1>7. r \in [S -> Int] /\ left \in [S -> Int] /\ right \in [S -> Int]
    BY <1>6
  <1>8. Sum(left) <= Sum(right)
    <2> HIDE DEF left, right
    <2> QED
      BY <1>6, <1>7, SumMonotone
  <1>9. Sum(left) = (2 * g) * Sum(r)
    <2> HIDE DEF r
    <2> QED
      BY <1>3, <1>7, SumTimes
  <1>10. Sum(right) = (2 * c) * g + g * n
    <2> HIDE DEF one
    <2>1. Sum(right) = (2 * c) * Sum(w) + g * Sum(one)
      BY <1>1, <1>3, SumLinear
    <2>2. QED
      BY <1>5, <2>1 DEF g
  <1>11. Sum(r) \in Int
    <2> HIDE DEF r
    <2> QED
      BY <1>7, SumType
  <1> HIDE DEF left, right, r, n
  <1>12. (2 * g) * Sum(r) = g * (2 * Sum(r)) /\ (2 * c) * g + g * n = g * (2 * c + n)
    BY <1>3, <1>4, <1>11
  <1>13. g * (2 * Sum(r)) <= g * (2 * c + n)
    BY <1>8, <1>9, <1>10, <1>12
  <1>14. 2 * Sum(r) <= 2 * c + n
    BY <1>3, <1>4, <1>11, <1>13, CancelLess
  <1>15. QED
    BY <1>14 DEF r, n, g

-----------------------------------------------------------------------------
(* Choices *)

\* A set of numbers has a least one.
LEMMA LeastExists ==
  ASSUME NEW T \in SUBSET Nat, T # {}
  PROVE  \E c \in T : \A x \in T : c <= x
  <1>1. PICK c \in T : \A x \in T : ~(<<x, c>> \in OpToRel(<, Nat))
    BY WFMin, NatLessThanWellFounded, Zenon
  <1>2. ASSUME NEW x \in T PROVE c <= x
    <2>1. x \in Nat /\ c \in Nat
      OBVIOUS
    <2>2. ~(x < c)
      BY <1>1, <2>1 DEF OpToRel
    <2>3. QED
      BY <2>1, <2>2
  <1>3. QED
    BY <1>2

LEMMA MinFacts ==
  ASSUME NEW T \in SUBSET Nat, T # {}
  PROVE  Min(T) \in T
  BY LeastExists DEF Min

\* A finite set of numbers has a greatest one.
LEMMA MaxFacts ==
  ASSUME NEW T \in SUBSET Nat, IsFiniteSet(T), T # {}
  PROVE  Max(T) \in T
  <1> DEFINE P == {t \in SUBSET T : t = {} \/ \E c \in t : \A x \in t : c >= x}
  <1>1. {} \in P
    OBVIOUS
  <1>2. ASSUME NEW t \in SUBSET T, t # {}, t \ {First(t)} \in P PROVE t \in P
    <2> DEFINE e == First(t)
    <2>1. e \in t /\ e \in Nat
      BY <1>2, FirstIn
    <2>2. CASE t \ {e} = {}
      <3>1. \A x \in t : x = e
        BY <2>2
      <3> HIDE DEF e
      <3>2. e >= e
        BY <2>1
      <3>3. QED
        BY <2>1, <3>1, <3>2
    <2>3. CASE t \ {e} # {}
      <3>1. PICK c \in t \ {e} : \A x \in t \ {e} : c >= x
        BY <1>2, <2>3
      <3>2. c \in Nat /\ (e <= c \/ c <= e)
        BY <2>1
      <3>3. CASE e <= c
        <4>1. \A x \in t : c >= x
          BY <2>1, <3>1, <3>2, <3>3
        <4>2. QED
          BY <3>1, <4>1
      <3>4. CASE c <= e
        <4>1. \A x \in t : e >= x
          <5> SUFFICES ASSUME NEW x \in t, x # e PROVE e >= x
            BY <2>1
          <5>1. c >= x /\ x \in Nat
            BY <3>1
          <5>2. QED
            BY <2>1, <3>2, <3>4, <5>1
        <4>2. QED
          BY <2>1, <4>1
      <3>5. QED
        BY <3>2, <3>3, <3>4
    <2>4. QED
      BY <2>2, <2>3
  <1>3. SUBSET T \subseteq P
    <2> HIDE DEF P
    <2> QED
      BY <1>1, <1>2, FoldInduction
  <1>4. \E c \in T : \A x \in T : c >= x
    BY <1>3
  <1>5. QED
    BY <1>4 DEF Max

LEMMA Universe ==
  /\ IsFiniteSet(Symbols) /\ Symbols # {}
  /\ DOMAIN SymbolOrder \subseteq Nat
  /\ \A s \in Symbols : \E i \in DOMAIN SymbolOrder : SymbolOrder[i] = s
  <1>1. SymbolOrder \in Seq(Symbols) /\ SymbolOrder # <<>>
    BY ShadowAssumption DEF ShadowAssumption
  <1>2. DOMAIN SymbolOrder = 1 .. Len(SymbolOrder) /\ Len(SymbolOrder) \in Nat
    BY <1>1
  <1>3. Len(SymbolOrder) # 0
    BY <1>1
  <1>4. IsFiniteSet(DOMAIN SymbolOrder)
    BY <1>2, FS_Interval
  <1>5. Symbols = {SymbolOrder[i] : i \in DOMAIN SymbolOrder}
    BY DEF Symbols, Range
  <1>6. IsFiniteSet(Symbols)
    <2>1. SymbolOrder \in [DOMAIN SymbolOrder -> Symbols]
      BY <1>1, <1>2
    <2>2. \A s \in Symbols : \E i \in DOMAIN SymbolOrder : SymbolOrder[i] = s
      BY <1>5
    <2>3. SymbolOrder \in Surjection(DOMAIN SymbolOrder, Symbols)
      BY <2>1, <2>2 DEF Surjection
    <2>4. QED
      BY <1>4, <2>3, FS_Surjection
  <1>7. 1 \in DOMAIN SymbolOrder
    BY <1>2, <1>3
  <1>8. QED
    BY <1>2, <1>5, <1>6, <1>7

\* The first of some symbols is one of them.
LEMMA FirstSymbolIn ==
  ASSUME NEW S \in SUBSET Symbols, S # {}
  PROVE  FirstSymbol(S) \in S
  <1> DEFINE T == {i \in DOMAIN SymbolOrder : SymbolOrder[i] \in S}
  <1>1. T \in SUBSET Nat /\ T # {}
    BY Universe
  <1>2. Min(T) \in T
    <2> HIDE DEF T
    <2> QED
      BY <1>1, MinFacts
  <1>3. QED
    BY <1>2 DEF FirstSymbol

Bars == Nat \cup {None}

\* The event with the earliest bar is one of the events.
LEMMA EarliestIn ==
  ASSUME NEW events, events # {}, \A e \in events : e.bar \in Bars
  PROVE  Earliest(events) \in events
  <1> DEFINE T == {e.bar + 1 : e \in events}
  <1>1. \A e \in events : e.bar \in Int /\ e.bar + 1 \in Nat
    BY DEF Bars, None
  <1>2. T \in SUBSET Nat /\ T # {}
    BY <1>1
  <1>3. PICK c \in T : \A x \in T : c <= x
    <2> HIDE DEF T
    <2> QED
      BY <1>2, LeastExists
  <1>4. PICK e \in events : c = e.bar + 1
    BY <1>3
  <1>5. ASSUME NEW f \in events PROVE e.bar <= f.bar
    <2>1. f.bar + 1 \in T
      OBVIOUS
    <2> HIDE DEF T
    <2>2. e.bar + 1 <= f.bar + 1
      BY <1>3, <1>4, <2>1
    <2>3. QED
      BY <1>1, <2>2
  <1>6. QED
    BY <1>5 DEF Earliest

-----------------------------------------------------------------------------
(* The events of a run *)

\* A bar that is complete and not too old
Fresh(h, asOf) ==
  /\ (h + 1) * TicksPerBar <= asOf
  /\ asOf - h * TicksPerBar <= Tolerance

LEMMA ShadowConstants ==
  /\ TicksPerBar \in Nat \ {0} /\ Tolerance \in Nat /\ RankWindow \in Nat \ {0}
  /\ EventCap \in Nat \ {0} /\ BridgeSymbolCap \in Nat \ {0} /\ StartNow \in Nat
  /\ \A s \in Symbols : Side[s] \in {"LONG", "SHORT", "FLAT"}
  /\ History \in [Symbols -> SUBSET Nat] /\ LateHours \in [Symbols -> SUBSET Nat]
  /\ \A s \in Symbols : IsFiniteSet(History[s])
  /\ \A f \in AlphaSnapshots : IsFiniteSet(DOMAIN f)
  BY ShadowAssumption DEF ShadowAssumption

\* A read that is valid has a fresh bar as its last.
LEMMA ReadFacts ==
  ASSUME NEW c, NEW s, c[s] \in SUBSET Nat, IsFiniteSet(c[s]), NEW asOf \in Nat
  PROVE  LET read == ReadSymbol(c, s, asOf)
         IN  /\ read.status \in {"valid", "invalid"}
             /\ read.status = "valid" =>
                  Max(read.hours) \in Nat /\ Fresh(Max(read.hours), asOf)
  <1> DEFINE hours == {h \in c[s] : Completed(h, asOf)}
             read == ReadSymbol(c, s, asOf)
  <1>1. read.status \in {"valid", "invalid"}
    BY DEF ReadSymbol
  <1>2. ASSUME read.status = "valid"
        PROVE  Max(read.hours) \in Nat /\ Fresh(Max(read.hours), asOf)
    <2>1. /\ ~(Cardinality(hours) < RankWindow + 1)
          /\ ~(asOf - Max(hours) * TicksPerBar > Tolerance)
          /\ read.hours = hours
      BY <1>2 DEF ReadSymbol
    <2>2. hours \in SUBSET Nat /\ IsFiniteSet(hours) /\ hours \in SUBSET c[s]
      BY FS_Subset
    <2>3. hours # {}
      <3>1. Cardinality({}) = 0 /\ RankWindow \in Nat
        BY FS_EmptySet, ShadowConstants
      <3>2. ~(Cardinality(hours) < RankWindow + 1)
        BY <2>1
      <3> HIDE DEF hours, read
      <3>3. QED
        BY <3>1, <3>2
    <2>4. Max(hours) \in hours
      <3> HIDE DEF hours
      <3> QED
        BY <2>2, <2>3, MaxFacts
    <2>5. Max(hours) \in Nat /\ Completed(Max(hours), asOf)
      BY <2>4
    <2> HIDE DEF hours, read
    <2> DEFINE h == Max(hours)
    <2>6. h \in Nat /\ TicksPerBar \in Nat /\ Tolerance \in Nat /\ h * TicksPerBar \in Nat
      BY <2>5, ShadowConstants
    <2>7. h * TicksPerBar + TicksPerBar <= asOf
      BY <2>5 DEF Completed
    <2>8. (h + 1) * TicksPerBar = h * TicksPerBar + TicksPerBar
      BY <2>6
    <2>9. asOf - h * TicksPerBar <= Tolerance
      BY <2>1, <2>6
    <2>10. QED
      BY <2>1, <2>6, <2>7, <2>8, <2>9 DEF Fresh
  <1>3. QED
    BY <1>1, <1>2

SoundCandidate(x, s, asOf) ==
  /\ x.bar \in Bars
  /\ x.status = IF x.bar = None THEN "invalid" ELSE "valid"
  /\ x.id = CandidateId(s, x.bar)
  /\ DOMAIN x.legs = {s}
  /\ x.legs[s].status = x.status /\ x.legs[s].weight \in Int
  /\ x.bar # None => Fresh(x.bar, asOf)

\* A weight that is scaled by a label and signed by a side is a number.
LEMMA LabelWeight ==
  ASSUME NEW score, NEW side \in {"LONG", "SHORT", "FLAT"}
  PROVE  SignedWeight(Rounded(EventCap * CapMultiplier[LabelForScore(score)], 4), side) \in Int
  <1> DEFINE k == CapMultiplier[LabelForScore(score)]
             w == Rounded(EventCap * k, 4)
  <1>1. LabelForScore(score) \in {"Q1", "Q2", "Q3", "Q4"}
    BY DEF LabelForScore
  <1>2. k \in Nat
    BY <1>1 DEF CapMultiplier
  <1> HIDE DEF k
  <1>3. EventCap * k \in Nat
    BY <1>2, ShadowConstants
  <1>4. w \in Int
    BY <1>3, RoundedFacts
  <1> HIDE DEF w
  <1>5. SideAdjusted(w, side) \in Int
    <2>1. CASE side = "LONG"
      BY <1>4, <2>1 DEF SideAdjusted
    <2>2. CASE side = "SHORT"
      BY <1>4, <2>2 DEF SideAdjusted
    <2>3. CASE side = "FLAT"
      BY <1>4, <2>3 DEF SideAdjusted
    <2>4. QED
      BY <2>1, <2>2, <2>3
  <1>6. QED
    BY <1>5 DEF SignedWeight, w, k

LEMMA CandidateFacts ==
  ASSUME NEW c, NEW s \in Symbols, c[s] \in SUBSET Nat, IsFiniteSet(c[s]), NEW asOf \in Nat
  PROVE  SoundCandidate(BuildCandidate(c, s, asOf), s, asOf)
  <1> DEFINE read == ReadSymbol(c, s, asOf)
             h == IF read.status = "valid" THEN Max(read.hours) ELSE None
             hours == SX!SetToSortSeq(read.hours, <)
             bars == [i \in DOMAIN hours |-> Bar[s][hours[i]]]
             score == QualityScore(Features(bars, Side[s]))
             raw == Rounded(EventCap * CapMultiplier[LabelForScore(score)], 4)
             weight == IF read.status = "valid" THEN SignedWeight(raw, Side[s]) ELSE 0
             leg == [status |-> read.status, weight |-> weight]
             x == [id |-> CandidateId(s, h), bar |-> h, status |-> read.status,
                   legs |-> [y \in {s} |-> leg]]
  <1>1. BuildCandidate(c, s, asOf) = x
    BY DEF BuildCandidate
  <1>2. /\ read.status \in {"valid", "invalid"}
        /\ read.status = "valid" => Max(read.hours) \in Nat /\ Fresh(Max(read.hours), asOf)
    BY ReadFacts
  <1> HIDE DEF read
  <1>3. SignedWeight(raw, Side[s]) \in Int
    <2> HIDE DEF score
    <2> QED
      BY ShadowConstants, LabelWeight
  <1>4. weight \in Int
    <2> HIDE DEF raw
    <2> QED
      BY <1>3
  <1> HIDE DEF weight
  <1>5. h \in Bars /\ (h = None <=> read.status # "valid") /\ (h # None => Fresh(h, asOf))
    BY <1>2 DEF Bars, None
  <1> HIDE DEF h
  <1>6. SoundCandidate(x, s, asOf)
    BY <1>2, <1>4, <1>5 DEF SoundCandidate
  <1>7. QED
    BY <1>1, <1>6

LEMMA AbsSumType ==
  ASSUME NEW S, IsFiniteSet(S), NEW f \in [S -> Int]
  PROVE  AbsSum(f) \in Int
  <1> DEFINE g == [s \in S |-> AbsOf(f[s])]
  <1>1. \A s \in S : AbsOf(f[s]) \in Int
    BY DEF AbsOf
  <1>2. g \in [S -> Int]
    BY <1>1
  <1>3. AbsSum(f) = Sum(g)
    BY DEF AbsSum
  <1> HIDE DEF g
  <1>4. QED
    BY <1>2, <1>3, SumType

\* The id of an event with usable data names its bar and its symbols.
IdOf(h, S) ==
  IF Cardinality(S) = 1 THEN CandidateId(FirstSymbol(S), h) ELSE MergedId(h, S)

LEMMA IdNamesSymbols ==
  ASSUME NEW h, NEW S \in SUBSET Symbols, S # {}
  PROVE  IdOf(h, S).symbols = S
  <1>1. CASE Cardinality(S) = 1
    <2>1. FirstSymbol(S) \in S /\ IsFiniteSet(S)
      BY FirstSymbolIn, Universe, FS_Subset
    <2>2. S = {FirstSymbol(S)}
      <3>1. PICK x : S = {x}
        BY <1>1, <2>1, FS_Singleton
      <3>2. QED
        BY <2>1, <3>1
    <2>3. CandidateId(FirstSymbol(S), h).symbols = {FirstSymbol(S)}
      BY DEF CandidateId
    <2>4. QED
      BY <1>1, <2>2, <2>3 DEF IdOf
  <1>2. CASE Cardinality(S) # 1
    BY <1>2 DEF IdOf, MergedId
  <1>3. QED
    BY <1>1, <1>2

SoundEvent(e, asOf) ==
  /\ e.bar \in Bars
  /\ DOMAIN e.legs \in SUBSET Symbols /\ DOMAIN e.legs # {}
  /\ \A s \in DOMAIN e.legs : e.legs[s].weight \in Int
  /\ e.status = "valid" =>
       /\ e.bar # None /\ Fresh(e.bar, asOf)
       /\ e.id = IdOf(e.bar, DOMAIN e.legs)
       /\ \A s \in DOMAIN e.legs : e.legs[s].status = "valid"

\* The candidates of one bar make one sound event.
LEMMA MergeFacts ==
  ASSUME NEW x, NEW asOf \in Nat, NEW h \in Bars, NEW group \in SUBSET Symbols,
         Cardinality(group) # 1, group # {},
         \A s \in group : SoundCandidate(x[s], s, asOf) /\ x[s].bar = h
  PROVE  SoundEvent(MergeGroup(h, group, x), asOf)
  <1> DEFINE weight(s) == x[s].legs[s].weight
             valid == {s \in group : x[s].legs[s].status = "valid"}
             weights == [s \in valid |-> weight(s)]
             gross == AbsSum(weights)
             scaled(w) == IF gross > EventCap THEN Rounded(w * EventCap, gross) ELSE w
             merged == [s \in valid |-> [status |-> "valid", weight |-> scaled(weight(s))]]
             kept == [s \in group |-> x[s].legs[s]]
             e == MergeGroup(h, group, x)
  <1>1. \A s \in group : /\ weight(s) \in Int
                         /\ x[s].legs[s].status = IF h = None THEN "invalid" ELSE "valid"
                         /\ h # None => Fresh(h, asOf)
    BY DEF SoundCandidate
  <1>2. e = IF valid # {}
            THEN [id |-> MergedId(h, valid), bar |-> h, status |-> "valid", legs |-> merged]
            ELSE [id |-> MergedId(h, group), bar |-> h, status |-> "invalid", legs |-> kept]
    BY DEF MergeGroup
  <1>3. CASE h = None
    <2>1. valid = {}
      BY <1>1, <1>3
    <2> HIDE DEF valid, merged, kept
    <2>2. e.bar = h /\ e.status = "invalid" /\ e.legs = kept
      BY <1>2, <2>1
    <2>3. DOMAIN kept = group /\ \A s \in group : kept[s].weight \in Int
      BY <1>1 DEF kept
    <2> HIDE DEF e
    <2>4. SoundEvent(e, asOf)
      BY <2>2, <2>3 DEF SoundEvent
    <2>5. QED
      BY <2>4 DEF e
  <1>4. CASE h # None
    <2>1. valid = group
      BY <1>1, <1>4
    <2>2. weights \in [group -> Int]
      BY <1>1, <2>1
    <2>3. IsFiniteSet(group)
      BY Universe, FS_Subset
    <2>4. gross \in Int
      <3> HIDE DEF weights
      <3> QED
        BY <2>2, <2>3, AbsSumType
    <2>5. ASSUME NEW s \in group PROVE scaled(weight(s)) \in Int
      <3> DEFINE w == weight(s)
      <3>1. w \in Int /\ EventCap \in Nat \ {0}
        BY <1>1, ShadowConstants
      <3> HIDE DEF w, gross
      <3>2. w * EventCap \in Int
        BY <3>1
      <3>3. gross > EventCap => gross \in Nat \ {0}
        BY <2>4, <3>1
      <3>4. gross > EventCap => Rounded(w * EventCap, gross) \in Int
        BY <3>2, <3>3, RoundedAbs
      <3>5. QED
        BY <3>1, <3>4 DEF w
    <2>6. DOMAIN merged = group /\ \A s \in group : merged[s].status = "valid" /\ merged[s].weight \in Int
      BY <2>1, <2>5
    <2> HIDE DEF merged, valid
    <2>7. e.bar = h /\ e.status = "valid" /\ e.legs = merged /\ e.id = MergedId(h, group)
      BY <1>2, <2>1
    <2>8. h # None /\ Fresh(h, asOf)
      BY <1>1, <1>4
    <2>9. IdOf(h, group) = MergedId(h, group)
      BY DEF IdOf
    <2> HIDE DEF e
    <2>10. SoundEvent(e, asOf)
      BY <2>6, <2>7, <2>8, <2>9 DEF SoundEvent
    <2>11. QED
      BY <2>10 DEF e
  <1>5. QED
    BY <1>3, <1>4

LEMMA AggregateFacts ==
  ASSUME NEW x, NEW asOf \in Nat, \A s \in Symbols : SoundCandidate(x[s], s, asOf)
  PROVE  /\ Aggregate(x) # {}
         /\ \A e \in Aggregate(x) : SoundEvent(e, asOf)
  <1> DEFINE group(h) == {s \in Symbols : x[s].bar = h}
             event(h) == IF Cardinality(group(h)) = 1 THEN x[FirstSymbol(group(h))]
                         ELSE MergeGroup(h, group(h), x)
  <1>1. Aggregate(x) = {event(x[s].bar) : s \in Symbols}
    BY DEF Aggregate
  <1>2. ASSUME NEW s \in Symbols PROVE SoundEvent(event(x[s].bar), asOf)
    <2> DEFINE h == x[s].bar
               g == group(h)
    <2>1. /\ h \in Bars /\ g \in SUBSET Symbols /\ s \in g /\ g # {}
          /\ \A q \in g : SoundCandidate(x[q], q, asOf) /\ x[q].bar = h
      BY DEF SoundCandidate
    <2> HIDE DEF g
    <2>2. CASE Cardinality(g) = 1
      <3> DEFINE f == FirstSymbol(g)
      <3>1. f \in g
        BY <2>1, FirstSymbolIn
      <3>2. IsFiniteSet(g)
        BY <2>1, Universe, FS_Subset
      <3>3. PICK y : g = {y}
        BY <2>2, <3>2, FS_Singleton
      <3>4. g = {f}
        BY <3>1, <3>3
      <3>5. event(h) = x[f]
        BY <2>2 DEF g
      <3>6. SoundCandidate(x[f], f, asOf) /\ x[f].bar = h
        BY <2>1, <3>1
      <3>7. IdOf(h, g) = CandidateId(f, h)
        BY <2>2 DEF IdOf
      <3>8. SoundEvent(x[f], asOf)
        <4> HIDE DEF f, h
        <4>1. /\ x[f].bar \in Bars /\ DOMAIN x[f].legs = g
              /\ x[f].status = IF h = None THEN "invalid" ELSE "valid"
              /\ x[f].id = IdOf(x[f].bar, g)
              /\ x[f].legs[f].status = x[f].status /\ x[f].legs[f].weight \in Int
              /\ h # None => Fresh(h, asOf)
          BY <3>4, <3>6, <3>7 DEF SoundCandidate
        <4>2. QED
          BY <2>1, <3>4, <3>6, <4>1 DEF SoundEvent
      <3>9. QED
        BY <3>5, <3>8
    <2>3. CASE Cardinality(g) # 1
      <3>1. event(h) = MergeGroup(h, g, x)
        BY <2>3 DEF g
      <3>2. SoundEvent(MergeGroup(h, g, x), asOf)
        BY <2>1, <2>3, MergeFacts
      <3>3. QED
        BY <3>1, <3>2
    <2>4. QED
      BY <2>2, <2>3
  <1> HIDE DEF event
  <1>3. QED
    BY <1>1, <1>2, Universe

\* What a run makes of the cache
LEMMA EventsSound ==
  ASSUME NEW c, \A s \in Symbols : c[s] \in SUBSET Nat /\ IsFiniteSet(c[s]), NEW asOf \in Nat
  PROVE  /\ EventsOf(c, asOf) # {}
         /\ \A e \in EventsOf(c, asOf) : SoundEvent(e, asOf)
  <1> DEFINE x == [s \in Symbols |-> BuildCandidate(c, s, asOf)]
  <1>1. ASSUME NEW s \in Symbols PROVE SoundCandidate(x[s], s, asOf)
    <2>1. SoundCandidate(BuildCandidate(c, s, asOf), s, asOf)
      BY CandidateFacts
    <2>2. QED
      BY <2>1
  <1>2. EventsOf(c, asOf) = Aggregate(x)
    BY DEF EventsOf
  <1> HIDE DEF x
  <1>3. QED
    BY <1>1, <1>2, AggregateFacts

-----------------------------------------------------------------------------
(* Caps *)

LEMMA AbsFacts ==
  ASSUME NEW x \in Int, NEW c \in Nat
  PROVE  /\ AbsOf(x) \in Nat
         /\ AbsOf(x * c) = AbsOf(x) * c
         /\ AbsOf(Clip(x, c)) <= c /\ Clip(x, c) \in Int
  <1>1. CASE x >= 0
    <2>1. x * c >= 0
      BY <1>1
    <2>2. QED
      BY <1>1, <2>1 DEF AbsOf, Clip
  <1>2. CASE x < 0
    <2> DEFINE y == -x
    <2>1. y \in Nat /\ x = -y /\ x * c = -(y * c) /\ y * c \in Nat
      BY <1>2
    <2> HIDE DEF y
    <2>2. AbsOf(x) = y /\ AbsOf(x * c) = y * c
      BY <1>2, <2>1 DEF AbsOf
    <2>3. AbsOf(Clip(x, c)) <= c /\ Clip(x, c) \in Int
      BY <1>2 DEF AbsOf, Clip
    <2>4. QED
      BY <2>1, <2>2, <2>3
  <1>3. QED
    BY <1>1, <1>2

\* The legs of a bridged target keep the caps, whatever the rows were.
LEMMA BridgeKeepsCaps ==
  ASSUME NEW I, IsFiniteSet(I), NEW legs, DOMAIN legs = I,
         \A i \in I : legs[i].weight \in Int
  PROVE  /\ DOMAIN CapLegs(legs) = I
         /\ 2 * (GrossOf(CapLegs(legs)) - EventCap) <= Cardinality(I)
         /\ \A i \in I : AbsOf(CapLegs(legs)[i].weight) <= BridgeSymbolCap
  <1> DEFINE capped == [i \in I |-> Clip(legs[i].weight, BridgeSymbolCap)]
             size == [i \in I |-> AbsOf(capped[i])]
             gross == AbsSum(capped)
             fitted(w) == IF gross > EventCap THEN Rounded(w * EventCap, gross) ELSE w
             t == CapLegs(legs)
             final == [i \in I |-> AbsOf(t[i].weight)]
  <1>1. EventCap \in Nat /\ BridgeSymbolCap \in Nat /\ Cardinality(I) \in Nat
    BY ShadowConstants, FS_CardinalityType
  <1>2. \A i \in I : /\ capped[i] \in Int
                     /\ size[i] \in Nat /\ size[i] <= BridgeSymbolCap
    BY <1>1, AbsFacts
  <1>3. gross = Sum(size)
    BY DEF AbsSum
  <1>4. DOMAIN t = I /\ \A i \in I : t[i].weight = fitted(capped[i])
    BY DEF CapLegs
  <1>5. GrossOf(t) = Sum(final)
    BY <1>4 DEF GrossOf, AbsSum
  <1>6. \A i \in I : size[i] = AbsOf(capped[i]) /\ final[i] = AbsOf(t[i].weight)
    OBVIOUS
  <1>7. size \in [I -> Nat]
    BY <1>2
  <1>8. Sum(size) \in Int
    BY <1>7, SumType
  <1> HIDE DEF capped
  <1>9. CASE gross > EventCap
    <2>1. gross \in Nat \ {0}
      BY <1>1, <1>3, <1>8, <1>9
    <2>2. ASSUME NEW i \in I
          PROVE  final[i] = Rounded(size[i] * EventCap, Sum(size)) /\ final[i] <= size[i]
      <3>1. t[i].weight = Rounded(capped[i] * EventCap, gross) /\ capped[i] * EventCap \in Int
        BY <1>1, <1>2, <1>4, <1>9
      <3>2. AbsOf(capped[i] * EventCap) = size[i] * EventCap
        BY <1>1, <1>2, AbsFacts
      <3>3. AbsOf(t[i].weight) = Rounded(AbsOf(capped[i] * EventCap), gross)
        BY <2>1, <3>1, RoundedAbs
      <3>4. Rounded(size[i] * EventCap, gross) <= size[i]
        BY <1>1, <1>2, <1>9, <2>1, ScaledDown
      <3> HIDE DEF size, gross, t
      <3>5. QED
        BY <1>3, <1>6, <3>2, <3>3, <3>4
    <2>3. final = [i \in I |-> Rounded(size[i] * EventCap, Sum(size))]
      BY <2>2
    <2> HIDE DEF size, gross, t, final
    <2>4. 2 * Sum(final) <= 2 * EventCap + Cardinality(I)
      BY <1>1, <1>3, <1>7, <1>9, <2>3, ScaledSum
    <2>5. \A i \in I : AbsOf(t[i].weight) <= BridgeSymbolCap
      <3> SUFFICES ASSUME NEW i \in I PROVE AbsOf(t[i].weight) <= BridgeSymbolCap
        OBVIOUS
      <3>1. final[i] <= size[i] /\ size[i] <= BridgeSymbolCap /\ final[i] = AbsOf(t[i].weight)
        BY <1>2, <1>6, <2>2
      <3>2. size[i] \in Nat /\ Rounded(size[i] * EventCap, gross) \in Nat
        BY <1>1, <1>2, <1>9, <2>1, ScaledDown
      <3>3. final[i] \in Nat
        BY <1>3, <2>2, <3>2
      <3>4. QED
        BY <1>1, <3>1, <3>2, <3>3
    <2>6. Sum(final) \in Int
      <3>1. \A i \in I : Rounded(size[i] * EventCap, gross) \in Nat
        BY <1>1, <1>2, <1>9, <2>1, ScaledDown
      <3>2. final \in [I -> Int]
        BY <1>3, <2>3, <3>1
      <3>3. QED
        BY <3>2, SumType
    <2>7. 2 * (GrossOf(t) - EventCap) <= Cardinality(I)
      BY <1>1, <1>5, <2>4, <2>6
    <2>8. QED
      BY <1>4, <2>5, <2>7 DEF t
  <1>10. CASE ~(gross > EventCap)
    <2>1. \A i \in I : t[i].weight = capped[i]
      BY <1>4, <1>10
    <2>2. final = size
      BY <1>6, <2>1
    <2> HIDE DEF size, gross, t, final
    <2>3. 2 * (GrossOf(t) - EventCap) <= Cardinality(I)
      BY <1>1, <1>3, <1>5, <1>8, <1>10, <2>2
    <2>4. \A i \in I : AbsOf(t[i].weight) <= BridgeSymbolCap
      BY <1>2, <1>6, <2>1
    <2>5. QED
      BY <1>4, <2>3, <2>4 DEF t
  <1>11. QED
    BY <1>9, <1>10

\* Weights of one size, each with the sign its symbol has
OfOneSize(w, sign, v) == w = [s \in DOMAIN sign |-> sign[s] * v]

LEMMA OneSizeFacts ==
  ASSUME NEW S, IsFiniteSet(S), NEW sign \in [S -> {-1, 1}], NEW v \in Nat, NEW w,
         OfOneSize(w, sign, v)
  PROVE  /\ w \in [S -> Int] /\ \A s \in S : w[s] = sign[s] * v
         /\ AbsSum(w) = Cardinality(S) * v
         /\ Sum(w) = v * Sum(sign)
  <1>1. \A s \in S : sign[s] * v \in Int /\ AbsOf(sign[s] * v) = v
    <2> SUFFICES ASSUME NEW s \in S PROVE sign[s] * v \in Int /\ AbsOf(sign[s] * v) = v
      OBVIOUS
    <2>1. CASE sign[s] = 1
      BY <2>1 DEF AbsOf
    <2>2. CASE sign[s] = -1
      <3>1. sign[s] * v = -v
        BY <2>2
      <3>2. QED
        BY <3>1 DEF AbsOf
    <2>3. QED
      BY <2>1, <2>2
  <1>2. w \in [S -> Int] /\ \A s \in S : w[s] = sign[s] * v
    BY <1>1 DEF OfOneSize
  <1>3. AbsSum(w) = Cardinality(S) * v
    <2> DEFINE size == [s \in S |-> AbsOf(w[s])]
    <2>1. size \in [S -> Int] /\ \A s \in S : size[s] = v
      BY <1>1, <1>2
    <2>2. AbsSum(w) = Sum(size)
      BY <1>2 DEF AbsSum
    <2> HIDE DEF size
    <2>3. Sum(size) = v * Cardinality(S) /\ Cardinality(S) \in Nat
      BY <2>1, SumConstant, FS_CardinalityType
    <2>4. QED
      BY <2>2, <2>3
  <1>4. Sum(w) = v * Sum(sign)
    <2> DEFINE scaled == [s \in S |-> v * sign[s]]
    <2>1. sign \in [S -> Int]
      OBVIOUS
    <2>2. Sum(scaled) = v * Sum(sign)
      BY <2>1, SumTimes
    <2>3. \A s \in S : sign[s] * v = v * sign[s]
      BY <2>1
    <2>4. w = scaled
      BY <1>2, <2>3
    <2>5. QED
      BY <2>2, <2>4
  <1>5. QED
    BY <1>2, <1>3, <1>4

\* Signs cancel, and never add up to more than their number.
LEMMA SignsCancel ==
  ASSUME NEW S, IsFiniteSet(S), NEW sign \in [S -> {-1, 1}]
  PROVE  AbsOf(Sum(sign)) \in Nat /\ AbsOf(Sum(sign)) <= Cardinality(S)
  <1> DEFINE up == [s \in S |-> 1]
             down == [s \in S |-> -1]
  <1>1. /\ sign \in [S -> Int] /\ up \in [S -> Int] /\ down \in [S -> Int]
        /\ \A s \in S : up[s] = 1 /\ down[s] = -1 /\ down[s] <= sign[s] /\ sign[s] <= up[s]
    OBVIOUS
  <1> HIDE DEF up, down
  <1>2. Sum(up) = 1 * Cardinality(S) /\ Sum(down) = (-1) * Cardinality(S)
    BY <1>1, SumConstant
  <1>3. Sum(down) <= Sum(sign) /\ Sum(sign) <= Sum(up)
    BY <1>1, SumMonotone
  <1>4. Sum(sign) \in Int /\ Cardinality(S) \in Nat
    BY <1>1, SumType, FS_CardinalityType
  <1>5. QED
    BY <1>2, <1>3, <1>4 DEF AbsOf

\* k weights of one size that are scaled to a cap together
LEMMA ShrinkFacts ==
  ASSUME NEW v \in Nat, NEW k \in Nat, NEW c \in Nat
  PROVE  LET u == IF k * v > c THEN Rounded(v * c, k * v) ELSE v
         IN  u \in Nat /\ u <= v /\ 2 * (k * u - c) <= k
  <1> DEFINE u == IF k * v > c THEN Rounded(v * c, k * v) ELSE v
  <1>1. CASE k * v > c
    <2> DEFINE g == k * v
    <2>1. g \in Nat \ {0} /\ c < g
      BY <1>1
    <2>2. v \in Nat \ {0}
      BY <1>1
    <2>3. u = Rounded(v * c, g)
      BY <1>1
    <2>4. u \in Nat /\ u <= v /\ (2 * g) * u <= (2 * c) * v + g
      <3> HIDE DEF g, u
      <3> QED
        BY <2>1, <2>3, ScaledDown
    <2> HIDE DEF u
    <2>5. (2 * g) * u = v * (2 * (k * u)) /\ (2 * c) * v + g = v * (2 * c + k)
      BY <2>4
    <2> HIDE DEF g
    <2>6. k * u \in Nat /\ v * (2 * (k * u)) <= v * (2 * c + k)
      BY <2>4, <2>5
    <2>7. 2 * (k * u) <= 2 * c + k
      BY <2>2, <2>6, CancelLess
    <2>8. 2 * (k * u - c) <= k
      BY <2>6, <2>7
    <2>9. QED
      BY <2>4, <2>8 DEF u
  <1>2. CASE ~(k * v > c)
    <2>1. u = v /\ k * v \in Nat
      BY <1>2
    <2> HIDE DEF u
    <2>2. u \in Nat /\ u <= v /\ 2 * (k * u - c) <= k
      BY <1>2, <2>1
    <2>3. QED
      BY <2>2 DEF u
  <1>3. QED
    BY <1>1, <1>2

\* A rescaling leaves weights of one size that way.
LEMMA ScaleOneSize ==
  ASSUME NEW S, IsFiniteSet(S), NEW sign \in [S -> {-1, 1}], NEW v \in Nat, NEW w,
         OfOneSize(w, sign, v),
         NEW total \in Int, NEW k \in Nat, AbsOf(total) = k * v, NEW bound \in Nat
  PROVE  \E u \in Nat : /\ OfOneSize(ScaleTo(w, total, bound), sign, u)
                        /\ u <= v /\ 2 * (k * u - bound) <= k
  <1> DEFINE u == IF k * v > bound THEN Rounded(v * bound, k * v) ELSE v
  <1>1. u \in Nat /\ u <= v /\ 2 * (k * u - bound) <= k
    BY ShrinkFacts
  <1>2. w \in [S -> Int] /\ \A s \in S : w[s] = sign[s] * v
    BY OneSizeFacts
  <1>3. OfOneSize(ScaleTo(w, total, bound), sign, u)
    <2>1. CASE k * v > bound
      <3> DEFINE g == k * v
      <3>1. g \in Nat \ {0} /\ v * bound \in Nat
        BY <2>1
      <3>2. u = Rounded(v * bound, g) /\ AbsOf(total) = g /\ g > bound
        BY <2>1
      <3> HIDE DEF g, u
      <3>3. ASSUME NEW s \in S PROVE Rounded(w[s] * bound, g) = sign[s] * u
        <4>1. Rounded(v * bound, g) = u /\ Rounded(-(v * bound), g) = -u /\ u \in Int
          BY <1>1, <3>1, <3>2, RoundedFacts
        <4>2. CASE sign[s] = 1
          <5>1. w[s] = v
            BY <1>2, <4>2
          <5>2. QED
            BY <4>1, <4>2, <5>1
        <4>3. CASE sign[s] = -1
          <5>1. w[s] = -v /\ w[s] * bound = -(v * bound)
            BY <1>2, <4>3
          <5>2. sign[s] * u = -u
            BY <4>1, <4>3
          <5>3. QED
            BY <4>1, <5>1, <5>2
        <4>4. QED
          BY <4>2, <4>3
      <3>4. ScaleTo(w, total, bound) = [s \in S |-> Rounded(w[s] * bound, g)]
        BY <1>2, <3>2 DEF ScaleTo
      <3>5. QED
        BY <3>3, <3>4 DEF OfOneSize
    <2>2. CASE ~(k * v > bound)
      <3>1. ScaleTo(w, total, bound) = w /\ u = v
        BY <2>2 DEF ScaleTo
      <3> HIDE DEF u
      <3>2. QED
        BY <3>1
    <2>3. QED
      BY <2>1, <2>2
  <1> HIDE DEF u
  <1>4. QED
    BY <1>1, <1>3

WithinAlphaCaps(w) ==
  /\ 2 * (AbsSum(w) - AlphaMaxGross) <= Cardinality(DOMAIN w)
  /\ 2 * (AbsOf(Sum(w)) - AlphaMaxNet) <= Cardinality(DOMAIN w)

LEMMA AlphaConstants ==
  AlphaMaxSymbol \in Nat /\ AlphaMaxGross \in Nat /\ AlphaMaxNet \in Nat /\ AlphaBaseWeight \in Nat
  BY AlphaAssumption DEF AlphaAssumption

LEMMA NothingKeepsCaps == \A w : DOMAIN w = {} /\ w \in [{} -> Int] => WithinAlphaCaps(w)
  <1> SUFFICES ASSUME NEW w, DOMAIN w = {}, w \in [{} -> Int] PROVE WithinAlphaCaps(w)
    OBVIOUS
  <1> DEFINE size == [s \in DOMAIN w |-> AbsOf(w[s])]
  <1>1. DOMAIN size = {} /\ size \in [{} -> Int]
    OBVIOUS
  <1>2. AbsSum(w) = Sum(size)
    BY DEF AbsSum
  <1> HIDE DEF size
  <1>3. Sum(w) = 0 /\ Sum(size) = 0
    BY <1>1, SumOfNothing
  <1>4. Cardinality(DOMAIN w) = 0
    BY FS_EmptySet
  <1>5. QED
    BY <1>2, <1>3, <1>4, AlphaConstants DEF WithinAlphaCaps, AbsOf

\* The caps of the alpha service, for weights of one size
LEMMA CappedWithin ==
  ASSUME NEW S, IsFiniteSet(S), NEW sign \in [S -> {-1, 1}], NEW v \in Nat, NEW w,
         OfOneSize(w, sign, v)
  PROVE  WithinAlphaCaps(ApplyCaps(w))
  <1> DEFINE n == Cardinality(S)
             k == AbsOf(Sum(sign))
             clipped == [s \in DOMAIN w |-> Clip(w[s], AlphaMaxSymbol)]
             fitted == ScaleTo(clipped, AbsSum(clipped), AlphaMaxGross)
             netted == ScaleTo(fitted, Sum(fitted), AlphaMaxNet)
  <1>1. n \in Nat /\ k \in Nat /\ k <= n /\ Sum(sign) \in Int
    <2>1. sign \in [S -> Int]
      OBVIOUS
    <2>2. QED
      BY <2>1, FS_CardinalityType, SignsCancel, SumType
  <1>2. w \in [S -> Int] /\ \A s \in S : w[s] = sign[s] * v
    BY OneSizeFacts
  <1>3. PICK v1 \in Nat : OfOneSize(clipped, sign, v1)
    <2> DEFINE v1 == IF v > AlphaMaxSymbol THEN AlphaMaxSymbol ELSE v
    <2>1. v1 \in Nat
      BY AlphaConstants
    <2>2. ASSUME NEW s \in S PROVE clipped[s] = sign[s] * v1
      <3>1. clipped[s] = Clip(w[s], AlphaMaxSymbol)
        BY <1>2
      <3>2. CASE sign[s] = 1
        <4>1. w[s] = v
          BY <1>2, <3>2
        <4>2. Clip(v, AlphaMaxSymbol) = v1
          BY AlphaConstants DEF Clip
        <4> HIDE DEF v1, clipped
        <4>3. QED
          BY <2>1, <3>1, <3>2, <4>1, <4>2
      <3>3. CASE sign[s] = -1
        <4>1. w[s] = -v
          BY <1>2, <3>3
        <4>2. Clip(-v, AlphaMaxSymbol) = -v1
          BY AlphaConstants DEF Clip
        <4> HIDE DEF v1, clipped
        <4>3. QED
          BY <2>1, <3>1, <3>3, <4>1, <4>2
      <3>4. QED
        BY <3>2, <3>3
    <2>3. DOMAIN clipped = S
      BY <1>2
    <2> HIDE DEF v1
    <2>4. clipped = [s \in S |-> sign[s] * v1]
      BY <2>2, <2>3
    <2> HIDE DEF clipped
    <2>5. OfOneSize(clipped, sign, v1)
      BY <2>4 DEF OfOneSize
    <2>6. QED
      BY <2>1, <2>5
  <1> HIDE DEF clipped
  <1>4. AbsSum(clipped) = n * v1
    BY <1>3, OneSizeFacts
  <1>5. AbsSum(clipped) \in Int /\ AbsOf(AbsSum(clipped)) = n * v1
    <2>1. n * v1 \in Nat
      BY <1>1, <1>3
    <2> HIDE DEF n
    <2>2. QED
      BY <1>4, <2>1 DEF AbsOf
  <1>6. PICK v2 \in Nat : /\ OfOneSize(fitted, sign, v2)
                          /\ v2 <= v1 /\ 2 * (n * v2 - AlphaMaxGross) <= n
    <2> HIDE DEF n
    <2> QED
      BY <1>1, <1>3, <1>5, AlphaConstants, ScaleOneSize
  <1> HIDE DEF fitted
  <1>7. Sum(fitted) = v2 * Sum(sign)
    BY <1>6, OneSizeFacts
  <1>8. Sum(fitted) \in Int /\ AbsOf(Sum(fitted)) = k * v2
    <2>1. v2 * Sum(sign) = Sum(sign) * v2 /\ v2 * Sum(sign) \in Int
      BY <1>1, <1>6
    <2>2. AbsOf(Sum(sign) * v2) = AbsOf(Sum(sign)) * v2
      BY <1>1, <1>6, AbsFacts
    <2>3. QED
      BY <1>7, <2>1, <2>2
  <1>9. PICK v3 \in Nat : /\ OfOneSize(netted, sign, v3)
                          /\ v3 <= v2 /\ 2 * (k * v3 - AlphaMaxNet) <= k
    <2> HIDE DEF k
    <2> QED
      BY <1>1, <1>6, <1>8, AlphaConstants, ScaleOneSize
  <1> HIDE DEF netted
  <1>10. netted \in [S -> Int] /\ \A s \in S : netted[s] = sign[s] * v3
    BY <1>9, OneSizeFacts
  <1>11. ApplyCaps(w) = RestrictValues(netted, LAMBDA x : x # 0)
    BY DEF ApplyCaps, netted, fitted, clipped
  <1> DEFINE kept == {s \in S : netted[s] # 0}
  <1>12. ApplyCaps(w) = [s \in kept |-> netted[s]]
    BY <1>10, <1>11 DEF RestrictValues, Restrict
  <1>13. CASE v3 = 0
    <2>1. \A s \in S : netted[s] = 0
      BY <1>10, <1>13
    <2>2. kept = {}
      BY <2>1
    <2> HIDE DEF kept
    <2>3. DOMAIN ApplyCaps(w) = {} /\ ApplyCaps(w) \in [{} -> Int]
      BY <1>12, <2>2
    <2>4. QED
      BY <2>3, NothingKeepsCaps
  <1>14. CASE v3 # 0
    <2>1. \A s \in S : netted[s] # 0
      <3> SUFFICES ASSUME NEW s \in S PROVE netted[s] # 0
        OBVIOUS
      <3>1. sign[s] \in {-1, 1} /\ netted[s] = sign[s] * v3
        BY <1>10
      <3>2. QED
        BY <1>9, <1>14, <3>1
    <2>2. kept = S
      BY <2>1
    <2>3. ApplyCaps(w) = netted /\ DOMAIN netted = S
      <3>1. DOMAIN netted = S /\ netted = [s \in S |-> netted[s]]
        BY <1>10
      <3> HIDE DEF kept
      <3>2. QED
        BY <1>12, <2>2, <3>1
    <2>4. AbsSum(netted) = n * v3 /\ Sum(netted) = v3 * Sum(sign)
      BY <1>9, OneSizeFacts
    <2>5. AbsOf(Sum(netted)) = k * v3
      <3>1. v3 * Sum(sign) = Sum(sign) * v3
        BY <1>1, <1>9
      <3>2. AbsOf(Sum(sign) * v3) = AbsOf(Sum(sign)) * v3
        BY <1>1, <1>9, AbsFacts
      <3>3. QED
        BY <2>4, <3>1, <3>2
    <2>6. Cardinality(DOMAIN netted) = n
      BY <2>3
    <2> HIDE DEF n, k
    <2>7. n * v3 \in Nat /\ n * v2 \in Nat /\ k * v3 \in Nat /\ n * v3 <= n * v2
      BY <1>1, <1>6, <1>9
    <2>8. 2 * (n * v3 - AlphaMaxGross) <= n /\ 2 * (k * v3 - AlphaMaxNet) <= n
      BY <1>1, <1>6, <1>9, <2>7, AlphaConstants
    <2>9. QED
      BY <2>3, <2>4, <2>5, <2>6, <2>8 DEF WithinAlphaCaps
  <1>15. QED
    BY <1>13, <1>14

\* Every target of the alpha service keeps the caps.
LEMMA TargetKeepsCaps ==
  ASSUME NEW hasState, NEW features, IsFiniteSet(DOMAIN features)
  PROVE  WithinAlphaCaps(BuildTarget(hasState, features).weights)
  <1> DEFINE base == IF AlphaMaxSymbol < AlphaBaseWeight THEN AlphaMaxSymbol ELSE AlphaBaseWeight
             chosen == {s \in DOMAIN features :
                          Tradable(features[s]) /\ (Up(features[s]) \/ Down(features[s]))}
             sign == [s \in chosen |-> IF Up(features[s]) THEN 1 ELSE -1]
             signals_ == CandidateWeights(features)
  <1>1. base \in Nat
    BY AlphaConstants
  <1>2. IsFiniteSet(chosen)
    BY FS_Subset
  <1>3. sign \in [chosen -> {-1, 1}]
    OBVIOUS
  <1>4. OfOneSize(signals_, sign, base)
    <2>1. signals_ = [s \in chosen |-> IF Up(features[s]) THEN base ELSE -base]
      BY DEF CandidateWeights
    <2> HIDE DEF base
    <2>2. \A s \in chosen : (IF Up(features[s]) THEN base ELSE -base) = sign[s] * base
      BY <1>1
    <2> HIDE DEF signals_
    <2>3. DOMAIN sign = chosen
      OBVIOUS
    <2> HIDE DEF chosen, sign
    <2>4. signals_ = [s \in chosen |-> sign[s] * base]
      BY <2>1, <2>2
    <2>5. QED
      BY <2>3, <2>4 DEF OfOneSize
  <1> HIDE DEF base, chosen, sign, signals_
  <1>5. WithinAlphaCaps(ApplyCaps(signals_))
    BY <1>1, <1>2, <1>3, <1>4, CappedWithin
  <1>6. WithinAlphaCaps(NoWeights)
    <2>1. DOMAIN NoWeights = {} /\ NoWeights \in [{} -> Int]
      BY DEF NoWeights
    <2>2. QED
      BY <2>1, NothingKeepsCaps
  <1>7. BuildTarget(hasState, features).weights \in {NoWeights, ApplyCaps(signals_)}
    BY DEF BuildTarget, signals_
  <1>8. QED
    BY <1>5, <1>6, <1>7

-----------------------------------------------------------------------------
(* The invariant *)

Rows == {ledger[i] : i \in DOMAIN ledger}

\* A row adds a number to the report, and a valid one has the id of its bar and
\* of the symbols with usable data.
SoundRow(row) ==
  /\ row.weight \in Int /\ row.seen \in Nat
  /\ row.status = "valid" => row.id = IdOf(row.bar, row.id.symbols)

\* A run has the sound events it has not finished, and of the one it is at the
\* legs it has not recorded.
IsRun(x) ==
  /\ x \in [pc : {"idle", "signal", "check", "append", "repeat"}, asOf : Nat,
            events : {x.events}, legs : {x.legs}, seen : Nat]
  /\ \A e \in x.events : SoundEvent(e, x.asOf)
  /\ x.pc # "idle" => x.events # {}
  /\ x.pc \in {"check", "append", "repeat"} =>
       x.legs \in SUBSET DOMAIN Earliest(x.events).legs /\ x.legs # {}

World ==
  /\ now \in Nat
  /\ cache \in [Symbols -> SUBSET Nat] /\ \A s \in Symbols : IsFiniteSet(cache[s])

\* The shapes of the file and of the runs
Shapes ==
  /\ ledger \in Seq(Rows)
  /\ \A i \in DOMAIN ledger : SoundRow(ledger[i])
  /\ runner \in [Runners -> {runner[r] : r \in Runners}]
  /\ \A r \in Runners : IsRun(runner[r])

\* A run about to append a row as new has read a prefix of the file without
\* the row's key.
Checked(r) ==
  runner[r].pc = "append" =>
    /\ runner[r].seen <= Len(ledger)
    /\ \A i \in Active : LedgerKey(ledger[i]) = <<Event(r).id, Leg(r)>>
                           => runner[r].seen < i

FileInv ==
  /\ Shapes
  /\ \A r \in Runners : Checked(r)
  /\ RepeatsOnlyByRace

Signalled == \A sig \in signals : SoundEvent(sig.event, sig.asOf)

-----------------------------------------------------------------------------
(* What the steps of a run leave of its record *)

LEMMA FirstRun ==
  ASSUME NEW events, events # {}, NEW asOf \in Nat, \A e \in events : SoundEvent(e, asOf),
         NEW y, y = [Idle EXCEPT !.pc = "signal", !.asOf = asOf, !.events = events]
  PROVE  IsRun(y) /\ y.pc = "signal"
  BY DEF IsRun, Idle

LEMMA SameEvent ==
  ASSUME NEW x, IsRun(x), NEW legs, legs # {}, legs \in SUBSET DOMAIN Earliest(x.events).legs,
         x.pc # "idle", NEW y, y = [x EXCEPT !.pc = "check", !.legs = legs]
  PROVE  IsRun(y) /\ y.pc = "check"
  BY DEF IsRun

LEMMA NextEvent ==
  ASSUME NEW x, IsRun(x), NEW events \in SUBSET x.events, events # {},
         NEW y, y = [x EXCEPT !.pc = "signal", !.events = events, !.legs = {}]
  PROVE  IsRun(y) /\ y.pc = "signal"
  BY DEF IsRun

LEMMA IdleRun == IsRun(Idle) /\ Idle.pc = "idle"
  BY DEF IsRun, Idle

\* A run is at one of its events and, once the signal is written, at one of the
\* event's legs.
LEMMA RunFacts ==
  ASSUME NEW r \in Runners, IsRun(runner[r]), runner[r].pc # "idle"
  PROVE  /\ Event(r) \in runner[r].events /\ SoundEvent(Event(r), runner[r].asOf)
         /\ runner[r].seen \in Nat
         /\ runner[r].pc # "signal" => Leg(r) \in runner[r].legs /\ Leg(r) \in DOMAIN Event(r).legs
  <1>1. runner[r].events # {} /\ \A e \in runner[r].events : SoundEvent(e, runner[r].asOf)
    BY DEF IsRun
  <1>2. \A e \in runner[r].events : e.bar \in Bars
    BY <1>1 DEF SoundEvent
  <1>3. Earliest(runner[r].events) \in runner[r].events
    BY <1>1, <1>2, EarliestIn
  <1>4. Event(r) \in runner[r].events /\ SoundEvent(Event(r), runner[r].asOf)
    BY <1>1, <1>3 DEF Event
  <1>5. ASSUME runner[r].pc # "signal"
        PROVE  Leg(r) \in runner[r].legs /\ Leg(r) \in DOMAIN Event(r).legs
    <2>1. runner[r].legs \in SUBSET DOMAIN Event(r).legs /\ runner[r].legs # {}
      BY <1>5 DEF IsRun, Event
    <2>2. DOMAIN Event(r).legs \in SUBSET Symbols
      BY <1>4 DEF SoundEvent
    <2>3. Leg(r) \in runner[r].legs
      BY <2>1, <2>2, FirstSymbolIn DEF Leg
    <2>4. QED
      BY <2>1, <2>3
  <1>6. QED
    BY <1>4, <1>5 DEF IsRun

\* The row of a leg of a sound event is sound, and so is its duplicate.
LEMMA RowFacts ==
  ASSUME NEW e, NEW asOf, SoundEvent(e, asOf), NEW s \in DOMAIN e.legs, NEW seen \in Nat
  PROVE  /\ SoundRow(RowOf(e, s, seen)) /\ SoundRow(DuplicateRow(RowOf(e, s, seen)))
         /\ DuplicateRow(RowOf(e, s, seen)).status = "duplicate"
         /\ LedgerKey(RowOf(e, s, seen)) = <<e.id, s>> /\ RowOf(e, s, seen).seen = seen
  <1> DEFINE row == RowOf(e, s, seen)
  <1>1. row.weight \in Int /\ row.seen = seen /\ row.id = e.id /\ row.bar = e.bar /\ row.symbol = s
    BY DEF RowOf, SoundEvent
  <1>2. row.status = "valid" => row.id = IdOf(row.bar, row.id.symbols)
    <2>1. ASSUME row.status = "valid" PROVE e.status = "valid"
      BY <2>1 DEF RowOf
    <2>2. ASSUME e.status = "valid" PROVE e.id = IdOf(e.bar, e.id.symbols)
      <3>1. e.id = IdOf(e.bar, DOMAIN e.legs)
        BY <2>2 DEF SoundEvent
      <3>2. DOMAIN e.legs \in SUBSET Symbols /\ DOMAIN e.legs # {}
        BY DEF SoundEvent
      <3>3. e.id.symbols = DOMAIN e.legs
        BY <3>1, <3>2, IdNamesSymbols
      <3>4. QED
        BY <3>1, <3>3
    <2> HIDE DEF row
    <2>3. QED
      BY <1>1, <2>1, <2>2
  <1>3. DuplicateRow(row).status = "duplicate" /\ DuplicateRow(row).weight = 0
        /\ DuplicateRow(row).seen = seen
    BY DEF RowOf, DuplicateRow
  <1> HIDE DEF row
  <1>4. SoundRow(row) /\ SoundRow(DuplicateRow(row))
    BY <1>1, <1>2, <1>3 DEF SoundRow
  <1>5. LedgerKey(row) = <<e.id, s>>
    BY <1>1 DEF LedgerKey
  <1>6. QED
    BY <1>1, <1>3, <1>4, <1>5 DEF row

-----------------------------------------------------------------------------
(* The file and the runs *)

LEMMA EmptyFile == Init => ledger = <<>> /\ DOMAIN ledger = {} /\ ledger \in Seq(Rows)
  <1> SUFFICES ASSUME Init PROVE ledger = <<>> /\ DOMAIN ledger = {} /\ ledger \in Seq(Rows)
    OBVIOUS
  <1>1. ledger = <<>>
    BY DEF Init
  <1>2. <<>> \in Seq({}) /\ Len(<<>>) = 0
    BY EmptySeq
  <1>3. QED
    BY <1>1, <1>2, EmptySeq

LEMMA InitFile == Init => FileInv
  <1> SUFFICES ASSUME Init PROVE FileInv
    OBVIOUS
  <1>1. ledger = <<>> /\ DOMAIN ledger = {} /\ ledger \in Seq(Rows)
    BY EmptyFile
  <1>2. runner \in [Runners -> {runner[r] : r \in Runners}] /\ \A r \in Runners : runner[r] = Idle
    BY DEF Init
  <1>3. Shapes
    BY <1>1, <1>2, IdleRun DEF Shapes
  <1>4. \A r \in Runners : Checked(r)
    BY <1>2, IdleRun DEF Checked
  <1>5. RepeatsOnlyByRace
    BY <1>1 DEF RepeatsOnlyByRace, Active
  <1>6. QED
    BY <1>3, <1>4, <1>5 DEF FileInv

\* A step that leaves the file alone, and that changes at most the run of r,
\* which is not left about to append a row it has not checked.
LEMMA FileKept ==
  ASSUME FileInv, UNCHANGED ledger, NEW r \in Runners, NEW run,
         runner' = [runner EXCEPT ![r] = run],
         IsRun(run),
         run.pc = "append" =>
           /\ run.seen <= Len(ledger)
           /\ \A i \in Active :
                LedgerKey(ledger[i]) = <<Earliest(run.events).id, FirstSymbol(run.legs)>>
                  => run.seen < i
  PROVE  FileInv'
  <1>1. /\ runner' \in [Runners -> {runner'[q] : q \in Runners}]
        /\ runner'[r] = run
        /\ \A q \in Runners \ {r} : runner'[q] = runner[q]
    BY DEF FileInv, Shapes
  <1>2. Shapes'
    BY <1>1 DEF FileInv, Shapes, Rows
  <1>3. \A q \in Runners : Checked(q)'
    <2> SUFFICES ASSUME NEW q \in Runners PROVE Checked(q)'
      OBVIOUS
    <2>1. CASE q = r
      BY <2>1, <1>1 DEF Checked, Event, Leg, Active, LedgerKey
    <2>2. CASE q # r
      BY <2>2, <1>1 DEF FileInv, Checked, Event, Leg, Active, LedgerKey
    <2>3. QED
      BY <2>1, <2>2
  <1>4. QED
    BY <1>2, <1>3 DEF FileInv, RepeatsOnlyByRace, Active, LedgerKey

\* A row goes to the end of the file.
LEMMA FileGrows ==
  ASSUME Shapes, NEW row, ledger' = Append(ledger, row)
  PROVE  /\ (ledger \in Seq(Rows))'
         /\ Len(ledger) \in Nat /\ Len(ledger') = Len(ledger) + 1
         /\ DOMAIN ledger = 1 .. Len(ledger) /\ DOMAIN ledger' = 1 .. Len(ledger')
         /\ \A i \in DOMAIN ledger : ledger'[i] = ledger[i]
         /\ ledger'[Len(ledger')] = row
  <1> DEFINE More == Rows \cup {row}
  <1>1. ledger \in Seq(More) /\ row \in More
    BY SeqMonotonic DEF Shapes
  <1> HIDE DEF More
  <1>2. /\ ledger' \in Seq(More)
        /\ Len(ledger) \in Nat /\ Len(ledger') = Len(ledger) + 1
        /\ DOMAIN ledger = 1 .. Len(ledger) /\ DOMAIN ledger' = 1 .. Len(ledger')
        /\ \A i \in DOMAIN ledger : ledger'[i] = ledger[i]
        /\ ledger'[Len(ledger')] = row
    BY <1>1
  <1>3. More = Rows'
    BY <1>2 DEF More, Rows
  <1>4. QED
    BY <1>2, <1>3

LEMMA NextFile == World /\ FileInv /\ [Next]_vars => FileInv'
  <1> SUFFICES ASSUME World, FileInv, [Next]_vars PROVE FileInv'
    OBVIOUS
  <1>0. \A r \in Runners : IsRun(runner[r])
    BY DEF FileInv, Shapes
  <1>1. ASSUME NEW r \in Runners, StartRun(r) PROVE FileInv'
    <2> DEFINE events == EventsOf(cache, now)
               run == [Idle EXCEPT !.pc = "signal", !.asOf = now, !.events = events]
    <2>1. runner' = [runner EXCEPT ![r] = run] /\ UNCHANGED ledger
      BY <1>1 DEF StartRun
    <2>2. now \in Nat /\ events # {} /\ \A e \in events : SoundEvent(e, now)
      BY EventsSound DEF World
    <2> HIDE DEF events
    <2>3. IsRun(run) /\ run.pc = "signal"
      BY <2>2, FirstRun
    <2> HIDE DEF run
    <2>4. QED
      BY <2>1, <2>3, FileKept
  <1>2. ASSUME NEW r \in Runners, WriteSignal(r) PROVE FileInv'
    <2> DEFINE legs == DOMAIN Event(r).legs
               run == [runner[r] EXCEPT !.pc = "check", !.legs = legs]
    <2>1. runner[r].pc = "signal" /\ runner' = [runner EXCEPT ![r] = run] /\ UNCHANGED ledger
      BY <1>2 DEF WriteSignal
    <2>2. legs # {} /\ legs \in SUBSET DOMAIN Earliest(runner[r].events).legs
      <3>1. SoundEvent(Event(r), runner[r].asOf)
        BY <1>0, <2>1, RunFacts
      <3>2. QED
        BY <3>1 DEF SoundEvent, Event
    <2> HIDE DEF legs
    <2>3. IsRun(run) /\ run.pc = "check"
      BY <1>0, <2>1, <2>2, SameEvent
    <2> HIDE DEF run
    <2>4. QED
      BY <2>1, <2>3, FileKept
  <1>3. ASSUME NEW r \in Runners, CheckKey(r) PROVE FileInv'
    <2>1. Len(ledger) \in Nat /\ UNCHANGED ledger /\ runner[r].pc = "check"
      BY <1>3, LenProperties DEF FileInv, Shapes, CheckKey
    <2> DEFINE next == IF <<Event(r).id, Leg(r)>> \in ActiveKeys THEN "repeat" ELSE "append"
               run == [runner[r] EXCEPT !.seen = Len(ledger), !.pc = next]
    <2>2. runner' = [runner EXCEPT ![r] = run]
      BY <1>3 DEF CheckKey
    <2>3. next \in {"append", "repeat"}
      OBVIOUS
    <2>4. next = "append" =>
            \A i \in Active : LedgerKey(ledger[i]) # <<Event(r).id, Leg(r)>>
      BY DEF ActiveKeys
    <2> HIDE DEF next
    <2>5. /\ IsRun(run) /\ run.pc = next /\ run.seen = Len(ledger)
          /\ run.events = runner[r].events /\ run.legs = runner[r].legs
      BY <1>0, <2>1, <2>3 DEF IsRun
    <2> HIDE DEF run
    <2>6. run.pc = "append" =>
            /\ run.seen <= Len(ledger)
            /\ \A i \in Active :
                 LedgerKey(ledger[i]) # <<Earliest(run.events).id, FirstSymbol(run.legs)>>
      BY <2>1, <2>4, <2>5 DEF Event, Leg
    <2>7. QED
      BY <2>1, <2>2, <2>5, <2>6, FileKept
  <1>4. ASSUME NEW r \in Runners, AppendRow(r) PROVE FileInv'
    <2> DEFINE leg == RowOf(Event(r), Leg(r), runner[r].seen)
               row == IF runner[r].pc = "repeat" THEN DuplicateRow(leg) ELSE leg
               run == AfterLeg(r)
    <2>1. runner[r].pc \in {"append", "repeat"} /\ ledger' = Append(ledger, row)
      BY <1>4 DEF AppendRow
    <2>2. runner' = [runner EXCEPT ![r] = run]
      BY <1>4 DEF AppendRow
    <2>3. IsRun(run) /\ run.pc # "append"
      <3> DEFINE legs == runner[r].legs \ {Leg(r)}
                 events == runner[r].events \ {Event(r)}
      <3>1. IsRun(runner[r]) /\ runner[r].pc # "idle"
        BY <1>0, <2>1
      <3>2. legs \in SUBSET DOMAIN Earliest(runner[r].events).legs
        BY <2>1, <3>1 DEF IsRun
      <3>3. run = IF legs # {} THEN [runner[r] EXCEPT !.pc = "check", !.legs = legs]
                  ELSE IF events # {}
                    THEN [runner[r] EXCEPT !.pc = "signal", !.events = events, !.legs = {}]
                  ELSE Idle
        BY DEF AfterLeg
      <3>4. events \in SUBSET runner[r].events
        OBVIOUS
      <3> HIDE DEF legs, events, run
      <3>5. CASE legs # {}
        BY <3>1, <3>2, <3>3, <3>5, SameEvent
      <3>6. CASE legs = {} /\ events # {}
        <4>1. run = [runner[r] EXCEPT !.pc = "signal", !.events = events, !.legs = {}]
          BY <3>3, <3>6
        <4>2. IsRun(run) /\ run.pc = "signal"
          BY <3>1, <3>4, <3>6, <4>1, NextEvent
        <4>3. QED
          BY <4>2
      <3>7. CASE legs = {} /\ events = {}
        BY <3>3, <3>7, IdleRun
      <3>8. QED
        BY <3>5, <3>6, <3>7
    <2>4. /\ SoundRow(leg) /\ SoundRow(DuplicateRow(leg))
          /\ DuplicateRow(leg).status = "duplicate"
          /\ LedgerKey(leg) = <<Event(r).id, Leg(r)>> /\ leg.seen = runner[r].seen
      <3>1. /\ SoundEvent(Event(r), runner[r].asOf)
            /\ Leg(r) \in DOMAIN Event(r).legs /\ runner[r].seen \in Nat
        BY <1>0, <2>1, RunFacts
      <3>2. QED
        BY <3>1, RowFacts
    <2> HIDE DEF leg
    <2>5. /\ SoundRow(row)
          /\ row.status # "duplicate" =>
               /\ runner[r].pc = "append"
               /\ LedgerKey(row) = <<Event(r).id, Leg(r)>>
               /\ row.seen = runner[r].seen
      BY <2>1, <2>4
    <2> HIDE DEF row, run
    <2>6. /\ (ledger \in Seq(Rows))'
          /\ Len(ledger) \in Nat /\ Len(ledger') = Len(ledger) + 1
          /\ DOMAIN ledger = 1 .. Len(ledger) /\ DOMAIN ledger' = 1 .. Len(ledger')
          /\ \A i \in DOMAIN ledger : ledger'[i] = ledger[i]
          /\ ledger'[Len(ledger')] = row
      BY <2>1, FileGrows DEF FileInv
    <2>7. /\ runner' \in [Runners -> {runner'[q] : q \in Runners}]
          /\ runner'[r] = run
          /\ \A q \in Runners \ {r} : runner'[q] = runner[q]
      BY <2>2 DEF FileInv, Shapes
    <2>8. \A i \in DOMAIN ledger' : SoundRow(ledger'[i])
      <3> SUFFICES ASSUME NEW i \in DOMAIN ledger' PROVE SoundRow(ledger'[i])
        OBVIOUS
      <3>1. CASE i = Len(ledger')
        BY <2>5, <2>6, <3>1
      <3>2. CASE i # Len(ledger')
        <4>1. i \in DOMAIN ledger /\ ledger'[i] = ledger[i]
          BY <2>6, <3>2
        <4>2. QED
          BY <4>1 DEF FileInv, Shapes
      <3>3. QED
        BY <3>1, <3>2
    <2>9. Shapes'
      BY <1>0, <2>3, <2>6, <2>7, <2>8 DEF Shapes
    <2>10. \A q \in Runners : Checked(q)'
      <3> SUFFICES ASSUME NEW q \in Runners, (runner[q].pc = "append")' PROVE Checked(q)'
        BY DEF Checked
      <3>1. q # r /\ runner'[q] = runner[q]
        BY <2>3, <2>7
      <3>2. Checked(q)
        BY DEF FileInv
      <3>3. runner[q].pc = "append" /\ runner[q].seen <= Len(ledger) /\ runner[q].seen \in Nat
        BY <1>0, <3>1, <3>2 DEF Checked, IsRun
      <3>4. ASSUME NEW i \in Active', LedgerKey(ledger'[i]) = <<Event(q).id, Leg(q)>>
            PROVE  runner[q].seen < i
        <4>1. CASE i = Len(ledger')
          BY <4>1, <3>3, <2>6
        <4>2. CASE i # Len(ledger')
          <5>1. i \in Active /\ ledger'[i] = ledger[i]
            BY <4>2, <2>6 DEF Active
          <5>2. QED
            BY <5>1, <3>2, <3>3, <3>4 DEF Checked
        <4>3. QED
          BY <4>1, <4>2
      <3>5. Event(q)' = Event(q) /\ Leg(q)' = Leg(q)
        BY <3>1 DEF Event, Leg
      <3>6. QED
        BY <3>1, <3>3, <3>4, <3>5, <2>6 DEF Checked, LedgerKey
    <2>11. RepeatsOnlyByRace'
      <3> SUFFICES ASSUME NEW i \in Active', NEW j \in Active', i < j,
                          LedgerKey(ledger'[i]) = LedgerKey(ledger'[j])
                   PROVE  ledger'[j].seen < i
        BY DEF RepeatsOnlyByRace
      <3>1. i \in Active /\ ledger'[i] = ledger[i]
        BY <2>6 DEF Active
      <3>2. CASE j = Len(ledger')
        <4>1. row.status # "duplicate" /\ ledger'[j] = row
          BY <3>2, <2>6 DEF Active
        <4>2. QED
          BY <4>1, <3>1, <2>1, <2>5 DEF Checked, FileInv
      <3>3. CASE j # Len(ledger')
        <4>1. j \in Active /\ ledger'[j] = ledger[j]
          BY <3>3, <2>6 DEF Active
        <4>2. QED
          BY <4>1, <3>1 DEF RepeatsOnlyByRace, FileInv
      <3>4. QED
        BY <3>2, <3>3
    <2>12. QED
      BY <2>9, <2>10, <2>11 DEF FileInv
  <1>5. ASSUME NEW r \in Runners, Abort(r) PROVE FileInv'
    <2>1. runner' = [runner EXCEPT ![r] = Idle] /\ UNCHANGED ledger
      BY <1>5 DEF Abort
    <2>2. QED
      BY <2>1, IdleRun, FileKept
  <1>6. CASE UNCHANGED <<ledger, runner>>
    BY <1>6 DEF FileInv, Shapes, Checked, RepeatsOnlyByRace, Active, LedgerKey, Event, Leg, Rows
  <1>7. CASE Next
    <2>1. CASE AlphaRunOnce
      BY <2>1, <1>6 DEF AlphaRunOnce
    <2>2. CASE BridgeLedger
      BY <2>2, <1>6 DEF BridgeLedger
    <2>3. CASE Tick
      BY <2>3, <1>6 DEF Tick
    <2>4. CASE \E s \in Symbols : BarArrives(s)
      BY <2>4, <1>6 DEF BarArrives
    <2>5. QED
      BY <1>7, <1>1, <1>2, <1>3, <1>4, <1>5, <2>1, <2>2, <2>3, <2>4
         DEF Next, PipelineStep, RunnerStep
  <1>8. QED
    BY <1>6, <1>7 DEF vars

-----------------------------------------------------------------------------
(* The clock and the cache, the signals, and the targets *)

LEMMA InitWorld == Init => World
  BY ShadowConstants DEF Init, World

LEMMA NextWorld == World /\ [Next]_vars => World'
  <1> SUFFICES ASSUME World, [Next]_vars PROVE World'
    OBVIOUS
  <1>1. CASE UNCHANGED <<now, cache>>
    BY <1>1 DEF World
  <1>2. CASE Next
    <2>1. ASSUME NEW r \in Runners, RunnerStep(r) PROVE World'
      BY <2>1, <1>1 DEF RunnerStep, StartRun, WriteSignal, CheckKey, AppendRow, Abort
    <2>2. ASSUME NEW s \in Symbols, BarArrives(s) PROVE World'
      <3>1. PICK h \in LateHours[s] \ cache[s] : cache' = [cache EXCEPT ![s] = cache[s] \cup {h}]
        BY <2>2 DEF BarArrives
      <3>2. h \in Nat
        BY <3>1, ShadowConstants
      <3>3. /\ cache' \in [Symbols -> SUBSET Nat] /\ cache'[s] = cache[s] \cup {h}
            /\ \A q \in Symbols \ {s} : cache'[q] = cache[q]
        BY <3>1, <3>2 DEF World
      <3>4. IsFiniteSet(cache[s] \cup {h})
        BY FS_AddElement DEF World
      <3>5. \A q \in Symbols : IsFiniteSet(cache'[q])
        BY <3>3, <3>4 DEF World
      <3>6. now' = now
        BY <2>2 DEF BarArrives
      <3>7. QED
        BY <3>3, <3>5, <3>6 DEF World
    <2>3. CASE Tick
      BY <2>3 DEF Tick, World
    <2>4. CASE BridgeLedger
      BY <2>4, <1>1 DEF BridgeLedger
    <2>5. CASE AlphaRunOnce
      BY <2>5, <1>1 DEF AlphaRunOnce
    <2>6. QED
      BY <1>2, <2>1, <2>2, <2>3, <2>4, <2>5 DEF Next, PipelineStep
  <1>3. QED
    BY <1>1, <1>2 DEF vars

LEMMA NextSignalled == FileInv /\ Signalled /\ [Next]_vars => Signalled'
  <1> SUFFICES ASSUME FileInv, Signalled, [Next]_vars PROVE Signalled'
    OBVIOUS
  <1>1. CASE UNCHANGED signals
    BY <1>1 DEF Signalled
  <1>2. CASE Next
    <2>1. ASSUME NEW r \in Runners, WriteSignal(r) PROVE Signalled'
      <3> DEFINE sig == [event |-> Event(r), asOf |-> runner[r].asOf]
      <3>1. runner[r].pc = "signal" /\ signals' = signals \cup {sig}
        BY <2>1 DEF WriteSignal
      <3>2. SoundEvent(Event(r), runner[r].asOf)
        BY <3>1, RunFacts DEF FileInv, Shapes
      <3>3. sig.event = Event(r) /\ sig.asOf = runner[r].asOf
        OBVIOUS
      <3> HIDE DEF sig
      <3>4. QED
        BY <3>1, <3>2, <3>3 DEF Signalled
    <2>2. ASSUME NEW r \in Runners, RunnerStep(r), ~WriteSignal(r) PROVE Signalled'
      BY <2>2, <1>1 DEF RunnerStep, StartRun, CheckKey, AppendRow, Abort
    <2>3. ASSUME NEW s \in Symbols, BarArrives(s) PROVE Signalled'
      BY <2>3, <1>1 DEF BarArrives
    <2>4. CASE Tick \/ BridgeLedger \/ AlphaRunOnce
      BY <2>4, <1>1 DEF Tick, BridgeLedger, AlphaRunOnce
    <2>5. QED
      BY <1>2, <2>1, <2>2, <2>3, <2>4 DEF Next, PipelineStep
  <1>3. QED
    BY <1>1, <1>2 DEF vars

\* The caps of one bridged target
WithinBridgeCaps(t) ==
  /\ t.stream = "alpha.target.v17_shadow"
  /\ 2 * (GrossOf(t.legs) - EventCap) <= Cardinality(DOMAIN t.legs)
  /\ \A i \in DOMAIN t.legs : AbsOf(t.legs[i].weight) <= BridgeSymbolCap

BridgedWithin == \A t \in targets : WithinBridgeCaps(t)

\* The stream and the caps of the alpha service's target
OnItsStream(a) ==
  \/ a.stream \in {"", "alpha.target.v17_shadow"}
  \/ a.stream = "alpha.target.v17_live" /\ a.approved

AlphaWithin == OnItsStream(alpha) /\ WithinAlphaCaps(alpha.target.weights)

LEMMA InitTargets == Init => BridgedWithin /\ AlphaWithin
  <1> SUFFICES ASSUME Init PROVE BridgedWithin /\ AlphaWithin
    OBVIOUS
  <1>1. targets = {} /\ alpha.target.weights = BuildTarget(FALSE, NoWeights).weights
    BY DEF Init
  <1>2. IsFiniteSet(DOMAIN NoWeights)
    <2>1. DOMAIN NoWeights = {}
      BY DEF NoWeights
    <2>2. QED
      BY <2>1, FS_EmptySet
  <1>3. WithinAlphaCaps(BuildTarget(FALSE, NoWeights).weights)
    BY <1>2, TargetKeepsCaps
  <1>4. OnItsStream(alpha)
    BY DEF Init, OnItsStream
  <1>5. QED
    BY <1>1, <1>3, <1>4 DEF BridgedWithin, AlphaWithin

LEMMA NextTargets ==
  FileInv /\ BridgedWithin /\ AlphaWithin /\ [Next]_vars => (BridgedWithin /\ AlphaWithin)'
  <1> SUFFICES ASSUME FileInv, BridgedWithin, AlphaWithin, [Next]_vars
               PROVE  /\ \A t \in targets' : WithinBridgeCaps(t)
                      /\ OnItsStream(alpha')
                      /\ WithinAlphaCaps(alpha'.target.weights)
    BY DEF BridgedWithin, AlphaWithin, OnItsStream
  <1>0. /\ \A t \in targets : WithinBridgeCaps(t)
        /\ OnItsStream(alpha)
        /\ WithinAlphaCaps(alpha.target.weights)
    BY DEF BridgedWithin, AlphaWithin
  <1>1. CASE UNCHANGED <<targets, alpha>>
    BY <1>0, <1>1
  <1>2. CASE BridgeLedger
    <2>1. alpha' = alpha
      BY <1>2 DEF BridgeLedger
    <2>2. ASSUME NEW t \in targets' PROVE WithinBridgeCaps(t)
      <3>1. PICK c \in Configs :
              /\ BridgeAccepts(c)
              /\ targets' = {[id |-> ledger[i].id, stream |-> c.target,
                              legs |-> CapLegs(LegsOf(ledger[i].id))] :
                                i \in {j \in DOMAIN ledger : ledger[j].status = "valid"}}
        BY <1>2 DEF BridgeLedger
      <3>2. PICK i \in DOMAIN ledger :
              t = [id |-> ledger[i].id, stream |-> c.target,
                   legs |-> CapLegs(LegsOf(ledger[i].id))]
        BY <2>2, <3>1
      <3> DEFINE id == ledger[i].id
                 I == ValidRows(id)
      <3>3. t.stream = "alpha.target.v17_shadow" /\ t.legs = CapLegs(LegsOf(id))
        BY <3>1, <3>2 DEF BridgeAccepts
      <3>4. I \in SUBSET DOMAIN ledger /\ IsFiniteSet(DOMAIN ledger)
        <4>1. I \in SUBSET DOMAIN ledger
          BY DEF ValidRows
        <4>2. DOMAIN ledger = 1 .. Len(ledger) /\ Len(ledger) \in Nat
          BY DEF FileInv, Shapes
        <4>3. QED
          BY <4>1, <4>2, FS_Interval
      <3>5. IsFiniteSet(I)
        BY <3>4, FS_Subset
      <3>6. DOMAIN LegsOf(id) = I /\ \A j \in I : LegsOf(id)[j].weight \in Int
        BY <3>4 DEF LegsOf, FileInv, Shapes, SoundRow
      <3> HIDE DEF I, id
      <3>7. /\ DOMAIN CapLegs(LegsOf(id)) = I
            /\ 2 * (GrossOf(CapLegs(LegsOf(id))) - EventCap) <= Cardinality(I)
            /\ \A j \in I : AbsOf(CapLegs(LegsOf(id))[j].weight) <= BridgeSymbolCap
        BY <3>5, <3>6, BridgeKeepsCaps
      <3>8. QED
        BY <3>3, <3>7 DEF WithinBridgeCaps
    <2>3. QED
      BY <1>0, <2>1, <2>2
  <1>3. CASE AlphaRunOnce
    <2>1. targets' = targets
      BY <1>3 DEF AlphaRunOnce
    <2>2. PICK hasState \in BOOLEAN, features \in AlphaSnapshots :
            alpha'.target = BuildTarget(hasState, features)
      BY <1>3 DEF AlphaRunOnce
    <2>3. IsFiniteSet(DOMAIN features)
      BY <2>2, ShadowConstants
    <2>4. WithinAlphaCaps(BuildTarget(hasState, features).weights)
      BY <2>3, TargetKeepsCaps
    <2>5. PICK approved \in BOOLEAN,
               requested \in {"alpha.target.v17_shadow", "alpha.target.v17_live", "alpha.target"} :
            /\ TargetStream(requested, approved) # "refused"
            /\ alpha'.stream = TargetStream(requested, approved)
            /\ alpha'.approved = approved
      BY <1>3 DEF AlphaRunOnce
    <2>6. OnItsStream(alpha')
      <3>1. CASE requested # "alpha.target.v17_live"
        BY <2>5, <3>1 DEF TargetStream, OnItsStream
      <3>2. CASE requested = "alpha.target.v17_live" /\ approved
        BY <2>5, <3>2, Zenon DEF TargetStream, OnItsStream
      <3>3. CASE requested = "alpha.target.v17_live" /\ ~approved
        BY <2>5, <3>3 DEF TargetStream
      <3>4. QED
        BY <3>1, <3>2, <3>3
    <2>7. QED
      BY <1>0, <2>1, <2>2, <2>4, <2>6
  <1>4. CASE Next
    <2>1. ASSUME NEW r \in Runners, RunnerStep(r) PROVE UNCHANGED <<targets, alpha>>
      BY <2>1 DEF RunnerStep, StartRun, WriteSignal, CheckKey, AppendRow, Abort
    <2>2. ASSUME NEW s \in Symbols, BarArrives(s) PROVE UNCHANGED <<targets, alpha>>
      BY <2>2 DEF BarArrives
    <2>3. Tick => UNCHANGED <<targets, alpha>>
      BY DEF Tick
    <2>4. QED
      BY <1>1, <1>2, <1>3, <1>4, <2>1, <2>2, <2>3 DEF Next, PipelineStep
  <1>5. QED
    BY <1>1, <1>4 DEF vars

-----------------------------------------------------------------------------
(* The report *)

\* Rows of one bar, symbol and set of usable symbols have one key: without a
\* race there is one of them, and the sum of the report is its weight.
LEMMA ReportFacts == FileInv => ExposureCountsABarOnce
  <1> SUFFICES ASSUME FileInv, NEW s \in Symbols, NEW h,
                      NEW rows, rows = {i \in WithStatus({h}, "valid") : ledger[i].symbol = s},
                      \A i, j \in rows : ledger[i].id.symbols = ledger[j].id.symbols,
                      \A i, j \in rows : i < j => ledger[j].seen >= i,
                      NEW i \in rows
               PROVE  DailyReport({h}).exposure[s] = ledger[i].weight
    BY ZenonT(60) DEF ExposureCountsABarOnce
  <1>1. DOMAIN ledger = 1 .. Len(ledger) /\ Len(ledger) \in Nat
    BY DEF FileInv, Shapes
  <1>2. \A j \in rows : /\ j \in DOMAIN ledger /\ j \in Nat
                        /\ ledger[j].status = "valid" /\ ledger[j].bar = h /\ ledger[j].symbol = s
                        /\ SoundRow(ledger[j])
    BY <1>1 DEF WithStatus, RowsFor, FileInv, Shapes
  <1>3. ASSUME NEW j \in rows, NEW k \in rows, j < k PROVE FALSE
    <2>1. ledger[j].id = ledger[k].id
      <3>1. /\ ledger[j].id = IdOf(h, ledger[j].id.symbols)
            /\ ledger[k].id = IdOf(h, ledger[k].id.symbols)
        BY <1>2, <1>3 DEF SoundRow
      <3>2. ledger[j].id.symbols = ledger[k].id.symbols
        BY <1>3
      <3>3. QED
        BY <3>1, <3>2
    <2>2. LedgerKey(ledger[j]) = LedgerKey(ledger[k])
      BY <1>2, <2>1 DEF LedgerKey
    <2>3. j \in Active /\ k \in Active
      BY <1>2 DEF Active
    <2>4. ledger[k].seen < j
      BY <1>3, <2>2, <2>3 DEF FileInv, RepeatsOnlyByRace
    <2>5. ledger[k].seen >= j /\ ledger[k].seen \in Nat /\ j \in Nat
      BY <1>2, <1>3 DEF SoundRow
    <2>6. QED
      BY <2>4, <2>5
  <1>4. rows = {i}
    <2>1. ASSUME NEW j \in rows PROVE j = i
      <3>1. j \in Nat /\ i \in Nat /\ ~(j < i) /\ ~(i < j)
        BY <1>2, <1>3
      <3>2. QED
        BY <3>1
    <2>2. QED
      BY <2>1
  <1> DEFINE f == [j \in rows |-> ledger[j].weight]
             c == ledger[i].weight
  <1>5. DailyReport({h}).exposure[s] = Sum(f)
    BY DEF DailyReport
  <1>6. c \in Int /\ f \in [rows -> Int] /\ \A j \in rows : f[j] = c
    BY <1>2, <1>4 DEF SoundRow
  <1>7. IsFiniteSet(rows) /\ Cardinality(rows) = 1
    BY <1>4, FS_Singleton
  <1> HIDE DEF f, c
  <1>8. Sum(f) = c * Cardinality(rows)
    BY <1>6, <1>7, SumConstant
  <1>9. c * Cardinality(rows) = c
    BY <1>6, <1>7
  <1>10. QED
    BY <1>5, <1>8, <1>9 DEF c

-----------------------------------------------------------------------------
(* The theorems *)

IInv == World /\ FileInv /\ Signalled /\ BridgedWithin /\ AlphaWithin

LEMMA Invariant == Spec => []IInv
  <1>1. Init => IInv
    BY InitWorld, InitFile, InitTargets DEF IInv, Init, Signalled
  <1>2. IInv /\ [Next]_vars => IInv'
    BY NextWorld, NextFile, NextSignalled, NextTargets DEF IInv
  <1>3. QED
    BY <1>1, <1>2, PTL DEF Spec

\* A leg is recorded as new twice only by runs that raced for the row, for any
\* number of runners, runs and kills, and whatever the cache holds.
THEOREM LedgerKeepsLegsOnce == Spec => []RepeatsOnlyByRace
  <1>1. IInv => RepeatsOnlyByRace
    BY DEF IInv, FileInv
  <1>2. QED
    BY Invariant, <1>1, PTL

\* The report adds a bar of a symbol once, for any history and any number of
\* runs over it, unless runs raced or the usable symbols changed in between.
THEOREM ReportCountsABarOnce == Spec => []ExposureCountsABarOnce
  <1>1. IInv => ExposureCountsABarOnce
    BY ReportFacts DEF IInv
  <1>2. QED
    BY Invariant, <1>1, PTL

\* A valid signal, merged or not, rests on a bar that was complete and within
\* the tolerance when its run began, whatever the cache held and whenever the
\* signal is written.
THEOREM SignalsAreFresh == Spec => []OnlyFreshCompletedBars
  <1>1. IInv => OnlyFreshCompletedBars
    BY DEF IInv, Signalled, SoundEvent, Fresh, OnlyFreshCompletedBars
  <1>2. QED
    BY Invariant, <1>1, PTL

\* Bridged targets and the targets of the alpha service keep their streams and
\* their caps, for all caps, rows, features and configurations, but for half a
\* unit of rounding a leg.
THEOREM V17TargetsKeepCaps == Spec => []V17TargetsWithinCaps
  <1>1. IInv => V17TargetsWithinCaps
    BY Zenon DEF IInv, BridgedWithin, AlphaWithin, WithinBridgeCaps, WithinAlphaCaps,
           OnItsStream, V17TargetsWithinCaps
  <1>2. QED
    BY Invariant, <1>1, PTL
=============================================================================
