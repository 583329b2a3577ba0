-------------------------- MODULE TeamSelection_proof --------------------------
(***************************************************************************)
(* The team of a task, for any packet, graph, pool and roles.              *)
(*                                                                         *)
(* A better model has the smaller scores, in every position: what a        *)
(* position asks is a number, a place among the models by any key grows    *)
(* with the key, and so do the ratios and the penalty.  Whoever takes the  *)
(* place of a worse model lowers the goal of the team, so the solver and   *)
(* the greedy choice alike leave out no model that is better than one they *)
(* took.  The task scheme minimizes one sum in which the tie-break cannot  *)
(* outweigh a score.                                                       *)
(***************************************************************************)
EXTENDS ExecutionPlan_proof, TeamSelection

------------------------------------------------------------------------------
\* The team of a task.  First the numbers: what is rounded, clamped or a root.
LEMMA ClampIs ==
  ASSUME NEW n \in Int
  PROVE  Clamp(n) \in 0 .. 100
<1>1. Min({100, n}) \in Int /\ Min({100, n}) <= 100
  BY MinOfTwo
<1>2. Max({0, Min({100, n})}) = IF 0 <= Min({100, n}) THEN Min({100, n}) ELSE 0
  BY <1>1, MaxOfTwo
<1>. QED BY <1>1, <1>2 DEF Clamp

LEMMA AtLeastIs ==
  ASSUME NEW low \in Int, NEW n \in Int
  PROVE  AtLeast(low, n) = IF low <= n THEN n ELSE low
BY MaxOfTwo DEF AtLeast

LEMMA MaxOfThree ==
  ASSUME NEW a \in Int, NEW b \in Int, NEW c \in Int
  PROVE  /\ Max({a, b, c}) \in Int /\ Max({a, b, c}) >= a
         /\ Max({a, b, c}) >= b /\ Max({a, b, c}) >= c
<1>1. /\ {a, b, c} = {a} \cup {b} \cup {c} /\ IsFiniteSet({a})
      /\ IsFiniteSet({a} \cup {b}) /\ IsFiniteSet({a} \cup {b} \cup {c})
  BY FS_Singleton, FS_AddElement
<1>2. {a, b, c} \in SUBSET Int /\ {a, b, c} # {} /\ IsFiniteSet({a, b, c})
  BY <1>1
<1>3. Max({a, b, c}) \in {a, b, c} /\ \A y \in {a, b, c} : Max({a, b, c}) >= y
  BY <1>2, GreatestOf
<1>. QED BY <1>3

\* A quotient, rounded to the nearest number or up, is a natural number.
LEMMA RoundedIs ==
  ASSUME NEW n \in Nat, NEW d \in Nat \ {0}
  PROVE  Rounded(n, d) \in Nat
<1>. DEFINE up == (2 * n + d) \div (2 * d)
            even == (2 * n + d) % (2 * d) = 0
<1>1. 2 * n + d \in Nat /\ 2 * d \in Nat /\ 2 * d > 0
  OBVIOUS
<1>2. up \in Nat
  <2>. DEFINE x == 2 * n + d
              y == 2 * d
  <2>. HIDE DEF x, y
  <2>1. x \in Nat /\ y \in Nat /\ y > 0
    BY <1>1 DEF x, y
  <2>2. x \div y \in Nat
    BY <2>1
  <2>. QED BY <2>2 DEF x, y
<1>3. Rounded(n, d) = IF even /\ up % 2 = 1 THEN up - 1 ELSE up
  BY DEF Rounded
<1>. HIDE DEF up, even
<1>. QED BY <1>2, <1>3

LEMMA CeilDivIs ==
  ASSUME NEW i \in Nat, NEW j \in Nat \ {0}
  PROVE  CeilDiv(i, j) \in Nat
<1>. DEFINE x == i + j - 1
<1>1. x \in Nat
  OBVIOUS
<1>. HIDE DEF x
<1>2. x \div j \in Nat
  BY <1>1
<1>. QED BY <1>2 DEF CeilDiv, x

LEMMA RoundedGrows ==
  ASSUME NEW a \in Nat, NEW b \in Nat, a <= b
  PROVE  Rounded(a, 1000) <= Rounded(b, 1000) /\ Rounded(a, 100000) <= Rounded(b, 100000)
BY DEF Rounded

LEMMA FloorRootIs ==
  ASSUME NEW n \in Nat
  PROVE  FloorRoot(n) \in Nat
<1>. DEFINE T == {r \in Nat : n < (r + 1) * (r + 1)}
<1>1. n \in T
  <2>1. n < (n + 1) * (n + 1)
    BY SMT
  <2>. QED BY <2>1
<1>2. PICK r \in T : \A s \in T : r <= s
  <2>1. T \in SUBSET Nat /\ T # {}
    BY <1>1
  <2>. HIDE DEF T
  <2>. QED BY <2>1, LeastOf
<1>3. r \in 0 .. n /\ n < (r + 1) * (r + 1)
  BY <1>1, <1>2
<1>4. r * r <= n
  <2>1. CASE r = 0
    BY <2>1
  <2>2. CASE r > 0
    <3>1. r - 1 \in Nat /\ r - 1 \notin T
      BY <1>2, <1>3, <2>2
    <3>2. (r - 1) + 1 = r
      BY <1>3
    <3>3. ~(n < r * r)
      BY <3>1, <3>2
    <3>. QED BY <1>3, <3>3
  <2>. QED BY <1>3, <2>1, <2>2
<1>. DEFINE P(q) == q * q <= n /\ n < (q + 1) * (q + 1)
<1>5. FloorRoot(n) = CHOOSE q \in 0 .. n : P(q)
  BY DEF FloorRoot
<1>6. \E q \in 0 .. n : P(q)
  BY <1>3, <1>4
<1>. HIDE DEF P
<1>7. FloorRoot(n) \in 0 .. n
  BY <1>5, <1>6
<1>. QED BY <1>7

LEMMA SumNumber ==
  ASSUME NEW S, IsFiniteSet(S), NEW f \in [S -> Nat]
  PROVE  SumFunction(f) \in Nat
<1>1. PICK g \in [SUBSET S -> Nat] : Adds(g, f, SUBSET S) /\ SumFunction(f) = g[S]
  BY SumIs
<1>2. S \in SUBSET S
  OBVIOUS
<1>. QED BY <1>1, <1>2

LEMMA AverageIs ==
  ASSUME NEW s \in Seq(Nat), s # <<>>
  PROVE  Average(s) \in Nat
<1>1. Len(s) \in Nat \ {0} /\ s \in [1 .. Len(s) -> Nat]
  OBVIOUS
<1>2. SumFunction(s) \in Nat
  BY <1>1, UpTo, SumNumber
<1>. DEFINE mean == SumFunction(s) \div Len(s)
<1>3. mean \in Nat
  BY SMTT(40), <1>1, <1>2
<1>4. Average(s) = mean
  BY DEF Average
<1>. HIDE DEF mean
<1>. QED BY <1>3, <1>4

LEMMA NormalizedIs ==
  ASSUME NEW K, IsFiniteSet(K), NEW f \in [K -> Nat], NEW n \in Nat
  PROVE  /\ DOMAIN Normalized(f, n) = K
         /\ \A k \in K : Normalized(f, n)[k] \in Nat \ {0}
<1>. DEFINE total == SumFunction(f)
            scale == AtLeast(1, n * Cardinality(DOMAIN f))
            value(k) == IF total = 0 THEN n ELSE Rounded(f[k] * scale, total)
<1>1. Normalized(f, n) = [k \in K |-> AtLeast(1, value(k))]
  BY DEF Normalized
<1>2. total \in Nat
  BY SumNumber
<1>3. scale \in Nat
  <2>. DEFINE c == Cardinality(DOMAIN f)
  <2>1. c \in Nat
    BY FS_CardinalityType
  <2>. HIDE DEF c
  <2>2. n * c \in Nat
    BY <2>1
  <2>3. AtLeast(1, n * c) \in Nat
    BY <2>2, AtLeastIs
  <2>. QED BY <2>3 DEF c
<1>. HIDE DEF total, scale
<1>4. ASSUME NEW k \in K PROVE AtLeast(1, value(k)) \in Nat \ {0}
  <2>1. f[k] * scale \in Nat
    BY <1>3
  <2>2. total # 0 => Rounded(f[k] * scale, total) \in Nat
    BY <1>2, <2>1, RoundedIs
  <2>3. value(k) \in Nat
    BY <2>2
  <2>. HIDE DEF value
  <2>. QED BY <2>3, AtLeastIs
<1>. HIDE DEF value
<1>. QED BY <1>1, <1>4

\* The place of i in D, by an order L.
PlaceAmong(D, L, i) == Cardinality({k \in D : k = i \/ <<k, i>> \in L \/ (<<i, k>> \notin L /\ k < i)})

\* What comes before another in an order has a smaller place.
LEMMA CloserPlace ==
  ASSUME NEW D \in SUBSET Int, IsFiniteSet(D), NEW L, NEW m \in D, NEW n \in D,
         <<m, n>> \in L, <<n, m>> \notin L, <<m, m>> \notin L,
         \A k \in D : <<k, m>> \in L => <<m, k>> \notin L,
         \A k \in D : <<m, k>> \notin L => <<k, n>> \in L
  PROVE  PlaceAmong(D, L, m) < PlaceAmong(D, L, n)
<1>. DEFINE A == {k \in D : k = m \/ <<k, m>> \in L \/ (<<m, k>> \notin L /\ k < m)}
            B == {k \in D : k = n \/ <<k, n>> \in L \/ (<<n, k>> \notin L /\ k < n)}
<1>1. IsFiniteSet(B)
  <2>1. B \in SUBSET D
    OBVIOUS
  <2>. QED BY <2>1, FS_Subset
<1>2. A \subseteq B \ {n}
  <2>. SUFFICES ASSUME NEW k \in A PROVE k \in B /\ k # n
    OBVIOUS
  <2>1. k = m \/ <<m, k>> \notin L
    OBVIOUS
  <2>2. <<k, n>> \in L
    BY <2>1
  <2>3. k # n
    BY <2>1
  <2>. QED BY <2>2, <2>3
<1>3. n \in B
  OBVIOUS
<1>. HIDE DEF A, B
<1>4. IsFiniteSet(B \ {n}) /\ Cardinality(B \ {n}) = Cardinality(B) - 1
  BY <1>1, <1>3, FS_RemoveElement
<1>5. /\ IsFiniteSet(A) /\ Cardinality(A) \in Nat /\ Cardinality(B) \in Nat
      /\ Cardinality(A) <= Cardinality(B \ {n})
  <2>1. A \in SUBSET (B \ {n})
    BY <1>2
  <2>. QED BY <1>1, <1>4, <2>1, FS_Subset, FS_CardinalityType
<1>6. Cardinality(A) \in Nat /\ Cardinality(A) < Cardinality(B)
  BY <1>4, <1>5
<1>. QED BY <1>6 DEF A, B, PlaceAmong

\* The models before others by a key, and by the ratio of two.
KeyOrder(D, f) == {p \in D \X D : f[p[1]] < f[p[2]]}
RatioOrder(D, f, g) == {p \in D \X D : f[p[1]] * g[p[2]] < f[p[2]] * g[p[1]]}

LEMMA PlaceNumber ==
  ASSUME NEW D, IsFiniteSet(D), NEW L, NEW i
  PROVE  PlaceAmong(D, L, i) \in Nat
<1>. DEFINE A == {k \in D : k = i \/ <<k, i>> \in L \/ (<<i, k>> \notin L /\ k < i)}
<1>1. A \in SUBSET D
  OBVIOUS
<1>. HIDE DEF A
<1>2. Cardinality(A) \in Nat
  BY <1>1, FS_Subset, FS_CardinalityType
<1>. QED BY <1>2 DEF A, PlaceAmong

LEMMA PlaceByKey ==
  ASSUME NEW D \in SUBSET Int, NEW f \in [D -> Int], NEW i \in D
  PROVE  PlaceBy(f, i) = PlaceAmong(D, KeyOrder(D, f), i)
<1>. DEFINE L == KeyOrder(D, f)
<1>1. \A j, k \in D : <<j, k>> \in L <=> f[j] < f[k]
  BY DEF KeyOrder
<1>2. DOMAIN f = D
  OBVIOUS
<1>. HIDE DEF L
<1>3. {k \in D : k = i \/ <<k, i>> \in L \/ (<<i, k>> \notin L /\ k < i)}
         = {k \in D : k = i \/ f[k] < f[i] \/ (~(f[i] < f[k]) /\ k < i)}
  BY <1>1
<1>4. PlaceBy(f, i) = PlaceAmong(D, L, i)
  BY <1>2, <1>3 DEF Place, PlaceBy, PlaceAmong
<1>. QED BY <1>4 DEF L

\* A smaller key has a smaller place.
LEMMA PlaceOfKey ==
  ASSUME NEW D \in SUBSET Int, IsFiniteSet(D), NEW f \in [D -> Int]
  PROVE  /\ \A m \in D : PlaceBy(f, m) \in Nat
         /\ \A m, n \in D : f[m] < f[n] => PlaceBy(f, m) < PlaceBy(f, n)
<1>. DEFINE L == KeyOrder(D, f)
<1>1. \A i, j \in D : <<i, j>> \in L <=> f[i] < f[j]
  BY DEF KeyOrder
<1>2. \A i \in D : PlaceBy(f, i) = PlaceAmong(D, L, i)
  BY PlaceByKey
<1>. HIDE DEF L
<1>3. \A k \in D : f[k] \in Int
  OBVIOUS
<1>4. ASSUME NEW m \in D, NEW n \in D, f[m] < f[n]
      PROVE  PlaceAmong(D, L, m) < PlaceAmong(D, L, n)
  <2>1. /\ <<m, n>> \in L /\ <<n, m>> \notin L /\ <<m, m>> \notin L
        /\ \A k \in D : <<k, m>> \in L => <<m, k>> \notin L
        /\ \A k \in D : <<m, k>> \notin L => <<k, n>> \in L
    BY <1>1, <1>3, <1>4
  <2>. QED BY <2>1, CloserPlace
<1>. QED BY <1>2, <1>4, PlaceNumber

\* So has one whose cost is smaller, and whose utility is no smaller.
LEMMA PlaceOfRatio ==
  ASSUME NEW D \in SUBSET Int, IsFiniteSet(D),
         NEW f \in [D -> Nat], NEW g \in [D -> Nat \ {0}]
  PROVE  /\ \A m \in D : Place(D, LAMBDA i, j : f[i] * g[j] < f[j] * g[i], m) \in Nat
         /\ \A m, n \in D : f[m] < f[n] /\ g[n] <= g[m]
              => Place(D, LAMBDA i, j : f[i] * g[j] < f[j] * g[i], m)
                   < Place(D, LAMBDA i, j : f[i] * g[j] < f[j] * g[i], n)
<1>. DEFINE L == RatioOrder(D, f, g)
            place(k) == Place(D, LAMBDA i, j : f[i] * g[j] < f[j] * g[i], k)
<1>1. \A i, j \in D : <<i, j>> \in L <=> f[i] * g[j] < f[j] * g[i]
  BY DEF RatioOrder
<1>. HIDE DEF L
<1>2. ASSUME NEW i \in D PROVE place(i) = PlaceAmong(D, L, i)
  <2>1. {k \in D : k = i \/ <<k, i>> \in L \/ (<<i, k>> \notin L /\ k < i)}
         = {k \in D : k = i \/ f[k] * g[i] < f[i] * g[k]
                       \/ (~(f[i] * g[k] < f[k] * g[i]) /\ k < i)}
    BY <1>1
  <2>. QED BY <2>1 DEF Place, PlaceAmong
<1>3. \A i, j \in D : f[i] \in Nat /\ g[i] \in Nat /\ g[i] > 0 /\ f[i] * g[j] \in Nat
  OBVIOUS
<1>4. ASSUME NEW m \in D, NEW n \in D, f[m] < f[n], g[n] <= g[m]
      PROVE  PlaceAmong(D, L, m) < PlaceAmong(D, L, n)
  <2>1. f[m] * g[n] < f[n] * g[m]
    <3>1. g[n] * f[m] <= g[m] * f[m]
      BY <1>3, <1>4, TimesMonotone
    <3>2. (f[m] + 1) * g[m] <= f[n] * g[m]
      BY <1>3, <1>4, TimesMonotone
    <3>3. (f[m] + 1) * g[m] = f[m] * g[m] + g[m] /\ f[m] * g[m] = g[m] * f[m]
          /\ f[m] * g[n] = g[n] * f[m]
      BY <1>3
    <3>. QED BY <1>3, <3>1, <3>2, <3>3
  <2>2. ASSUME NEW k \in D, ~(f[m] * g[k] < f[k] * g[m]) PROVE f[k] * g[n] < f[n] * g[k]
    <3>. DEFINE a == f[m]
                b == f[n]
                c == f[k]
                u == g[m]
                v == g[n]
                w == g[k]
    <3>1. /\ a \in Nat /\ b \in Nat /\ c \in Nat
          /\ u \in Nat \ {0} /\ v \in Nat \ {0} /\ w \in Nat \ {0}
      BY <1>3
    <3>2. c * u <= a * w /\ a * v < b * u
      BY <1>3, <2>1, <2>2
    <3>. HIDE DEF a, b, c, u, v, w
    <3>3. SUFFICES ASSUME b * w <= c * v PROVE FALSE
      <4>1. b * w \in Nat /\ c * v \in Nat
        BY <3>1
      <4>. QED BY <4>1 DEF a, b, c, u, v, w
    <3>4. /\ c * u \in Nat /\ a * w \in Nat /\ a * v \in Nat /\ b * u \in Nat
          /\ b * w \in Nat /\ c * v \in Nat
      BY <3>1
    <3>5. (c * u) * v <= (a * w) * v /\ (b * w) * u <= (c * v) * u
      BY <3>1, <3>2, <3>3, <3>4, TimesMonotone
    <3>6. (a * v + 1) * w <= (b * u) * w
      <4>1. a * v + 1 <= b * u /\ a * v + 1 \in Nat
        BY <3>2, <3>4
      <4>. QED BY <3>1, <3>4, <4>1, TimesMonotone
    <3>7. /\ (c * u) * v = (c * v) * u /\ (a * w) * v = (a * v) * w
          /\ (b * w) * u = (b * u) * w /\ (a * v + 1) * w = (a * v) * w + w
          /\ (a * v) * w \in Nat /\ (b * u) * w \in Nat /\ (c * v) * u \in Nat
      BY <3>1
    <3>. DEFINE x == (a * v) * w
                y == (b * u) * w
                z == (c * v) * u
    <3>8. z <= x /\ y <= z /\ x + w <= y /\ x \in Nat /\ y \in Nat /\ z \in Nat
      BY <3>5, <3>6, <3>7
    <3>. HIDE DEF x, y, z
    <3>. QED BY <3>1, <3>8
  <2>3. /\ <<m, n>> \in L /\ <<n, m>> \notin L /\ <<m, m>> \notin L
        /\ \A k \in D : <<k, m>> \in L => <<m, k>> \notin L
    <3>1. \A i, j \in D : f[i] * g[j] < f[j] * g[i] => ~(f[j] * g[i] < f[i] * g[j])
      BY <1>3
    <3>. QED BY <1>1, <2>1, <3>1
  <2>4. \A k \in D : <<m, k>> \notin L => <<k, n>> \in L
    BY <1>1, <2>2
  <2>. QED BY <2>3, <2>4, CloserPlace
<1>. HIDE DEF place
<1>5. /\ \A m \in D : place(m) \in Nat
      /\ \A m, n \in D : f[m] < f[n] /\ g[n] <= g[m] => place(m) < place(n)
  BY <1>2, <1>4, PlaceNumber
<1>. QED BY <1>5 DEF place

------------------------------------------------------------------------------
\* What a position asks of a model, in numbers, and what is known of a model.
WeightKeys == {"cost", "intelligence", "popularity", "capacity", "marginal"}
PositionOk(n) ==
  /\ n.tokens.prompt \in Nat /\ n.tokens.completion \in Nat /\ n.tokens.context \in Nat
  /\ n.unknown.context \in Nat /\ n.unknown.output \in Nat
  /\ n.weights \in [WeightKeys -> Nat \ {0}]

Offer == [prompt : Nat, completion : Nat, fee : Nat, context : Nat, output : Nat,
          intelligence : Nat, popularity : Nat]

\* Better, in any pool.
BetterIn(bank, m, k, n) ==
  /\ Cost(bank[m], n.tokens) < Cost(bank[k], n.tokens)
  /\ \A x \in {"intelligence", "popularity"} : RankOf(bank[m], x) < RankOf(bank[k], x)
  /\ \A x \in {"context", "output"} : Load(bank[m], n)[x] < Load(bank[k], n)[x]

LEMMA WeightKeysFinite == IsFiniteSet(WeightKeys)
<1>1. /\ IsFiniteSet({"cost"}) /\ IsFiniteSet({"cost"} \cup {"intelligence"})
      /\ IsFiniteSet({"cost"} \cup {"intelligence"} \cup {"popularity"})
  BY FS_Singleton, FS_AddElement
<1>2. IsFiniteSet({"cost"} \cup {"intelligence"} \cup {"popularity"} \cup {"capacity"})
  BY <1>1, FS_AddElement
<1>3. IsFiniteSet({"cost"} \cup {"intelligence"} \cup {"popularity"} \cup {"capacity"}
                  \cup {"marginal"})
  BY <1>2, FS_AddElement
<1>4. WeightKeys = {"cost"} \cup {"intelligence"} \cup {"popularity"} \cup {"capacity"}
                   \cup {"marginal"}
  BY DEF WeightKeys
<1>. QED BY <1>3, <1>4

\* What a model costs, and how much of it a position takes.
LEMMA OfferIs ==
  ASSUME NEW row \in Offer, NEW n, PositionOk(n)
  PROVE  /\ Cost(row, n.tokens) \in Nat
         /\ \A x \in {"intelligence", "popularity"} : RankOf(row, x) \in Nat
         /\ Load(row, n).context \in Nat /\ Load(row, n).output \in Nat
<1>1. /\ row.prompt \in Nat /\ row.completion \in Nat /\ row.fee \in Nat
      /\ row.context \in Nat /\ row.output \in Nat
      /\ row["intelligence"] \in Nat /\ row["popularity"] \in Nat
  BY DEF Offer
<1>. DEFINE p == n.tokens.prompt
            c == n.tokens.completion
            x == n.tokens.context
<1>2. p \in Nat /\ c \in Nat /\ x \in Nat /\ n.unknown.context \in Nat /\ n.unknown.output \in Nat
  BY DEF PositionOk
<1>3. Cost(row, n.tokens) \in Nat
  <2>1. Cost(row, n.tokens) = row.prompt * p + row.completion * c + row.fee
    BY DEF Cost
  <2>2. row.prompt * p \in Nat /\ row.completion * c \in Nat
    BY <1>1, <1>2
  <2>. QED BY <1>1, <2>1, <2>2
<1>4. \A k \in {"intelligence", "popularity"} : RankOf(row, k) \in Nat
  BY <1>1 DEF RankOf, Unranked
<1>5. /\ Load(row, n).context = IF row.context = 0 THEN n.unknown.context
                                ELSE (x * 1000) \div row.context
      /\ Load(row, n).output = IF row.output = 0 THEN n.unknown.output
                               ELSE (c * 1000) \div row.output
  BY DEF Load, Unknown, Part
<1>6. ASSUME NEW a \in Nat, NEW b \in Nat, b # 0 PROVE (a * 1000) \div b \in Nat
  <2>1. a * 1000 \in Nat
    OBVIOUS
  <2>. QED BY <1>6, <2>1
<1>. HIDE DEF p, c, x
<1>. QED BY <1>1, <1>2, <1>3, <1>4, <1>5, <1>6

\* The lack of capacity grows with the load, and the penalty with the lack.
LEMMA ShortfallGrows ==
  ASSUME NEW l, NEW k, l.context \in Nat, l.output \in Nat, k.context \in Nat, k.output \in Nat,
         l.context <= k.context, l.output <= k.output
  PROVE  Shortfall(l) \in Nat /\ Shortfall(k) \in Nat /\ Shortfall(l) <= Shortfall(k)
<1>1. ASSUME NEW n \in Nat
      PROVE  AtLeast(0, n - 1000) = IF 0 <= n - 1000 THEN n - 1000 ELSE 0
  BY AtLeastIs
<1>2. \A x \in {l, k} : Shortfall(x) = AtLeast(0, x.context - 1000) + AtLeast(0, x.output - 1000)
  BY DEF Shortfall, Part
<1>. QED BY <1>1, <1>2

LEMMA PenaltyGrows ==
  ASSUME NEW optimizer, NEW a \in Nat, NEW b \in Nat, a <= b, NEW n, PositionOk(n),
         NEW overall \in 0 .. 100, NEW k \in Nat
  PROVE  /\ Penalty(optimizer, a, n, overall, k) \in Nat
         /\ Penalty(optimizer, b, n, overall, k) \in Nat
         /\ Penalty(optimizer, a, n, overall, k) <= Penalty(optimizer, b, n, overall, k)
<1>. DEFINE w == SumFunction(n.weights)
            scale == w * k
            u == AtLeast(1, (scale * (1 + overall)) \div 50)
            v == AtLeast(1, scale)
            t == 100 + overall
<1>1. w \in Nat
  <2>1. n.weights \in [WeightKeys -> Nat]
    BY DEF PositionOk
  <2>. QED BY <2>1, WeightKeysFinite, SumNumber
<1>2. scale \in Nat
  <2>. HIDE DEF w
  <2>. QED BY <1>1
<1>3. \A x : Penalty(optimizer, x, n, overall, k)
               = IF optimizer = "task" THEN Rounded(x * u, 1000) ELSE Rounded(x * v * t, 100000)
  BY DEF Penalty, Part
<1>. HIDE DEF scale
<1>4. u \in Nat
  <2>. DEFINE y == scale * (1 + overall)
  <2>1. y \in Nat
    BY <1>2
  <2>. HIDE DEF y
  <2>2. y \div 50 \in Nat
    BY <2>1
  <2>. QED BY <2>2, AtLeastIs DEF y
<1>5. v \in Nat /\ t \in Nat
  BY <1>2, AtLeastIs
<1>. HIDE DEF u, v, t
<1>6. a * u \in Nat /\ b * u \in Nat /\ a * u <= b * u
  BY <1>4, TimesMonotone
<1>7. a * v \in Nat /\ b * v \in Nat /\ a * v <= b * v
  BY <1>5, TimesMonotone
<1>8. a * v * t \in Nat /\ b * v * t \in Nat /\ a * v * t <= b * v * t
  BY <1>5, <1>7, TimesMonotone
<1>9. Rounded(a * u, 1000) \in Nat /\ Rounded(b * u, 1000) \in Nat
      /\ Rounded(a * u, 1000) <= Rounded(b * u, 1000)
  <2>1. 1000 \in Nat \ {0}
    OBVIOUS
  <2>. QED BY <1>6, <2>1, RoundedIs, RoundedGrows
<1>10. Rounded(a * v * t, 100000) \in Nat /\ Rounded(b * v * t, 100000) \in Nat
       /\ Rounded(a * v * t, 100000) <= Rounded(b * v * t, 100000)
  <2>1. 100000 \in Nat \ {0}
    OBVIOUS
  <2>. QED BY <1>8, <2>1, RoundedIs, RoundedGrows
<1>. QED BY <1>3, <1>9, <1>10

\* A factor of at least one keeps the order.
LEMMA TimesStrict ==
  ASSUME NEW a \in Nat, NEW b \in Nat, NEW k \in Nat \ {0}, a < b
  PROVE  k * a \in Nat /\ k * b \in Nat /\ k * a < k * b
<1>1. (a + 1) * k <= b * k /\ b * k \in Nat
  BY TimesMonotone, a + 1 \in Nat, a + 1 <= b
<1>2. (a + 1) * k = a * k + k /\ a * k \in Nat /\ k * a = a * k /\ k * b = b * k
  BY SMT
<1>. QED BY <1>1, <1>2

\* The scores are numbers, and those of a better model are smaller.
LEMMA ScoredIs ==
  ASSUME NEW bank, DOMAIN bank \in SUBSET Int, IsFiniteSet(DOMAIN bank),
         \A m \in DOMAIN bank : bank[m] \in Offer,
         NEW n, PositionOk(n), NEW overall \in 0 .. 100, NEW optimizer
  PROVE  /\ \A m \in DOMAIN bank :
              /\ Scored(optimizer, bank, n, overall)[m].capability \in Nat
              /\ Scored(optimizer, bank, n, overall)[m].economy \in Nat
              /\ Scored(optimizer, bank, n, overall)[m].cost \in Nat
         /\ \A m, k \in DOMAIN bank : BetterIn(bank, m, k, n) =>
              /\ Scored(optimizer, bank, n, overall)[m].capability
                   < Scored(optimizer, bank, n, overall)[k].capability
              /\ Scored(optimizer, bank, n, overall)[m].economy
                   < Scored(optimizer, bank, n, overall)[k].economy
<1>. DEFINE D       == DOMAIN bank
            cost    == [m \in D |-> Cost(bank[m], n.tokens)]
            load    == [m \in D |-> Load(bank[m], n)]
            risk    == [m \in D |-> load[m].context + load[m].output]
            rank(k) == [m \in D |-> RankOf(bank[m], k)]
            wit     == rank("intelligence")
            fame    == rank("popularity")
            smart   == [m \in D |-> PlaceBy(wit, m)]
            utility == [m \in D |-> AtLeast(1, Cardinality(D) + 1 - smart[m])]
            ratio(m) == Place(D, LAMBDA i, j : cost[i] * utility[j] < cost[j] * utility[i], m)
            lack(m) == Penalty(optimizer, Shortfall(load[m]), n, overall, Cardinality(D))
            w == n.weights
            s == Scored(optimizer, bank, n, overall)
<1>1. \A m \in D :
        /\ s[m].capability = w.intelligence * smart[m] + w.popularity * PlaceBy(fame, m)
                             + w.capacity * PlaceBy(risk, m) + lack(m)
        /\ s[m].economy = w.cost * PlaceBy(cost, m) + w.marginal * ratio(m)
        /\ s[m].cost = cost[m]
  <2>. SUFFICES ASSUME NEW m \in D
                PROVE  /\ s[m].capability
                            = w.intelligence * smart[m] + w.popularity * PlaceBy(fame, m)
                              + w.capacity * PlaceBy(risk, m) + lack(m)
                       /\ s[m].economy = w.cost * PlaceBy(cost, m) + w.marginal * ratio(m)
                       /\ s[m].cost = cost[m]
    OBVIOUS
  <2>1. s[m].capability = w.intelligence * smart[m] + w.popularity * PlaceBy(fame, m)
                              + w.capacity * PlaceBy(risk, m) + lack(m)
    BY DEF Scored
  <2>2. s[m].economy = w.cost * PlaceBy(cost, m) + w.marginal * ratio(m)
    BY DEF Scored, Place
  <2>3. s[m].cost = cost[m]
    BY DEF Scored
  <2>. QED BY <2>1, <2>2, <2>3
<1>2. /\ cost \in [D -> Nat] /\ wit \in [D -> Nat] /\ fame \in [D -> Nat] /\ risk \in [D -> Nat]
      /\ \A m \in D : load[m].context \in Nat /\ load[m].output \in Nat
  <2>1. \A m \in D : /\ Cost(bank[m], n.tokens) \in Nat
                     /\ RankOf(bank[m], "intelligence") \in Nat
                     /\ RankOf(bank[m], "popularity") \in Nat
                     /\ Load(bank[m], n).context \in Nat /\ Load(bank[m], n).output \in Nat
    BY OfferIs
  <2>. QED BY <2>1
<1>3. /\ \A x \in WeightKeys : w[x] \in Nat \ {0}
      /\ w.cost \in Nat \ {0} /\ w.intelligence \in Nat \ {0} /\ w.popularity \in Nat \ {0}
      /\ w.capacity \in Nat \ {0} /\ w.marginal \in Nat \ {0}
  BY DEF PositionOk, WeightKeys
<1>4. /\ \A m, k \in D : BetterIn(bank, m, k, n) =>
           /\ cost[m] < cost[k] /\ wit[m] < wit[k] /\ fame[m] < fame[k]
           /\ load[m].context < load[k].context /\ load[m].output < load[k].output
  BY DEF BetterIn
<1>5. /\ \A m, k \in D : load[m].context < load[k].context /\ load[m].output < load[k].output
           => risk[m] < risk[k]
      /\ \A m \in D : smart[m] = PlaceBy(wit, m)
                      /\ utility[m] = AtLeast(1, Cardinality(D) + 1 - smart[m])
  BY <1>2
<1>6. Cardinality(D) \in Nat
  BY FS_CardinalityType
<1>0. D \in SUBSET Int /\ IsFiniteSet(D)
  OBVIOUS
<1>. HIDE DEF s, w, cost, risk, wit, fame, D
<1>7. ASSUME NEW f \in {cost, wit, fame, risk}
      PROVE  /\ \A m \in D : PlaceBy(f, m) \in Nat
             /\ \A m, k \in D : f[m] < f[k] => PlaceBy(f, m) < PlaceBy(f, k)
  <2>1. f \in [D -> Int]
    BY <1>2, <1>7
  <2>. QED BY <1>0, <2>1, PlaceOfKey
<1>8. \A m \in D : smart[m] \in Nat
  BY <1>5, <1>7
<1>9. utility \in [D -> Nat \ {0}] /\ \A m, k \in D : smart[m] <= smart[k] => utility[k] <= utility[m]
  <2>1. ASSUME NEW m \in D
        PROVE  /\ Cardinality(D) + 1 - smart[m] \in Int
               /\ utility[m] = IF 1 <= Cardinality(D) + 1 - smart[m]
                               THEN Cardinality(D) + 1 - smart[m] ELSE 1
    <3>1. Cardinality(D) + 1 - smart[m] \in Int
      BY <1>6, <1>8
    <3>. QED BY <1>5, <3>1, AtLeastIs
  <2>2. utility = [m \in D |-> utility[m]]
    OBVIOUS
  <2>. HIDE DEF utility, smart
  <2>3. \A m \in D : utility[m] \in Nat \ {0}
    BY <2>1
  <2>. QED BY <1>6, <1>8, <2>1, <2>2, <2>3
<1>. HIDE DEF smart, utility
<1>10. /\ \A m \in D : ratio(m) \in Nat
       /\ \A m, k \in D : cost[m] < cost[k] /\ utility[k] <= utility[m] => ratio(m) < ratio(k)
  BY <1>0, <1>2, <1>9, PlaceOfRatio
<1>. HIDE DEF ratio
<1>11. /\ \A m \in D : lack(m) \in Nat
       /\ \A m, k \in D : load[m].context < load[k].context /\ load[m].output < load[k].output
            => lack(m) <= lack(k)
  <2>1. ASSUME NEW m \in D, NEW k \in D, load[m].context <= load[k].context,
               load[m].output <= load[k].output
        PROVE  lack(m) \in Nat /\ lack(m) <= lack(k)
    <3>. HIDE DEF load
    <3>1. /\ Shortfall(load[m]) \in Nat /\ Shortfall(load[k]) \in Nat
          /\ Shortfall(load[m]) <= Shortfall(load[k])
      BY <1>2, <2>1, ShortfallGrows
    <3>. QED BY <1>6, <3>1, PenaltyGrows
  <2>. HIDE DEF lack, load
  <2>2. \A m \in D : lack(m) \in Nat
    <3>1. \A m \in D : load[m].context <= load[m].context /\ load[m].output <= load[m].output
      BY <1>2
    <3>. QED BY <2>1, <3>1
  <2>3. ASSUME NEW m \in D, NEW k \in D,
               load[m].context < load[k].context, load[m].output < load[k].output
        PROVE  lack(m) <= lack(k)
    <3>1. load[m].context <= load[k].context /\ load[m].output <= load[k].output
      BY <1>2, <2>3
    <3>. QED BY <2>1, <3>1
  <2>. QED BY <2>2, <2>3
<1>. HIDE DEF lack, load
<1>12. ASSUME NEW m \in D
       PROVE  s[m].capability \in Nat /\ s[m].economy \in Nat /\ s[m].cost \in Nat
  <2>1. smart[m] \in Nat /\ PlaceBy(fame, m) \in Nat /\ PlaceBy(risk, m) \in Nat
        /\ PlaceBy(cost, m) \in Nat /\ ratio(m) \in Nat /\ lack(m) \in Nat /\ cost[m] \in Nat
    BY <1>2, <1>7, <1>8, <1>10, <1>11
  <2>2. /\ w.intelligence * smart[m] \in Nat /\ w.popularity * PlaceBy(fame, m) \in Nat
        /\ w.capacity * PlaceBy(risk, m) \in Nat /\ w.cost * PlaceBy(cost, m) \in Nat
        /\ w.marginal * ratio(m) \in Nat
    BY <1>3, <2>1
  <2>. QED BY <1>1, <2>1, <2>2
<1>13. ASSUME NEW m \in D, NEW k \in D, BetterIn(bank, m, k, n)
       PROVE  s[m].capability < s[k].capability /\ s[m].economy < s[k].economy
  <2>1. /\ cost[m] < cost[k] /\ wit[m] < wit[k] /\ fame[m] < fame[k] /\ risk[m] < risk[k]
        /\ load[m].context < load[k].context /\ load[m].output < load[k].output
    BY <1>4, <1>5, <1>13
  <2>2. /\ smart[m] < smart[k] /\ PlaceBy(fame, m) < PlaceBy(fame, k)
        /\ PlaceBy(risk, m) < PlaceBy(risk, k) /\ PlaceBy(cost, m) < PlaceBy(cost, k)
    BY <1>5, <1>7, <2>1
  <2>3. ratio(m) < ratio(k)
    <3>1. smart[m] <= smart[k]
      BY <1>8, <2>2
    <3>2. utility[k] <= utility[m]
      BY <1>9, <3>1
    <3>. QED BY <1>10, <2>1, <3>2
  <2>4. lack(m) <= lack(k) /\ lack(m) \in Nat /\ lack(k) \in Nat
    BY <1>11, <2>1
  <2>5. \A i \in D : /\ smart[i] \in Nat /\ PlaceBy(fame, i) \in Nat /\ PlaceBy(risk, i) \in Nat
                     /\ PlaceBy(cost, i) \in Nat /\ ratio(i) \in Nat
    BY <1>7, <1>8, <1>10
  <2>6. /\ w.intelligence * smart[m] \in Nat /\ w.intelligence * smart[k] \in Nat
        /\ w.intelligence * smart[m] < w.intelligence * smart[k]
    BY <1>3, <2>2, <2>5, TimesStrict
  <2>7. /\ w.popularity * PlaceBy(fame, m) \in Nat /\ w.popularity * PlaceBy(fame, k) \in Nat
        /\ w.popularity * PlaceBy(fame, m) < w.popularity * PlaceBy(fame, k)
    BY <1>3, <2>2, <2>5, TimesStrict
  <2>8. /\ w.capacity * PlaceBy(risk, m) \in Nat /\ w.capacity * PlaceBy(risk, k) \in Nat
        /\ w.capacity * PlaceBy(risk, m) < w.capacity * PlaceBy(risk, k)
    BY <1>3, <2>2, <2>5, TimesStrict
  <2>9. /\ w.cost * PlaceBy(cost, m) \in Nat /\ w.cost * PlaceBy(cost, k) \in Nat
        /\ w.cost * PlaceBy(cost, m) < w.cost * PlaceBy(cost, k)
    BY <1>3, <2>2, <2>5, TimesStrict
  <2>10. /\ w.marginal * ratio(m) \in Nat /\ w.marginal * ratio(k) \in Nat
         /\ w.marginal * ratio(m) < w.marginal * ratio(k)
    BY <1>3, <2>3, <2>5, TimesStrict
  <2>11. s[m].capability < s[k].capability
    <3>. DEFINE a1 == w.intelligence * smart[m]
                a2 == w.popularity * PlaceBy(fame, m)
                a3 == w.capacity * PlaceBy(risk, m)
                b1 == w.intelligence * smart[k]
                b2 == w.popularity * PlaceBy(fame, k)
                b3 == w.capacity * PlaceBy(risk, k)
    <3>1. s[m].capability = a1 + a2 + a3 + lack(m) /\ s[k].capability = b1 + b2 + b3 + lack(k)
      BY <1>1
    <3>2. a1 \in Nat /\ a2 \in Nat /\ a3 \in Nat /\ b1 \in Nat /\ b2 \in Nat /\ b3 \in Nat
          /\ a1 < b1 /\ a2 < b2 /\ a3 < b3
      BY <2>6, <2>7, <2>8
    <3>. HIDE DEF a1, a2, a3, b1, b2, b3
    <3>. QED BY <2>4, <3>1, <3>2
  <2>12. s[m].economy < s[k].economy
    <3>. DEFINE a1 == w.cost * PlaceBy(cost, m)
                a2 == w.marginal * ratio(m)
                b1 == w.cost * PlaceBy(cost, k)
                b2 == w.marginal * ratio(k)
    <3>1. s[m].economy = a1 + a2 /\ s[k].economy = b1 + b2
      BY <1>1
    <3>2. a1 \in Nat /\ a2 \in Nat /\ b1 \in Nat /\ b2 \in Nat /\ a1 < b1 /\ a2 < b2
      BY <2>9, <2>10
    <3>. HIDE DEF a1, a2, b1, b2
    <3>. QED BY <3>1, <3>2
  <2>. QED BY <2>11, <2>12
<1>. QED BY <1>12, <1>13 DEF s, D

------------------------------------------------------------------------------
\* A sum is any one of its values and the sum of the rest.
Without(f, x) == [y \in DOMAIN f \ {x} |-> f[y]]

LEMMA SumRemove ==
  ASSUME NEW S, IsFiniteSet(S), NEW f \in [S -> Nat], NEW x \in S
  PROVE  /\ SumFunction(Without(f, x)) \in Nat
         /\ SumFunction(f) = f[x] + SumFunction(Without(f, x))
<1>. DEFINE R == S \ {x}
            rest == [y \in R |-> f[y]]
<1>1. IsFiniteSet(R) /\ rest \in [R -> Nat]
  <2>1. R \in SUBSET S
    OBVIOUS
  <2>. QED BY <2>1, FS_Subset
<1>2. PICK g \in [SUBSET S -> Nat] : Adds(g, f, SUBSET S) /\ SumFunction(f) = g[S]
  BY SumIs
<1>3. PICK h \in [SUBSET R -> Nat] : Adds(h, rest, SUBSET R) /\ SumFunction(rest) = h[R]
  <2>. HIDE DEF R, rest
  <2>. QED BY <1>1, SumIs
<1>4. \A s \in SUBSET S : g[s] \in Nat
                          /\ g[s] = IF s = {} THEN 0 ELSE f[One(s)] + g[s \ {One(s)}]
  BY <1>2 DEF Adds
<1>5. \A s \in SUBSET R : h[s] \in Nat
                          /\ h[s] = IF s = {} THEN 0 ELSE f[One(s)] + h[s \ {One(s)}]
  <2>1. \A s \in SUBSET R : s # {} => One(s) \in R
    BY OneLess, <1>1
  <2>2. \A s \in SUBSET R : h[s] = IF s = {} THEN 0 ELSE rest[One(s)] + h[s \ {One(s)}]
    BY <1>3 DEF Adds
  <2>3. \A y \in R : rest[y] = f[y]
    OBVIOUS
  <2>. HIDE DEF rest, R
  <2>. QED BY <1>3, <2>1, <2>2, <2>3
<1>6. \A s \in SUBSET S : Cardinality(s) \in Nat
                          /\ (s # {} => /\ One(s) \in s /\ s \ {One(s)} \in SUBSET S
                                        /\ Cardinality(s \ {One(s)}) < Cardinality(s))
  <2>1. \A s \in SUBSET S : Cardinality(s) \in Nat
    BY FS_Subset, FS_CardinalityType
  <2>2. ASSUME NEW s \in SUBSET S, s # {}
        PROVE  /\ One(s) \in s /\ s \ {One(s)} \in SUBSET S
               /\ Cardinality(s \ {One(s)}) < Cardinality(s)
    <3>1. /\ One(s) \in s /\ s \ {One(s)} \in SUBSET S
          /\ Cardinality(s) \in Nat /\ Cardinality(s \ {One(s)}) = Cardinality(s) - 1
      BY <2>2, OneLess
    <3>. QED BY <3>1
  <2>. QED BY <2>1, <2>2
\* Without x both sums are one.
<1>7. \A s \in SUBSET R : h[s] = g[s]
  <2>. DEFINE Bad == {k \in Nat : \E s \in SUBSET R : Cardinality(s) = k /\ h[s] # g[s]}
  <2>1. SUFFICES ASSUME Bad # {} PROVE FALSE
    BY <1>6
  <2>2. PICK k \in Bad : \A i \in Bad : k <= i
    <3>1. Bad \in SUBSET Nat
      OBVIOUS
    <3>. HIDE DEF Bad
    <3>. QED BY <2>1, <3>1, LeastOf
  <2>3. PICK s \in SUBSET R : Cardinality(s) = k /\ h[s] # g[s]
    OBVIOUS
  <2>4. s \in SUBSET S /\ s # {}
    BY <1>4, <1>5, <2>3
  <2>. DEFINE u == s \ {One(s)}
  <2>5. u \in SUBSET R /\ Cardinality(u) \in Nat /\ Cardinality(u) < k
    BY <1>6, <2>3, <2>4
  <2>6. Cardinality(u) \notin Bad
    <3>1. k \in Nat
      OBVIOUS
    <3>. HIDE DEF Bad, u
    <3>. QED BY <2>2, <2>5, <3>1
  <2>7. h[u] = g[u]
    BY <2>5, <2>6
  <2>. QED BY <1>4, <1>5, <2>3, <2>4, <2>7
\* Whatever is taken out of a sum can be taken out first.
<1>8. \A s \in SUBSET S : \A y \in s : g[s] = f[y] + g[s \ {y}]
  <2>. DEFINE Out(s, y) == g[s] = f[y] + g[s \ {y}]
              Bad == {k \in Nat : \E s \in SUBSET S : Cardinality(s) = k /\ \E y \in s : ~Out(s, y)}
  <2>1. SUFFICES ASSUME Bad # {} PROVE FALSE
    BY <1>6
  <2>2. PICK k \in Bad : \A i \in Bad : k <= i
    <3>1. Bad \in SUBSET Nat
      OBVIOUS
    <3>. HIDE DEF Bad
    <3>. QED BY <2>1, <3>1, LeastOf
  <2>3. PICK s \in SUBSET S : Cardinality(s) = k /\ \E y \in s : ~Out(s, y)
    OBVIOUS
  <2>4. PICK y \in s : ~Out(s, y)
    BY <2>3
  <2>. DEFINE z == One(s)
              u == s \ {z}
              v == s \ {y}
              w == s \ {y, z}
  <2>5. z \in s /\ g[s] = f[z] + g[u] /\ u \in SUBSET S /\ v \in SUBSET S /\ w \in SUBSET S
    BY <1>4, <1>6, <2>4
  <2>6. y # z
    BY <2>4, <2>5
  <2>7. Cardinality(s) \in Nat /\ Cardinality(u) \in Nat /\ Cardinality(u) < k
    BY <1>6, <2>3, <2>4
  <2>8. Cardinality(v) \in Nat /\ Cardinality(v) < k
    <3>1. IsFiniteSet(s)
      BY FS_Subset
    <3>2. Cardinality(s \ {y}) = Cardinality(s) - 1 /\ IsFiniteSet(s \ {y})
      BY <3>1, <2>4, FS_RemoveElement
    <3>. QED BY <1>6, <2>3, <2>5, <2>7, <3>2
  <2>9. Cardinality(u) \notin Bad /\ Cardinality(v) \notin Bad
    <3>1. k \in Nat
      OBVIOUS
    <3>. HIDE DEF Bad, u, v
    <3>. QED BY <2>2, <2>7, <2>8, <3>1
  <2>10. Out(u, y) /\ Out(v, z)
    <3>1. y \in u /\ z \in v
      BY <2>4, <2>5, <2>6
    <3>. HIDE DEF Out, u, v, z
    <3>. QED BY <2>5, <2>7, <2>8, <2>9, <3>1
  <2>11. u \ {y} = w /\ v \ {z} = w
    OBVIOUS
  <2>12. g[u] = f[y] + g[w] /\ g[v] = f[z] + g[w]
    BY <2>10, <2>11
  <2>13. f[y] \in Nat /\ f[z] \in Nat /\ g[w] \in Nat
    BY <1>4, <2>4, <2>5
  <2>14. g[s] = f[y] + g[v]
    BY <2>5, <2>12, <2>13
  <2>. QED BY <2>4, <2>14
<1>9. g[S] = f[x] + g[R] /\ g[R] = h[R] /\ h[R] \in Nat
  <2>1. S \in SUBSET S /\ R \in SUBSET R
    OBVIOUS
  <2>. QED BY <1>5, <1>7, <1>8, <2>1
<1>10. SumFunction(rest) \in Nat /\ SumFunction(f) = f[x] + SumFunction(rest)
  <2>. HIDE DEF rest
  <2>. QED BY <1>2, <1>3, <1>9
<1>11. rest = Without(f, x)
  BY DEF Without
<1>. QED BY <1>10, <1>11

\* A score is a number for every model and every position up to k.
Scores(score, C, k) == \A m \in C, r \in 0 .. k : score[m][r] \in Nat

\* b is a with m in the place of n, at position r: every total differs by the
\* difference of the two.
Exchanged(a, b, n, m, r, C, k) ==
  \A score : Scores(score, C, k) =>
    /\ Total(score, a) \in Nat /\ Total(score, b) \in Nat
    /\ Total(score, b) + score[n][r] = Total(score, a) + score[m][r]

LEMMA RoleExchanged ==
  ASSUME NEW C, NEW k \in Nat, NEW a, a.role \in [1 .. k -> C],
         a.recovery \in SUBSET C, IsFiniteSet(a.recovery), NEW r \in 1 .. k, NEW m \in C
  PROVE  Exchanged(a, [role |-> [a.role EXCEPT ![r] = m], recovery |-> a.recovery],
                   a.role[r], m, r, C, k)
<1>. DEFINE b == [role |-> [a.role EXCEPT ![r] = m], recovery |-> a.recovery]
            n == a.role[r]
<1>. SUFFICES ASSUME NEW score, Scores(score, C, k)
              PROVE  /\ Total(score, a) \in Nat /\ Total(score, b) \in Nat
                     /\ Total(score, b) + score[n][r] = Total(score, a) + score[m][r]
  BY DEF Exchanged
<1>. DEFINE P == 1 .. k
            f == [i \in P |-> score[a.role[i]][i]]
            g == [i \in P |-> score[b.role[i]][i]]
            t == SumFunction([x \in a.recovery |-> score[x][0]])
<1>1. \A x \in C, i \in 0 .. k : score[x][i] \in Nat
  BY DEF Scores
<1>2. f \in [P -> Nat] /\ g \in [P -> Nat] /\ IsFiniteSet(P)
  <2>1. \A i \in P : i \in 0 .. k /\ a.role[i] \in C /\ b.role[i] \in C
    OBVIOUS
  <2>2. IsFiniteSet(P)
    BY UpTo
  <2>. QED BY <1>1, <2>1, <2>2
<1>3. f[r] = score[n][r] /\ g[r] = score[m][r] /\ r \in P /\ r \in 0 .. k
  OBVIOUS
<1>4. Without(f, r) = Without(g, r)
  BY DEF Without
<1>5. t \in Nat
  <2>. DEFINE h == [x \in a.recovery |-> score[x][0]]
  <2>1. h \in [a.recovery -> Nat]
    BY <1>1
  <2>. HIDE DEF h
  <2>2. SumFunction(h) \in Nat
    BY <2>1, SumNumber
  <2>. QED BY <2>2 DEF h
<1>6. Total(score, a) = SumFunction(f) + t /\ Total(score, b) = SumFunction(g) + t
  BY DEF Total
<1>. HIDE DEF f, g, t, P
<1>7. SumFunction(Without(f, r)) \in Nat /\ SumFunction(f) = f[r] + SumFunction(Without(f, r))
  BY <1>2, <1>3, SumRemove
<1>8. SumFunction(g) = g[r] + SumFunction(Without(g, r))
  BY <1>2, <1>3, SumRemove
<1>. DEFINE q == SumFunction(Without(f, r))
            x == score[n][r]
            y == score[m][r]
            u == Total(score, a)
            v == Total(score, b)
<1>9. q \in Nat /\ SumFunction(f) = f[r] + q /\ SumFunction(g) = g[r] + q
  BY <1>4, <1>7, <1>8
<1>10. f[r] \in Nat /\ g[r] \in Nat
  BY <1>2, <1>3
<1>11. x \in Nat /\ y \in Nat /\ u = (x + q) + t /\ v = (y + q) + t
  BY <1>3, <1>6, <1>9, <1>10
<1>12. u \in Nat /\ v \in Nat /\ v + x = u + y
  <2>. HIDE DEF q, x, y, u, v
  <2>. QED BY <1>5, <1>9, <1>11
<1>. QED BY <1>12

LEMMA RecoveryExchanged ==
  ASSUME NEW C, NEW k \in Nat, NEW a, a.role \in [1 .. k -> C],
         a.recovery \in SUBSET C, IsFiniteSet(a.recovery),
         NEW n \in a.recovery, NEW m \in C \ a.recovery
  PROVE  Exchanged(a, [role |-> a.role, recovery |-> (a.recovery \ {n}) \cup {m}],
                   n, m, 0, C, k)
<1>. DEFINE b == [role |-> a.role, recovery |-> (a.recovery \ {n}) \cup {m}]
<1>. SUFFICES ASSUME NEW score, Scores(score, C, k)
              PROVE  /\ Total(score, a) \in Nat /\ Total(score, b) \in Nat
                     /\ Total(score, b) + score[n][0] = Total(score, a) + score[m][0]
  BY DEF Exchanged
<1>. DEFINE A == a.recovery
            B == (a.recovery \ {n}) \cup {m}
            f == [x \in A |-> score[x][0]]
            g == [x \in B |-> score[x][0]]
            t == SumFunction([i \in DOMAIN a.role |-> score[a.role[i]][i]])
<1>1. \A x \in C, i \in 0 .. k : score[x][i] \in Nat
  BY DEF Scores
<1>2. f \in [A -> Nat] /\ g \in [B -> Nat]
  <2>1. \A x \in A \cup B : x \in C /\ 0 \in 0 .. k
    OBVIOUS
  <2>. QED BY <1>1, <2>1
<1>3. IsFiniteSet(A) /\ IsFiniteSet(B)
  <2>1. IsFiniteSet(a.recovery \ {n})
    BY FS_RemoveElement
  <2>. QED BY <2>1, FS_AddElement
<1>4. f[n] = score[n][0] /\ g[m] = score[m][0] /\ n \in A /\ m \in B
  OBVIOUS
<1>5. Without(f, n) = Without(g, m)
  <2>1. A \ {n} = B \ {m}
    OBVIOUS
  <2>2. \A y \in A \ {n} : f[y] = score[y][0]
    OBVIOUS
  <2>3. \A y \in B \ {m} : g[y] = score[y][0]
    OBVIOUS
  <2>4. DOMAIN f = A /\ DOMAIN g = B
    OBVIOUS
  <2>. HIDE DEF A, B, f, g
  <2>. QED BY <2>1, <2>2, <2>3, <2>4 DEF Without
<1>6. t \in Nat
  <2>. DEFINE h == [i \in DOMAIN a.role |-> score[a.role[i]][i]]
  <2>1. h \in [1 .. k -> Nat]
    <3>1. \A i \in 1 .. k : i \in 0 .. k /\ a.role[i] \in C
      OBVIOUS
    <3>. QED BY <1>1, <3>1
  <2>2. IsFiniteSet(1 .. k)
    BY UpTo
  <2>. HIDE DEF h
  <2>3. SumFunction(h) \in Nat
    BY <2>1, <2>2, SumNumber
  <2>. QED BY <2>3 DEF h
<1>7. Total(score, a) = t + SumFunction(f) /\ Total(score, b) = t + SumFunction(g)
  BY DEF Total
<1>. HIDE DEF f, g, t, A, B
<1>8. SumFunction(Without(f, n)) \in Nat /\ SumFunction(f) = f[n] + SumFunction(Without(f, n))
  BY <1>2, <1>3, <1>4, SumRemove
<1>9. SumFunction(g) = g[m] + SumFunction(Without(g, m))
  BY <1>2, <1>3, <1>4, SumRemove
<1>. DEFINE q == SumFunction(Without(f, n))
            x == score[n][0]
            y == score[m][0]
            u == Total(score, a)
            v == Total(score, b)
<1>10. q \in Nat /\ SumFunction(f) = f[n] + q /\ SumFunction(g) = g[m] + q
  BY <1>5, <1>8, <1>9
<1>11. f[n] \in Nat /\ g[m] \in Nat
  BY <1>2, <1>4
<1>12. x \in Nat /\ y \in Nat /\ u = t + (x + q) /\ v = t + (y + q)
  BY <1>4, <1>7, <1>10, <1>11
<1>13. u \in Nat /\ v \in Nat /\ v + x = u + y
  <2>. HIDE DEF q, x, y, u, v
  <2>. QED BY <1>6, <1>10, <1>12
<1>. QED BY <1>13

------------------------------------------------------------------------------
\* A model that is free can take the place of one that is assigned.
LEMMA RoleReplaced ==
  ASSUME NEW cands, NEW k \in Nat, NEW j \in Nat, NEW a \in Assignments(cands, k, j),
         NEW r \in 1 .. k, NEW m \in Range(cands), m \notin Assigned(a)
  PROVE  [role |-> [a.role EXCEPT ![r] = m], recovery |-> a.recovery]
           \in Assignments(cands, k, j)
<1>. DEFINE f == [a.role EXCEPT ![r] = m]
            C == Range(cands)
<1>1. /\ a.role \in [1 .. k -> C] /\ IsInjective(a.role)
      /\ a.recovery \in SUBSET C /\ Cardinality(a.recovery) = j
      /\ Range(a.role) \cap a.recovery = {}
  BY AssignmentIs
<1>2. m \notin Range(a.role) /\ m \notin a.recovery
  BY DEF Assigned
<1>. HIDE DEF C
<1>3. /\ f \in [1 .. k -> C] /\ f[r] = m
      /\ \A i \in 1 .. k : i # r => f[i] = a.role[i]
      /\ \A i \in 1 .. k : a.role[i] # m
  <2>1. m \in C
    BY DEF C
  <2>2. \A i \in 1 .. k : a.role[i] # m
    BY <1>1, <1>2 DEF Range
  <2>. QED BY <1>1, <2>1, <2>2
<1>. HIDE DEF f
<1>4. IsInjective(f)
  <2>. SUFFICES ASSUME NEW x \in 1 .. k, NEW y \in 1 .. k, f[x] = f[y] PROVE x = y
    BY <1>3 DEF IsInjective
  <2>1. CASE x # r /\ y # r
    BY <1>1, <1>3, <2>1 DEF IsInjective
  <2>2. CASE x = r \/ y = r
    BY <1>3, <2>2
  <2>. QED BY <2>1, <2>2
<1>5. Range(f) \cap a.recovery = {}
  <2>. SUFFICES ASSUME NEW i \in 1 .. k, f[i] \in a.recovery PROVE FALSE
    BY <1>3 DEF Range
  <2>1. CASE i = r
    BY <1>2, <1>3, <2>1
  <2>2. CASE i # r
    BY <1>1, <1>3, <2>2 DEF Range
  <2>. QED BY <2>1, <2>2
<1>6. f \in Injection(1 .. k, C) /\ a.recovery \in kSubset(j, C)
  BY <1>1, <1>3, <1>4 DEF Injection, kSubset
<1>7. [role |-> f, recovery |-> a.recovery] \in Assignments(cands, k, j)
  BY <1>5, <1>6 DEF Assignments, C
<1>. QED BY <1>7 DEF f

LEMMA RecoveryReplaced ==
  ASSUME NEW cands, IsFiniteSet(Range(cands)), NEW k \in Nat, NEW j \in Nat,
         NEW a \in Assignments(cands, k, j),
         NEW n \in a.recovery, NEW m \in Range(cands), m \notin Assigned(a)
  PROVE  [role |-> a.role, recovery |-> (a.recovery \ {n}) \cup {m}]
           \in Assignments(cands, k, j)
<1>. DEFINE R == (a.recovery \ {n}) \cup {m}
            C == Range(cands)
<1>1. /\ a.role \in [1 .. k -> C] /\ IsInjective(a.role)
      /\ a.recovery \in SUBSET C /\ Cardinality(a.recovery) = j
      /\ Range(a.role) \cap a.recovery = {}
  BY AssignmentIs
<1>2. m \notin Range(a.role) /\ m \notin a.recovery
  BY DEF Assigned
<1>3. IsFiniteSet(a.recovery)
  BY <1>1, FS_Subset
<1>4. IsFiniteSet(a.recovery \ {n}) /\ Cardinality(a.recovery \ {n}) = j - 1
  BY <1>1, <1>3, FS_RemoveElement
<1>5. Cardinality(R) = j
  <2>1. m \notin a.recovery \ {n}
    BY <1>2
  <2>2. Cardinality(R) = (j - 1) + 1
    BY <1>4, <2>1, FS_AddElement
  <2>. QED BY <2>2
<1>6. R \in SUBSET C /\ Range(a.role) \cap R = {}
  BY <1>1, <1>2
<1>7. a.role \in Injection(1 .. k, C) /\ R \in kSubset(j, C)
  BY <1>1, <1>5, <1>6 DEF Injection, kSubset
<1>. HIDE DEF R
<1>8. [role |-> a.role, recovery |-> R] \in Assignments(cands, k, j)
  BY <1>6, <1>7 DEF Assignments, C
<1>. QED BY <1>8 DEF R

\* An assignment has as many models as positions.
LEMMA AssignedCount ==
  ASSUME NEW cands, IsFiniteSet(Range(cands)), NEW k \in Nat, NEW j \in Nat,
         NEW a \in Assignments(cands, k, j)
  PROVE  Cardinality(Assigned(a)) = k + j /\ IsFiniteSet(a.recovery)
<1>1. /\ a.role \in [1 .. k -> Range(cands)] /\ IsInjective(a.role)
      /\ a.recovery \in SUBSET Range(cands) /\ Cardinality(a.recovery) = j
      /\ Range(a.role) \cap a.recovery = {}
  BY AssignmentIs
<1>. DEFINE T == Range(a.role)
<1>2. IsFiniteSet(T) /\ IsFiniteSet(a.recovery)
  <2>1. T \in SUBSET Range(cands)
    BY <1>1 DEF Range
  <2>. QED BY <1>1, <2>1, FS_Subset
<1>3. Cardinality(T) = k
  <2>1. a.role \in Injection(1 .. k, T) /\ a.role \in Surjection(1 .. k, T)
    BY <1>1 DEF Injection, Surjection, Range
  <2>. HIDE DEF T
  <2>2. Cardinality(1 .. k) = Cardinality(T)
    BY <1>2, <2>1, FS_Injection
  <2>. QED BY <2>2, UpTo
<1>4. Cardinality(T \cup a.recovery) = Cardinality(T) + Cardinality(a.recovery)
                                         - Cardinality(T \cap a.recovery)
  <2>. HIDE DEF T
  <2>. QED BY <1>2, FS_Union
<1>5. Cardinality(T \cap a.recovery) = 0
  BY <1>1, FS_EmptySet
<1>6. Cardinality(T \cup a.recovery) = k + j
  BY <1>1, <1>3, <1>4, <1>5
<1>. QED BY <1>2, <1>6 DEF Assigned

\* The candidates of a pool are numbered from one.
LEMMA NamesAre ==
  ASSUME NEW bank, NEW N \in Nat, DOMAIN bank = 1 .. N
  PROVE  /\ Names(bank) \in Seq(Nat) /\ Len(Names(bank)) = N
         /\ Range(Names(bank)) = 1 .. N /\ IsFiniteSet(1 .. N)
<1>1. Cardinality(DOMAIN bank) = N /\ IsFiniteSet(1 .. N)
  BY UpTo
<1>2. Names(bank) = [i \in 1 .. N |-> i]
  BY <1>1 DEF Names
<1>. QED BY <1>1, <1>2 DEF Range

\* What decides between equals in the task scheme, and what outweighs it.
TieOf(N, k) ==
  [m \in 1 .. N |-> [r \in 0 .. k |-> IF r = 0 THEN m - 1 ELSE (m - 1) * k + r - 1]]
BaseOf(N, k) == AtLeast(2, N * AtLeast(1, k) + 1)

LEMMA TieBelowBase ==
  ASSUME NEW N \in Nat, NEW k \in Nat
  PROVE  /\ BaseOf(N, k) \in Nat /\ BaseOf(N, k) >= 2
         /\ Scores(TieOf(N, k), 1 .. N, k)
         /\ \A m \in 1 .. N, r \in 0 .. k : TieOf(N, k)[m][r] <= BaseOf(N, k) - 2
<1>. DEFINE K == AtLeast(1, k)
            B == BaseOf(N, k)
            x == N * K
<1>1. K \in Nat /\ K >= 1 /\ K >= k /\ (k >= 1 => K = k)
  BY AtLeastIs
<1>. HIDE DEF K
<1>2. x \in Nat
  BY <1>1
<1>. HIDE DEF x
<1>3. B = IF 2 <= x + 1 THEN x + 1 ELSE 2
  BY <1>2, AtLeastIs DEF BaseOf, K, x
<1>. HIDE DEF B
<1>4. ASSUME NEW m \in 1 .. N, NEW r \in 0 .. k
      PROVE  TieOf(N, k)[m][r] \in Nat /\ TieOf(N, k)[m][r] <= B - 2
  <2>1. TieOf(N, k)[m][r] = IF r = 0 THEN m - 1 ELSE (m - 1) * k + r - 1
    BY DEF TieOf
  <2>2. m * K <= N * K /\ m * K \in Nat
    BY <1>1, TimesMonotone
  <2>3. m * K = (m - 1) * K + K /\ (m - 1) * K \in Nat
    BY <1>1
  <2>4. CASE r = 0
    <3>1. 1 * m <= K * m
      BY <1>1, TimesMonotone
    <3>2. K * m = m * K /\ 1 * m = m
      BY <1>1
    <3>. QED BY <1>2, <1>3, <2>1, <2>2, <2>4, <3>1, <3>2 DEF x
  <2>5. CASE r # 0
    <3>1. K = k
      BY <1>1, <2>5
    <3>. DEFINE y == (m - 1) * K
                z == m * K
    <3>2. y \in Nat /\ z = y + K /\ z <= x
      BY <2>2, <2>3 DEF x
    <3>3. TieOf(N, k)[m][r] = y + r - 1
      BY <2>1, <2>5, <3>1
    <3>. HIDE DEF y, z
    <3>. QED BY <1>1, <1>2, <1>3, <2>5, <3>1, <3>2, <3>3
  <2>. QED BY <2>4, <2>5
<1>5. B \in Nat /\ B >= 2
  BY <1>2, <1>3
<1>. QED BY <1>4, <1>5 DEF B, Scores

LEMMA TaskTieIs ==
  ASSUME NEW cands, NEW k \in Nat, NEW j, NEW a \in Assignments(cands, k, j), NEW N
  PROVE  Len(a.role) = k /\ TaskTie(N, a) = Total(TieOf(N, k), a) /\ TieBase(N, a) = BaseOf(N, k)
         /\ Cardinality(a.recovery) = j
<1>1. a.role \in [1 .. k -> Range(cands)] /\ Cardinality(a.recovery) = j
  BY AssignmentIs
<1>2. Len(a.role) = k
  BY <1>1, SequenceIs
<1>. QED BY <1>1, <1>2 DEF TaskTie, TieOf, TieBase, BaseOf

------------------------------------------------------------------------------
\* A whole number of points less outweighs what the tie-break can add.
LEMMA PointOutweighs ==
  ASSUME NEW s \in Nat, NEW t \in Nat, NEW u \in Nat, NEW v \in Nat, NEW b \in Nat,
         s < t, u < v + b
  PROVE  s * b + u < t * b + v
<1>1. (s + 1) * b <= t * b /\ t * b \in Nat
  BY TimesMonotone, s + 1 \in Nat, s + 1 <= t
<1>2. (s + 1) * b = s * b + b /\ s * b \in Nat
  BY SMT
<1>. QED BY <1>1, <1>2

\* x is the smaller of two numbers.
Falls(x, y) == x \in Nat /\ y \in Nat /\ x < y

\* Whoever takes the place of a model it betters makes the goal smaller.
LEMMA TaskGoalFalls ==
  ASSUME NEW cands, NEW N \in Nat, NEW k \in Nat, NEW j \in Nat, NEW grid,
         Scores(grid.capability, 1 .. N, k), Scores(grid.economy, 1 .. N, k),
         NEW a \in Assignments(cands, k, j), NEW b \in Assignments(cands, k, j),
         NEW n \in 1 .. N, NEW m \in 1 .. N, NEW r \in 0 .. k,
         Exchanged(a, b, n, m, r, 1 .. N, k),
         grid.capability[m][r] < grid.capability[n][r],
         grid.economy[m][r] < grid.economy[n][r]
  PROVE  Falls(TaskObjective(grid, N, b), TaskObjective(grid, N, a))
<1>. DEFINE B == BaseOf(N, k)
            T == TieOf(N, k)
            ca == Total(grid.capability, a)
            cb == Total(grid.capability, b)
            ea == Total(grid.economy, a)
            eb == Total(grid.economy, b)
            ta == Total(T, a)
            tb == Total(T, b)
<1>1. /\ B \in Nat /\ B >= 2 /\ Scores(T, 1 .. N, k)
      /\ T[m][r] <= B - 2 /\ T[m][r] \in Nat /\ T[n][r] \in Nat
  BY TieBelowBase DEF Scores
<1>2. /\ grid.capability[m][r] \in Nat /\ grid.capability[n][r] \in Nat
      /\ grid.economy[m][r] \in Nat /\ grid.economy[n][r] \in Nat
  BY DEF Scores
<1>3. /\ ca \in Nat /\ cb \in Nat
      /\ cb + grid.capability[n][r] = ca + grid.capability[m][r]
  BY DEF Exchanged
<1>4. /\ ea \in Nat /\ eb \in Nat
      /\ eb + grid.economy[n][r] = ea + grid.economy[m][r]
  BY DEF Exchanged
<1>5. ta \in Nat /\ tb \in Nat /\ tb + T[n][r] = ta + T[m][r]
  <2>. HIDE DEF T
  <2>. QED BY <1>1 DEF Exchanged
<1>6. /\ TaskObjective(grid, N, a) = (ca + ea) * B + ta
      /\ TaskObjective(grid, N, b) = (cb + eb) * B + tb
  BY TaskTieIs DEF TaskObjective, SumOf
<1>. HIDE DEF B, T, ca, cb, ea, eb, ta, tb
<1>7. cb < ca /\ eb < ea
  <2>. DEFINE p == grid.capability[n][r]
              q == grid.capability[m][r]
              x == grid.economy[n][r]
              y == grid.economy[m][r]
  <2>1. p \in Nat /\ q \in Nat /\ q < p /\ x \in Nat /\ y \in Nat /\ y < x
    BY <1>2
  <2>2. cb + p = ca + q /\ eb + x = ea + y
    BY <1>3, <1>4
  <2>3. ca \in Nat /\ cb \in Nat /\ ea \in Nat /\ eb \in Nat
    BY <1>3, <1>4
  <2>. HIDE DEF p, q, x, y
  <2>4. cb < ca
    BY <2>1, <2>2, <2>3
  <2>5. eb < ea
    BY <2>1, <2>2, <2>3
  <2>. QED BY <2>4, <2>5
<1>8. tb < ta + B
  <2>. DEFINE p == T[n][r]
              q == T[m][r]
  <2>1. p \in Nat /\ q \in Nat /\ q <= B - 2 /\ tb + p = ta + q
    BY <1>1, <1>5
  <2>. HIDE DEF p, q
  <2>. QED BY <1>1, <1>5, <2>1
<1>. DEFINE s == cb + eb
            t == ca + ea
<1>9. s \in Nat /\ t \in Nat /\ s < t
  BY <1>3, <1>4, <1>7
<1>. HIDE DEF s, t
<1>10. s * B + tb < t * B + ta
  BY <1>1, <1>5, <1>8, <1>9, PointOutweighs
<1>11. s * B + tb \in Nat /\ t * B + ta \in Nat
  <2>1. s * B \in Nat /\ t * B \in Nat
    BY <1>1, <1>9
  <2>. QED BY <1>5, <2>1
<1>. QED BY <1>6, <1>10, <1>11 DEF s, t, Falls

\* The totals of both assignments, for the two role schemes.
LEMMA CapabilityFalls ==
  ASSUME NEW C, NEW k \in Nat, NEW grid, Scores(grid.capability, C, k), NEW a, NEW b,
         NEW n \in C, NEW m \in C, NEW r \in 0 .. k, Exchanged(a, b, n, m, r, C, k),
         grid.capability[m][r] < grid.capability[n][r]
  PROVE  /\ Total(grid.capability, a) \in Nat /\ Total(grid.capability, b) \in Nat
         /\ Total(grid.capability, b) < Total(grid.capability, a)
<1>. DEFINE ca == Total(grid.capability, a)
            cb == Total(grid.capability, b)
            p == grid.capability[n][r]
            q == grid.capability[m][r]
<1>1. p \in Nat /\ q \in Nat /\ q < p
  BY DEF Scores
<1>2. ca \in Nat /\ cb \in Nat /\ cb + p = ca + q
  BY DEF Exchanged
<1>. HIDE DEF ca, cb, p, q
<1>3. cb < ca
  BY <1>1, <1>2
<1>. QED BY <1>2, <1>3 DEF ca, cb

LEMMA WeightedIs ==
  ASSUME NEW c \in Nat, NEW e, NEW r, NEW t, NEW most, NEW p, NEW tie,
         Bounded(e, r, t, most, p, tie)
  PROVE  Weighted(c, e, r, t, most, p, tie) \in Nat
<1>1. /\ DiversityScale(tie) \in Nat /\ EconomyScale(p, tie) \in Nat
      /\ CapabilityScale(most, p, tie) \in Nat
  BY ScalesLeaveRoom
<1>2. e \in Nat /\ r \in Nat /\ t \in Nat
  BY DEF Bounded
<1>3. /\ c * CapabilityScale(most, p, tie) \in Nat /\ e * EconomyScale(p, tie) \in Nat
      /\ r * DiversityScale(tie) \in Nat
  BY <1>1, <1>2, TimesMonotone
<1>. QED BY <1>2, <1>3 DEF Weighted

LEMMA RoleGoalFalls ==
  ASSUME NEW S, NEW cands \in Seq(S), Len(cands) > 0, IsFiniteSet(Range(cands)),
         NEW k \in Nat, NEW j \in Nat, NEW grid,
         \A m \in Range(cands), r \in 0 .. k :
           grid.capability[m][r] \in Nat /\ grid.economy[m][r] \in Nat,
         NEW a \in Assignments(cands, k, j), NEW b \in Assignments(cands, k, j),
         NEW n \in Range(cands), NEW m \in Range(cands), NEW r \in 0 .. k,
         Exchanged(a, b, n, m, r, Range(cands), k),
         grid.capability[m][r] < grid.capability[n][r]
  PROVE  /\ Falls(Objective(b, cands, k, j, grid), Objective(a, cands, k, j, grid))
         /\ Falls(DiverseObjective(grid, cands, k, j, b), DiverseObjective(grid, cands, k, j, a))
<1>1. TotalsFit(a, cands, k, j, grid) /\ TotalsFit(b, cands, k, j, grid)
  BY TotalsAlwaysFit
<1>. DEFINE e == MaxEconomy(cands, k, j, grid)
            p == Positions(k, j)
            t == MaxTie(cands, k, j)
            ca == Total(grid.capability, a)
            cb == Total(grid.capability, b)
            ea == Total(grid.economy, a)
            eb == Total(grid.economy, b)
            ra == RepeatedCompanies(a)
            rb == RepeatedCompanies(b)
            ta == Total(TieScore(cands, k), a)
            tb == Total(TieScore(cands, k), b)
<1>2. ca \in Nat /\ cb \in Nat /\ cb < ca
  <2>1. Scores(grid.capability, Range(cands), k)
    BY DEF Scores
  <2>. QED BY <2>1, CapabilityFalls
<1>3. /\ e \in Nat /\ p \in Nat /\ t \in Nat
      /\ ea \in 0 .. e /\ eb \in 0 .. e /\ ra \in 0 .. p /\ rb \in 0 .. p
      /\ ta \in 0 .. t /\ tb \in 0 .. t
  BY <1>1 DEF TotalsFit
<1>4. /\ Objective(a, cands, k, j, grid) = Weighted(ca, ea, ra, ta, e, p, t)
      /\ Objective(b, cands, k, j, grid) = Weighted(cb, eb, rb, tb, e, p, t)
  BY DEF Objective
<1>. DEFINE byTie == t + 1
            byRepeat == e * byTie + t + 1
            byBest == byRepeat * (p + 1)
<1>5. /\ DiverseObjective(grid, cands, k, j, a) = ca * byBest + ra * byRepeat + ea * byTie + ta
      /\ DiverseObjective(grid, cands, k, j, b) = cb * byBest + rb * byRepeat + eb * byTie + tb
  BY DEF DiverseObjective, MaxTie
<1>. HIDE DEF e, p, t, ca, cb, ea, eb, ra, rb, ta, tb
<1>6. Falls(Weighted(cb, eb, rb, tb, e, p, t), Weighted(ca, ea, ra, ta, e, p, t))
  <2>1. Bounded(ea, ra, ta, e, p, t) /\ Bounded(eb, rb, tb, e, p, t)
    BY <1>3 DEF Bounded
  <2>2. Before(<<cb, eb, rb>>, <<ca, ea, ra>>)
    <3>1. /\ 1 \in DOMAIN <<cb, eb, rb>> /\ <<cb, eb, rb>>[1] < <<ca, ea, ra>>[1]
          /\ \A i \in 1 .. 1 - 1 : <<cb, eb, rb>>[i] = <<ca, ea, ra>>[i]
      BY <1>2
    <3>. QED BY <3>1 DEF Before
  <2>3. Weighted(cb, eb, rb, tb, e, p, t) < Weighted(ca, ea, ra, ta, e, p, t)
    BY <1>2, <2>1, <2>2, LexicographicWeights
  <2>. QED BY <1>2, <2>1, <2>3, WeightedIs DEF Falls
<1>7. byTie \in Nat /\ byRepeat \in Nat
  <2>1. byTie \in Nat
    BY <1>3
  <2>. HIDE DEF byTie
  <2>. DEFINE h == e * byTie
  <2>2. h \in Nat
    BY <1>3, <2>1
  <2>. HIDE DEF h
  <2>3. h + t + 1 \in Nat
    BY <1>3, <2>2
  <2>. QED BY <2>1, <2>3 DEF h
<1>8. ASSUME NEW x \in 0 .. e, NEW y \in 0 .. p, NEW z \in 0 .. t
      PROVE  y * byRepeat + x * byTie + z \in Nat /\ y * byRepeat + x * byTie + z < byBest
  <2>. DEFINE f == byRepeat
              g == byTie
              h == e * byTie
              u == y * byRepeat
              v == x * byTie
              w == p * byRepeat
  <2>1. f \in Nat /\ g \in Nat /\ f = h + t + 1
    BY <1>7
  <2>. HIDE DEF byRepeat, byTie
  <2>2. u \in Nat /\ w \in Nat /\ u <= w
    BY <1>3, <1>7, TimesMonotone
  <2>3. v \in Nat /\ h \in Nat /\ v <= h
    BY <1>3, <1>7, TimesMonotone
  <2>4. byBest = w + f
    BY <1>3, <1>7
  <2>. HIDE DEF byBest, f, g, h, u, v, w
  <2>5. u + v + z \in Nat /\ u + v + z < w + f
    BY <1>3, <2>1, <2>2, <2>3
  <2>. QED BY <2>4, <2>5 DEF u, v
<1>. HIDE DEF byRepeat, byTie
<1>9. byBest \in Nat
  BY <1>3, <1>7
<1>. HIDE DEF byBest
<1>. DEFINE la == ra * byRepeat + ea * byTie + ta
            lb == rb * byRepeat + eb * byTie + tb
<1>10. la \in Nat /\ lb \in Nat /\ lb < byBest
  BY <1>3, <1>8
<1>11. /\ ca * byBest + ra * byRepeat + ea * byTie + ta = ca * byBest + la
       /\ cb * byBest + rb * byRepeat + eb * byTie + tb = cb * byBest + lb
  <2>1. /\ ca * byBest \in Nat /\ cb * byBest \in Nat
        /\ ra * byRepeat \in Nat /\ rb * byRepeat \in Nat
        /\ ea * byTie \in Nat /\ eb * byTie \in Nat /\ ta \in Nat /\ tb \in Nat
    BY <1>2, <1>3, <1>7, <1>9
  <2>2. \A x, y, z, w \in Nat : x + y + z + w = x + (y + z + w)
    OBVIOUS
  <2>3. ca * byBest + ra * byRepeat + ea * byTie + ta
          = ca * byBest + (ra * byRepeat + ea * byTie + ta)
    BY SMTT(40), <2>1, <2>2
  <2>4. cb * byBest + rb * byRepeat + eb * byTie + tb
          = cb * byBest + (rb * byRepeat + eb * byTie + tb)
    BY SMTT(40), <2>1, <2>2
  <2>. QED BY <2>3, <2>4
<1>. HIDE DEF la, lb
<1>12. Falls(cb * byBest + lb, ca * byBest + la)
  <2>1. cb * byBest + lb < ca * byBest + la
    BY <1>2, <1>9, <1>10, StepOutweighs
  <2>2. cb * byBest \in Nat /\ ca * byBest \in Nat
    BY <1>2, <1>9
  <2>3. cb * byBest + lb \in Nat /\ ca * byBest + la \in Nat
    BY <1>10, <2>2
  <2>. QED BY <2>1, <2>3 DEF Falls
<1>. QED BY <1>4, <1>5, <1>6, <1>11, <1>12

\* A team that is proven to be the best has, in the task scheme, nearly the least
\* score: no other one is smaller by as many points as there are positions.
LEMMA ProvenNearlyLeast ==
  ASSUME NEW cands, NEW N \in Nat, Range(cands) = 1 .. N, NEW k \in Nat, NEW j \in Nat,
         k + j >= 1, NEW grid,
         Scores(grid.capability, 1 .. N, k), Scores(grid.economy, 1 .. N, k),
         NEW a \in Assignments(cands, k, j), NEW b \in Assignments(cands, k, j),
         SumOf(grid, a) \in Nat, SumOf(grid, b) \in Nat,
         TaskObjective(grid, N, a) <= TaskObjective(grid, N, b)
  PROVE  SumOf(grid, a) < SumOf(grid, b) + (k + j)
<1>. DEFINE B == BaseOf(N, k)
            T == TieOf(N, k)
            s == SumOf(grid, a)
            t == SumOf(grid, b)
            u == Total(T, a)
            v == Total(T, b)
            p == k + j
            most == B - 2
<1>0. IsFiniteSet(1 .. N)
  BY UpTo
<1>1. /\ B \in Nat /\ B >= 2 /\ most \in Nat
      /\ \A m \in 1 .. N, r \in 0 .. k : T[m][r] \in Nat /\ T[m][r] <= most
  <2>1. /\ B \in Nat /\ B >= 2 /\ Scores(T, 1 .. N, k)
        /\ \A m \in 1 .. N, r \in 0 .. k : T[m][r] <= most
    BY TieBelowBase
  <2>. HIDE DEF B, T
  <2>2. \A m \in 1 .. N, r \in 0 .. k : T[m][r] \in Nat
    BY <2>1 DEF Scores
  <2>3. most \in Nat
    BY <2>1
  <2>. HIDE DEF most
  <2>. QED BY <2>1, <2>2, <2>3
<1>2. ASSUME NEW c \in Assignments(cands, k, j)
      PROVE  Total(T, c) \in 0 .. p * most
  <2>1. /\ c.role \in [1 .. k -> 1 .. N] /\ c.recovery \in SUBSET (1 .. N)
        /\ Cardinality(c.recovery) = j
    BY AssignmentIs
  <2>. DEFINE C == 1 .. N
  <2>. HIDE DEF T, most, C
  <2>2. Total(T, c) \in 0 .. Positions(k, j) * most
    BY <1>0, <1>1, <2>1, TotalWithin DEF C
  <2>. QED BY <2>2 DEF Positions
<1>3. u \in 0 .. p * most /\ v \in 0 .. p * most
  BY <1>2
<1>4. s * B + u <= t * B + v
  BY TaskTieIs DEF TaskObjective
<1>. HIDE DEF B, T, s, t, u, v
<1>5. SUFFICES ASSUME t + p <= s PROVE FALSE
  BY DEF s, t
<1>6. (t + p) * B <= s * B /\ s * B \in Nat /\ (t + p) * B \in Nat
  <2>1. t + p \in Nat /\ s \in Nat
    BY DEF s, t
  <2>. QED BY <1>1, <1>5, <2>1, TimesMonotone
<1>7. (t + p) * B = t * B + p * B /\ p * B = p * most + p + p /\ t * B \in Nat
  <2>1. t \in Nat /\ p \in Nat /\ B = most + 2
    BY <1>1 DEF t
  <2>. HIDE DEF p, most
  <2>. QED BY <1>1, <2>1
<1>. DEFINE x == t * B
            y == s * B
            z == p * most
<1>8. x + (z + p + p) <= y /\ y + u <= x + v
  BY <1>4, <1>6, <1>7
<1>9. z \in Nat /\ u \in 0 .. z /\ v \in 0 .. z /\ x \in Nat /\ y \in Nat /\ p \in Nat /\ p >= 1
  <2>1. p \in Nat
    OBVIOUS
  <2>. HIDE DEF p
  <2>2. z \in Nat
    BY <1>1, <2>1
  <2>. QED BY <1>3, <1>6, <1>7, <2>1, <2>2 DEF p
<1>. HIDE DEF x, y, z, p
<1>. QED BY <1>8, <1>9

------------------------------------------------------------------------------
\* The scores of a grid are numbers, for every model and every position.
GridOk(grid, C, k) ==
  Scores(grid.capability, C, k) /\ Scores(grid.economy, C, k) /\ Scores(grid.cost, C, k)

\* The first entry of the key a free model is taken by.
FirstKey(optimizer, grid, m, r) ==
  IF optimizer = "task" THEN grid.capability[m][r] + grid.economy[m][r]
  ELSE grid.capability[m][r]

LEMMA KeyIs ==
  ASSUME NEW optimizer, NEW C \in SUBSET Nat, NEW k \in Nat, NEW grid, GridOk(grid, C, k),
         NEW m \in C, NEW r \in 0 .. k, NEW taken
  PROVE  LET key == GreedyKey(optimizer, grid, m, r, taken)
             last == IF optimizer = "task" THEN 3 ELSE 5
         IN  /\ DOMAIN key = 1 .. last /\ key[last] = m
             /\ \A i \in 1 .. last : key[i] \in Nat
             /\ key[1] = FirstKey(optimizer, grid, m, r)
<1>. DEFINE a == grid.capability[m][r]
            b == grid.economy[m][r]
            c == grid.cost[m][r]
            d == IF Company[m] \in {Company[t] : t \in taken} THEN 1 ELSE 0
            key == GreedyKey(optimizer, grid, m, r, taken)
            first == FirstKey(optimizer, grid, m, r)
            e == a + b
<1>1. a \in Nat /\ b \in Nat /\ c \in Nat /\ d \in Nat /\ m \in Nat
  BY DEF GridOk, Scores
<1>2. /\ optimizer = "task" => key = <<e, c, m>>
      /\ optimizer = "diverse" => key = <<a, d, b, c, m>>
      /\ optimizer # "task" /\ optimizer # "diverse" => key = <<a, b, d, c, m>>
  BY DEF GreedyKey, SumAt
<1>3. first = IF optimizer = "task" THEN e ELSE a
  BY DEF FirstKey
<1>4. e \in Nat
  BY <1>1
<1>. HIDE DEF a, b, c, d, e, key, first
<1>5. ASSUME NEW u \in Nat, NEW v \in Nat, NEW w \in Nat, NEW x \in Nat, NEW y \in Nat
      PROVE  /\ DOMAIN <<u, v, w, x, y>> = 1 .. 5 /\ <<u, v, w, x, y>>[5] = y
             /\ <<u, v, w, x, y>>[1] = u /\ \A i \in 1 .. 5 : <<u, v, w, x, y>>[i] \in Nat
  <2>1. <<u, v, w, x, y>> \in Seq(Nat) /\ Len(<<u, v, w, x, y>>) = 5
    OBVIOUS
  <2>. QED BY <2>1
<1>6. ASSUME NEW u \in Nat, NEW v \in Nat, NEW w \in Nat
      PROVE  /\ DOMAIN <<u, v, w>> = 1 .. 3 /\ <<u, v, w>>[3] = w
             /\ <<u, v, w>>[1] = u /\ \A i \in 1 .. 3 : <<u, v, w>>[i] \in Nat
  <2>1. <<u, v, w>> \in Seq(Nat) /\ Len(<<u, v, w>>) = 3
    OBVIOUS
  <2>. QED BY <2>1
<1>. DEFINE Ok(last) == /\ DOMAIN key = 1 .. last /\ key[last] = m
                        /\ \A i \in 1 .. last : key[i] \in Nat
                        /\ key[1] = first
<1>7. CASE optimizer = "task"
  <2>1. Ok(3)
    BY <1>1, <1>2, <1>3, <1>4, <1>6, <1>7
  <2>. QED BY <1>7, <2>1 DEF key, first
<1>8. CASE optimizer = "diverse"
  <2>1. Ok(5)
    BY <1>1, <1>2, <1>3, <1>5, <1>8
  <2>. QED BY <1>8, <2>1 DEF key, first
<1>9. CASE optimizer # "task" /\ optimizer # "diverse"
  <2>1. Ok(5)
    BY <1>1, <1>2, <1>3, <1>5, <1>9
  <2>. QED BY <1>9, <2>1 DEF key, first
<1>. QED BY <1>7, <1>8, <1>9

------------------------------------------------------------------------------
\* Of the first entries of two keys the one that comes before is no larger.
LEMMA FirstNoLarger ==
  ASSUME NEW s, NEW t, Before(s, t), s[1] \in Nat, t[1] \in Nat,
         NEW d \in Nat, DOMAIN s = 1 .. d
  PROVE  s[1] <= t[1]
<1>1. PICK i \in DOMAIN s : s[i] < t[i] /\ \A j \in 1 .. i - 1 : s[j] = t[j]
  BY DEF Before
<1>2. CASE i = 1
  BY <1>1, <1>2
<1>3. CASE i # 1
  <2>1. 1 \in 1 .. i - 1
    BY <1>3
  <2>. QED BY <1>1, <2>1
<1>. QED BY <1>2, <1>3

\* Of the free models one comes before all others, by the key of any scheme.
LEMMA SomeBestLeft ==
  ASSUME NEW optimizer, NEW C \in SUBSET Nat, NEW k \in Nat, NEW grid, GridOk(grid, C, k),
         NEW r \in 0 .. k, NEW taken, NEW F \in SUBSET C, F # {}
  PROVE  \E m \in F : \A n \in F \ {m} :
           Before(GreedyKey(optimizer, grid, m, r, taken), GreedyKey(optimizer, grid, n, r, taken))
<1>. DEFINE key(m) == GreedyKey(optimizer, grid, m, r, taken)
            last == IF optimizer = "task" THEN 3 ELSE 5
            wide == [m \in F |-> IF optimizer = "task"
                                 THEN <<key(m)[1], key(m)[2], m, m, m>> ELSE key(m)]
<1>1. \A m \in C : /\ DOMAIN key(m) = 1 .. last /\ key(m)[last] = m
                   /\ \A i \in 1 .. last : key(m)[i] \in Nat
  BY KeyIs
<1>. HIDE DEF key
<1>2. ASSUME NEW m \in F
      PROVE  /\ DOMAIN wide[m] = 1 .. 5 /\ wide[m][5] = m
             /\ \A i \in 1 .. 5 : wide[m][i] \in Nat
  <2>1. m \in C /\ m \in Nat
    OBVIOUS
  <2>2. CASE optimizer = "task"
    <3>. DEFINE u == key(m)[1]
                v == key(m)[2]
    <3>1. u \in Nat /\ v \in Nat
      BY <1>1, <2>1, <2>2
    <3>2. wide[m] = <<u, v, m, m, m>>
      BY <2>2
    <3>. HIDE DEF u, v, wide
    <3>3. <<u, v, m, m, m>> \in Seq(Nat) /\ Len(<<u, v, m, m, m>>) = 5
      BY <2>1, <3>1
    <3>. QED BY <3>2, <3>3
  <2>3. CASE optimizer # "task"
    <3>1. wide[m] = key(m) /\ last = 5
      BY <2>3
    <3>. HIDE DEF wide
    <3>. QED BY <1>1, <2>1, <3>1
  <2>. QED BY <2>2, <2>3
<1>3. PICK m \in F : \A n \in F \ {m} : Before(wide[m], wide[n])
  <2>1. F \in SUBSET Nat
    OBVIOUS
  <2>. HIDE DEF wide
  <2>. QED BY <1>2, <2>1, LeastKey
<1>4. ASSUME NEW n \in F \ {m} PROVE Before(key(m), key(n))
  <2>1. Before(wide[m], wide[n])
    BY <1>3
  <2>2. CASE optimizer = "task"
    <3>. DEFINE s == key(m)
                t == key(n)
                x == <<s[1], s[2], m, m, m>>
                y == <<t[1], t[2], n, n, n>>
    <3>1. Before(x, y)
      BY <2>1, <2>2
    <3>2. DOMAIN s = 1 .. 3 /\ s[3] = m /\ t[3] = n /\ m \in Nat /\ n \in Nat
      BY <1>1, <2>2
    <3>3. PICK i \in DOMAIN x : x[i] < y[i] /\ \A j \in 1 .. i - 1 : x[j] = y[j]
      BY <3>1 DEF Before
    <3>4. i \in 1 .. 5
      OBVIOUS
    <3>5. x[1] = s[1] /\ x[2] = s[2] /\ x[3] = m /\ x[4] = m /\ x[5] = m
          /\ y[1] = t[1] /\ y[2] = t[2] /\ y[3] = n /\ y[4] = n /\ y[5] = n
      OBVIOUS
    <3>. HIDE DEF x, y, s, t
    <3>6. i \in 1 .. 3
      <4>. SUFFICES ASSUME i \in {4, 5} PROVE FALSE
        BY <3>4
      <4>1. 3 \in 1 .. i - 1
        OBVIOUS
      <4>. QED BY <3>3, <3>5, <4>1
    <3>7. s[i] < t[i] /\ \A j \in 1 .. i - 1 : s[j] = t[j]
      <4>1. \A j \in 1 .. 3 : x[j] = s[j] /\ y[j] = t[j]
        BY <3>2, <3>5
      <4>2. \A j \in 1 .. i - 1 : j \in 1 .. 3
        BY <3>6
      <4>. QED BY <3>3, <3>6, <4>1, <4>2
    <3>8. Before(s, t)
      BY <3>2, <3>6, <3>7 DEF Before
    <3>. QED BY <3>8 DEF s, t
  <2>3. CASE optimizer # "task"
    BY <2>1, <2>3
  <2>. QED BY <2>2, <2>3
<1>. QED BY <1>4 DEF key

\* While a model is free, the best of those that are left is one, and no free
\* model has a smaller first key.
LEMMA BestLeftIs ==
  ASSUME NEW optimizer, NEW cands, Range(cands) \in SUBSET Nat, NEW k \in Nat,
         NEW grid, GridOk(grid, Range(cands), k), NEW r \in 0 .. k, NEW s,
         Range(cands) \ Range(s) # {}
  PROVE  /\ BestLeft(optimizer, grid, cands, r, s) \in Range(cands) \ Range(s)
         /\ \A m \in Range(cands) \ Range(s) :
              FirstKey(optimizer, grid, BestLeft(optimizer, grid, cands, r, s), r)
                <= FirstKey(optimizer, grid, m, r)
<1>. DEFINE C == Range(cands)
            F == C \ Range(s)
            key(m) == GreedyKey(optimizer, grid, m, r, Range(s))
            best(m) == \A n \in C \ (Range(s) \cup {m}) : Before(key(m), key(n))
            b == BestLeft(optimizer, grid, cands, r, s)
<1>1. b = CHOOSE m \in F : best(m)
  BY DEF BestLeft
<1>2. \A m : C \ (Range(s) \cup {m}) = F \ {m}
  OBVIOUS
<1>3. \E m \in F : \A n \in F \ {m} : Before(key(m), key(n))
  <2>1. F \in SUBSET C /\ F # {} /\ C \in SUBSET Nat /\ GridOk(grid, C, k)
    OBVIOUS
  <2>. HIDE DEF F, C
  <2>. QED BY <2>1, SomeBestLeft
<1>4. \E m \in F : best(m)
  <2>. HIDE DEF F, C, key
  <2>. QED BY <1>2, <1>3
<1>5. b \in F /\ best(b)
  <2>. HIDE DEF best, F, b
  <2>. QED BY <1>1, <1>4
<1>6. \A m \in C : /\ DOMAIN key(m) = 1 .. (IF optimizer = "task" THEN 3 ELSE 5)
                   /\ key(m)[1] = FirstKey(optimizer, grid, m, r)
                   /\ key(m)[1] \in Nat
  <2>. SUFFICES ASSUME NEW m \in C
                PROVE  /\ DOMAIN key(m) = 1 .. (IF optimizer = "task" THEN 3 ELSE 5)
                       /\ key(m)[1] = FirstKey(optimizer, grid, m, r)
                       /\ key(m)[1] \in Nat
    OBVIOUS
  <2>1. C \in SUBSET Nat /\ GridOk(grid, C, k)
    OBVIOUS
  <2>2. 1 \in 1 .. (IF optimizer = "task" THEN 3 ELSE 5)
    OBVIOUS
  <2>. HIDE DEF C
  <2>. QED BY <2>1, <2>2, KeyIs
<1>7. ASSUME NEW m \in F, m # b PROVE key(b)[1] <= key(m)[1]
  <2>1. Before(key(b), key(m))
    BY <1>2, <1>5, <1>7
  <2>2. b \in C /\ m \in C
    BY <1>5
  <2>. HIDE DEF key, C
  <2>. QED BY <1>6, <2>1, <2>2, FirstNoLarger
<1>8. key(b)[1] <= key(b)[1]
  <2>1. b \in C
    BY <1>5
  <2>. HIDE DEF key
  <2>. QED BY <1>6, <2>1
<1>. HIDE DEF key, b
<1>. QED BY <1>5, <1>6, <1>7, <1>8 DEF b

\* No model that is free comes before one that has a place, by the first key.
FirstServed(optimizer, grid, C, a, n) ==
  \A m \in C \ Assigned(a) :
    /\ \A r \in 1 .. n : FirstKey(optimizer, grid, a.role[r], r) <= FirstKey(optimizer, grid, m, r)
    /\ \A x \in a.recovery : FirstKey(optimizer, grid, x, 0) <= FirstKey(optimizer, grid, m, 0)

\* What is taken in turn is an assignment, and every place had the first choice
\* of what was left.
LEMMA GreedyTeamIs ==
  ASSUME NEW optimizer, NEW cands, Range(cands) \in SUBSET Nat, IsFiniteSet(Range(cands)),
         NEW n \in Nat, NEW k \in Nat, n + k <= Cardinality(Range(cands)),
         NEW grid, GridOk(grid, Range(cands), n)
  PROVE  /\ GreedyTeam(optimizer, grid, cands, n, k) \in Assignments(cands, n, k)
         /\ FirstServed(optimizer, grid, Range(cands),
                        GreedyTeam(optimizer, grid, cands, n, k), n)
<1>. DEFINE C == Range(cands)
            N == n + k
            Best(s, i) == BestLeft(optimizer, grid, cands, IF i > n THEN 0 ELSE i, s)
            Is(f) == f = [i \in 0 .. N |-> IF i = 0 THEN <<>>
                                           ELSE Append(f[i - 1], Best(f[i - 1], i))]
            taken == CHOOSE f : Is(f)
            S == {s \in Seq(C) : IsInjective(s)}
            step == [p \in (1 .. N) \X S |-> IF Len(p[2]) = p[1] - 1
                                             THEN Append(p[2], Best(p[2], p[1])) ELSE <<>>]
<1>1. GreedyTeam(optimizer, grid, cands, n, k)
        = [role |-> SubSeq(taken[N], 1, n), recovery |-> Range(SubSeq(taken[N], n + 1, n + k))]
  BY DEF GreedyTeam
<1>2. N \in Nat /\ N <= Cardinality(C)
  OBVIOUS
<1>3. ASSUME NEW i \in 1 .. N, NEW s, Took(s, C, i - 1)
      PROVE  Took(Append(s, Best(s, i)), C, i)
  <2>1. i - 1 \in Nat /\ i - 1 < Cardinality(C) /\ (i - 1) + 1 = i
        /\ (IF i > n THEN 0 ELSE i) \in 0 .. n
    <3>1. Cardinality(C) \in Nat
      BY FS_CardinalityType
    <3>. QED BY <1>2, <3>1
  <2>2. C \ Range(s) # {} /\ \A x \in C \ Range(s) : Took(Append(s, x), C, i)
    BY <1>3, <2>1, TookOneMore
  <2>3. Best(s, i) \in C \ Range(s)
    BY <2>1, <2>2, BestLeftIs
  <2>. HIDE DEF Best
  <2>. QED BY <2>2, <2>3
<1>. HIDE DEF C, N, Best
<1>4. \A s \in S : \A i : Len(s) = i => Took(s, C, i)
  BY DEF Took
<1>5. \A s, i : Took(s, C, i) => s \in S
  BY DEF Took
<1>6. <<>> \in S /\ Took(<<>>, C, 0)
  BY DEF IsInjective, Took
<1>7. step \in Steps(S, N)
  <2>1. ASSUME NEW i \in 1 .. N, NEW s \in S
        PROVE  (IF Len(s) = i - 1 THEN Append(s, Best(s, i)) ELSE <<>>) \in S
    <3>. HIDE DEF S
    <3>. QED BY <1>3, <1>4, <1>5, <1>6, <2>1
  <2>. HIDE DEF S
  <2>. QED BY <2>1 DEF Steps
<1>8. PICK h \in [0 .. N -> S] : Unfolds(h, <<>>, N, step)
  <2>. HIDE DEF step, S
  <2>. QED BY <1>2, <1>6, <1>7, RecursionExists
<1>. HIDE DEF S
<1>9. \A i \in 1 .. N : i - 1 \in 0 .. N /\ i \in 0 .. N /\ i # 0
  BY <1>2
<1>10. h[0] = <<>> /\ \A i \in 1 .. N : h[i] = IF Len(h[i - 1]) = i - 1
                                              THEN Append(h[i - 1], Best(h[i - 1], i)) ELSE <<>>
  <2>1. h[0] = <<>> /\ \A i \in 1 .. N : h[i] = step[<<i, h[i - 1]>>] /\ h[i - 1] \in S
    BY <1>8, <1>9 DEF Unfolds
  <2>. QED BY <2>1
<1>. DEFINE K == {i \in 0 .. N : Took(h[i], C, i)}
<1>11. 0 \in K
  <2>1. 0 \in 0 .. N
    BY <1>2
  <2>. QED BY <1>6, <1>10, <2>1
<1>12. ASSUME NEW i \in 1 .. N, i - 1 \in K PROVE i \in K
  <2>1. Took(h[i - 1], C, i - 1) /\ i \in 0 .. N
    BY <1>9, <1>12
  <2>2. h[i] = Append(h[i - 1], Best(h[i - 1], i))
    BY <1>10, <2>1 DEF Took
  <2>. QED BY <1>3, <2>1, <2>2
<1>13. \A i \in 0 .. N : i \in K
  <2>. HIDE DEF K
  <2>. QED BY <1>2, <1>11, <1>12, CountUp
<1>14. \A i \in 0 .. N : Took(h[i], C, i)
  BY <1>13
<1>15. \A i \in 1 .. N : h[i] = Append(h[i - 1], Best(h[i - 1], i))
  BY <1>9, <1>10, <1>14 DEF Took
<1>16. Is(h)
  <2>1. h = [i \in 0 .. N |-> h[i]] /\ \A i \in 0 .. N : i # 0 => i \in 1 .. N
    BY <1>2, <1>8
  <2>. QED BY <1>10, <1>15, <2>1
<1>17. Is(taken)
  <2>. HIDE DEF Is
  <2>. QED BY <1>16
<1>. HIDE DEF taken
<1>18. taken[0] = <<>> /\ \A i \in 1 .. N : taken[i] = Append(taken[i - 1], Best(taken[i - 1], i))
  <2>1. \A i \in 0 .. N : taken[i] = IF i = 0 THEN <<>>
                                     ELSE Append(taken[i - 1], Best(taken[i - 1], i))
    BY <1>17
  <2>2. taken[0] = <<>>
    BY <1>2, <2>1
  <2>. QED BY <1>9, <2>1, <2>2
<1>. DEFINE M == {i \in 0 .. N : Took(taken[i], C, i)}
<1>19. 0 \in M
  <2>1. 0 \in 0 .. N
    BY <1>2
  <2>. QED BY <1>6, <1>18, <2>1
<1>20. ASSUME NEW i \in 1 .. N, i - 1 \in M PROVE i \in M
  <2>1. Took(taken[i - 1], C, i - 1) /\ i \in 0 .. N
    BY <1>9, <1>20
  <2>. QED BY <1>3, <1>18, <2>1
<1>21. \A i \in 0 .. N : i \in M
  <2>. HIDE DEF M
  <2>. QED BY <1>2, <1>19, <1>20, CountUp
<1>22. Took(taken[N], C, N)
  BY <1>2, <1>21
<1>23. GreedyTeam(optimizer, grid, cands, n, k) \in Assignments(cands, n, k)
  BY <1>1, <1>22, TookIsAssignment DEF C, N
\* What is taken stays where it is.
<1>. DEFINE L == {i \in 0 .. N : \A j \in 0 .. i : \A x \in 1 .. j : taken[i][x] = taken[j][x]}
<1>24. \A i \in 0 .. N : /\ taken[i] \in Seq(C) /\ Len(taken[i]) = i /\ DOMAIN taken[i] = 1 .. i
                         /\ i \in Nat
  <2>1. \A i \in 0 .. N : Took(taken[i], C, i)
    BY <1>21
  <2>. QED BY <1>2, <2>1 DEF Took
<1>25. 0 \in L
  <2>1. 0 \in 0 .. N /\ \A j \in 0 .. 0 : 1 .. j = {}
    BY <1>2
  <2>. QED BY <2>1
<1>26. ASSUME NEW i \in 1 .. N, i - 1 \in L PROVE i \in L
  <2>. SUFFICES ASSUME NEW j \in 0 .. i, NEW x \in 1 .. j PROVE taken[i][x] = taken[j][x]
    BY <1>9
  <2>1. CASE j = i
    BY <2>1
  <2>2. CASE j # i
    <3>1. i \in Nat /\ j \in 0 .. i - 1 /\ x \in 1 .. i - 1
      BY <1>2, <2>2
    <3>2. taken[i - 1][x] = taken[j][x]
      BY <1>26, <3>1
    <3>3. taken[i][x] = taken[i - 1][x]
      <4>1. /\ taken[i] = Append(taken[i - 1], Best(taken[i - 1], i))
            /\ taken[i - 1] \in Seq(C) /\ Len(taken[i - 1]) = i - 1
        BY <1>9, <1>18, <1>24
      <4>. HIDE DEF Best
      <4>. QED BY <3>1, <4>1
    <3>. QED BY <3>2, <3>3
  <2>. QED BY <2>1, <2>2
<1>27. \A i \in 0 .. N : i \in L
  <2>. HIDE DEF L
  <2>. QED BY <1>2, <1>25, <1>26, CountUp
<1>. DEFINE all == taken[N]
            first(m, i) == FirstKey(optimizer, grid, m, IF i > n THEN 0 ELSE i)
<1>28. ASSUME NEW i \in 1 .. N
       PROVE  /\ all[i] = Best(taken[i - 1], i)
              /\ Range(taken[i - 1]) \subseteq Range(all)
  <2>1. N \in 0 .. N /\ i - 1 \in 0 .. N /\ i \in 0 .. N /\ i \in 1 .. i /\ N \in L
    BY <1>2, <1>27
  <2>2. all[i] = taken[i][i] /\ \A x \in 1 .. i - 1 : all[x] = taken[i - 1][x]
    BY <2>1
  <2>3. taken[i][i] = Best(taken[i - 1], i)
    <3>1. /\ taken[i] = Append(taken[i - 1], Best(taken[i - 1], i))
          /\ taken[i - 1] \in Seq(C) /\ Len(taken[i - 1]) = i - 1 /\ i \in Nat
      BY <1>18, <1>24, <2>1
    <3>. HIDE DEF Best
    <3>. QED BY <3>1
  <2>4. \A x \in 1 .. i - 1 : x \in 1 .. N
    BY <1>2
  <2>5. Range(taken[i - 1]) \subseteq Range(all)
    <3>1. DOMAIN taken[i - 1] = 1 .. i - 1 /\ DOMAIN all = 1 .. N
      BY <1>24, <2>1
    <3>. HIDE DEF all
    <3>. QED BY <2>2, <2>4, <3>1 DEF Range
  <2>. QED BY <2>2, <2>3, <2>5
<1>29. ASSUME NEW i \in 1 .. N, NEW m \in C \ Range(all)
       PROVE  first(all[i], i) <= first(m, i)
  <2>1. (IF i > n THEN 0 ELSE i) \in 0 .. n
    BY <1>2 DEF N
  <2>2. m \in C \ Range(taken[i - 1])
    BY <1>28, <1>29
  <2>. DEFINE s == taken[i - 1]
              p == IF i > n THEN 0 ELSE i
  <2>3. /\ Range(cands) \in SUBSET Nat /\ GridOk(grid, Range(cands), n) /\ p \in 0 .. n
        /\ m \in Range(cands) \ Range(s)
    BY <2>1, <2>2 DEF C
  <2>. HIDE DEF s, p
  <2>4. FirstKey(optimizer, grid, BestLeft(optimizer, grid, cands, p, s), p)
          <= FirstKey(optimizer, grid, m, p)
    BY <2>3, BestLeftIs
  <2>5. all[i] = BestLeft(optimizer, grid, cands, p, s)
    BY <1>28 DEF Best, s, p
  <2>. QED BY <2>4, <2>5 DEF p
<1>30. all \in Seq(C) /\ Len(all) = N /\ DOMAIN all = 1 .. N
  BY <1>2, <1>24
<1>. DEFINE u == SubSeq(all, 1, n)
            v == SubSeq(all, n + 1, n + k)
<1>. HIDE DEF all
<1>31. Len(u) = n /\ DOMAIN u = 1 .. n /\ \A i \in 1 .. n : u[i] = all[i]
  <2>1. 1 \in 1 .. Len(all) + 1 /\ n \in 1 - 1 .. Len(all)
    BY <1>30 DEF N
  <2>2. u \in Seq(C) /\ Len(u) = IF 1 <= n THEN n - 1 + 1 ELSE 0
    BY <1>30, <2>1, SubSeqProperties
  <2>3. Len(u) = n /\ DOMAIN u = 1 .. n
    BY <2>2
  <2>4. \A i \in 1 .. n : u[i] = all[1 + i - 1] /\ 1 + i - 1 = i
    BY <1>30, <2>1, <2>3, SubSeqProperties
  <2>. QED BY <2>3, <2>4
<1>32. Len(v) = k /\ DOMAIN v = 1 .. k /\ \A i \in 1 .. k : v[i] = all[n + i]
  <2>1. n + 1 \in 1 .. Len(all) + 1 /\ n + k \in (n + 1) - 1 .. Len(all)
    BY <1>30 DEF N
  <2>2. v \in Seq(C) /\ Len(v) = IF n + 1 <= n + k THEN (n + k) - (n + 1) + 1 ELSE 0
    BY <1>30, <2>1, SubSeqProperties
  <2>3. Len(v) = k /\ DOMAIN v = 1 .. k
    BY <2>2
  <2>4. \A i \in 1 .. k : v[i] = all[(n + 1) + i - 1] /\ (n + 1) + i - 1 = n + i
    BY <1>30, <2>1, <2>3, SubSeqProperties
  <2>. QED BY <2>3, <2>4
<1>. DEFINE a == GreedyTeam(optimizer, grid, cands, n, k)
<1>33. a.role = u /\ a.recovery = Range(v)
  BY <1>1 DEF all, N
<1>. HIDE DEF u, v, a
<1>34. \A i \in 1 .. N : i \in 1 .. n \/ (i > n /\ i - n \in 1 .. k /\ n + (i - n) = i)
  BY DEF N
<1>35. Range(all) \subseteq Assigned(a)
  <2>. SUFFICES ASSUME NEW i \in 1 .. N PROVE all[i] \in Range(u) \cup Range(v)
    BY <1>30, <1>33 DEF Range, Assigned
  <2>1. CASE i \in 1 .. n
    BY <1>31, <2>1 DEF Range
  <2>2. CASE i > n /\ i - n \in 1 .. k /\ n + (i - n) = i
    BY <1>32, <2>2 DEF Range
  <2>. QED BY <1>34, <2>1, <2>2
<1>36. ASSUME NEW m \in C \ Assigned(a)
       PROVE  /\ \A r \in 1 .. n : FirstKey(optimizer, grid, a.role[r], r)
                                     <= FirstKey(optimizer, grid, m, r)
              /\ \A x \in a.recovery : FirstKey(optimizer, grid, x, 0)
                                        <= FirstKey(optimizer, grid, m, 0)
  <2>1. m \in C \ Range(all)
    BY <1>35
  <2>2. ASSUME NEW r \in 1 .. n
        PROVE  FirstKey(optimizer, grid, a.role[r], r) <= FirstKey(optimizer, grid, m, r)
    <3>1. r \in 1 .. N /\ ~(r > n)
      BY DEF N
    <3>2. first(all[r], r) <= first(m, r)
      BY <1>29, <2>1, <3>1
    <3>. QED BY <1>31, <1>33, <3>1, <3>2
  <2>3. ASSUME NEW x \in a.recovery
        PROVE  FirstKey(optimizer, grid, x, 0) <= FirstKey(optimizer, grid, m, 0)
    <3>1. PICK j \in 1 .. k : x = all[n + j]
      BY <1>32, <1>33 DEF Range
    <3>2. n + j \in 1 .. N /\ n + j > n
      BY DEF N
    <3>3. first(all[n + j], n + j) <= first(m, n + j)
      BY <1>29, <2>1, <3>2
    <3>. QED BY <3>1, <3>2, <3>3
  <2>. QED BY <2>2, <2>3
<1>37. FirstServed(optimizer, grid, C, a, n)
  <2>. HIDE DEF C
  <2>. QED BY <1>36 DEF FirstServed
<1>. QED BY <1>23, <1>37 DEF C, a

------------------------------------------------------------------------------
\* What a position asks, recovery at 0.
Asks(needs, r) == IF r = 0 THEN needs.recovery ELSE needs.roles[r]

\* A better model has smaller scores, in every position.
Ordered(grid, bank, needs, C, k) ==
  \A r \in 0 .. k : \A m, n \in C : BetterIn(bank, m, n, Asks(needs, r)) =>
    grid.capability[m][r] < grid.capability[n][r] /\ grid.economy[m][r] < grid.economy[n][r]

\* A pool that can be numbered, and what is asked of it.
BankOk(bank, N) == N \in Nat /\ DOMAIN bank = 1 .. N /\ \A m \in 1 .. N : bank[m] \in Offer
NeedsOk(needs, k) ==
  k \in Nat /\ DOMAIN needs.roles = 1 .. k /\ Len(needs.roles) = k
  /\ \A r \in 0 .. k : PositionOk(Asks(needs, r))

LEMMA MetricIs ==
  ASSUME NEW bank, NEW N, BankOk(bank, N), NEW needs, NEW k, NeedsOk(needs, k),
         NEW overall \in 0 .. 100, NEW optimizer
  PROVE  /\ GridOk(Metric(optimizer, bank, needs, overall), 1 .. N, k)
         /\ Ordered(Metric(optimizer, bank, needs, overall), bank, needs, 1 .. N, k)
<1>. DEFINE C == 1 .. N
            at(r) == Scored(optimizer, bank, Asks(needs, r), overall)
            grid == Metric(optimizer, bank, needs, overall)
<1>1. /\ N \in Nat /\ DOMAIN bank = C /\ \A m \in C : bank[m] \in Offer
      /\ k \in Nat /\ Len(needs.roles) = k /\ \A r \in 0 .. k : PositionOk(Asks(needs, r))
  BY DEF BankOk, NeedsOk
<1>2. C \in SUBSET Int /\ IsFiniteSet(C)
  <2>1. IsFiniteSet(1 .. N)
    BY <1>1, UpTo
  <2>. QED BY <1>1, <2>1
<1>3. \A m \in C, r \in 0 .. k : /\ grid.capability[m][r] = at(r)[m].capability
                                 /\ grid.economy[m][r] = at(r)[m].economy
                                 /\ grid.cost[m][r] = at(r)[m].cost
  <2>. HIDE DEF C
  <2>. QED BY <1>1 DEF Metric, Asks
<1>4. ASSUME NEW r \in 0 .. k
      PROVE  /\ \A m \in C : at(r)[m].capability \in Nat /\ at(r)[m].economy \in Nat
                             /\ at(r)[m].cost \in Nat
             /\ \A m, n \in C : BetterIn(bank, m, n, Asks(needs, r)) =>
                  at(r)[m].capability < at(r)[n].capability
                  /\ at(r)[m].economy < at(r)[n].economy
  <2>. DEFINE p == Asks(needs, r)
  <2>1. PositionOk(p)
    BY <1>1
  <2>. HIDE DEF p, C
  <2>2. /\ \A m \in C :
              /\ Scored(optimizer, bank, p, overall)[m].capability \in Nat
              /\ Scored(optimizer, bank, p, overall)[m].economy \in Nat
              /\ Scored(optimizer, bank, p, overall)[m].cost \in Nat
        /\ \A m, n \in C : BetterIn(bank, m, n, p) =>
              /\ Scored(optimizer, bank, p, overall)[m].capability
                   < Scored(optimizer, bank, p, overall)[n].capability
              /\ Scored(optimizer, bank, p, overall)[m].economy
                   < Scored(optimizer, bank, p, overall)[n].economy
    BY <1>1, <1>2, <2>1, ScoredIs
  <2>. QED BY <2>2 DEF p
<1>. HIDE DEF grid, at, C
<1>5. GridOk(grid, C, k)
  BY <1>3, <1>4 DEF GridOk, Scores
<1>6. Ordered(grid, bank, needs, C, k)
  BY <1>3, <1>4 DEF Ordered
<1>. QED BY <1>5, <1>6 DEF grid, C

------------------------------------------------------------------------------
\* No model that is free is better than one that has a place.
NoneLeftOut(bank, needs, C, k, a) ==
  \A m \in C \ Assigned(a) :
    /\ \A r \in 1 .. k : ~BetterIn(bank, m, a.role[r], Asks(needs, r))
    /\ \A n \in a.recovery : ~BetterIn(bank, m, n, Asks(needs, 0))

\* The team is one of the candidates with the least goal.
LeastTeam(optimizer, grid, cands, k, j, a) ==
  \A b \in Assignments(cands, k, j) :
    Goal(optimizer, grid, cands, a) <= Goal(optimizer, grid, cands, b)

\* The goals of two teams, by the optimizer.
LEMMA GoalIs ==
  ASSUME NEW cands, NEW k \in Nat, NEW j, NEW a \in Assignments(cands, k, j), NEW grid,
         NEW optimizer \in Optimizer
  PROVE  Goal(optimizer, grid, cands, a)
           = IF optimizer = "task" THEN TaskObjective(grid, Len(cands), a)
             ELSE IF optimizer = "diverse" THEN DiverseObjective(grid, cands, k, j, a)
             ELSE Objective(a, cands, k, j, grid)
<1>1. Len(a.role) = k /\ Cardinality(a.recovery) = j
  BY TaskTieIs
<1>. QED BY <1>1 DEF Goal, Optimizer

\* An exchange for a better model makes the goal of any optimizer smaller.
LEMMA GoalFalls ==
  ASSUME NEW cands \in Seq(Nat), NEW N \in Nat, Len(cands) = N, Range(cands) = 1 .. N, N > 0,
         NEW optimizer \in Optimizer,
         NEW k \in Nat, NEW j \in Nat, NEW grid, GridOk(grid, 1 .. N, k),
         NEW a \in Assignments(cands, k, j), NEW b \in Assignments(cands, k, j),
         NEW n \in 1 .. N, NEW m \in 1 .. N, NEW r \in 0 .. k,
         Exchanged(a, b, n, m, r, 1 .. N, k),
         grid.capability[m][r] < grid.capability[n][r],
         grid.economy[m][r] < grid.economy[n][r],
         LeastTeam(optimizer, grid, cands, k, j, a)
  PROVE  FALSE
<1>1. Goal(optimizer, grid, cands, a) <= Goal(optimizer, grid, cands, b)
  BY DEF LeastTeam
<1>2. CASE optimizer = "task"
  <2>1. /\ Goal(optimizer, grid, cands, a) = TaskObjective(grid, N, a)
        /\ Goal(optimizer, grid, cands, b) = TaskObjective(grid, N, b)
    BY <1>2, GoalIs
  <2>2. Scores(grid.capability, 1 .. N, k) /\ Scores(grid.economy, 1 .. N, k)
    BY DEF GridOk
  <2>3. Falls(TaskObjective(grid, N, b), TaskObjective(grid, N, a))
    BY <2>2, TaskGoalFalls
  <2>. QED BY <1>1, <2>1, <2>3 DEF Falls
<1>3. CASE optimizer # "task"
  <2>1. \A x \in 1 .. N, p \in 0 .. k : grid.capability[x][p] \in Nat /\ grid.economy[x][p] \in Nat
    BY DEF GridOk, Scores
  <2>2. IsFiniteSet(1 .. N) /\ Len(cands) > 0
    BY UpTo
  <2>. DEFINE C == Range(cands)
  <2>3. /\ IsFiniteSet(C) /\ n \in C /\ m \in C /\ Exchanged(a, b, n, m, r, C, k)
        /\ \A x \in C, p \in 0 .. k : grid.capability[x][p] \in Nat /\ grid.economy[x][p] \in Nat
    BY <2>1, <2>2
  <2>. HIDE DEF C
  <2>4. /\ Falls(Objective(b, cands, k, j, grid), Objective(a, cands, k, j, grid))
        /\ Falls(DiverseObjective(grid, cands, k, j, b), DiverseObjective(grid, cands, k, j, a))
    BY <2>2, <2>3, RoleGoalFalls DEF C
  <2>5. \/ /\ Goal(optimizer, grid, cands, a) = DiverseObjective(grid, cands, k, j, a)
           /\ Goal(optimizer, grid, cands, b) = DiverseObjective(grid, cands, k, j, b)
        \/ /\ Goal(optimizer, grid, cands, a) = Objective(a, cands, k, j, grid)
           /\ Goal(optimizer, grid, cands, b) = Objective(b, cands, k, j, grid)
    BY <1>3, GoalIs
  <2>. QED BY <1>1, <2>4, <2>5 DEF Falls
<1>. QED BY <1>2, <1>3

\* The team with the least goal leaves no better model out.
LEMMA LeastLeavesNoneOut ==
  ASSUME NEW cands \in Seq(Nat), NEW N \in Nat, Len(cands) = N, Range(cands) = 1 .. N,
         NEW optimizer \in Optimizer, NEW bank, NEW needs,
         NEW k \in Nat, NEW j \in Nat, NEW grid, GridOk(grid, 1 .. N, k),
         Ordered(grid, bank, needs, 1 .. N, k),
         NEW a \in Assignments(cands, k, j), LeastTeam(optimizer, grid, cands, k, j, a)
  PROVE  NoneLeftOut(bank, needs, 1 .. N, k, a)
<1>. DEFINE C == 1 .. N
<1>1. /\ a.role \in [1 .. k -> C] /\ a.recovery \in SUBSET C /\ IsFiniteSet(a.recovery)
      /\ IsFiniteSet(Range(cands))
  <2>1. IsFiniteSet(Range(cands))
    BY UpTo
  <2>. QED BY <2>1, AssignmentIs, AssignedCount
<1>2. ASSUME NEW m \in C \ Assigned(a), NEW r \in 1 .. k, BetterIn(bank, m, a.role[r], Asks(needs, r))
      PROVE  FALSE
  <2>. DEFINE b == [role |-> [a.role EXCEPT ![r] = m], recovery |-> a.recovery]
              n == a.role[r]
  <2>1. b \in Assignments(cands, k, j)
    <3>1. m \in Range(cands) /\ m \notin Assigned(a)
      OBVIOUS
    <3>. QED BY <3>1, RoleReplaced
  <2>2. Exchanged(a, b, n, m, r, C, k)
    <3>1. m \in C
      OBVIOUS
    <3>. HIDE DEF C
    <3>. QED BY <1>1, <3>1, RoleExchanged
  <2>3. n \in C /\ m \in C /\ r \in 0 .. k /\ N > 0
    BY <1>1
  <2>4. grid.capability[m][r] < grid.capability[n][r] /\ grid.economy[m][r] < grid.economy[n][r]
    BY <1>2, <2>3 DEF Ordered
  <2>. HIDE DEF b, n
  <2>. QED BY <2>1, <2>2, <2>3, <2>4, GoalFalls DEF C
<1>3. ASSUME NEW m \in C \ Assigned(a), NEW n \in a.recovery, BetterIn(bank, m, n, Asks(needs, 0))
      PROVE  FALSE
  <2>. DEFINE b == [role |-> a.role, recovery |-> (a.recovery \ {n}) \cup {m}]
  <2>1. b \in Assignments(cands, k, j)
    <3>1. m \in Range(cands) /\ m \notin Assigned(a)
      OBVIOUS
    <3>. QED BY <1>1, <3>1, RecoveryReplaced
  <2>2. Exchanged(a, b, n, m, 0, C, k)
    <3>1. m \in C \ a.recovery
      BY DEF Assigned
    <3>. HIDE DEF C
    <3>. QED BY <1>1, <3>1, RecoveryExchanged
  <2>3. n \in C /\ m \in C /\ 0 \in 0 .. k /\ N > 0
    BY <1>1
  <2>4. grid.capability[m][0] < grid.capability[n][0] /\ grid.economy[m][0] < grid.economy[n][0]
    BY <1>3, <2>3 DEF Ordered
  <2>. HIDE DEF b
  <2>. QED BY <2>1, <2>2, <2>3, <2>4, GoalFalls DEF C
<1>. QED BY <1>2, <1>3 DEF NoneLeftOut

\* Neither does the team that is taken model after model.
LEMMA GreedyLeavesNoneOut ==
  ASSUME NEW optimizer, NEW N \in Nat, NEW bank, NEW needs, NEW k \in Nat, NEW j \in Nat,
         NEW grid, GridOk(grid, 1 .. N, k), Ordered(grid, bank, needs, 1 .. N, k),
         NEW cands, Range(cands) = 1 .. N,
         NEW a \in Assignments(cands, k, j), FirstServed(optimizer, grid, 1 .. N, a, k)
  PROVE  NoneLeftOut(bank, needs, 1 .. N, k, a)
<1>. DEFINE C == 1 .. N
<1>1. a.role \in [1 .. k -> C] /\ a.recovery \in SUBSET C
  BY AssignmentIs
<1>2. ASSUME NEW m \in C, NEW n \in C, NEW r \in 0 .. k, BetterIn(bank, m, n, Asks(needs, r)),
             FirstKey(optimizer, grid, n, r) <= FirstKey(optimizer, grid, m, r)
      PROVE  FALSE
  <2>1. grid.capability[m][r] < grid.capability[n][r] /\ grid.economy[m][r] < grid.economy[n][r]
    BY <1>2 DEF Ordered
  <2>2. /\ grid.capability[m][r] \in Nat /\ grid.capability[n][r] \in Nat
        /\ grid.economy[m][r] \in Nat /\ grid.economy[n][r] \in Nat
    BY DEF GridOk, Scores
  <2>. DEFINE c == grid.capability[m][r]
              d == grid.capability[n][r]
              e == grid.economy[m][r]
              f == grid.economy[n][r]
  <2>3. (IF optimizer = "task" THEN d + f ELSE d) <= (IF optimizer = "task" THEN c + e ELSE c)
    BY <1>2 DEF FirstKey
  <2>4. c \in Nat /\ d \in Nat /\ e \in Nat /\ f \in Nat /\ c < d /\ e < f
    BY <2>1, <2>2
  <2>. HIDE DEF c, d, e, f
  <2>. QED BY <2>3, <2>4
<1>3. ASSUME NEW m \in C \ Assigned(a), NEW r \in 1 .. k, BetterIn(bank, m, a.role[r], Asks(needs, r))
      PROVE  FALSE
  <2>1. FirstKey(optimizer, grid, a.role[r], r) <= FirstKey(optimizer, grid, m, r)
    BY DEF FirstServed
  <2>2. a.role[r] \in C /\ m \in C /\ r \in 0 .. k
    BY <1>1
  <2>. HIDE DEF C
  <2>. QED BY <1>2, <1>3, <2>1, <2>2
<1>4. ASSUME NEW m \in C \ Assigned(a), NEW n \in a.recovery, BetterIn(bank, m, n, Asks(needs, 0))
      PROVE  FALSE
  <2>1. FirstKey(optimizer, grid, n, 0) <= FirstKey(optimizer, grid, m, 0)
    BY DEF FirstServed
  <2>2. n \in C /\ m \in C /\ 0 \in 0 .. k
    BY <1>1
  <2>. HIDE DEF C
  <2>. QED BY <1>2, <1>4, <2>1, <2>2
<1>. QED BY <1>3, <1>4 DEF NoneLeftOut

------------------------------------------------------------------------------
\* What the positions of the task scheme ask for.
DemandOk(d) ==
  /\ d.overall \in 0 .. 100 /\ d.input \in 0 .. 100 /\ d.constraints \in 0 .. 100
  /\ d.evidence \in 0 .. 100 /\ d.delivery \in 0 .. 100
  /\ d.floor \in Nat /\ d.reserve \in Nat /\ d.prompt \in Nat /\ d.completion \in Nat
  /\ d.structural \in Nat \ {0} /\ d.listed \in Nat /\ d.rows \in Nat
  /\ d.fanIn \in Nat \ {0}

Packets == [task : Nat, evidence : Nat, requirements : Nat, acceptance : Nat,
            delivery : Nat, rows : Nat, extra : Nat, floor : Nat]

LEMMA RootOfSome ==
  ASSUME NEW x \in Nat \ {0}
  PROVE  CeilRoot(x) \in Nat \ {0}
<1>1. CeilRoot(x) \in Nat /\ CeilRoot(x) * CeilRoot(x) >= x
  BY CeilRootIs
<1>2. CeilRoot(x) # 0
  <2>. SUFFICES ASSUME CeilRoot(x) = 0 PROVE FALSE
    OBVIOUS
  <2>1. 0 * 0 >= x
    BY <1>1
  <2>. QED BY <2>1
<1>. QED BY <1>1, <1>2

LEMMA TaskDemandIs ==
  ASSUME NEW p \in Packets
  PROVE  DemandOk(TaskDemand(p))
<1>. DEFINE d == TaskDemand(p)
            length == p.task + p.evidence
            input == Clamp(Rounded(length, 160))
            constraints == Clamp(10 * (p.requirements + p.acceptance))
            sources == Clamp(10 * p.rows + p.evidence \div 500)
            delivery == Clamp(12 * p.delivery + 4 * p.extra)
            overall == Clamp(Rounded(30 * input + 30 * constraints
                                   + 20 * sources + 20 * delivery, 100))
            listed == p.requirements + p.acceptance + p.delivery
            structural == 1 + listed + p.rows + CeilDiv(length, 4000) + CeilDiv(overall, 15)
            reserve == Max({256, CeilDiv(p.floor, 8), 64 * (1 + listed)})
            prompt == Max({64, CeilDiv(p.floor, 32), CeilDiv(length, 2)})
            effort == CeilDiv(p.task, 10) + 96 * p.requirements + 72 * p.acceptance
                      + 96 * p.delivery + 32 * AtLeast(1, p.rows)
            completion == Max({128, CeilDiv(p.floor, 16), effort})
<1>1. /\ d.input = input /\ d.constraints = constraints /\ d.evidence = sources
      /\ d.delivery = delivery /\ d.overall = overall /\ d.floor = p.floor
      /\ d.listed = listed /\ d.rows = p.rows /\ d.structural = structural
      /\ d.reserve = reserve /\ d.prompt = prompt /\ d.completion = completion
      /\ d.fanIn = CeilRoot(structural)
  <2>1. d = [input |-> input, constraints |-> constraints, evidence |-> sources,
             delivery |-> delivery, overall |-> overall, floor |-> p.floor,
             listed |-> listed, rows |-> p.rows, structural |-> structural,
             reserve |-> reserve, prompt |-> prompt, completion |-> completion,
             fanIn |-> CeilRoot(structural)]
    BY Zenon DEF TaskDemand
  <2>. HIDE DEF d, input, constraints, sources, delivery, overall, listed, structural,
                reserve, prompt, completion
  <2>. QED BY <2>1
<1>2. /\ p.task \in Nat /\ p.evidence \in Nat /\ p.requirements \in Nat /\ p.acceptance \in Nat
      /\ p.delivery \in Nat /\ p.rows \in Nat /\ p.extra \in Nat /\ p.floor \in Nat
  BY DEF Packets
<1>. HIDE DEF d
<1>3. length \in Nat /\ listed \in Nat
  BY <1>2
<1>. HIDE DEF length, listed
<1>4. input \in 0 .. 100
  <2>1. Rounded(length, 160) \in Int
    BY <1>3, RoundedIs, 160 \in Nat \ {0}
  <2>. QED BY <2>1, ClampIs
<1>5. constraints \in 0 .. 100
  <2>1. 10 * (p.requirements + p.acceptance) \in Int
    BY <1>2
  <2>. QED BY <2>1, ClampIs
<1>6. sources \in 0 .. 100
  <2>1. p.evidence \div 500 \in Int
    BY <1>2
  <2>2. 10 * p.rows + p.evidence \div 500 \in Int
    BY <1>2, <2>1
  <2>. QED BY <2>2, ClampIs
<1>7. delivery \in 0 .. 100
  <2>1. 12 * p.delivery + 4 * p.extra \in Int
    BY <1>2
  <2>. QED BY <2>1, ClampIs
<1>8. overall \in 0 .. 100
  <2>. HIDE DEF input, constraints, sources, delivery
  <2>1. 30 * input + 30 * constraints + 20 * sources + 20 * delivery \in Nat
    BY <1>4, <1>5, <1>6, <1>7
  <2>2. Rounded(30 * input + 30 * constraints + 20 * sources + 20 * delivery, 100) \in Int
    BY <2>1, RoundedIs, 100 \in Nat \ {0}
  <2>. QED BY <2>2, ClampIs
<1>. HIDE DEF input, constraints, sources, delivery, overall
<1>9. structural \in Nat \ {0}
  <2>1. CeilDiv(length, 4000) \in Nat
    BY <1>3, CeilDivIs, 4000 \in Nat \ {0}
  <2>2. CeilDiv(overall, 15) \in Nat
    <3>1. overall \in Nat
      BY <1>8
    <3>. QED BY <3>1, CeilDivIs, 15 \in Nat \ {0}
  <2>. QED BY <1>2, <1>3, <2>1, <2>2
<1>10. reserve \in Nat
  <2>1. CeilDiv(p.floor, 8) \in Int /\ 64 * (1 + listed) \in Int /\ 256 \in Int
    BY <1>2, <1>3, CeilDivIs, 8 \in Nat \ {0}
  <2>2. reserve \in Int /\ reserve >= 256
    <3>. DEFINE x == CeilDiv(p.floor, 8)
                y == 64 * (1 + listed)
    <3>1. x \in Int /\ y \in Int /\ 256 \in Int /\ reserve = Max({256, x, y})
      BY <2>1
    <3>. HIDE DEF x, y, reserve
    <3>. QED BY <3>1, MaxOfThree
  <2>. HIDE DEF reserve
  <2>. QED BY <2>2
<1>11. prompt \in Nat
  <2>1. CeilDiv(p.floor, 32) \in Int /\ CeilDiv(length, 2) \in Int /\ 64 \in Int
    BY <1>2, <1>3, CeilDivIs, 32 \in Nat \ {0}, 2 \in Nat \ {0}
  <2>2. prompt \in Int /\ prompt >= 64
    <3>. DEFINE x == CeilDiv(p.floor, 32)
                y == CeilDiv(length, 2)
    <3>1. x \in Int /\ y \in Int /\ 64 \in Int /\ prompt = Max({64, x, y})
      BY <2>1
    <3>. HIDE DEF x, y, prompt
    <3>. QED BY <3>1, MaxOfThree
  <2>. HIDE DEF prompt
  <2>. QED BY <2>2
<1>12. completion \in Nat
  <2>1. CeilDiv(p.floor, 16) \in Int /\ 128 \in Int
    BY <1>2, CeilDivIs, 16 \in Nat \ {0}
  <2>2. effort \in Int
    <3>1. AtLeast(1, p.rows) \in Int
      BY <1>2, AtLeastIs
    <3>2. CeilDiv(p.task, 10) \in Int
      BY <1>2, CeilDivIs, 10 \in Nat \ {0}
    <3>. QED BY <1>2, <3>1, <3>2
  <2>. HIDE DEF effort
  <2>3. completion \in Int /\ completion >= 128
    BY <2>1, <2>2, MaxOfThree
  <2>. HIDE DEF completion
  <2>. QED BY <2>3
<1>. HIDE DEF structural, reserve, prompt, completion
<1>13. CeilRoot(structural) \in Nat \ {0}
  BY <1>9, RootOfSome
<1>14. DemandOk(d)
  BY <1>1, <1>2, <1>3, <1>4, <1>5, <1>6, <1>7, <1>8, <1>9, <1>10, <1>11, <1>12, <1>13
     DEF DemandOk
<1>. QED BY <1>14 DEF d

\* The tokens of a kind are numbers, and recovery has the most of each.
TokensOk(t) == t.prompt \in Nat /\ t.completion \in Nat /\ t.context \in Nat
NoMore(t, u) ==
  t.prompt <= u.prompt /\ t.completion <= u.completion /\ t.context <= u.context

LEMMA CeilDivGrows ==
  ASSUME NEW a \in Nat, NEW b \in Nat, a <= b
  PROVE  CeilDiv(a, 1000) <= CeilDiv(b, 1000) /\ a <= CeilDiv(1000 * a, 1000)
BY DEF CeilDiv

LEMMA TokensAre ==
  ASSUME NEW d, DemandOk(d), NEW kind
  PROVE  TokensOk(Tokens(d, kind)) /\ NoMore(Tokens(d, kind), Tokens(d, "recovery"))
<1>. DEFINE c == d.completion
            o == d.overall
            f == d.fanIn
            inputs == CASE kind = "review" -> AtLeast(1, f - 1)
                        [] kind \in {"synthesis", "recovery"} -> f
                        [] OTHER -> 0
            some == CASE kind = "review" -> CeilDiv(c * (1050 + o), 1000)
                      [] kind \in {"synthesis", "recovery"} -> CeilDiv(c * (1150 + 2 * o), 1000)
                      [] OTHER -> c
            most == CeilDiv(c * (1150 + 2 * o), 1000)
            prompt == d.prompt + inputs * c
            full == d.prompt + f * c
            t == Tokens(d, kind)
            u == Tokens(d, "recovery")
<1>1. /\ t.prompt = prompt /\ t.completion = some
      /\ t.context = d.floor + d.reserve + prompt + some
      /\ u.prompt = full /\ u.completion = most
      /\ u.context = d.floor + d.reserve + full + most
  <2>1. t = [prompt |-> prompt, completion |-> some,
             context |-> d.floor + d.reserve + prompt + some]
    BY DEF Tokens
  <2>2. u = [prompt |-> full, completion |-> most,
             context |-> d.floor + d.reserve + full + most]
    BY DEF Tokens
  <2>. HIDE DEF t, u
  <2>. QED BY <2>1, <2>2
<1>2. /\ c \in Nat /\ o \in 0 .. 100 /\ f \in Nat \ {0} /\ d.prompt \in Nat
      /\ d.floor \in Nat /\ d.reserve \in Nat
  BY DEF DemandOk
<1>. HIDE DEF c, o, f, t, u
<1>3. inputs \in Nat /\ inputs <= f
  <2>1. AtLeast(1, f - 1) = IF 1 <= f - 1 THEN f - 1 ELSE 1
    BY <1>2, AtLeastIs
  <2>2. AtLeast(1, f - 1) \in Nat /\ AtLeast(1, f - 1) <= f
    BY <1>2, <2>1
  <2>. QED BY <1>2, <2>2
<1>4. some \in Nat /\ most \in Nat /\ some <= most
  <2>. DEFINE x == c * (1050 + o)
              y == c * (1150 + 2 * o)
              z == 1000 * c
  <2>1. x \in Nat /\ y \in Nat /\ z \in Nat /\ x <= y /\ z <= y
    <3>. DEFINE h == c * o
    <3>1. h \in Nat
      BY <1>2
    <3>2. x = 1050 * c + h /\ y = 1150 * c + 2 * h
      BY <1>2
    <3>. HIDE DEF x, y, h
    <3>. QED BY <1>2, <3>1, <3>2
  <2>. HIDE DEF x, y, z
  <2>2. CeilDiv(x, 1000) <= CeilDiv(y, 1000) /\ CeilDiv(z, 1000) <= CeilDiv(y, 1000)
    BY <2>1, CeilDivGrows
  <2>3. c <= CeilDiv(z, 1000)
    BY <1>2, CeilDivGrows DEF z
  <2>4. CeilDiv(x, 1000) \in Nat /\ CeilDiv(y, 1000) \in Nat /\ CeilDiv(z, 1000) \in Nat
    BY <2>1, CeilDivIs, 1000 \in Nat \ {0}
  <2>5. c <= CeilDiv(y, 1000)
    BY <1>2, <2>2, <2>3, <2>4
  <2>6. some \in {CeilDiv(x, 1000), CeilDiv(y, 1000), c} /\ most = CeilDiv(y, 1000)
    BY DEF x, y
  <2>. HIDE DEF some, most
  <2>. QED BY <1>2, <2>2, <2>4, <2>5, <2>6
<1>. HIDE DEF inputs, some, most
<1>5. inputs * c \in Nat /\ f * c \in Nat /\ inputs * c <= f * c
  BY <1>2, <1>3, TimesMonotone
<1>6. prompt \in Nat /\ full \in Nat /\ prompt <= full
  <2>. DEFINE v == inputs * c
              w == f * c
  <2>1. v \in Nat /\ w \in Nat /\ v <= w
    BY <1>5
  <2>. HIDE DEF v, w
  <2>2. d.prompt + v \in Nat /\ d.prompt + w \in Nat /\ d.prompt + v <= d.prompt + w
    BY <1>2, <2>1
  <2>. QED BY <2>2 DEF v, w
<1>. HIDE DEF prompt, full
<1>7. d.floor + d.reserve + prompt + some \in Nat
      /\ d.floor + d.reserve + prompt + some <= d.floor + d.reserve + full + most
  BY <1>2, <1>4, <1>6
<1>8. TokensOk(t) /\ NoMore(t, u)
  BY <1>1, <1>4, <1>6, <1>7 DEF TokensOk, NoMore
<1>. QED BY <1>8 DEF t, u

LEMMA TaskNeedIs ==
  ASSUME NEW d, DemandOk(d), NEW kind
  PROVE  PositionOk(TaskNeed(d, kind))
<1>. DEFINE n == TaskNeed(d, kind)
            w == TaskWeights(d, kind)
            down == CASE kind = "review" -> 15
                      [] kind = "synthesis" -> 28
                      [] kind = "recovery" -> 10
                      [] OTHER -> 0
            extra == IF kind = "recovery" THEN 8 ELSE 0
<1>1. /\ n.tokens = Tokens(d, kind) /\ n.weights = w
      /\ n.unknown.context = 5 * (1000 \div 4) /\ n.unknown.output = 1000
  BY DEF TaskNeed, Part
<1>2. TokensOk(n.tokens)
  BY <1>1, TokensAre
<1>3. n.unknown.context \in Nat /\ n.unknown.output \in Nat
  BY <1>1
<1>4. ASSUME NEW x \in Int PROVE AtLeast(5, x) \in Nat \ {0} /\ AtLeast(3, x) \in Nat \ {0}
  <2>1. /\ AtLeast(5, x) = IF 5 <= x THEN x ELSE 5
        /\ AtLeast(3, x) = IF 3 <= x THEN x ELSE 3
    BY AtLeastIs
  <2>. QED BY <2>1
<1>5. /\ d.overall \in Nat /\ d.constraints \in Nat /\ d.evidence \in Nat /\ d.input \in Nat
      /\ d.delivery \in Nat
  BY DEF DemandOk
<1>6. ASSUME NEW k \in {8, 10, 12, 18, 20, 35, 45}, NEW x \in Nat PROVE Rounded(k * x, 100) \in Int
  <2>1. k * x \in Nat /\ 100 \in Nat \ {0}
    OBVIOUS
  <2>. QED BY <2>1, RoundedIs
<1>7. /\ Rounded(45 * d.overall, 100) \in Int /\ Rounded(35 * d.overall, 100) \in Int
      /\ Rounded(20 * d.overall, 100) \in Int /\ Rounded(12 * d.constraints, 100) \in Int
      /\ Rounded(8 * d.evidence, 100) \in Int /\ Rounded(18 * d.input, 100) \in Int
      /\ Rounded(10 * d.delivery, 100) \in Int
  BY <1>5, <1>6
<1>8. down \in Int /\ extra \in Int /\ down \div 3 \in Int /\ down \div 6 \in Int /\ down \div 2 \in Int
  <2>1. down \in Int /\ extra \in Int
    OBVIOUS
  <2>. HIDE DEF down
  <2>. QED BY <2>1
<1>9. w = [cost |-> AtLeast(5, 70 - Rounded(45 * d.overall, 100) - down \div 3),
           intelligence |-> AtLeast(5, 12 + Rounded(35 * d.overall, 100)
                                      + Rounded(12 * d.constraints, 100) + down),
           popularity |-> AtLeast(3, 8 + Rounded(8 * d.evidence, 100) - down \div 6),
           capacity |-> AtLeast(5, 8 + Rounded(18 * d.input, 100)
                                 + Rounded(10 * d.delivery, 100) + down \div 2),
           marginal |-> AtLeast(5, 38 - Rounded(20 * d.overall, 100) + extra)]
  BY DEF TaskWeights
<1>. DEFINE a == 70 - Rounded(45 * d.overall, 100) - down \div 3
            b == 12 + Rounded(35 * d.overall, 100) + Rounded(12 * d.constraints, 100) + down
            e == 8 + Rounded(8 * d.evidence, 100) - down \div 6
            f == 8 + Rounded(18 * d.input, 100) + Rounded(10 * d.delivery, 100) + down \div 2
            g == 38 - Rounded(20 * d.overall, 100) + extra
<1>10. w = [cost |-> AtLeast(5, a), intelligence |-> AtLeast(5, b),
            popularity |-> AtLeast(3, e), capacity |-> AtLeast(5, f), marginal |-> AtLeast(5, g)]
  BY <1>9
<1>11. a \in Int /\ b \in Int /\ e \in Int /\ f \in Int /\ g \in Int
  <2>. HIDE DEF down, extra
  <2>. QED BY <1>7, <1>8
<1>. HIDE DEF w, a, b, e, f, g, n
<1>12. w \in [WeightKeys -> Nat \ {0}]
  <2>1. /\ AtLeast(5, a) \in Nat \ {0} /\ AtLeast(5, b) \in Nat \ {0} /\ AtLeast(3, e) \in Nat \ {0}
        /\ AtLeast(5, f) \in Nat \ {0} /\ AtLeast(5, g) \in Nat \ {0}
    BY <1>4, <1>11
  <2>. QED BY <1>10, <2>1 DEF WeightKeys
<1>13. PositionOk(n)
  BY <1>1, <1>2, <1>3, <1>12 DEF PositionOk, TokensOk
<1>. QED BY <1>13 DEF n

\* A team has a member, and no more are planned than there are candidates.
ShapeOk(size, N) ==
  size.primary \in Nat \ {0} /\ size.recovery \in Nat /\ size.primary + size.recovery <= N

LEMMA TeamShapeIs ==
  ASSUME NEW d, DemandOk(d), NEW N \in Nat \ {0}
  PROVE  ShapeOk(TeamShape(d, N), N)
<1>. DEFINE breadth == Min({100, 5 * d.listed + 3 * d.rows})
            root == AtLeast(1, CeilRoot(d.structural))
            primary == Min({N, root})
            part == Min({198, AtLeast(22, d.overall + breadth + 20)})
            share == CeilDiv(primary * part, 220)
            rest == Min({N - primary, share})
<1>1. TeamShape(d, N) = [primary |-> primary, recovery |-> rest]
  BY DEF TeamShape
<1>2. d.overall \in Nat /\ d.structural \in Nat \ {0} /\ d.listed \in Nat /\ d.rows \in Nat
  BY DEF DemandOk
<1>3. breadth \in Int /\ breadth >= 0
  <2>1. 5 * d.listed + 3 * d.rows \in Nat
    BY <1>2
  <2>2. breadth = IF 100 <= 5 * d.listed + 3 * d.rows THEN 100 ELSE 5 * d.listed + 3 * d.rows
    BY <2>1, MinOfTwo
  <2>. HIDE DEF breadth
  <2>. QED BY <2>1, <2>2
<1>. HIDE DEF breadth
<1>4. root \in Nat \ {0}
  <2>1. CeilRoot(d.structural) \in Nat \ {0}
    BY <1>2, RootOfSome
  <2>2. root = IF 1 <= CeilRoot(d.structural) THEN CeilRoot(d.structural) ELSE 1
    BY <2>1, AtLeastIs
  <2>. HIDE DEF root
  <2>. QED BY <2>1, <2>2
<1>. HIDE DEF root
<1>5. primary \in 1 .. N
  <2>1. primary = IF N <= root THEN N ELSE root
    BY <1>4, MinOfTwo
  <2>. HIDE DEF primary
  <2>. QED BY <1>4, <2>1
<1>. HIDE DEF primary
<1>6. part \in Nat
  <2>. DEFINE x == AtLeast(22, d.overall + breadth + 20)
  <2>1. d.overall + breadth + 20 \in Int
    BY <1>2, <1>3
  <2>2. x = IF 22 <= d.overall + breadth + 20 THEN d.overall + breadth + 20 ELSE 22
    BY <2>1, AtLeastIs
  <2>. HIDE DEF x
  <2>3. x \in Int /\ x >= 22
    BY <2>1, <2>2
  <2>4. Min({198, x}) = IF 198 <= x THEN 198 ELSE x
    BY <2>3, MinOfTwo
  <2>5. Min({198, x}) \in Nat
    BY <2>3, <2>4
  <2>. QED BY <2>5 DEF x
<1>. HIDE DEF part
<1>7. share \in Nat
  <2>. DEFINE x == primary * part
  <2>1. x \in Nat
    BY <1>5, <1>6
  <2>. HIDE DEF x
  <2>2. CeilDiv(x, 220) \in Nat
    BY <2>1, CeilDivIs, 220 \in Nat \ {0}
  <2>. QED BY <2>2 DEF x
<1>. HIDE DEF share
<1>8. rest \in Nat /\ primary + rest <= N
  <2>1. rest = IF N - primary <= share THEN N - primary ELSE share
    BY <1>5, <1>7, MinOfTwo
  <2>. HIDE DEF rest
  <2>. QED BY <1>5, <1>7, <2>1
<1>. HIDE DEF rest
<1>. QED BY <1>1, <1>5, <1>8 DEF ShapeOk

\* A plan has as many kinds as members.
LEMMA RolePlanIs ==
  ASSUME NEW d, NEW k \in Nat \ {0}
  PROVE  Len(RolePlan(d, k)) = k /\ DOMAIN RolePlan(d, k) = 1 .. k
<1>. DEFINE S == {"evidence", "options", "review", "synthesis"}
            first == IF d.evidence + d.constraints >= d.delivery + d.constraints
                     THEN "evidence" ELSE "options"
            second == IF first = "evidence" THEN "options" ELSE "evidence"
            turns == [i \in 1 .. k - 2 |-> IF i % 2 = 1 THEN first ELSE second]
<1>1. first \in S /\ second \in S
  OBVIOUS
<1>2. RolePlan(d, k) = IF k <= 1 THEN <<"synthesis">>
                       ELSE IF k = 2 THEN <<first, "synthesis">>
                       ELSE turns \o <<"review", "synthesis">>
  BY DEF RolePlan
<1>. HIDE DEF first, second
<1>3. CASE k = 1
  BY <1>2, <1>3
<1>4. CASE k = 2
  BY <1>2, <1>4
<1>5. CASE k > 2
  <2>1. turns \in Seq(S) /\ Len(turns) = k - 2
    <3>1. k - 2 \in Nat /\ turns \in [1 .. k - 2 -> S]
      BY <1>1, <1>5
    <3>. HIDE DEF turns
    <3>. QED BY <3>1, SequenceIs
  <2>. HIDE DEF turns
  <2>2. <<"review", "synthesis">> \in Seq(S) /\ Len(<<"review", "synthesis">>) = 2
    OBVIOUS
  <2>3. turns \o <<"review", "synthesis">> \in Seq(S)
        /\ Len(turns \o <<"review", "synthesis">>) = (k - 2) + 2
    BY <2>1, <2>2
  <2>4. (k - 2) + 2 = k /\ RolePlan(d, k) = turns \o <<"review", "synthesis">>
    BY <1>2, <1>5
  <2>. QED BY <2>3, <2>4
<1>. QED BY <1>3, <1>4, <1>5

------------------------------------------------------------------------------
\* Ratios, their mean, and what they are in percent.
Ratios == Nat \X (Nat \ {0})

LEMMA RatioIs ==
  ASSUME NEW a \in Nat, NEW b \in Nat
  PROVE  Ratio(a, b) \in Ratios
<1>1. Min({a, b}) = IF a <= b THEN a ELSE b
  BY MinOfTwo
<1>2. b > 0 => Ratio(a, b) = <<Min({a, b}), b>>
  BY DEF Ratio
<1>3. b = 0 => Ratio(a, b) = <<0, 1>>
  BY DEF Ratio
<1>4. Min({a, b}) \in Nat
  BY <1>1
<1>. QED BY <1>2, <1>3, <1>4 DEF Ratios

LEMMA MeanIs ==
  ASSUME NEW ratios \in Seq(Ratios), ratios # <<>>
  PROVE  Mean(ratios) \in Ratios
<1>. DEFINE N == Len(ratios)
            more(i, p) == <<p[1] * ratios[i][2] + ratios[i][1] * p[2], p[2] * ratios[i][2]>>
            Is(f) == f = [i \in 0 .. N |-> IF i = 0 THEN <<0, 1>> ELSE more(i, f[i - 1])]
            sum == CHOOSE f : Is(f)
            step == [p \in (1 .. N) \X Ratios |-> more(p[1], p[2])]
<1>1. Mean(ratios) = <<sum[N][1], sum[N][2] * N>>
  BY DEF Mean
<1>2. N \in Nat \ {0} /\ \A i \in 1 .. N : ratios[i] \in Ratios
  OBVIOUS
<1>3. ASSUME NEW i \in 1 .. N, NEW p \in Ratios PROVE more(i, p) \in Ratios
  <2>. DEFINE a == p[1]
              b == p[2]
              c == ratios[i][1]
              e == ratios[i][2]
  <2>1. a \in Nat /\ b \in Nat \ {0} /\ c \in Nat /\ e \in Nat \ {0}
    BY <1>2 DEF Ratios
  <2>. HIDE DEF a, b, c, e
  <2>2. a * e \in Nat /\ c * b \in Nat /\ b * e \in Nat \ {0}
    BY <2>1
  <2>3. a * e + c * b \in Nat
    BY <2>2
  <2>. QED BY <2>2, <2>3 DEF Ratios, a, b, c, e
<1>4. step \in Steps(Ratios, N)
  <2>. HIDE DEF more
  <2>. QED BY <1>3 DEF Steps
<1>5. <<0, 1>> \in Ratios
  BY DEF Ratios
<1>6. PICK h \in [0 .. N -> Ratios] : Unfolds(h, <<0, 1>>, N, step)
  <2>. HIDE DEF step
  <2>. QED BY <1>2, <1>4, <1>5, RecursionExists
<1>7. \A i \in 1 .. N : i - 1 \in 0 .. N /\ i \in 0 .. N /\ i # 0
  BY <1>2
<1>. HIDE DEF more
<1>8. h[0] = <<0, 1>> /\ \A i \in 1 .. N : h[i] = more(i, h[i - 1])
  BY <1>6, <1>7 DEF Unfolds
<1>9. Is(h)
  <2>1. h = [i \in 0 .. N |-> h[i]] /\ \A i \in 0 .. N : i # 0 => i \in 1 .. N
    BY <1>2, <1>6
  <2>. QED BY <1>8, <2>1
<1>10. Is(sum)
  <2>. HIDE DEF Is
  <2>. QED BY <1>9
<1>. HIDE DEF sum
<1>11. \A i \in 0 .. N : sum[i] = IF i = 0 THEN <<0, 1>> ELSE more(i, sum[i - 1])
  BY <1>10
<1>. DEFINE K == {i \in 0 .. N : sum[i] \in Ratios}
<1>12. 0 \in K
  <2>1. 0 \in 0 .. N
    BY <1>2
  <2>. QED BY <1>5, <1>11, <2>1
<1>13. ASSUME NEW i \in 1 .. N, i - 1 \in K PROVE i \in K
  BY <1>3, <1>7, <1>11, <1>13
<1>14. \A i \in 0 .. N : i \in K
  <2>. HIDE DEF K, N
  <2>1. N \in Nat
    BY <1>2
  <2>. QED BY <2>1, <1>12, <1>13, CountUp
<1>15. sum[N] \in Ratios
  BY <1>2, <1>14
<1>. DEFINE a == sum[N][1]
            b == sum[N][2]
<1>16. a \in Nat /\ b \in Nat \ {0}
  BY <1>15 DEF Ratios
<1>. HIDE DEF a, b, N
<1>17. b * N \in Nat \ {0}
  BY <1>2, <1>16
<1>18. <<a, b * N>> \in Ratios
  BY <1>16, <1>17 DEF Ratios
<1>. QED BY <1>1, <1>18 DEF a, b

LEMMA PercentNumber ==
  ASSUME NEW r \in Ratios
  PROVE  Percent(r) \in Int
<1>. DEFINE x == 200 * r[1] + r[2]
            y == 2 * r[2]
            up == x \div y
            half == x % y = 0
<1>1. x \in Nat /\ y \in Nat /\ y > 0
  BY DEF Ratios
<1>2. Percent(r) = IF half /\ up % 2 = 1 THEN up - 1 ELSE up
  BY DEF Percent
<1>. HIDE DEF x, y
<1>3. up \in Int
  BY <1>1
<1>. HIDE DEF up, half
<1>. QED BY <1>2, <1>3

Summaries == [units : Nat, edges : Nat, depth : Nat, width : Nat, sinks : Nat]
Demands == [task : Nat, evidence : Nat, rules : Nat, delivery : Nat]

LEMMA PressureIs ==
  ASSUME NEW demand \in Demands, NEW s \in Summaries
  PROVE  \A i \in 1 .. 6 : Pressure(demand, s)[i] \in Int
<1>. DEFINE input == Ratio(demand.task, Characters(demand))
            evidence == Ratio(demand.evidence, Characters(demand))
            constraint == Ratio(demand.rules, s.units)
            delivery == Ratio(demand.delivery, s.units)
            form == <<Ratio(s.depth, s.units), Ratio(s.width, s.units),
                       Ratio(s.edges, MostEdges(s))>>
            structure == Mean(form)
            whole == <<input, evidence, constraint, delivery, structure>>
            overall == Mean(whole)
            all == <<input, constraint, evidence, delivery, structure, overall>>
<1>1. Pressure(demand, s) = [i \in 1 .. 6 |-> Percent(all[i])]
  BY DEF Pressure
<1>2. /\ demand.task \in Nat /\ demand.evidence \in Nat /\ demand.rules \in Nat
      /\ demand.delivery \in Nat
  BY DEF Demands
<1>3. s.units \in Nat /\ s.edges \in Nat /\ s.depth \in Nat /\ s.width \in Nat
  BY DEF Summaries
<1>4. Characters(demand) \in Nat /\ MostEdges(s) \in Nat
  <2>1. demand.task + demand.evidence \in Int
    BY <1>2
  <2>2. Max({1, demand.task + demand.evidence})
          = IF 1 <= demand.task + demand.evidence THEN demand.task + demand.evidence ELSE 1
    BY <2>1, MaxOfTwo
  <2>3. Characters(demand) \in Nat
    BY <1>2, <2>2 DEF Characters
  <2>. QED BY <1>3, <2>3, MostEdgesIs
<1>5. /\ input \in Ratios /\ evidence \in Ratios /\ constraint \in Ratios /\ delivery \in Ratios
      /\ Ratio(s.depth, s.units) \in Ratios /\ Ratio(s.width, s.units) \in Ratios
      /\ Ratio(s.edges, MostEdges(s)) \in Ratios
  BY <1>2, <1>3, <1>4, RatioIs
<1>6. structure \in Ratios
  <2>1. form \in Seq(Ratios) /\ form # <<>>
    BY <1>5
  <2>. HIDE DEF form
  <2>. QED BY <2>1, MeanIs
<1>. HIDE DEF input, evidence, constraint, delivery, structure
<1>7. overall \in Ratios
  <2>1. whole \in Seq(Ratios) /\ whole # <<>>
    BY <1>5, <1>6
  <2>. HIDE DEF whole
  <2>. QED BY <2>1, MeanIs
<1>. HIDE DEF overall
<1>8. all \in Seq(Ratios) /\ Len(all) = 6
  BY <1>5, <1>6, <1>7
<1>. HIDE DEF all
<1>9. \A i \in 1 .. 6 : all[i] \in Ratios
  <2>. SUFFICES ASSUME NEW i \in 1 .. Len(all) PROVE all[i] \in Ratios
    BY <1>8
  <2>. QED BY <1>8, ElementOfSeq
<1>. QED BY <1>1, <1>9, PercentNumber

------------------------------------------------------------------------------
\* What the roles of the role scheme are measured against.
ProfileOk(d) ==
  /\ d.input \in Int /\ d.constraints \in Int /\ d.evidence \in Int /\ d.delivery \in Int
  /\ d.overall \in Int /\ d.floor \in Nat /\ d.prompt \in Nat /\ d.completion \in Nat
  /\ d.reserve \in Nat /\ d.units \in Nat

LEMMA RoleDemandIs ==
  ASSUME NEW p \in Packets, NEW s \in Summaries
  PROVE  ProfileOk(RoleDemand(p, s))
<1>. DEFINE demand == [task |-> p.task, evidence |-> p.evidence,
                       rules |-> p.requirements + p.acceptance, delivery |-> p.delivery]
            signal == Pressure(demand, s)
            length == Characters(demand)
            prompt == Max({p.floor, length})
            most == Max({1, p.delivery, s.sinks})
            root == CeilRoot(length + 1)
            completion == AtLeast(1, root * most)
            reserve == AtLeast(1, CeilRoot(prompt * completion))
<1>1. RoleDemand(p, s)
        = [input |-> signal[1], constraints |-> signal[2], evidence |-> signal[3],
           delivery |-> signal[4], overall |-> signal[6], floor |-> p.floor,
           prompt |-> prompt, completion |-> completion, reserve |-> reserve,
           units |-> s.units]
  BY DEF RoleDemand
<1>2. /\ p.task \in Nat /\ p.evidence \in Nat /\ p.requirements \in Nat /\ p.acceptance \in Nat
      /\ p.delivery \in Nat /\ p.floor \in Nat /\ s.units \in Nat /\ s.sinks \in Nat
  BY DEF Packets, Summaries
<1>3. demand \in Demands
  BY <1>2 DEF Demands
<1>4. length \in Nat
  <2>1. p.task + p.evidence \in Int
    BY <1>2
  <2>2. Max({1, p.task + p.evidence})
          = IF 1 <= p.task + p.evidence THEN p.task + p.evidence ELSE 1
    BY <2>1, MaxOfTwo
  <2>. QED BY <1>2, <2>2 DEF Characters
<1>. HIDE DEF demand
<1>5. \A i \in 1 .. 6 : signal[i] \in Int
  BY <1>3, PressureIs
<1>. HIDE DEF length, signal
<1>6. prompt \in Nat
  <2>1. prompt = IF p.floor <= length THEN length ELSE p.floor
    BY <1>2, <1>4, MaxOfTwo
  <2>. HIDE DEF prompt
  <2>. QED BY <1>2, <1>4, <2>1
<1>7. most \in Nat
  <2>1. 1 \in Int /\ p.delivery \in Int /\ s.sinks \in Int
    BY <1>2
  <2>2. most \in Int /\ most >= 1
    BY <2>1, MaxOfThree
  <2>. HIDE DEF most
  <2>. QED BY <2>2
<1>8. root \in Nat
  <2>1. length + 1 \in Nat
    BY <1>4
  <2>. QED BY <2>1, CeilRootIs
<1>. HIDE DEF prompt, most, root
<1>9. completion \in Nat
  <2>. DEFINE x == root * most
  <2>1. x \in Nat
    BY <1>7, <1>8
  <2>. HIDE DEF x
  <2>2. AtLeast(1, x) = IF 1 <= x THEN x ELSE 1
    BY <2>1, AtLeastIs
  <2>3. AtLeast(1, x) \in Nat
    BY <2>1, <2>2
  <2>. QED BY <2>3 DEF x
<1>. HIDE DEF completion
<1>10. reserve \in Nat
  <2>. DEFINE x == CeilRoot(prompt * completion)
  <2>1. prompt * completion \in Nat
    BY <1>6, <1>9
  <2>2. x \in Nat
    BY <2>1, CeilRootIs
  <2>. HIDE DEF x
  <2>3. AtLeast(1, x) = IF 1 <= x THEN x ELSE 1
    BY <2>2, AtLeastIs
  <2>4. AtLeast(1, x) \in Nat
    BY <2>2, <2>3
  <2>. QED BY <2>4 DEF x
<1>. HIDE DEF reserve
<1>. QED BY <1>1, <1>2, <1>5, <1>6, <1>9, <1>10 DEF ProfileOk

RoleRecords == [units : Nat, edges : Nat, functions : Nat, final : BOOLEAN]

LEMMA AveragesAre ==
  ASSUME NEW a \in Nat, NEW b \in Nat, NEW c \in Nat, NEW e \in Nat
  PROVE  /\ Average(<<a, b>>) \in Nat /\ Average(<<a, b, c>>) \in Nat
         /\ Average(<<a, b, c, e>>) \in Nat
<1>1. Average(<<a, b>>) \in Nat
  <2>. DEFINE s == <<a, b>>
  <2>1. s \in Seq(Nat) /\ s # <<>>
    OBVIOUS
  <2>. HIDE DEF s
  <2>2. Average(s) \in Nat
    BY <2>1, AverageIs
  <2>. QED BY <2>2 DEF s
<1>2. Average(<<a, b, c>>) \in Nat
  <2>. DEFINE s == <<a, b, c>>
  <2>1. s \in Seq(Nat) /\ s # <<>>
    OBVIOUS
  <2>. HIDE DEF s
  <2>2. Average(s) \in Nat
    BY <2>1, AverageIs
  <2>. QED BY <2>2 DEF s
<1>3. Average(<<a, b, c, e>>) \in Nat
  <2>. DEFINE s == <<a, b, c, e>>
  <2>1. s \in Seq(Nat) /\ s # <<>>
    OBVIOUS
  <2>. HIDE DEF s
  <2>2. Average(s) \in Nat
    BY <2>1, AverageIs
  <2>. QED BY <2>2 DEF s
<1>. QED BY <1>1, <1>2, <1>3

LEMMA RoleNeedIs ==
  ASSUME NEW d, ProfileOk(d), NEW role \in RoleRecords, NEW N \in Nat
  PROVE  PositionOk(RoleNeed(d, role, N))
<1>. DEFINE units == AtLeast(1, role.units)
            structural == units + role.edges + AtLeast(1, role.functions)
                          + IF role.final THEN 1 ELSE 0
            ratio == (structural * Part) \div (structural + AtLeast(1, d.units))
            coupling == (role.edges * Part) \div (units + role.edges)
            sig == {"input", "constraints", "evidence", "delivery", "overall"}
            signal == [k \in sig |-> Clamp(d[k]) * (Part \div 100)]
            sa == signal.overall
            sb == signal.constraints
            sc == signal.delivery
            sd == signal.evidence
            se == signal.input
            reserve == CeilRoot(d.reserve * d.reserve * structural)
            prompt == d.prompt + role.edges * d.completion + (units - 1) * reserve
            pressure == Average(<<sa, sb, sc, ratio>>)
            completion == CeilDiv(d.completion * (Part + pressure), Part)
            quality == Average(<<sa, ratio, sb>>)
            economy == AtLeast(0, Part - quality)
            fame == Average(<<Part - sd, sc>>)
            capacity == Average(<<se, sc, ratio, coupling>>)
            marginal == FloorRoot(economy * quality)
            strengths == [cost |-> economy, intelligence |-> quality, popularity |-> fame,
                          capacity |-> capacity, marginal |-> marginal]
            n == RoleNeed(d, role, N)
<1>1. n = [tokens |-> [prompt |-> prompt, completion |-> completion,
                       context |-> d.floor + reserve + prompt + completion],
           weights |-> Normalized(strengths, N),
           unknown |-> [context |-> 0, output |-> 0]]
  BY DEF RoleNeed
<1>2. /\ d.input \in Int /\ d.constraints \in Int /\ d.evidence \in Int /\ d.delivery \in Int
      /\ d.overall \in Int /\ d.floor \in Nat /\ d.prompt \in Nat /\ d.completion \in Nat
      /\ d.reserve \in Nat /\ d.units \in Nat
  BY DEF ProfileOk
<1>3. role.units \in Nat /\ role.edges \in Nat /\ role.functions \in Nat /\ Part = 1000
  BY DEF RoleRecords, Part
<1>. HIDE DEF n
<1>4. ASSUME NEW x \in Nat PROVE AtLeast(1, x) \in Nat \ {0}
  <2>1. AtLeast(1, x) = IF 1 <= x THEN x ELSE 1
    BY AtLeastIs
  <2>. QED BY <2>1
<1>5. units \in Nat \ {0} /\ AtLeast(1, role.functions) \in Nat \ {0}
      /\ AtLeast(1, d.units) \in Nat \ {0}
  BY <1>2, <1>3, <1>4
<1>. HIDE DEF units
<1>6. structural \in Nat \ {0}
  BY <1>3, <1>5
<1>. HIDE DEF structural
<1>7. ASSUME NEW x \in Nat, NEW y \in Nat \ {0} PROVE (x * 1000) \div y \in Nat
  <2>. DEFINE z == x * 1000
  <2>1. z \in Nat
    OBVIOUS
  <2>. HIDE DEF z
  <2>2. z \div y \in Nat
    BY <2>1
  <2>. QED BY <2>2 DEF z
<1>8. ratio \in Nat /\ coupling \in Nat
  <2>1. structural + AtLeast(1, d.units) \in Nat \ {0} /\ units + role.edges \in Nat \ {0}
    BY <1>3, <1>5, <1>6
  <2>. QED BY <1>3, <1>6, <1>7, <2>1
<1>. HIDE DEF ratio, coupling
<1>10. /\ sa \in 0 .. 1000 /\ sb \in 0 .. 1000 /\ sc \in 0 .. 1000 /\ sd \in 0 .. 1000
       /\ se \in 0 .. 1000
  <2>1. /\ se = Clamp(d["input"]) * (1000 \div 100)
        /\ sb = Clamp(d["constraints"]) * (1000 \div 100)
        /\ sd = Clamp(d["evidence"]) * (1000 \div 100)
        /\ sc = Clamp(d["delivery"]) * (1000 \div 100)
        /\ sa = Clamp(d["overall"]) * (1000 \div 100)
    BY <1>3
  <2>2. /\ d["input"] \in Int /\ d["constraints"] \in Int /\ d["evidence"] \in Int
        /\ d["delivery"] \in Int /\ d["overall"] \in Int
    BY <1>2
  <2>. DEFINE u == Clamp(d["input"])
              v == Clamp(d["constraints"])
              w == Clamp(d["evidence"])
              x == Clamp(d["delivery"])
              y == Clamp(d["overall"])
  <2>3. u \in 0 .. 100 /\ v \in 0 .. 100 /\ w \in 0 .. 100 /\ x \in 0 .. 100 /\ y \in 0 .. 100
    BY <2>2, ClampIs
  <2>4. se = u * 10 /\ sb = v * 10 /\ sd = w * 10 /\ sc = x * 10 /\ sa = y * 10
    <3>1. 1000 \div 100 = 10
      OBVIOUS
    <3>. QED BY <2>1, <3>1
  <2>. HIDE DEF sa, sb, sc, sd, se, u, v, w, x, y
  <2>. QED BY <2>3, <2>4
<1>. HIDE DEF sa, sb, sc, sd, se, signal
<1>11. pressure \in Nat /\ quality \in Nat /\ fame \in Nat /\ capacity \in Nat
  <2>0. sa \in Nat /\ sb \in Nat /\ sc \in Nat /\ sd \in 0 .. 1000 /\ se \in Nat
    <3>1. \A x \in 0 .. 1000 : x \in Nat
      OBVIOUS
    <3>. QED BY SMTT(40), <1>10, <3>1
  <2>1. 1000 - sd \in Nat
    BY <2>0
  <2>2. /\ Average(<<sa, sb, sc, ratio>>) \in Nat /\ Average(<<se, sc, ratio, coupling>>) \in Nat
    BY <1>8, <2>0, AveragesAre
  <2>3. Average(<<sa, ratio, sb>>) \in Nat
    BY <1>8, <2>0, AveragesAre
  <2>4. Average(<<1000 - sd, sc>>) \in Nat
    <3>. DEFINE x == 1000 - sd
    <3>1. x \in Nat
      BY <2>1
    <3>. HIDE DEF x
    <3>2. Average(<<x, sc>>) \in Nat
      BY <2>0, <3>1, AveragesAre
    <3>. QED BY <3>2 DEF x
  <2>. QED BY <1>3, <2>2, <2>3, <2>4
<1>. HIDE DEF pressure, quality, fame, capacity
<1>12. economy \in Nat
  <2>1. economy = IF 0 <= 1000 - quality THEN 1000 - quality ELSE 0
    BY <1>3, <1>11, AtLeastIs
  <2>. HIDE DEF economy
  <2>. QED BY <1>11, <2>1
<1>. HIDE DEF economy
<1>13. marginal \in Nat
  <2>1. economy * quality \in Nat
    BY <1>11, <1>12
  <2>. QED BY <2>1, FloorRootIs
<1>. HIDE DEF marginal
<1>14. strengths \in [WeightKeys -> Nat]
  BY <1>11, <1>12, <1>13 DEF WeightKeys
<1>. HIDE DEF strengths
<1>15. Normalized(strengths, N) \in [WeightKeys -> Nat \ {0}]
  <2>1. /\ DOMAIN Normalized(strengths, N) = WeightKeys
        /\ \A k \in WeightKeys : Normalized(strengths, N)[k] \in Nat \ {0}
    BY <1>14, WeightKeysFinite, NormalizedIs
  <2>2. Normalized(strengths, N) = [k \in DOMAIN strengths |-> Normalized(strengths, N)[k]]
    BY DEF Normalized
  <2>. QED BY <1>14, <2>1, <2>2
<1>16. reserve \in Nat
  <2>. DEFINE x == d.reserve * d.reserve
  <2>1. x \in Nat
    BY <1>2
  <2>. HIDE DEF x
  <2>2. x * structural \in Nat
    BY <1>6, <2>1
  <2>3. CeilRoot(x * structural) \in Nat
    BY <2>2, CeilRootIs
  <2>. QED BY <2>3 DEF x
<1>. HIDE DEF reserve
<1>17. prompt \in Nat
  <2>1. role.edges * d.completion \in Nat /\ (units - 1) * reserve \in Nat
    <3>1. units - 1 \in Nat
      BY <1>5
    <3>. QED BY <1>2, <1>3, <1>16, <3>1
  <2>. QED BY <1>2, <2>1
<1>18. completion \in Nat
  <2>. DEFINE x == d.completion * (1000 + pressure)
  <2>1. x \in Nat
    BY <1>2, <1>11
  <2>. HIDE DEF x
  <2>2. CeilDiv(x, 1000) \in Nat
    BY <2>1, CeilDivIs, 1000 \in Nat \ {0}
  <2>. QED BY <1>3, <2>2 DEF x
<1>. HIDE DEF prompt, completion
<1>19. d.floor + reserve + prompt + completion \in Nat
  BY <1>2, <1>16, <1>17, <1>18
<1>. DEFINE w == Normalized(strengths, N)
<1>20. /\ n.tokens.prompt = prompt /\ n.tokens.completion = completion
       /\ n.tokens.context = d.floor + reserve + prompt + completion
       /\ n.weights = w /\ n.unknown.context = 0 /\ n.unknown.output = 0
  BY <1>1
<1>. HIDE DEF w
<1>21. PositionOk(n)
  BY <1>15, <1>17, <1>18, <1>19, <1>20 DEF PositionOk, w
<1>. QED BY <1>21 DEF n

------------------------------------------------------------------------------
\* Recovery is sized as the heaviest role, whose context is the largest.
LEMMA HeaviestIs ==
  ASSUME NEW needs, NEW k \in Nat \ {0}, DOMAIN needs = 1 .. k,
         \A i \in 1 .. k : PositionOk(needs[i])
  PROVE  /\ PositionOk(Heaviest(needs))
         /\ \A i \in 1 .. k : needs[i].tokens.context <= Heaviest(needs).tokens.context
<1>. DEFINE D == 1 .. k
            c == [i \in D |-> needs[i].tokens.context]
            o == [i \in D |-> needs[i].tokens.completion]
            weight(i) == <<needs[i].tokens.context, needs[i].tokens.completion, i>>
            heavy(i) == \A j \in D \ {i} : Before(weight(j), weight(i))
<1>1. \A i \in D : c[i] \in Nat /\ o[i] \in Nat /\ i \in Nat
  BY DEF PositionOk
<1>2. IsFiniteSet(D) /\ 1 \in D
  BY UpTo
<1>3. \A i \in D : weight(i) = <<c[i], o[i], i>>
  OBVIOUS
<1>. HIDE DEF D, c, o
<1>4. ASSUME NEW F \in SUBSET D, F # {}, NEW f, \A i \in D : f[i] \in Nat
      PROVE  \E i \in F : \A j \in F : f[j] <= f[i]
  <2>. DEFINE T == {f[i] : i \in F}
  <2>1. IsFiniteSet(F)
    BY <1>2, FS_Subset
  <2>2. IsFiniteSet(T) /\ T \in SUBSET Int /\ T # {}
    <3>. DEFINE g == [i \in F |-> f[i]]
    <3>1. g = [i \in F |-> g[i]]
      OBVIOUS
    <3>2. Range(g) = T
      BY DEF Range
    <3>3. T \in SUBSET Int /\ T # {}
      BY <1>4
    <3>. HIDE DEF g, T
    <3>. QED BY <2>1, <3>1, <3>2, <3>3, ImageIsFinite
  <2>3. PICK x \in T : \A y \in T : x >= y
    <3>. HIDE DEF T
    <3>. QED BY <2>2, GreatestOf
  <2>4. PICK i \in F : x = f[i]
    OBVIOUS
  <2>5. \A j \in F : f[j] <= f[i]
    <3>. SUFFICES ASSUME NEW j \in F PROVE f[j] <= f[i]
      OBVIOUS
    <3>1. x >= f[j] /\ f[i] \in Nat /\ f[j] \in Nat
      BY <1>4, <2>3
    <3>. QED BY <2>4, <3>1
  <2>. QED BY <2>5
<1>. DEFINE F1 == {i \in D : \A j \in D : c[j] <= c[i]}
            F2 == {i \in F1 : \A j \in F1 : o[j] <= o[i]}
            same == [i \in D |-> i]
<1>5. F1 # {}
  BY <1>1, <1>2, <1>4
<1>6. F2 # {}
  <2>1. F1 \in SUBSET D
    OBVIOUS
  <2>. HIDE DEF F1
  <2>. QED BY <1>1, <1>4, <1>5, <2>1
<1>7. PICK i \in F2 : \A j \in F2 : same[j] <= same[i]
  <2>1. F2 \in SUBSET D /\ \A j \in D : same[j] \in Nat
    BY <1>1
  <2>. HIDE DEF F2, same
  <2>. QED BY <1>4, <1>6, <2>1
<1>8. i \in D /\ i \in F1
  OBVIOUS
<1>9. ASSUME NEW j \in D \ {i} PROVE Before(weight(j), weight(i))
  <2>1. /\ c[i] \in Nat /\ c[j] \in Nat /\ o[i] \in Nat /\ o[j] \in Nat /\ i \in Nat /\ j \in Nat
    BY <1>1, <1>8
  <2>2. c[j] < c[i] \/ (c[j] = c[i] /\ j \in F1)
    <3>1. c[j] <= c[i]
      BY <1>8
    <3>2. ASSUME c[j] = c[i] PROVE j \in F1
      BY <1>8, <3>2
    <3>. QED BY <2>1, <3>1, <3>2
  <2>3. j \in F1 => o[j] < o[i] \/ (o[j] = o[i] /\ j \in F2)
    <3>1. j \in F1 => o[j] <= o[i]
      BY <1>7
    <3>2. ASSUME j \in F1, o[j] = o[i] PROVE j \in F2
      BY <1>7, <3>2
    <3>. QED BY <2>1, <3>1, <3>2
  <2>4. j \in F2 => j < i
    <3>1. j \in F2 => j <= i
      BY <1>7, <1>8
    <3>. QED BY <2>1, <3>1
  <2>. HIDE DEF F1, F2
  <2>5. \/ c[j] < c[i]
        \/ c[j] = c[i] /\ o[j] < o[i]
        \/ c[j] = c[i] /\ o[j] = o[i] /\ j < i
    BY <2>2, <2>3, <2>4
  <2>. DEFINE s == <<c[j], o[j], j>>
              t == <<c[i], o[i], i>>
  <2>6. /\ DOMAIN s = {1, 2, 3} /\ s[1] = c[j] /\ s[2] = o[j] /\ s[3] = j
        /\ t[1] = c[i] /\ t[2] = o[i] /\ t[3] = i
    OBVIOUS
  <2>7. 1 .. 1 - 1 = {} /\ 1 .. 2 - 1 = {1} /\ 1 .. 3 - 1 = {1, 2}
    OBVIOUS
  <2>. HIDE DEF s, t
  <2>8. Before(s, t)
    BY <2>5, <2>6, <2>7 DEF Before
  <2>. QED BY <1>3, <1>8, <2>8 DEF s, t
<1>10. heavy(i)
  BY <1>9
<1>. DEFINE m == CHOOSE x \in D : heavy(x)
<1>11. m \in D /\ heavy(m)
  <2>. HIDE DEF heavy
  <2>. QED BY <1>8, <1>10
<1>12. Heaviest(needs) = needs[m]
  BY DEF Heaviest, D
<1>. HIDE DEF m
<1>13. ASSUME NEW j \in D PROVE c[j] <= c[m]
  <2>1. CASE j = m
    BY <1>1, <1>11, <2>1
  <2>2. CASE j # m
    <3>1. Before(weight(j), weight(m))
      BY <1>11, <2>2
    <3>. DEFINE s == <<c[j], o[j], j>>
                t == <<c[m], o[m], m>>
    <3>2. Before(s, t)
      BY <1>3, <1>11, <3>1
    <3>3. DOMAIN s = 1 .. 3 /\ s[1] = c[j] /\ t[1] = c[m] /\ c[j] \in Nat /\ c[m] \in Nat /\ 3 \in Nat
      BY <1>1, <1>11
    <3>. HIDE DEF s, t
    <3>4. s[1] <= t[1]
      BY <3>2, <3>3, FirstNoLarger
    <3>. QED BY <3>3, <3>4
  <2>. QED BY <2>1, <2>2
<1>14. PositionOk(needs[m])
  BY <1>11 DEF D
<1>15. \A j \in 1 .. k : needs[j].tokens.context <= needs[m].tokens.context
  BY <1>11, <1>13 DEF c, D
<1>. QED BY <1>12, <1>14, <1>15

------------------------------------------------------------------------------
\* What is asked of a team: a size the pool can fill, positions in numbers, and
\* recovery sized for every role.
AskedOk(q, asked) ==
  /\ ShapeOk(asked.size, Cardinality(DOMAIN q.pool))
  /\ NeedsOk(asked, asked.size.primary)
  /\ asked.overall \in 0 .. 100
  /\ \A r \in DOMAIN asked.roles :
       /\ asked.roles[r].tokens.context <= asked.recovery.tokens.context
       /\ q.optimizer = "task" =>
            /\ asked.roles[r].tokens.prompt <= asked.recovery.tokens.prompt
            /\ asked.roles[r].tokens.completion <= asked.recovery.tokens.completion

\* What the two schemes ask.
TaskNeeds(q) ==
  LET d     == TaskDemand(q.packet)
      size  == TeamShape(d, Cardinality(DOMAIN q.pool))
      kinds == RolePlan(d, size.primary)
  IN  [roles |-> [i \in DOMAIN kinds |-> TaskNeed(d, kinds[i])],
       recovery |-> TaskNeed(d, "recovery"), size |-> size, overall |-> d.overall]
RoleNeeds(q) ==
  LET d == RoleDemand(q.packet, q.summary)
      n == Cardinality(DOMAIN q.pool)
      needs == [i \in DOMAIN q.roles |-> RoleNeed(d, q.roles[i], n)]
  IN  [roles |-> needs, recovery |-> Heaviest(needs),
       size |-> [primary |-> Len(needs), recovery |-> q.reserves],
       overall |-> Clamp(d.overall)]

LEMMA PoolIs ==
  ASSUME NEW q \in Queries
  PROVE  /\ Cardinality(DOMAIN q.pool) \in Nat \ {0}
         /\ BankOk(q.pool, Cardinality(DOMAIN q.pool))
         /\ q.packet \in Packets /\ q.summary \in Summaries /\ q.reserves \in Nat
         /\ q.optimizer \in Optimizer
         /\ q.optimizer # "task" => q.roles # <<>> /\ q.roles \in Seq(RoleRecords)
<1>. DEFINE N == Cardinality(DOMAIN q.pool)
<1>1. /\ IsFiniteSet(DOMAIN q.pool) /\ DOMAIN q.pool # {} /\ DOMAIN q.pool = 1 .. N
      /\ \A m \in DOMAIN q.pool : q.pool[m] \in Offer
  BY QueriesAssumption DEF Offer
<1>2. N \in Nat
  BY <1>1, FS_CardinalityType
<1>3. N # 0
  <2>. HIDE DEF N
  <2>. QED BY <1>1
<1>4. BankOk(q.pool, N)
  <2>. HIDE DEF N
  <2>. QED BY <1>1, <1>2 DEF BankOk
<1>5. q.packet \in Packets /\ q.summary \in Summaries /\ q.reserves \in Nat
      /\ q.optimizer \in Optimizer
  BY QueriesAssumption DEF Packets, Summaries
<1>6. q.optimizer # "task" => q.roles # <<>> /\ q.roles \in Seq(RoleRecords)
  BY QueriesAssumption DEF RoleRecords
<1>. QED BY <1>2, <1>3, <1>4, <1>5, <1>6

LEMMA TaskAsked ==
  ASSUME NEW q \in Queries
  PROVE  AskedOk(q, TaskNeeds(q))
<1>. DEFINE N == Cardinality(DOMAIN q.pool)
            d == TaskDemand(q.packet)
            size == TeamShape(d, N)
            k == size.primary
            kinds == RolePlan(d, k)
            seats == [i \in DOMAIN kinds |-> TaskNeed(d, kinds[i])]
            spare == TaskNeed(d, "recovery")
            asked == TaskNeeds(q)
<1>1. /\ asked.roles = seats /\ asked.recovery = spare /\ asked.size = size
      /\ asked.overall = d.overall
  BY DEF TaskNeeds
<1>2. N \in Nat \ {0} /\ q.packet \in Packets
  BY PoolIs
<1>3. DemandOk(d)
  BY <1>2, TaskDemandIs
<1>. HIDE DEF asked, d, N
<1>4. ShapeOk(size, N)
  BY <1>2, <1>3, TeamShapeIs
<1>. HIDE DEF size
<1>5. k \in Nat \ {0}
  BY <1>4 DEF ShapeOk
<1>. HIDE DEF k
<1>6. DOMAIN kinds = 1 .. k
  BY <1>5, RolePlanIs
<1>. HIDE DEF kinds
<1>7. \A x : PositionOk(TaskNeed(d, x)) /\ TaskNeed(d, x).tokens = Tokens(d, x)
             /\ NoMore(Tokens(d, x), Tokens(d, "recovery"))
  BY <1>3, TaskNeedIs, TokensAre DEF TaskNeed
<1>8. DOMAIN seats = 1 .. k /\ \A i \in 1 .. k : seats[i] = TaskNeed(d, kinds[i])
  BY <1>6
<1>9. Len(seats) = k
  <2>1. seats = [i \in 1 .. k |-> seats[i]] /\ k \in Nat
    BY <1>5, <1>6
  <2>. HIDE DEF seats
  <2>2. seats \in [1 .. k -> Range(seats)]
    BY <1>8, <2>1 DEF Range
  <2>. QED BY <2>1, <2>2, SequenceIs
<1>. HIDE DEF seats, spare
<1>10. \A r \in 0 .. k : PositionOk(Asks(asked, r))
  <2>. SUFFICES ASSUME NEW r \in 0 .. k PROVE PositionOk(Asks(asked, r))
    OBVIOUS
  <2>1. CASE r = 0
    BY <1>1, <1>7, <2>1 DEF Asks, spare
  <2>2. CASE r # 0
    <3>1. r \in 1 .. k /\ Asks(asked, r) = seats[r]
      BY <1>1, <2>2 DEF Asks
    <3>. QED BY <1>7, <1>8, <3>1
  <2>. QED BY <2>1, <2>2
<1>11. NeedsOk(asked, k)
  BY <1>1, <1>5, <1>8, <1>9, <1>10 DEF NeedsOk
<1>12. d.overall \in 0 .. 100
  BY <1>3 DEF DemandOk
<1>13. \A r \in 1 .. k :
         /\ seats[r].tokens.context <= spare.tokens.context
         /\ seats[r].tokens.prompt <= spare.tokens.prompt
         /\ seats[r].tokens.completion <= spare.tokens.completion
  BY <1>7, <1>8 DEF NoMore, spare
<1>. QED BY <1>1, <1>4, <1>8, <1>11, <1>12, <1>13 DEF AskedOk, k, N, asked

LEMMA RolesAsked ==
  ASSUME NEW q \in Queries, q.optimizer # "task",
         ~(Cardinality(DOMAIN q.pool) < Len(q.roles) + q.reserves)
  PROVE  AskedOk(q, RoleNeeds(q))
<1>. DEFINE N == Cardinality(DOMAIN q.pool)
            d == RoleDemand(q.packet, q.summary)
            k == Len(q.roles)
            needs == [i \in DOMAIN q.roles |-> RoleNeed(d, q.roles[i], N)]
            asked == RoleNeeds(q)
<1>1. /\ asked.roles = needs /\ asked.recovery = Heaviest(needs)
      /\ asked.size.primary = Len(needs) /\ asked.size.recovery = q.reserves
      /\ asked.overall = Clamp(d.overall)
  BY DEF RoleNeeds
<1>2. /\ N \in Nat \ {0} /\ q.packet \in Packets /\ q.summary \in Summaries
      /\ q.reserves \in Nat /\ q.roles # <<>> /\ q.roles \in Seq(RoleRecords)
  BY PoolIs
<1>3. ProfileOk(d)
  BY <1>2, RoleDemandIs
<1>4. k \in Nat \ {0} /\ DOMAIN q.roles = 1 .. k /\ \A i \in 1 .. k : q.roles[i] \in RoleRecords
  BY <1>2
<1>. HIDE DEF asked, d
<1>5. k + q.reserves <= N
  BY <1>2, <1>4
<1>. HIDE DEF k, N
<1>6. DOMAIN needs = 1 .. k /\ \A i \in 1 .. k : needs[i] = RoleNeed(d, q.roles[i], N)
  BY <1>4
<1>7. Len(needs) = k
  <2>1. k \in Nat
    BY <1>4
  <2>2. needs \in [1 .. k -> Range(needs)]
    <3>. HIDE DEF needs
    <3>1. needs = [i \in 1 .. k |-> needs[i]]
      BY <1>4 DEF needs
    <3>. QED BY <1>6, <3>1 DEF Range
  <2>. HIDE DEF needs
  <2>. QED BY <2>1, <2>2, SequenceIs
<1>. HIDE DEF needs
<1>8. \A i \in 1 .. k : PositionOk(needs[i])
  BY <1>2, <1>3, <1>4, <1>6, RoleNeedIs
<1>9. /\ PositionOk(Heaviest(needs))
      /\ \A i \in 1 .. k : needs[i].tokens.context <= Heaviest(needs).tokens.context
  BY <1>4, <1>6, <1>8, HeaviestIs
<1>10. \A r \in 0 .. k : PositionOk(Asks(asked, r))
  <2>. SUFFICES ASSUME NEW r \in 0 .. k PROVE PositionOk(Asks(asked, r))
    OBVIOUS
  <2>1. CASE r = 0
    BY <1>1, <1>9, <2>1 DEF Asks
  <2>2. CASE r # 0
    <3>1. r \in 1 .. k /\ Asks(asked, r) = needs[r]
      BY <1>1, <2>2 DEF Asks
    <3>. QED BY <1>8, <3>1
  <2>. QED BY <2>1, <2>2
<1>11. NeedsOk(asked, k)
  BY <1>1, <1>4, <1>6, <1>7, <1>10 DEF NeedsOk
<1>12. Clamp(d.overall) \in 0 .. 100
  BY <1>3, ClampIs DEF ProfileOk
<1>13. ShapeOk(asked.size, N)
  BY <1>1, <1>2, <1>4, <1>5, <1>7 DEF ShapeOk
<1>. QED BY <1>1, <1>6, <1>7, <1>9, <1>11, <1>12, <1>13 DEF AskedOk, N, asked

------------------------------------------------------------------------------
\* What a selection knows on its way: what is asked and the scores, once they
\* are made, and how its team was found.
Found == {"proven", "feasible", "greedy"}
Contenders == Names(query.pool)
Teams == Assignments(Contenders, need.size.primary, need.size.recovery)
TeamInv ==
  /\ query \in Queries
  /\ phase \in {"query", "measured", "scored", "done"}
  /\ phase # "done" => how = "none"
  /\ how \in Found \cup {"none", "refused"}
  /\ phase \in {"measured", "scored"} \/ how \in Found => AskedOk(query, need)
  /\ phase = "scored" \/ how \in Found =>
       scores = Metric(query.optimizer, query.pool, need, need.overall)
  /\ how = "proven" =>
       team \in Teams
       /\ LeastTeam(query.optimizer, scores, Contenders, need.size.primary,
                    need.size.recovery, team)
  /\ how = "greedy" =>
       team = GreedyTeam(query.optimizer, scores, Contenders, need.size.primary,
                         need.size.recovery)

\* Every step of the selection keeps it.
LEMMA TeamInvHolds == TeamSpec => []TeamInv
<1>1. TeamInit => TeamInv
  BY DEF TeamInit, TeamInv, Found
<1>2. TeamInv /\ [NextTeam]_teamVars => TeamInv'
  <2>. SUFFICES ASSUME TeamInv, [NextTeam]_teamVars PROVE TeamInv'
    OBVIOUS
  <2>1. CASE MeasureTask
    <3>1. /\ phase = "query" /\ need' = TaskNeeds(query) /\ phase' = "measured"
          /\ query' = query /\ scores' = scores /\ team' = team /\ how' = how
      BY <2>1 DEF MeasureTask, TaskNeeds
    <3>2. AskedOk(query, TaskNeeds(query))
      BY TaskAsked DEF TeamInv
    <3>3. AskedOk(query, need)'
      BY <3>1, <3>2 DEF AskedOk
    <3>. QED BY <3>1, <3>3 DEF TeamInv, Found
  <2>2. CASE MeasureRoles
    <3>1. CASE Cardinality(DOMAIN query.pool) < Len(query.roles) + query.reserves
      <4>1. /\ phase' = "done" /\ how' = "refused"
            /\ UNCHANGED need /\ UNCHANGED <<query, scores, team>>
        BY <2>2, <3>1 DEF MeasureRoles
      <4>. QED BY <4>1 DEF TeamInv, Found
    <3>2. CASE ~(Cardinality(DOMAIN query.pool) < Len(query.roles) + query.reserves)
      <4>1. /\ phase = "query" /\ query.optimizer # "task"
            /\ need' = RoleNeeds(query) /\ phase' = "measured"
            /\ query' = query /\ scores' = scores /\ team' = team /\ how' = how
        BY <2>2, <3>2 DEF MeasureRoles, RoleNeeds
      <4>2. AskedOk(query, RoleNeeds(query))
        BY <3>2, <4>1, RolesAsked DEF TeamInv
      <4>3. AskedOk(query, need)'
        BY <4>1, <4>2 DEF AskedOk
      <4>. QED BY <4>1, <4>3 DEF TeamInv, Found
    <3>. QED BY <3>1, <3>2
  <2>3. CASE Score
    <3>1. /\ phase = "measured" /\ phase' = "scored"
          /\ scores' = Metric(query.optimizer, query.pool, need, need.overall)
          /\ query' = query /\ need' = need /\ team' = team /\ how' = how
      BY <2>3 DEF Score
    <3>2. AskedOk(query, need)' = AskedOk(query, need)
      BY <3>1 DEF AskedOk
    <3>3. scores' = Metric(query.optimizer, query.pool, need, need.overall)'
      BY <3>1
    <3>. QED BY <3>1, <3>2, <3>3 DEF TeamInv, Found
  <2>4. ASSUME NEW optimizer \in Optimizer, SolveFor(optimizer) PROVE TeamInv'
    <3>1. /\ phase = "scored" /\ query.optimizer = optimizer /\ phase' = "done"
          /\ query' = query /\ need' = need /\ scores' = scores
      BY <2>4 DEF SolveFor
    <3>2. AskedOk(query, need)' = AskedOk(query, need)
      BY <3>1 DEF AskedOk
    <3>3. (scores = Metric(query.optimizer, query.pool, need, need.overall))'
            = (scores = Metric(query.optimizer, query.pool, need, need.overall))
      BY <3>1
    <3>4. Contenders' = Contenders /\ Teams' = Teams
      BY <3>1 DEF Contenders, Teams
    <3>5. \/ /\ how' = "proven" /\ team' \in Teams
             /\ LeastTeam(optimizer, scores, Contenders, need.size.primary,
                          need.size.recovery, team')
          \/ how' = "feasible"
          \/ /\ how' = "greedy"
             /\ team' = GreedyTeam(optimizer, scores, Contenders, need.size.primary,
                                   need.size.recovery)
      <4>. DEFINE all == Assignments(Contenders, need.size.primary, need.size.recovery)
                  goal == [a \in all |-> Goal(optimizer, scores, Contenders, a)]
      <4>1. \/ how' = "proven" /\ team' \in {a \in all : \A b \in all : goal[a] <= goal[b]}
            \/ how' = "feasible"
            \/ /\ how' = "greedy"
               /\ team' = GreedyTeam(optimizer, scores, Contenders, need.size.primary,
                                     need.size.recovery)
        BY <2>4 DEF SolveFor, Contenders
      <4>2. ASSUME team' \in {a \in all : \A b \in all : goal[a] <= goal[b]}
            PROVE  /\ team' \in Teams
                   /\ LeastTeam(optimizer, scores, Contenders, need.size.primary,
                                need.size.recovery, team')
        BY <4>2 DEF Teams, LeastTeam
      <4>. HIDE DEF all, goal
      <4>. QED BY <4>1, <4>2
    <3>6. /\ how' = "proven" =>
               (team \in Teams
                /\ LeastTeam(query.optimizer, scores, Contenders, need.size.primary,
                             need.size.recovery, team))'
          /\ how' = "greedy" =>
               (team = GreedyTeam(query.optimizer, scores, Contenders, need.size.primary,
                                  need.size.recovery))'
      BY <3>1, <3>4, <3>5 DEF LeastTeam
    <3>7. how' \in Found
      BY <3>5 DEF Found
    <3>. QED BY <3>1, <3>2, <3>3, <3>6, <3>7 DEF TeamInv
  <2>5. CASE SolveTask \/ SolveDiverse \/ SolveEconomical
    BY <2>4, <2>5 DEF SolveTask, SolveDiverse, SolveEconomical, Optimizer
  <2>6. CASE UNCHANGED teamVars
    <3>1. /\ query' = query /\ phase' = phase /\ need' = need /\ scores' = scores
          /\ team' = team /\ how' = how
      BY <2>6 DEF teamVars
    <3>2. AskedOk(query, need)' = AskedOk(query, need)
      BY <3>1 DEF AskedOk
    <3>3. Contenders' = Contenders /\ Teams' = Teams
      BY <3>1 DEF Contenders, Teams
    <3>. QED BY <3>1, <3>2, <3>3 DEF TeamInv, LeastTeam
  <2>. QED BY <2>1, <2>2, <2>3, <2>5, <2>6 DEF NextTeam
<1>. QED BY <1>1, <1>2, PTL DEF TeamSpec

\* A total of numbers is one.
LEMMA TotalNumber ==
  ASSUME NEW cands, IsFiniteSet(Range(cands)), NEW k \in Nat, NEW j \in Nat,
         NEW a \in Assignments(cands, k, j), NEW score, Scores(score, Range(cands), k)
  PROVE  Total(score, a) \in Nat
<1>. DEFINE C == Range(cands)
            f == [i \in DOMAIN a.role |-> score[a.role[i]][i]]
            g == [x \in a.recovery |-> score[x][0]]
<1>1. a.role \in [1 .. k -> C] /\ a.recovery \in SUBSET C
  BY AssignmentIs
<1>2. \A x \in C, i \in 0 .. k : score[x][i] \in Nat
  BY DEF Scores
<1>3. f \in [1 .. k -> Nat] /\ IsFiniteSet(1 .. k)
  <2>1. \A i \in 1 .. k : i \in 0 .. k /\ a.role[i] \in C
    BY <1>1
  <2>2. IsFiniteSet(1 .. k)
    BY UpTo
  <2>. HIDE DEF C
  <2>. QED BY <1>1, <1>2, <2>1, <2>2
<1>4. g \in [a.recovery -> Nat] /\ IsFiniteSet(a.recovery)
  <2>1. \A x \in a.recovery : x \in C /\ 0 \in 0 .. k
    BY <1>1
  <2>2. IsFiniteSet(a.recovery)
    BY <1>1, FS_Subset
  <2>. HIDE DEF C
  <2>. QED BY <1>2, <2>1, <2>2
<1>5. Total(score, a) = SumFunction(f) + SumFunction(g)
  BY DEF Total
<1>. HIDE DEF f, g
<1>6. SumFunction(f) \in Nat /\ SumFunction(g) \in Nat
  BY <1>3, <1>4, SumNumber
<1>. QED BY <1>5, <1>6

\* The team of v5_top50_pool_optimizer.py and of the role optimizers: no model
\* is left out for one it betters in every respect, by the solver or by the
\* greedy rule; a proven team of the task scheme is short of the least score by
\* less than a point a position; and recovery is sized for every role.
THEOREM TeamWellChosenSafe == TeamSpec => []TeamWellChosen
<1>1. TeamInv => TeamWellChosen
  <2>. SUFFICES ASSUME TeamInv PROVE TeamWellChosen
    OBVIOUS
  <2>. DEFINE N == Cardinality(DOMAIN query.pool)
              k == need.size.primary
              j == need.size.recovery
              bank == query.pool
              optimizer == query.optimizer
  <2>1. /\ N \in Nat \ {0} /\ BankOk(bank, N) /\ optimizer \in Optimizer
        /\ DOMAIN bank = 1 .. N
    BY PoolIs DEF TeamInv, BankOk
  <2>2. /\ Contenders \in Seq(Nat) /\ Len(Contenders) = N /\ Range(Contenders) = 1 .. N
        /\ IsFiniteSet(1 .. N) /\ Cardinality(1 .. N) = N
    <3>1. N \in Nat
      BY <2>1
    <3>. HIDE DEF N
    <3>. QED BY <2>1, <3>1, NamesAre, UpTo DEF Contenders
  <2>3. ASSUME how \in Found
        PROVE  /\ k \in Nat \ {0} /\ j \in Nat /\ k + j <= N /\ NeedsOk(need, k)
               /\ GridOk(scores, 1 .. N, k) /\ Ordered(scores, bank, need, 1 .. N, k)
    <3>1. AskedOk(query, need) /\ scores = Metric(optimizer, bank, need, need.overall)
      BY <2>3 DEF TeamInv
    <3>2. ShapeOk(need.size, N) /\ NeedsOk(need, k) /\ need.overall \in 0 .. 100
      BY <3>1 DEF AskedOk
    <3>3. k \in Nat \ {0} /\ j \in Nat /\ k + j <= N
      BY <3>2 DEF ShapeOk
    <3>. HIDE DEF N, k, j, bank, optimizer
    <3>4. GridOk(scores, 1 .. N, k) /\ Ordered(scores, bank, need, 1 .. N, k)
      BY <2>1, <3>1, <3>2, MetricIs
    <3>. QED BY <3>2, <3>3, <3>4
  <2>4. ASSUME how = "proven"
        PROVE  team \in Assignments(Contenders, k, j)
               /\ LeastTeam(optimizer, scores, Contenders, k, j, team)
    BY <2>4 DEF TeamInv, Teams
  <2>5. how = "greedy" => team = GreedyTeam(optimizer, scores, Contenders, k, j)
    BY DEF TeamInv
  <2>. HIDE DEF N, k, j, optimizer
  <2>6. ASSUME how \in {"proven", "greedy"}
        PROVE  team \in Assignments(Contenders, k, j) /\ NoneLeftOut(bank, need, 1 .. N, k, team)
    <3>1. how \in Found
      BY <2>6 DEF Found
    <3>. HIDE DEF bank
    <3>2. CASE how = "proven"
      BY <2>1, <2>2, <2>3, <2>4, <3>1, <3>2, LeastLeavesNoneOut
    <3>3. CASE how = "greedy"
      <4>1. /\ team \in Assignments(Contenders, k, j)
            /\ FirstServed(optimizer, scores, 1 .. N, team, k)
        <5>1. /\ Range(Contenders) \in SUBSET Nat /\ IsFiniteSet(Range(Contenders))
              /\ k + j <= Cardinality(Range(Contenders)) /\ GridOk(scores, Range(Contenders), k)
              /\ k \in Nat /\ j \in Nat
          BY <2>1, <2>2, <2>3, <3>1
        <5>2. /\ GreedyTeam(optimizer, scores, Contenders, k, j) \in Assignments(Contenders, k, j)
              /\ FirstServed(optimizer, scores, Range(Contenders),
                             GreedyTeam(optimizer, scores, Contenders, k, j), k)
          BY <5>1, GreedyTeamIs
        <5>. QED BY <2>2, <2>5, <3>3, <5>2
      <4>. QED BY <2>1, <2>2, <2>3, <3>1, <4>1, GreedyLeavesNoneOut
    <3>. QED BY <2>6, <3>2, <3>3
  <2>7. BetterModelNotLeftOut
    <3>. SUFFICES ASSUME how \in {"proven", "greedy"},
                         NEW m \in DOMAIN query.pool \ Assigned(team)
                  PROVE  /\ \A r \in DOMAIN team.role : ~Better(m, team.role[r], need.roles[r])
                         /\ \A n \in team.recovery : ~Better(m, n, need.recovery)
      BY DEF BetterModelNotLeftOut
    <3>1. DOMAIN team.role = 1 .. k /\ NoneLeftOut(bank, need, 1 .. N, k, team)
      BY <2>6, AssignmentIs
    <3>2. m \in 1 .. N \ Assigned(team)
      BY <2>1
    <3>3. \A n, p : Better(m, n, p) => BetterIn(bank, m, n, p)
      BY DEF Better, BetterIn
    <3>. HIDE DEF bank
    <3>4. ASSUME NEW r \in 1 .. k PROVE ~Better(m, team.role[r], need.roles[r])
      <4>1. ~BetterIn(bank, m, team.role[r], Asks(need, r))
        BY <3>1, <3>2 DEF NoneLeftOut
      <4>2. k \in Nat
        BY <2>3 DEF Found
      <4>3. Asks(need, r) = need.roles[r]
        BY <4>2 DEF Asks
      <4>. QED BY <3>3, <4>1, <4>3
    <3>5. ASSUME NEW n \in team.recovery PROVE ~Better(m, n, need.recovery)
      BY <3>1, <3>2, <3>3 DEF NoneLeftOut, Asks
    <3>. QED BY <3>1, <3>4, <3>5
  <2>8. NearlyLeast
    <3>. SUFFICES ASSUME how = "proven", query.optimizer = "task",
                         NEW b \in Assignments(Contenders, k, j)
                  PROVE  SumOf(scores, team) < SumOf(scores, b) + Cardinality(Assigned(team))
      BY DEF NearlyLeast, Contenders, k, j
    <3>1. /\ k \in Nat \ {0} /\ j \in Nat /\ GridOk(scores, 1 .. N, k)
          /\ team \in Assignments(Contenders, k, j)
      BY <2>3, <2>6 DEF Found
    <3>2. Cardinality(Assigned(team)) = k + j
      BY <2>2, <3>1, AssignedCount
    <3>3. TaskObjective(scores, N, team) <= TaskObjective(scores, N, b)
      <4>1. Goal("task", scores, Contenders, team) <= Goal("task", scores, Contenders, b)
        BY <2>4 DEF LeastTeam, optimizer
      <4>2. "task" \in Optimizer
        BY DEF Optimizer
      <4>. QED BY <2>2, <3>1, <4>1, <4>2, GoalIs
    <3>4. ASSUME NEW a \in Assignments(Contenders, k, j) PROVE SumOf(scores, a) \in Nat
      BY <2>2, <3>1, TotalNumber DEF SumOf, GridOk
    <3>5. SumOf(scores, team) < SumOf(scores, b) + (k + j)
      <4>1. Scores(scores.capability, 1 .. N, k) /\ Scores(scores.economy, 1 .. N, k)
        BY <3>1 DEF GridOk
      <4>2. k \in Nat /\ k + j >= 1 /\ N \in Nat
        BY <2>1, <3>1
      <4>. QED BY <2>2, <3>1, <3>3, <3>4, <4>1, <4>2, ProvenNearlyLeast
    <3>. QED BY <3>2, <3>5
  <2>9. RecoverySizedForAll
    BY DEF TeamInv, AskedOk, RecoverySizedForAll
  <2>. QED BY <2>7, <2>8, <2>9 DEF TeamWellChosen
<1>. QED BY <1>1, TeamInvHolds, PTL
================================================================================
