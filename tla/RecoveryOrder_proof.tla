------------------------- MODULE RecoveryOrder_proof -------------------------
(***************************************************************************)
(* Proofs about RecoveryOrder, for any rows, pool, inventory and plan: the *)
(* model a search settles on is the best it could have had, no search      *)
(* gives up early, and the zero-cost one keeps to its limit.  An order of  *)
(* keys gives ranks, ranks give the sorted inventory and the first of a    *)
(* window; the windows are never empty while something may be promoted.    *)
(***************************************************************************)
EXTENDS RecoveryOrder, FiniteSetTheorems, WellFoundedInduction, TLAPS

(***************************************************************************)
(* Numbers                                                                 *)
(***************************************************************************)
\* A non-empty set of natural numbers has a least one.
LEMMA LeastOf ==
  ASSUME NEW T \in SUBSET Nat, T # {}
  PROVE  Min(T) \in T /\ \A y \in T : Min(T) <= y
<1>1. \E x \in T : \A y \in T : ~ (<<y, x>> \in OpToRel(<, Nat))
  BY NatLessThanWellFounded, WFMin
<1>2. PICK x \in T : \A y \in T : ~ (<<y, x>> \in OpToRel(<, Nat))
  BY <1>1
<1>3. \A y \in T : ~(y < x)
  BY <1>2 DEF OpToRel
<1>4. \A y \in T : x =< y
  BY <1>3
<1>. QED BY <1>4 DEF Min

LEMMA AtMostIs ==
  ASSUME NEW i \in Int, NEW j \in Int
  PROVE  AtMost(i, j) = IF i <= j THEN i ELSE j
<1>. DEFINE T == {i, j}
            w == IF i <= j THEN i ELSE j
<1>1. w \in T /\ \A y \in T : w =< y
  OBVIOUS
<1>2. \A x \in T : (\A y \in T : x =< y) => x = w
  OBVIOUS
<1>3. Min(T) = w
  <2>. HIDE DEF T, w
  <2>. QED BY <1>1, <1>2 DEF Min
<1>. QED BY <1>3 DEF AtMost

LEMMA MaxOfTwo ==
  ASSUME NEW i \in Int, NEW j \in Int
  PROVE  Max({i, j}) = IF i <= j THEN j ELSE i
<1>. DEFINE T == {i, j}
            w == IF i <= j THEN j ELSE i
<1>1. w \in T /\ \A y \in T : w >= y
  OBVIOUS
<1>2. \A x \in T : (\A y \in T : x >= y) => x = w
  OBVIOUS
<1>3. Max(T) = w
  <2>. HIDE DEF T, w
  <2>. QED BY <1>1, <1>2 DEF Max
<1>. QED BY <1>3

LEMMA MaxOfThree ==
  ASSUME NEW i \in Int, NEW j \in Int, NEW k \in Int
  PROVE  Max({i, j, k}) \in {i, j, k}
<1>. DEFINE T == {i, j, k}
            v == IF i <= j THEN j ELSE i
            w == IF v <= k THEN k ELSE v
<1>1. w \in T /\ \A y \in T : w >= y
  OBVIOUS
<1>2. Max(T) \in T
  <2>. HIDE DEF T, w
  <2>. QED BY <1>1 DEF Max
<1>. QED BY <1>2

LEMMA AtLeastOneIs ==
  ASSUME NEW i \in Int
  PROVE  AtLeastOne(i) \in Nat /\ AtLeastOne(i) = IF 1 <= i THEN i ELSE 1
BY MaxOfTwo DEF AtLeastOne

LEMMA RootIs ==
  ASSUME NEW bound \in Nat, NEW a \in Int, NEW b \in Int
  PROVE  LET r == RootWithin(bound, a, b)
         IN  /\ r \in 0 .. bound
             /\ r = bound \/ r * r * b >= a
             /\ \A d \in 0 .. bound : d * d * b >= a => r <= d
<1>. DEFINE T == {bound} \cup {d \in 0 .. bound : d * d * b >= a}
<1>1. T \in SUBSET Nat /\ T # {}
  OBVIOUS
<1>2. Min(T) \in T /\ \A y \in T : Min(T) <= y
  <2>. HIDE DEF T
  <2>. QED BY <1>1, LeastOf
<1>3. RootWithin(bound, a, b) = Min(T)
  BY DEF RootWithin
<1>. DEFINE r == RootWithin(bound, a, b)
<1>4. r \in T /\ \A y \in T : r <= y
  BY <1>2, <1>3
<1>. HIDE DEF r
<1>. QED BY <1>4 DEF r

LEMMA ProductsGrow ==
  ASSUME NEW a \in Nat, NEW b \in Nat, NEW c \in Nat, NEW e \in Nat, a >= c, b >= e
  PROVE  a * b >= c * e
<1>1. a * b >= c * b
  <2>1. PICK x \in Nat : a = c + x
    <3>1. a - c \in Nat /\ a = c + (a - c)
      OBVIOUS
    <3>. QED BY <3>1
  <2>2. a * b = c * b + x * b /\ x * b \in Nat /\ c * b \in Nat
    BY <2>1
  <2>. QED BY <2>2
<1>2. c * b >= c * e
  <2>1. PICK x \in Nat : b = e + x
    <3>1. b - e \in Nat /\ b = e + (b - e)
      OBVIOUS
    <3>. QED BY <3>1
  <2>2. c * b = c * e + c * x /\ c * x \in Nat /\ c * e \in Nat
    BY <2>1
  <2>. QED BY <2>2
<1>3. a * b \in Int /\ c * b \in Int /\ c * e \in Int
  OBVIOUS
<1>. QED BY <1>1, <1>2, <1>3

(***************************************************************************)
(* The order of keys                                                       *)
(***************************************************************************)
LEMMA LowerIsStrict ==
  ASSUME NEW d \in Nat, NEW k \in [1 .. d -> Int], NEW l \in [1 .. d -> Int], Lower(k, l)
  PROVE  ~Lower(l, k)
<1>1. PICK i \in 1 .. d : k[i] < l[i] /\ \A j \in 1 .. i - 1 : k[j] = l[j]
  BY DEF Lower
<1>2. SUFFICES ASSUME NEW h \in 1 .. d, l[h] < k[h], \A j \in 1 .. h - 1 : l[j] = k[j]
      PROVE  FALSE
  BY DEF Lower
<1>3. i < h => i \in 1 .. h - 1
  OBVIOUS
<1>4. h < i => h \in 1 .. i - 1
  OBVIOUS
<1>. QED BY <1>1, <1>2, <1>3, <1>4

LEMMA LowerIsTransitive ==
  ASSUME NEW d \in Nat, NEW k \in [1 .. d -> Int], NEW l \in [1 .. d -> Int],
         NEW p \in [1 .. d -> Int], Lower(k, l), Lower(l, p)
  PROVE  Lower(k, p)
<1>1. PICK i \in 1 .. d : k[i] < l[i] /\ \A j \in 1 .. i - 1 : k[j] = l[j]
  BY DEF Lower
<1>2. PICK h \in 1 .. d : l[h] < p[h] /\ \A j \in 1 .. h - 1 : l[j] = p[j]
  BY DEF Lower
<1>3. CASE i <= h
  <2>1. k[i] < p[i]
    <3>1. CASE i = h
      BY <1>1, <1>2, <3>1
    <3>2. CASE i # h
      <4>1. i \in 1 .. h - 1
        BY <1>3, <3>2
      <4>. QED BY <1>1, <1>2, <4>1
    <3>. QED BY <3>1, <3>2
  <2>2. \A j \in 1 .. i - 1 : k[j] = p[j]
    <3>. TAKE j \in 1 .. i - 1
    <3>1. j \in 1 .. h - 1
      BY <1>3
    <3>. QED BY <1>1, <1>2, <3>1
  <2>. QED BY <2>1, <2>2 DEF Lower
<1>4. CASE h < i
  <2>1. h \in 1 .. i - 1
    BY <1>4
  <2>2. k[h] < p[h]
    BY <1>1, <1>2, <2>1
  <2>3. \A j \in 1 .. h - 1 : k[j] = p[j]
    <3>. TAKE j \in 1 .. h - 1
    <3>1. j \in 1 .. i - 1
      BY <1>4
    <3>. QED BY <1>1, <1>2, <3>1
  <2>. QED BY <2>2, <2>3 DEF Lower
<1>. QED BY <1>3, <1>4

LEMMA LowerIsTotal ==
  ASSUME NEW d \in Nat, NEW k \in [1 .. d -> Int], NEW l \in [1 .. d -> Int], k # l
  PROVE  Lower(k, l) \/ Lower(l, k)
<1>. DEFINE T == {i \in 1 .. d : k[i] # l[i]}
<1>1. T \in SUBSET Nat /\ T # {}
  OBVIOUS
<1>2. Min(T) \in T /\ \A y \in T : Min(T) <= y
  <2>. HIDE DEF T
  <2>. QED BY <1>1, LeastOf
<1>3. PICK i \in 1 .. d : k[i] # l[i] /\ \A y \in 1 .. d : k[y] # l[y] => i <= y
  BY <1>2
<1>4. \A j \in 1 .. i - 1 : k[j] = l[j]
  BY <1>3
<1>5. k[i] < l[i] \/ l[i] < k[i]
  BY <1>3
<1>. QED BY <1>4, <1>5 DEF Lower

(***************************************************************************)
(* Ranks                                                                   *)
(***************************************************************************)
\* The members of S that K puts ahead of x.
AheadBy(K, S, x) == {o \in S : Lower(K[o], K[x])}

LEMMA AheadGrows ==
  ASSUME NEW S, IsFiniteSet(S), NEW d \in Nat, NEW K \in [S -> [1 .. d -> Int]],
         NEW x \in S, NEW y \in S, Lower(K[x], K[y])
  PROVE  /\ Cardinality(AheadBy(K, S, x)) \in Nat
         /\ Cardinality(AheadBy(K, S, y)) \in Nat
         /\ Cardinality(AheadBy(K, S, x)) < Cardinality(AheadBy(K, S, y))
<1>. DEFINE A == AheadBy(K, S, x)
            B == AheadBy(K, S, y)
<1>0. /\ \A o \in S : K[o] \in [1 .. d -> Int]
      /\ A \in SUBSET S /\ B \in SUBSET S
  BY DEF AheadBy
<1>1. A \subseteq B
  <2>. SUFFICES ASSUME NEW o \in S, Lower(K[o], K[x]) PROVE Lower(K[o], K[y])
    BY DEF AheadBy
  <2>. QED BY <1>0, LowerIsTransitive
<1>2. x \in B /\ x \notin A
  <2>1. ~Lower(K[x], K[x])
    BY <1>0, LowerIsStrict
  <2>. QED BY <2>1 DEF AheadBy
<1>3. IsFiniteSet(A) /\ IsFiniteSet(B)
  BY <1>0, FS_Subset
<1>4. Cardinality(A) \in Nat /\ Cardinality(B) \in Nat
  BY <1>3, FS_CardinalityType
<1>5. Cardinality(A) <= Cardinality(B) /\ Cardinality(A) # Cardinality(B)
  BY <1>1, <1>2, <1>3, FS_Subset
<1>. QED BY <1>4, <1>5

\* As many ranks as members, and each is somebody's.
LEMMA RanksAreTaken ==
  ASSUME NEW S, IsFiniteSet(S), NEW d \in Nat, NEW K \in [S -> [1 .. d -> Int]],
         \A x, y \in S : K[x] = K[y] => x = y
  PROVE  /\ Cardinality(S) \in Nat
         /\ \A x \in S : Cardinality(AheadBy(K, S, x)) \in 0 .. Cardinality(S) - 1
         /\ \A x, y \in S : Cardinality(AheadBy(K, S, x)) = Cardinality(AheadBy(K, S, y)) => x = y
         /\ \A i \in 0 .. Cardinality(S) - 1 : \E x \in S : Cardinality(AheadBy(K, S, x)) = i
<1>. DEFINE n == Cardinality(S)
            f == [x \in S |-> Cardinality(AheadBy(K, S, x))]
<1>0. /\ \A o \in S : K[o] \in [1 .. d -> Int]
      /\ \A x \in S : AheadBy(K, S, x) \in SUBSET S
  BY DEF AheadBy
<1>1. n \in Nat
  BY FS_CardinalityType
<1>2. ASSUME NEW x \in S PROVE Cardinality(AheadBy(K, S, x)) \in 0 .. n - 1
  <2>1. x \notin AheadBy(K, S, x)
    <3>1. ~Lower(K[x], K[x])
      BY <1>0, LowerIsStrict
    <3>. QED BY <3>1 DEF AheadBy
  <2>2. IsFiniteSet(AheadBy(K, S, x)) /\ Cardinality(AheadBy(K, S, x)) \in Nat
    BY <1>0, FS_Subset, FS_CardinalityType
  <2>3. Cardinality(AheadBy(K, S, x)) <= n /\ Cardinality(AheadBy(K, S, x)) # n
    BY <1>0, <2>1, FS_Subset
  <2>. QED BY <1>1, <2>2, <2>3
<1>3. ASSUME NEW x \in S, NEW y \in S,
             Cardinality(AheadBy(K, S, x)) = Cardinality(AheadBy(K, S, y)), x # y
      PROVE  FALSE
  <2>1. K[x] # K[y]
    BY <1>3
  <2>2. Lower(K[x], K[y]) \/ Lower(K[y], K[x])
    BY <1>0, <2>1, LowerIsTotal
  <2>3. /\ Cardinality(AheadBy(K, S, x)) \in Nat /\ Cardinality(AheadBy(K, S, y)) \in Nat
        /\ \/ Cardinality(AheadBy(K, S, x)) < Cardinality(AheadBy(K, S, y))
           \/ Cardinality(AheadBy(K, S, y)) < Cardinality(AheadBy(K, S, x))
    <3>1. CASE Lower(K[x], K[y])
      BY <3>1, AheadGrows
    <3>2. CASE Lower(K[y], K[x])
      BY <3>2, AheadGrows
    <3>. QED BY <2>2, <3>1, <3>2
  <2>. QED BY <1>3, <2>3
<1>4. f \in Injection(S, 0 .. n - 1)
  BY <1>2, <1>3 DEF Injection, IsInjective
<1>5. IsFiniteSet(0 .. n - 1) /\ Cardinality(0 .. n - 1) = n
  BY <1>1, FS_Interval
<1>6. f \in Surjection(S, 0 .. n - 1)
  <2>. HIDE DEF f, n
  <2>. QED BY <1>4, <1>5, FS_Injection DEF n
<1>7. \A i \in 0 .. n - 1 : \E x \in S : f[x] = i
  BY <1>6 DEF Surjection
<1>. QED BY <1>1, <1>2, <1>3, <1>7

\* A finite set of more than nothing has a first member.
LEMMA FirstByKey ==
  ASSUME NEW S, IsFiniteSet(S), S # {}, NEW d \in Nat, NEW K \in [S -> [1 .. d -> Int]],
         \A x, y \in S : K[x] = K[y] => x = y
  PROVE  \E x \in S : \A o \in S \ {x} : Lower(K[x], K[o])
<1>1. Cardinality(S) \in Nat /\ Cardinality(S) # 0
  BY FS_CardinalityType, FS_EmptySet
<1>2. PICK x \in S : Cardinality(AheadBy(K, S, x)) = 0
  <2>1. \A i \in 0 .. Cardinality(S) - 1 : \E x \in S : Cardinality(AheadBy(K, S, x)) = i
    BY RanksAreTaken
  <2>2. 0 \in 0 .. Cardinality(S) - 1
    BY <1>1
  <2>. QED BY <2>1, <2>2
<1>3. AheadBy(K, S, x) \in SUBSET S /\ IsFiniteSet(AheadBy(K, S, x))
  <2>1. AheadBy(K, S, x) \in SUBSET S
    BY DEF AheadBy
  <2>. QED BY <2>1, FS_Subset
<1>4. AheadBy(K, S, x) = {}
  BY <1>2, <1>3, FS_EmptySet
<1>5. ASSUME NEW o \in S \ {x} PROVE Lower(K[x], K[o])
  <2>1. ~Lower(K[o], K[x])
    BY <1>4 DEF AheadBy
  <2>2. K[o] # K[x] /\ K[o] \in [1 .. d -> Int] /\ K[x] \in [1 .. d -> Int]
    OBVIOUS
  <2>. QED BY <2>1, <2>2, LowerIsTotal
<1>. QED BY <1>5

(***************************************************************************)
(* The keys of the models                                                  *)
(***************************************************************************)
LEMMA KeysAreNumbers ==
  ASSUME NEW m \in Models, NEW kind
  PROVE  /\ Merit(m, kind) \in [1 .. 2 -> Int]
         /\ RankKey(m, kind) \in [1 .. 6 -> Int]
         /\ RankKey(m, kind)[1] = Merit(m, kind)[1]
         /\ RankKey(m, kind)[2] = Merit(m, kind)[2]
         /\ RankKey(m, kind)[6] = m
<1>. DEFINE merit == Merit(m, kind)
            cost == CostSignal(m)
<1>1. /\ m \in Int
      /\ Row[m].quality \in Int \cup {Absent} /\ Row[m].failure \in Int \cup {Absent}
      /\ Row[m].task \in Int \cup {Absent} /\ Row[m].price \in Int \cup {Absent}
      /\ Row[m].cost \in Int \cup {Absent}
  BY OrderAssumption
<1>2. merit \in Int \X Int
  BY <1>1 DEF Merit, Signal
<1>3. cost \in Int \X Int
  BY <1>1 DEF CostSignal, Signal
<1>4. Repeated(m) \in Int
  BY DEF Repeated
<1>5. RankKey(m, kind) = <<merit[1], merit[2], cost[1], Repeated(m), cost[2], m>>
  BY DEF RankKey
<1>. HIDE DEF merit, cost
<1>6. merit \in [1 .. 2 -> Int]
  BY <1>2
<1>7. /\ merit[1] \in Int /\ merit[2] \in Int /\ cost[1] \in Int /\ cost[2] \in Int
  BY <1>2, <1>3
<1>8. RankKey(m, kind) \in [1 .. 6 -> Int]
  BY <1>1, <1>4, <1>5, <1>7
<1>. QED BY <1>5, <1>6, <1>8 DEF merit

\* Merit decides the rank.
LEMMA MeritRanks ==
  ASSUME NEW m \in Models, NEW o \in Models, NEW kind, Lower(Merit(o, kind), Merit(m, kind))
  PROVE  Lower(RankKey(o, kind), RankKey(m, kind))
<1>1. /\ Merit(m, kind) \in [1 .. 2 -> Int] /\ Merit(o, kind) \in [1 .. 2 -> Int]
      /\ RankKey(m, kind) \in [1 .. 6 -> Int] /\ RankKey(o, kind) \in [1 .. 6 -> Int]
      /\ \A i \in 1 .. 2 : /\ RankKey(m, kind)[i] = Merit(m, kind)[i]
                           /\ RankKey(o, kind)[i] = Merit(o, kind)[i]
  BY KeysAreNumbers
<1>2. PICK i \in 1 .. 2 : /\ Merit(o, kind)[i] < Merit(m, kind)[i]
                          /\ \A j \in 1 .. i - 1 : Merit(o, kind)[j] = Merit(m, kind)[j]
  BY <1>1 DEF Lower
<1>3. i \in 1 .. 6 /\ \A j \in 1 .. i - 1 : j \in 1 .. 2
  OBVIOUS
<1>4. i \in DOMAIN RankKey(o, kind)
  BY <1>1, <1>3
<1>5. RankKey(o, kind)[i] < RankKey(m, kind)[i]
  BY <1>1, <1>2
<1>6. \A j \in 1 .. i - 1 : RankKey(o, kind)[j] = RankKey(m, kind)[j]
  BY <1>1, <1>2, <1>3
<1>. QED BY <1>4, <1>5, <1>6 DEF Lower

\* Not to be outranked is passed on.
LEMMA UnoutrankedIsTransitive ==
  ASSUME NEW a \in Models, NEW b \in Models, NEW c \in Models, NEW kind,
         ~Lower(Merit(b, kind), Merit(a, kind)), ~Lower(Merit(c, kind), Merit(b, kind))
  PROVE  ~Lower(Merit(c, kind), Merit(a, kind))
<1>1. /\ Merit(a, kind) \in [1 .. 2 -> Int] /\ Merit(b, kind) \in [1 .. 2 -> Int]
      /\ Merit(c, kind) \in [1 .. 2 -> Int]
  BY KeysAreNumbers
<1>. SUFFICES ASSUME Lower(Merit(c, kind), Merit(a, kind)) PROVE FALSE
  OBVIOUS
<1>2. CASE Merit(a, kind) = Merit(b, kind)
  BY <1>2
<1>3. CASE Lower(Merit(a, kind), Merit(b, kind))
  <2>1. Lower(Merit(c, kind), Merit(b, kind))
    BY <1>1, <1>3, LowerIsTransitive
  <2>. QED BY <2>1
<1>. QED BY <1>1, <1>2, <1>3, LowerIsTotal

\* The ranked models: each of them once, and none outranks one before it.
LEMMA RankedIs ==
  ASSUME NEW S \in SUBSET Models, NEW kind
  PROVE  LET r == Ranked(S, kind)
             n == Cardinality(S)
         IN  /\ IsFiniteSet(S) /\ n \in Nat
             /\ r \in [1 .. n -> S]
             /\ \A m \in S : \E i \in 1 .. n : r[i] = m
             /\ \A i, j \in 1 .. n : r[i] = r[j] => i = j
             /\ \A i, j \in 1 .. n : i < j => ~Lower(Merit(r[j], kind), Merit(r[i], kind))
             /\ S # {} => /\ 1 \in 1 .. n
                          /\ \A o \in S : ~Lower(Merit(o, kind), Merit(r[1], kind))
<1>. DEFINE n == Cardinality(S)
            r == Ranked(S, kind)
            K == [m \in S |-> RankKey(m, kind)]
<1>1. IsFiniteSet(S)
  BY OrderAssumption, FS_Subset
<1>2. K \in [S -> [1 .. 6 -> Int]] /\ \A x, y \in S : K[x] = K[y] => x = y
  <2>1. \A m \in S : RankKey(m, kind) \in [1 .. 6 -> Int] /\ RankKey(m, kind)[6] = m
    BY KeysAreNumbers
  <2>. QED BY <2>1
<1>3. \A m \in S : Ahead(m, S, kind) = AheadBy(K, S, m)
  BY DEF Ahead, AheadBy
<1>4. /\ n \in Nat
      /\ \A x \in S : Cardinality(Ahead(x, S, kind)) \in 0 .. n - 1
      /\ \A x, y \in S : Cardinality(Ahead(x, S, kind)) = Cardinality(Ahead(y, S, kind)) => x = y
      /\ \A i \in 0 .. n - 1 : \E x \in S : Cardinality(Ahead(x, S, kind)) = i
  <2>. HIDE DEF K
  <2>2. /\ n \in Nat
        /\ \A x \in S : Cardinality(AheadBy(K, S, x)) \in 0 .. n - 1
        /\ \A x, y \in S : Cardinality(AheadBy(K, S, x)) = Cardinality(AheadBy(K, S, y)) => x = y
        /\ \A i \in 0 .. n - 1 : \E x \in S : Cardinality(AheadBy(K, S, x)) = i
    <3>. DEFINE d == 6
    <3>1. d \in Nat /\ K \in [S -> [1 .. d -> Int]]
      BY <1>2
    <3>. HIDE DEF d
    <3>2. n \in Nat /\ \A x \in S : Cardinality(AheadBy(K, S, x)) \in 0 .. n - 1
      BY <1>1, <1>2, <3>1, RanksAreTaken
    <3>3. \A x, y \in S :
            Cardinality(AheadBy(K, S, x)) = Cardinality(AheadBy(K, S, y)) => x = y
      BY <1>1, <1>2, <3>1, RanksAreTaken
    <3>4. \A i \in 0 .. n - 1 : \E x \in S : Cardinality(AheadBy(K, S, x)) = i
      BY <1>1, <1>2, <3>1, RanksAreTaken
    <3>. QED BY <3>2, <3>3, <3>4
  <2>. QED BY <1>3, <2>2
<1>5. /\ DOMAIN r = 1 .. n
      /\ \A i \in 1 .. n : r[i] = CHOOSE m \in S : Cardinality(Ahead(m, S, kind)) = i - 1
  BY DEF Ranked
<1>6. \A i \in 1 .. n : r[i] \in S /\ Cardinality(Ahead(r[i], S, kind)) = i - 1
  <2>. TAKE i \in 1 .. n
  <2>1. i - 1 \in 0 .. n - 1
    BY <1>4
  <2>2. \E m \in S : Cardinality(Ahead(m, S, kind)) = i - 1
    BY <1>4, <2>1
  <2>. QED BY <1>5, <2>2
<1>7. r \in [1 .. n -> S]
  <2>1. r = [i \in 1 .. n |-> r[i]]
    BY DEF Ranked
  <2>. HIDE DEF r
  <2>. QED BY <1>6, <2>1
<1>. HIDE DEF r
<1>8. ASSUME NEW m \in S PROVE \E i \in 1 .. n : r[i] = m
  <2>. DEFINE i == Cardinality(Ahead(m, S, kind)) + 1
  <2>1. i \in 1 .. n /\ i - 1 = Cardinality(Ahead(m, S, kind))
    BY <1>4
  <2>2. r[i] = m
    BY <1>4, <1>6, <2>1
  <2>. QED BY <2>1, <2>2
<1>9. \A i, j \in 1 .. n : r[i] = r[j] => i = j
  <2>. SUFFICES ASSUME NEW i \in 1 .. n, NEW j \in 1 .. n, r[i] = r[j] PROVE i = j
    OBVIOUS
  <2>1. i - 1 = j - 1
    BY <1>6
  <2>. QED BY <1>4, <2>1
<1>10. ASSUME NEW i \in 1 .. n, NEW j \in 1 .. n, i < j,
              Lower(Merit(r[j], kind), Merit(r[i], kind))
       PROVE  FALSE
  <2>1. Lower(K[r[j]], K[r[i]])
    BY <1>6, <1>10, MeritRanks, OrderAssumption
  <2>2. Cardinality(AheadBy(K, S, r[j])) < Cardinality(AheadBy(K, S, r[i]))
    <3>. HIDE DEF K
    <3>1. 6 \in Nat
      OBVIOUS
    <3>. QED BY <1>1, <1>2, <1>6, <2>1, <3>1, AheadGrows
  <2>3. j - 1 < i - 1
    BY <1>3, <1>6, <2>2
  <2>. QED BY <1>4, <1>10, <2>3
<1>11. ASSUME S # {}
       PROVE  1 \in 1 .. n /\ \A o \in S : ~Lower(Merit(o, kind), Merit(r[1], kind))
  <2>1. n # 0
    BY <1>1, <1>11, FS_EmptySet
  <2>2. 1 \in 1 .. n /\ 1 - 1 = 0
    BY <1>4, <2>1
  <2>3. Cardinality(Ahead(r[1], S, kind)) = 0 /\ r[1] \in S
    BY <1>6, <2>2
  <2>4. Ahead(r[1], S, kind) \in SUBSET S /\ IsFiniteSet(Ahead(r[1], S, kind))
    <3>1. Ahead(r[1], S, kind) \in SUBSET S
      BY DEF Ahead
    <3>. QED BY <3>1, <1>1, FS_Subset
  <2>5. Ahead(r[1], S, kind) = {}
    BY <2>3, <2>4, FS_EmptySet
  <2>6. \A o \in S : ~Lower(RankKey(o, kind), RankKey(r[1], kind))
    BY <2>5 DEF Ahead
  <2>. QED BY <2>2, <2>3, <2>6, MeritRanks
<1>. QED BY <1>1, <1>4, <1>7, <1>8, <1>9, <1>10, <1>11 DEF r

(***************************************************************************)
(* The searches                                                            *)
(***************************************************************************)
Inventory == Range(Standby)
Kinds == {"quality", "other"}
Ordinary == {"turn", "breadth", "batch", "lively", "window", "claim", "call"}
ZeroCost == {"entry", "probe", "asking", "free", "freeclaim", "freecall"}
Places == {"initial", "done"} \cup Ordinary \cup ZeroCost
Reasons == Ends \cup {"none", "blocked", "lowered", "exhausted", "bounded"}

SearchType ==
  [category : Ends \cup {"none"}, left : SUBSET Pool, called : SUBSET (Models \cup {0}),
   failed : Nat, depth : Int, choice : Models \cup {0}, listed : BOOLEAN,
   limit : Nat, missed : Nat]
PastType ==
  [over : SUBSET Models, order : {"none", "plan"} \cup Kinds, shut : BOOLEAN, first : Nat,
   why : Reasons]

SharedType ==
  /\ counted \in [attempts : Nat, failures : Nat, quality : Nat]
  /\ free \in [calls : Nat, privacy : Nat]
  /\ free.privacy <= free.calls
OwnType ==
  /\ at \in [Searcher -> Places]
  /\ search \in [Searcher -> SearchType]
  /\ past \in [Searcher -> PastType]

\* The inventory is only reordered, by merit for the failure it was sorted for,
\* and standby models alone are claimed.
InventoryInv ==
  /\ sortedFor \in {"plan"} \cup Kinds
  /\ inventory \in [1 .. Len(Standby) -> Inventory]
  /\ \A m \in Inventory : \E i \in 1 .. Len(Standby) : inventory[i] = m
  /\ \A i, j \in 1 .. Len(Standby) : inventory[i] = inventory[j] => i = j
  /\ sortedFor # "plan" =>
       \A i, j \in 1 .. Len(Standby) :
         i < j => ~Lower(Merit(inventory[j], sortedFor), Merit(inventory[i], sortedFor))
  /\ taken \subseteq Inventory

\* No standby model is left to promote, and none will be.
Spent == Inventory \subseteq taken \cup broken

\* A zero-cost search has a limit within the root of its first space, and has
\* not gone past it.
Bounded(limit, missed, first) ==
  /\ limit > 0 => first > 0 /\ limit <= RootWithin(first, first, 1) /\ missed <= limit
  /\ limit = 0 => first = 0 /\ missed = 0

\* What is known of a search at a place, by what it knows and what is past.
Fits(place, s, p) ==
  /\ place \in Ordinary => s.category \in Searching
  /\ place \in ZeroCost => s.category = "credit402"
  /\ place \in {"claim", "freeclaim"} => s.choice \in Inventory
  /\ place # "done" => p.why = "none"
  /\ place = "initial" => p.first = 0
  /\ Bounded(s.limit, s.missed, p.first)
  /\ place \in {"freeclaim", "freecall"} => s.limit > 0
  /\ place # "done" /\ s.limit > 0 => s.missed < s.limit
  /\ p.why = "bounded" => s.missed >= s.limit
  /\ place \in {"claim", "call"} /\ s.depth > 0 /\ p.order = FailureKind(s.category) =>
       \A m \in p.over : ~Lower(Merit(m, FailureKind(s.category)),
                                Merit(s.choice, FailureKind(s.category)))

\* It has nothing to promote, and promotion was not shut.
Wanting(place, s, p) ==
  /\ ~p.shut
  /\ \/ place \in {"batch", "lively", "window"} /\ s.depth < 1
     \/ p.why = "exhausted" /\ s.category # "credit402"

OwnInv ==
  \A n \in Searcher : /\ Fits(at[n], search[n], past[n])
                      /\ Wanting(at[n], search[n], past[n]) => Spent

OrderInv == SharedType /\ OwnType /\ InventoryInv /\ OwnInv

(***************************************************************************)
(* The depth of a window                                                   *)
(***************************************************************************)
LEMMA StandbyIs ==
  /\ Len(Standby) \in Nat /\ DOMAIN Standby = 1 .. Len(Standby)
  /\ Inventory \subseteq Models /\ IsFiniteSet(Inventory)
  /\ IsFiniteSet(1 .. Len(Standby)) /\ Cardinality(Inventory) = Len(Standby)
<1>. DEFINE k == Len(Standby)
<1>1. /\ k \in Nat /\ DOMAIN Standby = 1 .. k
      /\ Standby \in [1 .. k -> Models]
  BY OrderAssumption
<1>2. Inventory \subseteq Models
  BY <1>1 DEF Inventory, Range
<1>3. IsFiniteSet(Inventory)
  BY <1>2, OrderAssumption, FS_Subset
<1>. HIDE DEF k
<1>4. Standby \in [1 .. k -> Inventory]
  BY <1>1 DEF Inventory, Range
<1>5. \A i, j \in 1 .. k : Standby[i] = Standby[j] => i = j
  BY <1>1, OrderAssumption DEF IsInjective
<1>6. Standby \in Injection(1 .. k, Inventory)
  BY <1>4, <1>5 DEF Injection, IsInjective
<1>7. Standby \in Surjection(1 .. k, Inventory)
  BY <1>1, <1>4 DEF Surjection, Inventory, Range
<1>8. IsFiniteSet(1 .. k) /\ Cardinality(1 .. k) = k
  BY <1>1, FS_Interval
<1>9. Cardinality(1 .. k) = Cardinality(Inventory)
  BY <1>3, <1>6, <1>7, <1>8, FS_Injection, FS_Surjection
<1>. QED BY <1>1, <1>2, <1>3, <1>8, <1>9 DEF k

LEMMA EligibleIs ==
  ASSUME InventoryInv
  PROVE  /\ Eligible \in SUBSET (1 .. Len(Standby))
         /\ IsFiniteSet(Eligible) /\ Cardinality(Eligible) \in Nat
         /\ Cardinality(Eligible) = 0 <=> Eligible = {}
         /\ Eligible = {} <=> Spent
         /\ \A i \in Eligible : inventory[i] \in Inventory
<1>1. Eligible \in SUBSET (1 .. Len(Standby))
  BY DEF Eligible, InventoryInv
<1>2. IsFiniteSet(Eligible)
  BY <1>1, StandbyIs, FS_Subset
<1>3. Cardinality(Eligible) \in Nat /\ (Cardinality(Eligible) = 0 <=> Eligible = {})
  BY <1>2, FS_EmptySet, FS_CardinalityType
<1>4. Eligible = {} <=> Spent
  BY DEF Eligible, InventoryInv, Spent
<1>. QED BY <1>1, <1>2, <1>3, <1>4 DEF InventoryInv

LEMMA BreadthIs ==
  ASSUME OrderInv, NEW n \in Searcher
  PROVE  BreadthOf(n) \in Int /\ (~Spent => BreadthOf(n) >= 1)
<1>. DEFINE left == Len(inventory) - Cardinality(taken)
            a == AtLeastOne(counted.attempts)
            whole == 3 * a * Primaries
            part == (counted.failures + counted.quality) * Primaries
                      + AtMost(search[n].failed, Primaries) * a
            x == left * (whole + part) * (whole + part)
            y == Primaries * whole * whole
            root == RootWithin(left, x, y)
<1>1. Len(inventory) = Len(Standby)
  BY StandbyIs DEF OrderInv, InventoryInv
<1>2. IsFiniteSet(taken) /\ Cardinality(taken) \in Nat
  BY StandbyIs, FS_Subset, FS_CardinalityType DEF OrderInv, InventoryInv
<1>3. left \in Int
  BY <1>1, <1>2, StandbyIs
<1>4. ~Spent => left > 0
  <2>. SUFFICES ASSUME ~Spent PROVE left > 0
    OBVIOUS
  <2>1. taken # Inventory /\ taken \in SUBSET Inventory
    BY DEF OrderInv, InventoryInv, Spent
  <2>2. Cardinality(taken) <= Cardinality(Inventory) /\ Cardinality(taken) # Cardinality(Inventory)
    BY <2>1, StandbyIs, FS_Subset
  <2>. QED BY <1>1, <1>2, <2>2, StandbyIs
<1>5. /\ counted.attempts \in Nat /\ counted.failures \in Nat /\ counted.quality \in Nat
      /\ search[n].failed \in Nat /\ Primaries \in Nat
  BY OrderAssumption DEF OrderInv, SharedType, OwnType, SearchType
<1>6. a \in Int /\ AtMost(search[n].failed, Primaries) \in Int
  BY <1>5, AtLeastOneIs, AtMostIs
<1>. HIDE DEF a
<1>7. whole \in Int /\ part \in Int
  <2>1. 3 * a \in Int /\ (counted.failures + counted.quality) \in Int
    BY <1>5, <1>6
  <2>. QED BY <1>5, <1>6, <2>1
<1>. HIDE DEF whole, part, left
<1>8. x \in Int /\ y \in Int
  BY <1>3, <1>5, <1>7
<1>. HIDE DEF x, y
<1>9. left > 0 => AtMost(left, AtLeastOne(root)) \in Int /\ AtMost(left, AtLeastOne(root)) >= 1
  <2>. SUFFICES ASSUME left > 0 PROVE AtMost(left, AtLeastOne(root)) \in Int
                                      /\ AtMost(left, AtLeastOne(root)) >= 1
    OBVIOUS
  <2>1. left \in Nat
    BY <1>3
  <2>2. root \in Int
    BY <2>1, <1>8, RootIs
  <2>. HIDE DEF root
  <2>3. AtLeastOne(root) \in Int /\ AtLeastOne(root) >= 1
    BY <2>2, AtLeastOneIs
  <2>. QED BY <2>1, <2>3, AtMostIs
<1>10. BreadthOf(n) = IF left <= 0 THEN 0 ELSE AtMost(left, AtLeastOne(root))
  BY DEF BreadthOf, left, whole, part, a, x, y
<1>. HIDE DEF root
<1>. QED BY <1>3, <1>4, <1>9, <1>10

LEMMA BatchIs ==
  ASSUME OrderInv, NEW n \in Searcher, NEW breadth \in Int
  PROVE  /\ Batch(n, breadth) \in Int
         /\ breadth >= 1 /\ ~Spent => Batch(n, breadth) >= 1
<1>. DEFINE a == AtLeastOne(counted.attempts)
            firms == {Row[inventory[i]].company : i \in Eligible} \ {Absent}
            c == AtLeastOne(Cardinality(firms)) + 1
            T == {c} \cup {b \in 0 .. c : 2 ^ b >= c}
            bits == AtLeastOne(Min(T))
            part == Max({counted.failures * Primaries, counted.quality * Primaries,
                         AtMost(search[n].failed, Primaries) * a})
            goal == AtLeastOne(UpTo(bits * part, a * Primaries))
<1>1. /\ counted.attempts \in Nat /\ counted.failures \in Nat /\ counted.quality \in Nat
      /\ search[n].failed \in Nat /\ Primaries \in Nat \ {0}
  BY OrderAssumption DEF OrderInv, SharedType, OwnType, SearchType
<1>2. a \in Nat /\ a >= 1 /\ AtMost(search[n].failed, Primaries) \in Int
  BY <1>1, AtLeastOneIs, AtMostIs
<1>3. c \in Nat
  <2>1. Eligible \in SUBSET (1 .. Len(Standby)) /\ IsFiniteSet(Eligible)
    BY EligibleIs DEF OrderInv
  <2>2. {inventory[i] : i \in Eligible} \in SUBSET Inventory
    BY EligibleIs DEF OrderInv
  <2>3. firms \in SUBSET {Row[m].company : m \in Models}
    BY <2>2, StandbyIs
  <2>4. IsFiniteSet({Row[m].company : m \in Models})
    <3>. DEFINE C == {Row[m].company : m \in Models}
                f == [m \in Models |-> Row[m].company]
    <3>1. f \in Surjection(Models, C)
      BY DEF Surjection
    <3>. HIDE DEF f, C
    <3>2. IsFiniteSet(C)
      BY <3>1, OrderAssumption, FS_Surjection
    <3>. QED BY <3>2 DEF C
  <2>5. Cardinality(firms) \in Nat
    BY <2>3, <2>4, FS_Subset, FS_CardinalityType
  <2>. HIDE DEF firms
  <2>. QED BY <2>5, AtLeastOneIs
<1>. HIDE DEF a, c, firms
<1>4. Min(T) \in Nat
  <2>1. T \in SUBSET Nat /\ T # {}
    BY <1>3
  <2>. HIDE DEF T
  <2>. QED BY <2>1, LeastOf
<1>. HIDE DEF T
<1>5. bits \in Int
  BY <1>4, AtLeastOneIs
<1>. HIDE DEF bits
<1>6. part \in Int
  <2>1. /\ counted.failures * Primaries \in Int /\ counted.quality * Primaries \in Int
        /\ AtMost(search[n].failed, Primaries) * a \in Int
    BY <1>1, <1>2
  <2>. QED BY <2>1, MaxOfThree
<1>. HIDE DEF part
<1>7. UpTo(bits * part, a * Primaries) \in Int
  <2>1. a * Primaries \in Nat /\ a * Primaries > 0 /\ bits * part \in Int
    BY <1>1, <1>2, <1>5, <1>6
  <2>. DEFINE u == bits * part
              v == a * Primaries
  <2>. HIDE DEF u, v
  <2>2. u \in Int /\ v \in Nat /\ v > 0
    BY <2>1 DEF u, v
  <2>3. UpTo(u, v) \in Int
    BY <2>2 DEF UpTo
  <2>. QED BY <2>3 DEF u, v
<1>8. goal \in Int /\ goal >= 1
  BY <1>7, AtLeastOneIs
<1>. HIDE DEF goal
<1>9. Batch(n, breadth) = IF breadth <= 0 THEN 0
                          ELSE AtMost(breadth, AtMost(Cardinality(Eligible), goal))
  BY DEF Batch, a, firms, c, T, bits, part, goal
<1>10. /\ Cardinality(Eligible) \in Nat
       /\ ~Spent => Cardinality(Eligible) >= 1
  BY EligibleIs DEF OrderInv
<1>11. AtMost(Cardinality(Eligible), goal) \in Int
       /\ (~Spent => AtMost(Cardinality(Eligible), goal) >= 1)
  BY <1>8, <1>10, AtMostIs
<1>. QED BY <1>9, <1>11, AtMostIs

\* Whatever is asked, a root is within its bound.
LEMMA RootIsWithin ==
  ASSUME NEW bound \in Nat, NEW a, NEW b
  PROVE  RootWithin(bound, a, b) \in 0 .. bound
<1>. DEFINE T == {bound} \cup {d \in 0 .. bound : d * d * b >= a}
<1>1. T \in SUBSET (0 .. bound) /\ T \in SUBSET Nat /\ T # {}
  OBVIOUS
<1>2. Min(T) \in T
  <2>. HIDE DEF T
  <2>. QED BY <1>1, LeastOf
<1>. QED BY <1>1, <1>2 DEF RootWithin

LEMMA LivelyIs ==
  ASSUME OrderInv, NEW n \in Searcher, NEW batch \in Int
  PROVE  /\ Lively(n, batch) \in Int
         /\ batch >= 1 /\ ~Spent => Lively(n, batch) >= 1
<1>. DEFINE e == Cardinality(Eligible)
            root == RootWithin(e, batch * batch * Spatial(n).part * Temporal(n).part,
                               Spatial(n).whole * Temporal(n).whole)
            goal == AtLeastOne(batch + root)
<1>1. e \in Nat /\ (~Spent => e >= 1)
  BY EligibleIs DEF OrderInv
<1>2. root \in Int
  <2>. HIDE DEF e
  <2>. QED BY <1>1, RootIsWithin
<1>3. Lively(n, batch) = IF batch <= 0 THEN 0 ELSE AtMost(e, goal)
  BY DEF Lively
<1>. HIDE DEF e, root
<1>4. goal \in Int /\ goal >= 1
  BY <1>2, AtLeastOneIs
<1>. HIDE DEF goal
<1>. QED BY <1>1, <1>3, <1>4, AtMostIs

\* A window of at least one shows the first standby model that may be promoted.
LEMMA OfferedIs ==
  ASSUME InventoryInv, NEW depth \in Int
  PROVE  /\ Offered(depth) \in SUBSET {inventory[i] : i \in Eligible}
         /\ Offered(depth) \in SUBSET Inventory
         /\ depth >= 1 /\ Eligible # {} =>
              \E i \in Eligible : /\ inventory[i] \in Offered(depth)
                                  /\ \A j \in Eligible : i <= j
<1>1. /\ Eligible \in SUBSET (1 .. Len(Standby)) /\ Len(Standby) \in Nat
      /\ \A i \in Eligible : inventory[i] \in Inventory
  BY EligibleIs, StandbyIs
<1>2. Offered(depth) \in SUBSET {inventory[i] : i \in Eligible}
  BY DEF Offered
<1>3. Offered(depth) \in SUBSET Inventory
  BY <1>1, <1>2
<1>4. ASSUME depth >= 1, Eligible # {}
      PROVE  \E i \in Eligible : /\ inventory[i] \in Offered(depth)
                                 /\ \A j \in Eligible : i <= j
  <2>1. Eligible \in SUBSET Nat
    BY <1>1
  <2>2. PICK i \in Eligible : \A j \in Eligible : i <= j
    BY <2>1, <1>4, LeastOf
  <2>3. {j \in Eligible : j < i} = {}
    <3>1. ASSUME NEW j \in Eligible PROVE ~(j < i)
      <4>1. i \in Nat /\ j \in Nat /\ i <= j
        BY <2>1, <2>2
      <4>. QED BY <4>1
    <3>. QED BY <3>1
  <2>4. Cardinality({j \in Eligible : j < i}) < depth
    BY <1>4, <2>3, FS_EmptySet
  <2>5. inventory[i] \in Offered(depth)
    BY <2>2, <2>4 DEF Offered
  <2>. QED BY <2>2, <2>5
<1>. QED BY <1>2, <1>3, <1>4

\* The limit of a zero-cost search is within the square root of its first space.
LEMMA FreeDepthIs ==
  ASSUME OrderInv, NEW n \in Searcher, NEW count \in Nat, count > 0
  PROVE  /\ RootWithin(count, count, 1) \in Nat
         /\ FreeDepth(n, count) \in 1 .. RootWithin(count, count, 1)
<1>. DEFINE calls == AtLeastOne(free.calls)
            part == Max({ResourceShare(n) * calls, Refused * 100})
            whole == 100 * calls
            most == RootWithin(count, count, 1)
            root == RootWithin(count, count * part * part, whole * whole)
<1>1. free.calls \in Nat /\ free.privacy \in Nat /\ free.privacy <= free.calls
  BY DEF OrderInv, SharedType
<1>2. calls \in Nat /\ calls >= 1 /\ calls >= free.calls
  BY <1>1, AtLeastOneIs
<1>3. Refused \in Nat /\ Refused <= free.calls
  BY <1>1, AtMostIs DEF Refused
<1>4. ResourceShare(n) \in 0 .. 100
  BY OrderAssumption DEF ResourceShare
<1>5. FreeDepth(n, count) = AtMost(count, AtLeastOne(root))
  BY DEF FreeDepth
<1>. HIDE DEF calls
<1>6. part \in Nat /\ whole \in Nat /\ part <= whole
  <2>1. /\ ResourceShare(n) * calls \in Nat /\ ResourceShare(n) * calls <= 100 * calls
    <3>1. 100 * calls >= ResourceShare(n) * calls
      BY <1>2, <1>4, ProductsGrow
    <3>2. ResourceShare(n) * calls \in Nat /\ 100 * calls \in Nat
      BY <1>2, <1>4
    <3>. QED BY <3>1, <3>2
  <2>2. Refused * 100 \in Nat /\ Refused * 100 <= 100 * calls /\ 100 * calls \in Nat
    BY <1>1, <1>2, <1>3
  <2>. DEFINE u == ResourceShare(n) * calls
              v == Refused * 100
  <2>3. Max({u, v}) \in {u, v}
    <3>1. u \in Int /\ v \in Int
      <4>1. u \in Nat /\ v \in Nat
        BY <2>1, <2>2
      <4>. HIDE DEF u, v
      <4>. QED BY <4>1
    <3>. HIDE DEF u, v
    <3>. QED BY <3>1, MaxOfTwo
  <2>. QED BY <2>1, <2>2, <2>3
<1>. HIDE DEF part, whole
<1>7. /\ most \in Nat /\ most >= 1 /\ most <= count /\ most * most >= count
  <2>1. most \in 0 .. count /\ (most = count \/ most * most * 1 >= count)
    BY RootIs
  <2>. HIDE DEF most
  <2>2. most \in Nat /\ most <= count /\ most # 0
    BY <2>1
  <2>3. most * most \in Nat /\ most * most * 1 = most * most
    BY <2>2
  <2>4. most = count => most * most >= count
    <3>1. count * count >= count * 1
      BY ProductsGrow
    <3>. QED BY <3>1
  <2>. QED BY <2>1, <2>2, <2>3, <2>4
<1>8. most * most * (whole * whole) >= count * part * part
  <2>. HIDE DEF most
  <2>1. whole * whole >= part * part /\ whole * whole \in Nat /\ part * part \in Nat
        /\ most * most \in Nat
    BY <1>6, <1>7, ProductsGrow
  <2>2. (most * most) * (whole * whole) >= count * (part * part)
    BY <1>7, <2>1, ProductsGrow
  <2>3. count * (part * part) = count * part * part
    BY <1>6
  <2>. QED BY <2>2, <2>3
<1>9. root \in 0 .. count /\ root <= most
  <2>1. count * part * part \in Int /\ whole * whole \in Int
    BY <1>6
  <2>. DEFINE x == count * part * part
              y == whole * whole
  <2>2. \A d \in 0 .. count : d * d * y >= x => RootWithin(count, x, y) <= d
    <3>. HIDE DEF x, y
    <3>1. x \in Int /\ y \in Int
      BY <2>1 DEF x, y
    <3>. QED BY <3>1, RootIs
  <2>3. root \in 0 .. count
    BY RootIsWithin
  <2>4. most \in 0 .. count
    BY <1>7
  <2>. QED BY <1>8, <2>2, <2>3, <2>4
<1>. HIDE DEF most, root
<1>10. AtLeastOne(root) \in 1 .. most
  BY <1>7, <1>9, AtLeastOneIs
<1>11. AtMost(count, AtLeastOne(root)) \in 1 .. most
  BY <1>7, <1>10, AtMostIs
<1>. QED BY <1>5, <1>7, <1>11 DEF most

(***************************************************************************)
(* Steps                                                                   *)
(***************************************************************************)
\* A search moves and the others stay; models are only added to the claimed and
\* the broken ones.
LEMMA MoveKeeps ==
  ASSUME OrderInv, NEW n \in Searcher, NEW place \in Places, NEW s \in SearchType,
         NEW p \in PastType,
         at' = [at EXCEPT ![n] = place], search' = [search EXCEPT ![n] = s],
         past' = [past EXCEPT ![n] = p],
         taken \subseteq taken', broken \subseteq broken',
         Fits(place, s, p), Wanting(place, s, p) => Spent'
  PROVE  OwnType' /\ OwnInv'
<1>1. OwnType'
  BY DEF OrderInv, OwnType
<1>2. Spent => Spent'
  BY DEF Spent
<1>3. ASSUME NEW o \in Searcher
      PROVE  Fits(at'[o], search'[o], past'[o]) /\ (Wanting(at'[o], search'[o], past'[o]) => Spent')
  <2>1. CASE o = n
    <3>1. at'[o] = place /\ search'[o] = s /\ past'[o] = p
      BY <2>1 DEF OrderInv, OwnType
    <3>. QED BY <3>1
  <2>2. CASE o # n
    <3>1. at'[o] = at[o] /\ search'[o] = search[o] /\ past'[o] = past[o]
      BY <2>2 DEF OrderInv, OwnType
    <3>2. Fits(at[o], search[o], past[o]) /\ (Wanting(at[o], search[o], past[o]) => Spent)
      BY DEF OrderInv, OwnInv
    <3>. QED BY <1>2, <3>1, <3>2
  <2>. QED BY <2>1, <2>2
<1>. QED BY <1>1, <1>3 DEF OwnInv

\* What every search knows has a type.
LEMMA OwnIs ==
  ASSUME OrderInv, NEW n \in Searcher
  PROVE  /\ at[n] \in Places /\ search[n] \in SearchType /\ past[n] \in PastType
         /\ Fits(at[n], search[n], past[n])
         /\ Wanting(at[n], search[n], past[n]) => Spent
BY DEF OrderInv, OwnType, OwnInv

\* A search ends.
LEMMA LeaveKeeps ==
  ASSUME OrderInv, NEW n \in Searcher, NEW local, NEW reason \in Reasons,
         Leave(n, local, reason),
         local.category \in Ends \cup {"none"}, local.limit \in Nat, local.missed \in Nat,
         Bounded(local.limit, local.missed, past[n].first),
         reason = "bounded" => local.missed >= local.limit,
         reason = "exhausted" /\ local.category # "credit402" /\ ~past[n].shut => Spent',
         taken \subseteq taken', broken \subseteq broken'
  PROVE  OwnType' /\ OwnInv'
<1>. DEFINE s == [Unstarted EXCEPT !.category = local.category, !.limit = local.limit,
                                   !.missed = local.missed]
            p == [NothingPast EXCEPT !.shut = past[n].shut, !.first = past[n].first, !.why = reason]
<1>0. past[n] \in PastType
  BY OwnIs
<1>1. /\ s \in SearchType /\ s.category = local.category /\ s.limit = local.limit
      /\ s.missed = local.missed
  <2>1. Unstarted \in SearchType
    BY DEF Unstarted, SearchType
  <2>2. s \in SearchType
    BY <2>1 DEF SearchType
  <2>3. s.category = local.category /\ s.limit = local.limit /\ s.missed = local.missed
    BY <2>1 DEF SearchType
  <2>. QED BY <2>2, <2>3
<1>2. /\ p \in PastType /\ p.shut = past[n].shut /\ p.first = past[n].first /\ p.why = reason
  BY <1>0 DEF NothingPast, PastType
<1>3. /\ at' = [at EXCEPT ![n] = "done"] /\ search' = [search EXCEPT ![n] = s]
      /\ past' = [past EXCEPT ![n] = p]
  BY DEF Leave, GoOn
<1>. HIDE DEF s, p
<1>4. "done" \in Places
  BY DEF Places
<1>5. Fits("done", s, p)
  BY <1>1, <1>2 DEF Fits, Ordinary, ZeroCost
<1>6. Wanting("done", s, p) => Spent'
  BY <1>1, <1>2 DEF Wanting
<1>. QED BY <1>1, <1>2, <1>3, <1>4, <1>5, <1>6, MoveKeeps

\* A search starts, or begins another turn.
LEMMA GoOnKeeps ==
  ASSUME OrderInv, NEW n \in Searcher, NEW local \in SearchType,
         NEW where \in {"turn", "entry", "free"},
         GoOnWith(n, local, where),
         past[n].why = "none",
         where = "turn" => local.category \in Searching,
         where # "turn" => local.category = "credit402",
         Bounded(local.limit, local.missed, past[n].first),
         local.limit > 0 => local.missed < local.limit,
         taken \subseteq taken', broken \subseteq broken'
  PROVE  OwnType' /\ OwnInv'
<1>. DEFINE p == [past[n] EXCEPT !.over = {}, !.order = "none"]
<1>0. past[n] \in PastType
  BY OwnIs
<1>1. p \in PastType /\ p.first = past[n].first /\ p.why = "none"
  BY <1>0 DEF PastType
<1>2. /\ at' = [at EXCEPT ![n] = where] /\ search' = [search EXCEPT ![n] = local]
      /\ past' = [past EXCEPT ![n] = p]
  BY DEF GoOnWith, GoOn, OrderInv, OwnType
<1>. HIDE DEF p
<1>3. where \in Places
  BY DEF Places, Ordinary, ZeroCost
<1>4. Fits(where, local, p)
  BY <1>1 DEF Fits, Ordinary, ZeroCost
<1>5. Wanting(where, local, p) => Spent'
  BY <1>1 DEF Wanting
<1>. QED BY <1>1, <1>2, <1>3, <1>4, <1>5, MoveKeeps

\* A search moves on and remembers what it remembered.
LEMMA RestKeeps ==
  ASSUME OrderInv, UNCHANGED <<inventory, sortedFor>>, taken' \subseteq Inventory
  PROVE  InventoryInv'
BY DEF OrderInv, InventoryInv

\* What a call leaves behind in the memory of the run.
LEMMA RecordedKeeps ==
  ASSUME OrderInv, NEW model, NEW company, NEW end, Recorded(model, company, end)
  PROVE  /\ counted' \in [attempts : Nat, failures : Nat, quality : Nat]
         /\ broken \subseteq broken'
<1>1. counted.attempts \in Nat /\ counted.failures \in Nat /\ counted.quality \in Nat
  BY DEF OrderInv, SharedType
<1>2. counted' \in [attempts : Nat, failures : Nat, quality : Nat]
  BY <1>1 DEF Recorded
<1>3. broken \subseteq broken'
  BY DEF Recorded
<1>. QED BY <1>2, <1>3

(***************************************************************************)
(* The ordinary search                                                     *)
(***************************************************************************)
LEMMA InitialCallKeeps ==
  ASSUME OrderInv, NEW n \in Searcher, InitialCall(n)
  PROVE  OrderInv'
<1>1. PICK end \in Ends \ {"suppressed"} :
        /\ Recorded(Spot[n].model, Spot[n].company, end)
        /\ LET local == [Unstarted EXCEPT !.category = end, !.failed = 1]
           IN  CASE end \in Searching -> GoOnWith(n, local, "turn")
                 [] end = "credit402" -> GoOnWith(n, local, "entry")
                 [] OTHER -> Leave(n, local, end)
  BY DEF InitialCall
<1>2. at[n] = "initial" /\ inventory' = inventory /\ sortedFor' = sortedFor /\ taken' = taken
      /\ free' = free
  BY DEF InitialCall, sharedVars, freeVars
<1>3. /\ past[n] \in PastType /\ past[n].first = 0 /\ past[n].why = "none"
  BY <1>2, OwnIs DEF Fits
<1>. DEFINE local == [Unstarted EXCEPT !.category = end, !.failed = 1]
<1>4. local \in SearchType /\ local.category = end /\ local.limit = 0 /\ local.missed = 0
  <2>1. Unstarted \in SearchType /\ Unstarted.limit = 0 /\ Unstarted.missed = 0
    BY DEF Unstarted, SearchType
  <2>. QED BY <2>1 DEF SearchType
<1>5. \/ end \in Searching /\ GoOnWith(n, local, "turn")
      \/ end = "credit402" /\ GoOnWith(n, local, "entry")
      \/ end \notin Searching /\ Leave(n, local, end)
  BY <1>1
<1>. HIDE DEF local
<1>6. Bounded(local.limit, local.missed, past[n].first)
  BY <1>3, <1>4 DEF Bounded
<1>7. taken \subseteq taken' /\ broken \subseteq broken'
      /\ counted' \in [attempts : Nat, failures : Nat, quality : Nat]
  BY <1>1, <1>2, RecordedKeeps
<1>8. OwnType' /\ OwnInv'
  <2>1. CASE end \in Searching /\ GoOnWith(n, local, "turn")
    BY <2>1, <1>3, <1>4, <1>6, <1>7, GoOnKeeps
  <2>2. CASE end = "credit402" /\ GoOnWith(n, local, "entry")
    BY <2>2, <1>3, <1>4, <1>6, <1>7, GoOnKeeps
  <2>3. CASE end \notin Searching /\ Leave(n, local, end)
    <3>1. end \in Reasons /\ end # "bounded" /\ end # "exhausted"
      BY OrderAssumption DEF Reasons
    <3>. QED BY <2>3, <3>1, <1>4, <1>6, <1>7, LeaveKeeps
  <2>. QED BY <1>5, <2>1, <2>2, <2>3
<1>9. InventoryInv'
  BY <1>2, RestKeeps DEF OrderInv, InventoryInv
<1>10. SharedType'
  BY <1>2, <1>7 DEF OrderInv, SharedType
<1>. QED BY <1>8, <1>9, <1>10 DEF OrderInv

\* The inventory is sorted for the failure of this search.
LEMMA SortKeeps ==
  ASSUME OrderInv, NEW kind \in Kinds,
         inventory' = Ranked(Range(inventory), kind), sortedFor' = kind, taken' = taken
  PROVE  InventoryInv'
<1>1. Range(inventory) = Inventory
  BY DEF OrderInv, InventoryInv, Range
<1>2. Inventory \in SUBSET Models /\ Cardinality(Inventory) = Len(Standby) /\ kind # "plan"
  BY StandbyIs DEF Kinds
<1>. DEFINE r == Ranked(Inventory, kind)
            k == Len(Standby)
<1>3. r \in [1 .. k -> Inventory]
  BY <1>2, RankedIs
<1>4. \A m \in Inventory : \E i \in 1 .. k : r[i] = m
  BY <1>2, RankedIs
<1>5. \A i, j \in 1 .. k : r[i] = r[j] => i = j
  BY <1>2, RankedIs
<1>6. \A i, j \in 1 .. k : i < j => ~Lower(Merit(r[j], kind), Merit(r[i], kind))
  BY <1>2, RankedIs
<1>7. inventory' = r
  BY <1>1
<1>. HIDE DEF r
<1>. QED BY <1>3, <1>4, <1>5, <1>6, <1>7 DEF OrderInv, InventoryInv

LEMMA TurnKeeps ==
  ASSUME OrderInv, NEW n \in Searcher, Turn(n)
  PROVE  OrderInv'
<1>1. /\ at[n] = "turn" /\ broken' = broken /\ counted' = counted /\ free' = free
  BY DEF Turn, memoryVars, freeVars
<1>2. /\ search[n] \in SearchType /\ past[n] \in PastType /\ past[n].why = "none"
      /\ search[n].category \in Searching
      /\ Bounded(search[n].limit, search[n].missed, past[n].first)
      /\ search[n].limit > 0 => search[n].missed < search[n].limit
  BY <1>1, OwnIs DEF Fits, Ordinary
<1>3. SharedType'
  BY <1>1 DEF OrderInv, SharedType
<1>4. CASE Leave(n, search[n], "blocked") /\ UNCHANGED sharedVars
  <2>1. /\ taken \subseteq taken' /\ broken \subseteq broken' /\ "blocked" \in Reasons
        /\ search[n].category \in Ends \cup {"none"} /\ search[n].limit \in Nat
        /\ search[n].missed \in Nat
    BY <1>1, <1>2, <1>4 DEF sharedVars, Reasons, SearchType
  <2>2. OwnType' /\ OwnInv'
    BY <1>2, <1>4, <2>1, LeaveKeeps
  <2>3. InventoryInv'
    BY <1>4 DEF sharedVars, OrderInv, InventoryInv
  <2>. QED BY <1>3, <2>2, <2>3 DEF OrderInv
<1>5. CASE /\ search' = [search EXCEPT ![n].left = @ \ (search[n].called \cup broken)]
           /\ inventory' = Ranked(Range(inventory), FailureKind(search[n].category))
           /\ sortedFor' = FailureKind(search[n].category)
           /\ GoOn(n, "breadth")
           /\ UNCHANGED <<taken, past>>
  <2>. DEFINE s == [search[n] EXCEPT !.left = @ \ (search[n].called \cup broken)]
              p == past[n]
  <2>1. FailureKind(search[n].category) \in Kinds
    BY DEF FailureKind, Kinds
  <2>2. InventoryInv'
    BY <1>5, <2>1, SortKeeps
  <2>3. s \in SearchType
    BY <1>2 DEF SearchType
  <2>4. s.category = search[n].category /\ s.limit = search[n].limit /\ s.missed = search[n].missed
    BY <1>2 DEF SearchType
  <2>5. search' = [search EXCEPT ![n] = s]
    BY <1>5 DEF OrderInv, OwnType
  <2>6. past' = [past EXCEPT ![n] = p] /\ at' = [at EXCEPT ![n] = "breadth"]
    BY <1>5 DEF OrderInv, OwnType, GoOn
  <2>7. "breadth" \in Places
    BY DEF Places, Ordinary
  <2>. HIDE DEF s, p
  <2>8. Fits("breadth", s, p)
    BY <1>2, <2>4 DEF Fits, Ordinary, ZeroCost, p
  <2>9. ~Wanting("breadth", s, p)
    BY <1>2 DEF Wanting, p
  <2>10. p \in PastType /\ taken \subseteq taken' /\ broken \subseteq broken'
    BY <1>1, <1>2, <1>5 DEF p
  <2>11. OwnType' /\ OwnInv'
    BY <2>3, <2>5, <2>6, <2>7, <2>8, <2>9, <2>10, MoveKeeps
  <2>. QED BY <1>3, <2>2, <2>11 DEF OrderInv
<1>. QED BY <1>4, <1>5 DEF Turn

\* The window is looked up in three layers, none of which closes it.
LEMMA WindowKeeps ==
  ASSUME OrderInv, NEW n \in Searcher, NEW depth \in Int, NEW shut \in BOOLEAN,
         NEW where \in {"batch", "lively", "window"},
         at[n] \in {"breadth", "batch", "lively"}, GoOn(n, where), Reaches(n, depth),
         past' = [past EXCEPT ![n].shut = shut],
         ~shut /\ depth < 1 => Spent,
         UNCHANGED <<memoryVars, sharedVars, freeVars>>
  PROVE  OrderInv'
<1>1. /\ broken' = broken /\ counted' = counted /\ free' = free
      /\ inventory' = inventory /\ sortedFor' = sortedFor /\ taken' = taken
  BY DEF memoryVars, freeVars, sharedVars
<1>2. /\ search[n] \in SearchType /\ past[n] \in PastType /\ past[n].why = "none"
      /\ search[n].category \in Searching
      /\ Bounded(search[n].limit, search[n].missed, past[n].first)
      /\ search[n].limit > 0 => search[n].missed < search[n].limit
  BY OwnIs DEF Fits, Ordinary
<1>. DEFINE s == [search[n] EXCEPT !.depth = depth]
            p == [past[n] EXCEPT !.shut = shut]
<1>3. s \in SearchType
  BY <1>2 DEF SearchType
<1>4. /\ s.category = search[n].category /\ s.limit = search[n].limit
      /\ s.missed = search[n].missed /\ s.depth = depth
  BY <1>2 DEF SearchType
<1>5. p \in PastType
  BY <1>2 DEF PastType
<1>6. p.why = "none" /\ p.first = past[n].first /\ p.shut = shut
  BY <1>2 DEF PastType
<1>7. search' = [search EXCEPT ![n] = s] /\ at' = [at EXCEPT ![n] = where]
  BY DEF Reaches, GoOn, OrderInv, OwnType
<1>8. past' = [past EXCEPT ![n] = p]
  BY DEF OrderInv, OwnType
<1>. HIDE DEF s, p
<1>9. where \in Places
  BY DEF Places, Ordinary
<1>10. Fits(where, s, p)
  BY <1>2, <1>4, <1>6 DEF Fits, Ordinary, ZeroCost
<1>11. Wanting(where, s, p) => Spent'
  BY <1>1, <1>4, <1>6 DEF Wanting, Spent
<1>12. OwnType' /\ OwnInv'
  BY <1>1, <1>3, <1>5, <1>7, <1>8, <1>9, <1>10, <1>11, MoveKeeps
<1>13. InventoryInv'
  BY <1>1, RestKeeps DEF OrderInv, InventoryInv
<1>14. SharedType'
  BY <1>1 DEF OrderInv, SharedType
<1>. QED BY <1>12, <1>13, <1>14 DEF OrderInv

LEMMA BreadthKeeps ==
  ASSUME OrderInv, NEW n \in Searcher, Breadth(n)
  PROVE  OrderInv'
<1>1. PICK shut \in BOOLEAN : /\ Reaches(n, IF shut THEN 0 ELSE BreadthOf(n))
                              /\ past' = [past EXCEPT ![n].shut = shut]
  <2>1. PICK blocked \in BlockedAsRead :
          /\ Reaches(n, IF Systemic \/ blocked THEN 0 ELSE BreadthOf(n))
          /\ past' = [past EXCEPT ![n].shut = Systemic \/ blocked]
    BY DEF Breadth
  <2>2. (Systemic \/ blocked) \in BOOLEAN
    OBVIOUS
  <2>. QED BY <2>1, <2>2
<1>. DEFINE depth == IF shut THEN 0 ELSE BreadthOf(n)
<1>2. depth \in Int /\ (~shut /\ depth < 1 => Spent)
  BY BreadthIs
<1>3. /\ at[n] = "breadth" /\ GoOn(n, "batch") /\ UNCHANGED <<memoryVars, sharedVars, freeVars>>
  BY DEF Breadth
<1>. HIDE DEF depth
<1>4. Reaches(n, depth) /\ past' = [past EXCEPT ![n].shut = shut]
  BY <1>1 DEF depth
<1>. QED BY <1>2, <1>3, <1>4, WindowKeeps

LEMMA NarrowKeeps ==
  ASSUME OrderInv, NEW n \in Searcher, Narrow(n)
  PROVE  OrderInv'
<1>. DEFINE depth == Batch(n, search[n].depth)
<1>1. /\ at[n] = "batch" /\ GoOn(n, "lively") /\ UNCHANGED <<memoryVars, sharedVars, freeVars>>
      /\ Reaches(n, depth) /\ past' = past
  BY DEF Narrow
<1>2. /\ search[n].depth \in Int /\ past[n].shut \in BOOLEAN
      /\ past' = [past EXCEPT ![n].shut = past[n].shut]
  BY <1>1, OwnIs DEF SearchType, PastType, OrderInv, OwnType
<1>3. ~past[n].shut /\ search[n].depth < 1 => Spent
  BY <1>1, OwnIs DEF Wanting
<1>4. depth \in Int /\ (search[n].depth >= 1 /\ ~Spent => depth >= 1)
  BY <1>2, BatchIs
<1>. HIDE DEF depth
<1>5. ~past[n].shut /\ depth < 1 => Spent
  BY <1>2, <1>3, <1>4
<1>. QED BY <1>1, <1>2, <1>4, <1>5, WindowKeeps

LEMMA WidenKeeps ==
  ASSUME OrderInv, NEW n \in Searcher, Widen(n)
  PROVE  OrderInv'
<1>. DEFINE depth == Lively(n, search[n].depth)
<1>1. /\ at[n] = "lively" /\ GoOn(n, "window") /\ UNCHANGED <<memoryVars, sharedVars, freeVars>>
      /\ Reaches(n, depth) /\ past' = past
  BY DEF Widen
<1>2. /\ search[n].depth \in Int /\ past[n].shut \in BOOLEAN
      /\ past' = [past EXCEPT ![n].shut = past[n].shut]
  BY <1>1, OwnIs DEF SearchType, PastType, OrderInv, OwnType
<1>3. ~past[n].shut /\ search[n].depth < 1 => Spent
  BY <1>1, OwnIs DEF Wanting
<1>4. depth \in Int /\ (search[n].depth >= 1 /\ ~Spent => depth >= 1)
  BY <1>2, LivelyIs
<1>. HIDE DEF depth
<1>5. ~past[n].shut /\ depth < 1 => Spent
  BY <1>2, <1>3, <1>4
<1>. QED BY <1>1, <1>2, <1>4, <1>5, WindowKeeps

\* The first of the ranked models is outranked by none.
LEMMA FirstRanked ==
  ASSUME NEW S \in SUBSET Models, S # {}, NEW kind
  PROVE  /\ Ranked(S, kind)[1] \in S
         /\ \A o \in S : ~Lower(Merit(o, kind), Merit(Ranked(S, kind)[1], kind))
<1>1. Ranked(S, kind) \in [1 .. Cardinality(S) -> S]
  BY RankedIs
<1>2. 1 \in 1 .. Cardinality(S)
  BY RankedIs
<1>3. \A o \in S : ~Lower(Merit(o, kind), Merit(Ranked(S, kind)[1], kind))
  BY RankedIs
<1>. QED BY <1>1, <1>2, <1>3

\* The first by the node's own key, of the rows left and the window, is
\* outranked by nothing that is left or may still be promoted, if the inventory
\* is sorted for the node's failure.
LEMMA FirstIsNotOutranked ==
  ASSUME InventoryInv, NEW kind \in Kinds, NEW left \in SUBSET Pool, NEW depth \in Int,
         depth >= 1, sortedFor = kind, left \cup Offered(depth) # {}
  PROVE  \A o \in left \cup {inventory[i] : i \in Eligible} :
            ~Lower(Merit(o, kind), Merit(Ranked(left \cup Offered(depth), kind)[1], kind))
<1>. DEFINE space == left \cup Offered(depth)
            m == Ranked(space, kind)[1]
<1>1. /\ Offered(depth) \in SUBSET Inventory /\ Inventory \in SUBSET Models
      /\ Pool \in SUBSET Models
  BY OfferedIs, StandbyIs, OrderAssumption
<1>2. space \in SUBSET Models /\ space # {}
  BY <1>1
<1>3. m \in space /\ \A o \in space : ~Lower(Merit(o, kind), Merit(m, kind))
  <2>. HIDE DEF space
  <2>. QED BY <1>2, FirstRanked
<1>. HIDE DEF m
<1>4. ASSUME NEW i \in Eligible PROVE ~Lower(Merit(inventory[i], kind), Merit(m, kind))
  <2>1. PICK h \in Eligible : inventory[h] \in Offered(depth) /\ \A j \in Eligible : h <= j
    BY OfferedIs
  <2>2. /\ i \in 1 .. Len(Standby) /\ h \in 1 .. Len(Standby) /\ Len(Standby) \in Nat
        /\ inventory[i] \in Models /\ inventory[h] \in Models
    BY <1>1, EligibleIs, StandbyIs
  <2>3. h <= i
    BY <2>1
  <2>4. ~Lower(Merit(inventory[h], kind), Merit(m, kind))
    BY <1>3, <2>1
  <2>5. ~Lower(Merit(inventory[i], kind), Merit(inventory[h], kind))
    <3>1. CASE h = i
      <4>1. Merit(inventory[i], kind) \in [1 .. 2 -> Int]
        BY <2>2, KeysAreNumbers
      <4>. QED BY <3>1, <4>1, LowerIsStrict
    <3>2. CASE h # i
      <4>1. h < i
        BY <2>2, <2>3, <3>2
      <4>. QED BY <2>2, <4>1 DEF InventoryInv, Kinds
    <3>. QED BY <3>1, <3>2
  <2>. QED BY <1>2, <1>3, <2>2, <2>4, <2>5, UnoutrankedIsTransitive
<1>. QED BY <1>3, <1>4 DEF m

LEMMA ChooseKeeps ==
  ASSUME OrderInv, NEW n \in Searcher, Choose(n)
  PROVE  OrderInv'
<1>. DEFINE kind == FailureKind(search[n].category)
            left == search[n].left
            space == left \cup Offered(search[n].depth)
            m == Ranked(space, kind)[1]
            over == (left \cup {inventory[i] : i \in Eligible}) \ {m}
<1>1. /\ at[n] = "window" /\ broken' = broken /\ counted' = counted /\ free' = free
      /\ inventory' = inventory /\ sortedFor' = sortedFor /\ taken' = taken
  BY DEF Choose, memoryVars, freeVars, sharedVars
<1>2. /\ search[n] \in SearchType /\ past[n] \in PastType /\ past[n].why = "none"
      /\ search[n].category \in Searching
      /\ Bounded(search[n].limit, search[n].missed, past[n].first)
      /\ search[n].limit > 0 => search[n].missed < search[n].limit
  BY <1>1, OwnIs DEF Fits, Ordinary
<1>3. ~past[n].shut /\ search[n].depth < 1 => Spent
  BY <1>1, OwnIs DEF Wanting
<1>4. kind \in Kinds /\ search[n].depth \in Int /\ left \in SUBSET Pool
  BY <1>2 DEF FailureKind, Kinds, SearchType
<1>5. InventoryInv
  BY DEF OrderInv
<1>6. Offered(search[n].depth) \in SUBSET Inventory
  BY <1>4, <1>5, OfferedIs
<1>7. InventoryInv'
  BY <1>1, RestKeeps DEF OrderInv, InventoryInv
<1>8. SharedType'
  BY <1>1 DEF OrderInv, SharedType
<1>9. CASE space = {} /\ Leave(n, search[n], "exhausted")
  <2>1. ~past[n].shut => Spent
    <3>1. CASE search[n].depth < 1
      BY <1>3, <3>1
    <3>2. CASE ~(search[n].depth < 1)
      <4>1. search[n].depth >= 1 /\ Offered(search[n].depth) = {}
        BY <1>4, <1>9, <3>2
      <4>2. Eligible = {}
        BY <1>4, <1>5, <4>1, OfferedIs
      <4>. QED BY <1>5, <4>2, EligibleIs
    <3>. QED BY <3>1, <3>2
  <2>2. Spent => Spent'
    BY <1>1 DEF Spent
  <2>3. /\ "exhausted" \in Reasons /\ search[n].category \in Ends \cup {"none"}
        /\ search[n].limit \in Nat /\ search[n].missed \in Nat
        /\ taken \subseteq taken' /\ broken \subseteq broken'
    BY <1>1, <1>2 DEF Reasons, SearchType
  <2>4. OwnType' /\ OwnInv'
    BY <1>2, <1>9, <2>1, <2>2, <2>3, LeaveKeeps
  <2>. QED BY <1>7, <1>8, <2>4 DEF OrderInv
<1>10. CASE /\ space # {}
            /\ search' = [search EXCEPT ![n].choice = m, ![n].left = left \ {m}]
            /\ past' = [past EXCEPT ![n].over = over, ![n].order = sortedFor]
            /\ GoOn(n, IF m \in Pool THEN "call" ELSE "claim")
  <2>. DEFINE s == [search[n] EXCEPT !.choice = m, !.left = left \ {m}]
              p == [past[n] EXCEPT !.over = over, !.order = sortedFor]
              where == IF m \in Pool THEN "call" ELSE "claim"
  <2>1. space \in SUBSET Models /\ Inventory \in SUBSET Models /\ Pool \in SUBSET Models
    BY <1>4, <1>6, StandbyIs, OrderAssumption
  <2>2. m \in space
    <3>. HIDE DEF space, kind
    <3>. QED BY <1>10, <2>1, FirstRanked
  <2>3. over \in SUBSET Models
    BY <1>4, <1>5, <2>1, EligibleIs
  <2>4. m \notin Pool => m \in Inventory
    BY <1>4, <1>6, <2>2
  <2>5. sortedFor = kind /\ search[n].depth > 0 =>
          \A o \in over : ~Lower(Merit(o, kind), Merit(m, kind))
    <3>1. search[n].depth > 0 => search[n].depth >= 1
      BY <1>4
    <3>. HIDE DEF kind, left
    <3>. QED BY <1>4, <1>5, <1>10, <3>1, FirstIsNotOutranked
  <2>. HIDE DEF m, over
  <2>6. s \in SearchType
    BY <1>2, <2>1, <2>2 DEF SearchType
  <2>7. /\ s.category = search[n].category /\ s.limit = search[n].limit
        /\ s.missed = search[n].missed /\ s.depth = search[n].depth /\ s.choice = m
    BY <1>2 DEF SearchType
  <2>8. p \in PastType
    BY <1>2, <1>5, <2>3 DEF PastType, InventoryInv
  <2>9. p.why = "none" /\ p.first = past[n].first /\ p.over = over /\ p.order = sortedFor
    BY <1>2 DEF PastType
  <2>10. search' = [search EXCEPT ![n] = s] /\ at' = [at EXCEPT ![n] = where]
    BY <1>10 DEF GoOn, OrderInv, OwnType
  <2>11. past' = [past EXCEPT ![n] = p]
    BY <1>10 DEF OrderInv, OwnType
  <2>12. where \in Places /\ where \in {"call", "claim"} /\ (where = "claim" => m \notin Pool)
    BY DEF Places, Ordinary
  <2>. HIDE DEF s, p, where
  <2>13. Fits(where, s, p)
    <3>1. where \notin ZeroCost /\ where \in Ordinary /\ where \notin {"freeclaim", "freecall"}
          /\ where # "initial" /\ where # "done"
      BY <2>12 DEF ZeroCost, Ordinary
    <3>2. s.depth > 0 /\ p.order = FailureKind(s.category) =>
            \A o \in p.over : ~Lower(Merit(o, FailureKind(s.category)),
                                     Merit(s.choice, FailureKind(s.category)))
      BY <2>5, <2>7, <2>9
    <3>. QED BY <1>2, <2>4, <2>7, <2>9, <2>12, <3>1, <3>2 DEF Fits
  <2>14. ~Wanting(where, s, p)
    BY <2>9, <2>12 DEF Wanting
  <2>15. OwnType' /\ OwnInv'
    BY <1>1, <2>6, <2>8, <2>10, <2>11, <2>12, <2>13, <2>14, MoveKeeps
  <2>. QED BY <1>7, <1>8, <2>15 DEF OrderInv
<1>. QED BY <1>9, <1>10 DEF Choose

\* A search without a candidate.
LEMMA IdleIs ==
  ASSUME NEW s \in SearchType
  PROVE  LET idle == [s EXCEPT !.choice = 0, !.depth = 0]
         IN  /\ idle \in SearchType /\ idle.category = s.category
             /\ idle.limit = s.limit /\ idle.missed = s.missed
             /\ idle.failed = s.failed /\ idle.called = s.called
<1>. DEFINE z == 0
            idle == [s EXCEPT !.choice = z, !.depth = z]
<1>1. z \in Models \cup {0} /\ z \in Int
  OBVIOUS
<1>. HIDE DEF z
<1>2. idle \in SearchType
  BY <1>1 DEF SearchType
<1>3. /\ idle.category = s.category /\ idle.limit = s.limit /\ idle.missed = s.missed
      /\ idle.failed = s.failed /\ idle.called = s.called
  BY DEF SearchType
<1>. QED BY <1>2, <1>3 DEF z

\* An attempt has failed or passed.
Attempted(s, end, m) ==
  [s EXCEPT !.category = end, !.failed = @ + IF end = "passed" THEN 0 ELSE 1,
            !.called = @ \cup {m}]

LEMMA AttemptIs ==
  ASSUME NEW s \in SearchType, NEW end \in Ends, NEW m \in Models \cup {0}
  PROVE  /\ Attempted(s, end, m) \in SearchType /\ Attempted(s, end, m).category = end
         /\ Attempted(s, end, m).limit = s.limit /\ Attempted(s, end, m).missed = s.missed
<1>. DEFINE f == s.failed + IF end = "passed" THEN 0 ELSE 1
            c == s.called \cup {m}
            local == [s EXCEPT !.category = end, !.failed = f, !.called = c]
<1>1. f \in Nat /\ c \in SUBSET (Models \cup {0})
  BY DEF SearchType
<1>2. local = Attempted(s, end, m)
  BY DEF SearchType, Attempted
<1>. HIDE DEF f, c
<1>3. local \in SearchType
  BY <1>1 DEF SearchType
<1>4. local.category = end /\ local.limit = s.limit /\ local.missed = s.missed
  BY DEF SearchType
<1>. QED BY <1>2, <1>3, <1>4

LEMMA ClaimChoiceKeeps ==
  ASSUME OrderInv, NEW n \in Searcher, ClaimChoice(n)
  PROVE  OrderInv'
<1>1. /\ at[n] = "claim" /\ broken' = broken /\ counted' = counted /\ free' = free
      /\ inventory' = inventory /\ sortedFor' = sortedFor
  BY DEF ClaimChoice, memoryVars, freeVars
<1>2. /\ search[n] \in SearchType /\ past[n] \in PastType /\ past[n].why = "none"
      /\ search[n].category \in Searching /\ search[n].choice \in Inventory
      /\ Bounded(search[n].limit, search[n].missed, past[n].first)
      /\ search[n].limit > 0 => search[n].missed < search[n].limit
  BY <1>1, OwnIs DEF Fits, Ordinary
<1>3. SharedType'
  BY <1>1 DEF OrderInv, SharedType
<1>4. CASE GoOnWith(n, [search[n] EXCEPT !.choice = 0, !.depth = 0], "turn") /\ taken' = taken
  <2>. DEFINE local == [search[n] EXCEPT !.choice = 0, !.depth = 0]
  <2>1. local \in SearchType
    BY <1>2, IdleIs
  <2>2. /\ local.category = search[n].category /\ local.limit = search[n].limit
        /\ local.missed = search[n].missed
    BY <1>2, IdleIs
  <2>3. taken \subseteq taken' /\ broken \subseteq broken'
    BY <1>1, <1>4
  <2>. HIDE DEF local
  <2>4. GoOnWith(n, local, "turn")
    BY <1>4 DEF local
  <2>5. OwnType' /\ OwnInv'
    BY <1>2, <2>1, <2>2, <2>3, <2>4, GoOnKeeps
  <2>6. InventoryInv'
    BY <1>1, <1>4, RestKeeps DEF OrderInv, InventoryInv
  <2>. QED BY <1>3, <2>5, <2>6 DEF OrderInv
<1>5. CASE GoOn(n, "call") /\ taken' = taken \cup {search[n].choice} /\ UNCHANGED <<search, past>>
  <2>1. /\ at' = [at EXCEPT ![n] = "call"] /\ search' = [search EXCEPT ![n] = search[n]]
        /\ past' = [past EXCEPT ![n] = past[n]] /\ "call" \in Places
        /\ taken \subseteq taken' /\ broken \subseteq broken'
    BY <1>1, <1>5 DEF GoOn, OrderInv, OwnType, Places, Ordinary
  <2>2. Fits("call", search[n], past[n])
    BY <1>1, OwnIs DEF Fits, Ordinary, ZeroCost
  <2>3. ~Wanting("call", search[n], past[n])
    BY <1>2 DEF Wanting
  <2>4. OwnType' /\ OwnInv'
    BY <1>2, <2>1, <2>2, <2>3, MoveKeeps
  <2>5. InventoryInv'
    BY <1>1, <1>2, <1>5, RestKeeps DEF OrderInv, InventoryInv
  <2>. QED BY <1>3, <2>4, <2>5 DEF OrderInv
<1>. QED BY <1>4, <1>5 DEF ClaimChoice

LEMMA CallEndsKeeps ==
  ASSUME OrderInv, NEW n \in Searcher, CallEnds(n)
  PROVE  OrderInv'
<1>. DEFINE m == search[n].choice
            idle == [search[n] EXCEPT !.choice = 0, !.depth = 0]
            Local(end) == Attempted(idle, end, m)
<1>1. /\ at[n] = "call" /\ inventory' = inventory /\ sortedFor' = sortedFor /\ taken' = taken
      /\ free' = free
  BY DEF CallEnds, sharedVars, freeVars
<1>2. /\ search[n] \in SearchType /\ past[n] \in PastType /\ past[n].why = "none"
      /\ search[n].category \in Searching
      /\ Bounded(search[n].limit, search[n].missed, past[n].first)
      /\ search[n].limit > 0 => search[n].missed < search[n].limit
  BY <1>1, OwnIs DEF Fits, Ordinary
<1>3. /\ idle \in SearchType /\ idle.category = search[n].category
      /\ idle.limit = search[n].limit /\ idle.missed = search[n].missed
  BY <1>2, IdleIs
<1>4. InventoryInv'
  BY <1>1, RestKeeps DEF OrderInv, InventoryInv
<1>5. m \in Models \cup {0}
  BY <1>2 DEF SearchType
<1>6. PICK end \in Ends :
        IF end = "suppressed"
        THEN GoOnWith(n, idle, "turn") /\ UNCHANGED memoryVars
        ELSE /\ Recorded(m, Row[m].company, end)
             /\ IF end \in Searching THEN GoOnWith(n, Local(end), "turn")
                ELSE Leave(n, Local(end), end)
  BY DEF CallEnds, Attempted
<1>. HIDE DEF idle, m
<1>7. CASE end = "suppressed"
  <2>1. GoOnWith(n, idle, "turn") /\ broken' = broken /\ counted' = counted
    BY <1>6, <1>7 DEF memoryVars
  <2>2. taken \subseteq taken' /\ broken \subseteq broken'
    BY <1>1, <2>1
  <2>3. OwnType' /\ OwnInv'
    BY <1>2, <1>3, <2>1, <2>2, GoOnKeeps
  <2>4. SharedType'
    BY <1>1, <2>1 DEF OrderInv, SharedType
  <2>. QED BY <1>4, <2>3, <2>4 DEF OrderInv
<1>8. CASE end # "suppressed"
  <2>. DEFINE local == Local(end)
  <2>1. /\ local \in SearchType /\ local.category = end /\ local.limit = search[n].limit
        /\ local.missed = search[n].missed
    BY <1>3, <1>5, AttemptIs
  <2>2. /\ Recorded(m, Row[m].company, end)
        /\ \/ end \in Searching /\ GoOnWith(n, local, "turn")
           \/ Leave(n, local, end)
    BY <1>6, <1>8
  <2>. HIDE DEF local
  <2>3. taken \subseteq taken' /\ broken \subseteq broken'
        /\ counted' \in [attempts : Nat, failures : Nat, quality : Nat]
    BY <1>1, <2>2, RecordedKeeps
  <2>4. OwnType' /\ OwnInv'
    <3>1. CASE end \in Searching /\ GoOnWith(n, local, "turn")
      BY <1>2, <2>1, <2>3, <3>1, GoOnKeeps
    <3>2. CASE Leave(n, local, end)
      <4>1. /\ end \in Reasons /\ end # "bounded" /\ end # "exhausted"
            /\ local.limit \in Nat /\ local.missed \in Nat
        BY OrderAssumption, <2>1 DEF Reasons, SearchType
      <4>. QED BY <1>2, <2>1, <2>3, <3>2, <4>1, LeaveKeeps
    <3>. QED BY <2>2, <3>1, <3>2
  <2>5. SharedType'
    BY <1>1, <2>3 DEF OrderInv, SharedType
  <2>. QED BY <1>4, <2>4, <2>5 DEF OrderInv
<1>. QED BY <1>7, <1>8

(***************************************************************************)
(* The zero-cost search                                                    *)
(***************************************************************************)
\* A zero-cost search moves on without a call.
LEMMA FreeMoveKeeps ==
  ASSUME OrderInv, NEW n \in Searcher, NEW listed \in BOOLEAN,
         NEW where \in {"probe", "asking", "free"},
         at[n] \in {"entry", "probe", "asking"},
         at' = [at EXCEPT ![n] = where],
         search' = [search EXCEPT ![n].listed = listed], past' = past,
         UNCHANGED <<memoryVars, sharedVars, free>>
  PROVE  OrderInv'
<1>1. /\ broken' = broken /\ counted' = counted /\ free' = free
      /\ inventory' = inventory /\ sortedFor' = sortedFor /\ taken' = taken
  BY DEF memoryVars, sharedVars
<1>2. /\ search[n] \in SearchType /\ past[n] \in PastType /\ past[n].why = "none"
      /\ search[n].category = "credit402"
      /\ Bounded(search[n].limit, search[n].missed, past[n].first)
      /\ search[n].limit > 0 => search[n].missed < search[n].limit
  BY OwnIs DEF Fits, ZeroCost
<1>. DEFINE s == [search[n] EXCEPT !.listed = listed]
            p == past[n]
<1>3. s \in SearchType
  BY <1>2 DEF SearchType
<1>4. s.category = search[n].category /\ s.limit = search[n].limit /\ s.missed = search[n].missed
  BY <1>2 DEF SearchType
<1>5. search' = [search EXCEPT ![n] = s] /\ past' = [past EXCEPT ![n] = p]
  BY DEF OrderInv, OwnType
<1>. HIDE DEF s
<1>6. where \in Places
  BY DEF Places, ZeroCost
<1>7. Fits(where, s, p)
  BY <1>2, <1>4 DEF Fits, Ordinary, ZeroCost
<1>8. ~Wanting(where, s, p)
  BY <1>2 DEF Wanting
<1>9. OwnType' /\ OwnInv'
  BY <1>1, <1>2, <1>3, <1>5, <1>6, <1>7, <1>8, MoveKeeps
<1>10. InventoryInv' /\ SharedType'
  BY <1>1, RestKeeps DEF OrderInv, InventoryInv, SharedType
<1>. QED BY <1>9, <1>10 DEF OrderInv

LEMMA EnterFreeKeeps ==
  ASSUME OrderInv, NEW n \in Searcher, EnterFree(n)
  PROVE  OrderInv'
<1>1. /\ at[n] = "entry" /\ broken' = broken /\ counted' = counted /\ free' = free
      /\ inventory' = inventory /\ sortedFor' = sortedFor /\ taken' = taken
      /\ UNCHANGED <<memoryVars, sharedVars, free>>
  BY DEF EnterFree, memoryVars, sharedVars, freeVars
<1>2. search[n] \in SearchType /\ past[n] \in PastType
      /\ Bounded(search[n].limit, search[n].missed, past[n].first)
  BY OwnIs DEF Fits
<1>3. CASE GoOn(n, "probe") /\ UNCHANGED <<search, past>>
  <2>1. /\ at' = [at EXCEPT ![n] = "probe"] /\ past' = past /\ search[n].listed \in BOOLEAN
        /\ search' = [search EXCEPT ![n].listed = search[n].listed]
    BY <1>2, <1>3 DEF GoOn, OrderInv, OwnType, SearchType
  <2>. QED BY <1>1, <2>1, FreeMoveKeeps
<1>4. CASE Leave(n, search[n], "lowered")
  <2>1. /\ "lowered" \in Reasons /\ search[n].category \in Ends \cup {"none"}
        /\ search[n].limit \in Nat /\ search[n].missed \in Nat
        /\ taken \subseteq taken' /\ broken \subseteq broken'
    BY <1>1, <1>2 DEF Reasons, SearchType
  <2>2. OwnType' /\ OwnInv'
    BY <1>2, <1>4, <2>1, LeaveKeeps
  <2>3. InventoryInv' /\ SharedType'
    BY <1>1, RestKeeps DEF OrderInv, InventoryInv, SharedType
  <2>. QED BY <2>2, <2>3 DEF OrderInv
<1>. QED BY <1>3, <1>4 DEF EnterFree

LEMMA AskPolicyKeeps ==
  ASSUME OrderInv, NEW n \in Searcher, AskPolicy(n)
  PROVE  OrderInv'
<1>1. /\ at[n] = "probe" /\ past' = past /\ UNCHANGED <<memoryVars, sharedVars, free>>
  BY DEF AskPolicy
<1>2. CASE GoOn(n, "asking") /\ UNCHANGED search
  <2>1. /\ at' = [at EXCEPT ![n] = "asking"] /\ search[n].listed \in BOOLEAN
        /\ search' = [search EXCEPT ![n].listed = search[n].listed]
    BY <1>2, OwnIs DEF GoOn, OrderInv, OwnType, SearchType
  <2>. QED BY <1>1, <2>1, FreeMoveKeeps
<1>3. CASE Hears(n, probe = "listed") /\ GoOn(n, "free")
  <2>1. (probe = "listed") \in BOOLEAN
    OBVIOUS
  <2>. QED BY <1>1, <1>3, <2>1, FreeMoveKeeps DEF Hears, GoOn
<1>. QED BY <1>2, <1>3 DEF AskPolicy

LEMMA PolicyAnsweredKeeps ==
  ASSUME OrderInv, NEW n \in Searcher, PolicyAnswered(n)
  PROVE  OrderInv'
<1>1. /\ at[n] = "asking" /\ past' = past /\ UNCHANGED <<memoryVars, sharedVars, free>>
      /\ Hears(n, probe' = "listed") /\ GoOn(n, "free")
  BY DEF PolicyAnswered
<1>2. (probe' = "listed") \in BOOLEAN
  OBVIOUS
<1>. QED BY <1>1, <1>2, FreeMoveKeeps DEF Hears, GoOn

\* The cheapest of the free space, by the order of its keys.
LEMMA FreeSpaceIs ==
  ASSUME OrderInv, NEW n \in Searcher
  PROVE  /\ FreeSpace(n) \in SUBSET (Pool \cup Inventory) /\ FreeSpace(n) \in SUBSET Models
         /\ IsFiniteSet(FreeSpace(n)) /\ Cardinality(FreeSpace(n)) \in Nat
         /\ FreeSpace(n) # {} => Cardinality(FreeSpace(n)) > 0
         /\ FreeSpace(n) # {} =>
              \E m \in FreeSpace(n) :
                \A o \in FreeSpace(n) \ {m} : Lower(FreeKey(n, m), FreeKey(n, o))
<1>. DEFINE S == FreeSpace(n)
            K == [m \in S |-> FreeKey(n, m)]
            d == 3
<1>1. Range(inventory) = Inventory
  BY DEF OrderInv, InventoryInv, Range
<1>2. S \in SUBSET (Pool \cup Inventory)
  BY <1>1 DEF FreeSpace
<1>3. S \in SUBSET Models
  BY <1>2, StandbyIs, OrderAssumption
<1>4. IsFiniteSet(S)
  BY <1>3, OrderAssumption, FS_Subset
<1>5. Cardinality(S) \in Nat /\ (S # {} => Cardinality(S) > 0)
  BY <1>4, FS_CardinalityType, FS_EmptySet
<1>6. ASSUME NEW m \in S PROVE FreeKey(n, m) \in [1 .. 3 -> Int] /\ FreeKey(n, m)[3] = m
  <2>1. /\ m \in Int /\ Row[m].price \in Int \cup {Absent}
    BY <1>3, OrderAssumption
  <2>2. Compatibility(n, m) \in Int
    BY DEF Compatibility
  <2>3. Signal(Row[m].price, 0) \in Int
    BY <2>1 DEF Signal
  <2>. QED BY <2>1, <2>2, <2>3 DEF FreeKey
<1>7. K \in [S -> [1 .. 3 -> Int]] /\ \A x, y \in S : K[x] = K[y] => x = y
  <2>. HIDE DEF S
  <2>. QED BY <1>6
<1>8. ASSUME S # {}
      PROVE  \E m \in S : \A o \in S \ {m} : Lower(FreeKey(n, m), FreeKey(n, o))
  <2>1. d \in Nat /\ K \in [S -> [1 .. d -> Int]]
    BY <1>7
  <2>2. \E m \in S : \A o \in S \ {m} : Lower(K[m], K[o])
    <3>. HIDE DEF K, S, d
    <3>. QED BY <1>4, <1>7, <1>8, <2>1, FirstByKey
  <2>. QED BY <2>2
<1>. QED BY <1>2, <1>3, <1>4, <1>5, <1>8

LEMMA ChooseFreeKeeps ==
  ASSUME OrderInv, NEW n \in Searcher, ChooseFree(n)
  PROVE  OrderInv'
<1>. DEFINE space == FreeSpace(n)
            count == Cardinality(space)
            m == CHOOSE m \in space : \A o \in space \ {m} : Lower(FreeKey(n, m), FreeKey(n, o))
            limit == IF search[n].limit = 0 THEN FreeDepth(n, count) ELSE search[n].limit
            first == IF past[n].first = 0 THEN count ELSE past[n].first
<1>1. /\ at[n] = "free" /\ broken' = broken /\ counted' = counted /\ free' = free
      /\ inventory' = inventory /\ sortedFor' = sortedFor /\ taken' = taken
  BY DEF ChooseFree, memoryVars, sharedVars, freeVars
<1>2. /\ search[n] \in SearchType /\ past[n] \in PastType /\ past[n].why = "none"
      /\ search[n].category = "credit402"
      /\ Bounded(search[n].limit, search[n].missed, past[n].first)
      /\ search[n].limit > 0 => search[n].missed < search[n].limit
  BY <1>1, OwnIs DEF Fits, ZeroCost
<1>3. InventoryInv' /\ SharedType'
  BY <1>1, RestKeeps DEF OrderInv, InventoryInv, SharedType
<1>4. CASE Leave(n, search[n], "exhausted")
  <2>1. /\ "exhausted" \in Reasons /\ search[n].category \in Ends \cup {"none"}
        /\ search[n].limit \in Nat /\ search[n].missed \in Nat
        /\ taken \subseteq taken' /\ broken \subseteq broken'
    BY <1>1, <1>2 DEF Reasons, SearchType
  <2>2. OwnType' /\ OwnInv'
    BY <1>2, <1>4, <2>1, LeaveKeeps
  <2>. QED BY <1>3, <2>2 DEF OrderInv
<1>5. CASE /\ space # {}
           /\ search' = [search EXCEPT ![n].choice = m,
                           ![n].limit = IF @ = 0 THEN FreeDepth(n, count) ELSE @]
           /\ past' = [past EXCEPT ![n].first = IF @ = 0 THEN count ELSE @]
           /\ GoOn(n, IF m \in Pool THEN "freecall" ELSE "freeclaim")
  <2>. DEFINE s == [search[n] EXCEPT !.choice = m, !.limit = limit]
              p == [past[n] EXCEPT !.first = first]
              where == IF m \in Pool THEN "freecall" ELSE "freeclaim"
  <2>1. /\ space \in SUBSET (Pool \cup Inventory) /\ space \in SUBSET Models
        /\ count \in Nat /\ count > 0
    BY <1>5, FreeSpaceIs
  <2>2. m \in space
    <3>1. \E x \in space : \A o \in space \ {x} : Lower(FreeKey(n, x), FreeKey(n, o))
      BY <1>5, FreeSpaceIs
    <3>. HIDE DEF space
    <3>. QED BY <3>1
  <2>3. search' = [search EXCEPT ![n] = s]
    <3>. HIDE DEF m, count
    <3>. QED BY <1>5 DEF OrderInv, OwnType
  <2>4. past' = [past EXCEPT ![n] = p]
    <3>. HIDE DEF count
    <3>. QED BY <1>5 DEF OrderInv, OwnType
  <2>5. at' = [at EXCEPT ![n] = where]
    BY <1>5 DEF GoOn
  <2>. HIDE DEF m
  <2>6. /\ limit \in Nat /\ limit > 0 /\ first \in Nat
        /\ Bounded(limit, search[n].missed, first) /\ search[n].missed < limit
    <3>. HIDE DEF count
    <3>0. search[n].limit \in Nat /\ search[n].missed \in Nat /\ past[n].first \in Nat
      BY <1>2 DEF SearchType, PastType
    <3>1. CASE search[n].limit = 0
      <4>1. /\ RootWithin(count, count, 1) \in Nat
            /\ FreeDepth(n, count) \in 1 .. RootWithin(count, count, 1)
        BY <2>1, FreeDepthIs
      <4>2. past[n].first = 0 /\ search[n].missed = 0
        BY <1>2, <3>1 DEF Bounded
      <4>. QED BY <2>1, <3>0, <3>1, <4>1, <4>2 DEF Bounded
    <3>2. CASE search[n].limit # 0
      <4>1. search[n].limit > 0 /\ past[n].first > 0
        BY <1>2, <3>0, <3>2 DEF Bounded
      <4>2. limit = search[n].limit /\ first = past[n].first
        BY <3>0, <3>2, <4>1
      <4>. QED BY <1>2, <3>0, <4>1, <4>2
    <3>. QED BY <3>1, <3>2
  <2>. HIDE DEF limit, first
  <2>7. s \in SearchType
    BY <1>2, <2>1, <2>2, <2>6 DEF SearchType
  <2>8. /\ s.category = search[n].category /\ s.limit = limit
        /\ s.missed = search[n].missed /\ s.choice = m
    BY <1>2 DEF SearchType
  <2>9. p \in PastType
    BY <1>2, <2>6 DEF PastType
  <2>10. p.why = "none" /\ p.first = first
    BY <1>2 DEF PastType
  <2>11. /\ where \in Places /\ where \in {"freecall", "freeclaim"}
         /\ where = "freeclaim" => m \in Inventory
    BY <2>1, <2>2 DEF Places, ZeroCost
  <2>. HIDE DEF s, p, where
  <2>12. Fits(where, s, p)
    BY <1>2, <2>6, <2>8, <2>10, <2>11 DEF Fits, Ordinary, ZeroCost
  <2>13. ~Wanting(where, s, p)
    BY <2>10, <2>11 DEF Wanting
  <2>14. taken \subseteq taken' /\ broken \subseteq broken'
    BY <1>1
  <2>15. OwnType' /\ OwnInv'
    BY <2>3, <2>4, <2>5, <2>7, <2>9, <2>11, <2>12, <2>13, <2>14, MoveKeeps
  <2>. QED BY <1>3, <2>15 DEF OrderInv
<1>. QED BY <1>4, <1>5 DEF ChooseFree

LEMMA ClaimFreeKeeps ==
  ASSUME OrderInv, NEW n \in Searcher, ClaimFree(n)
  PROVE  OrderInv'
<1>1. /\ at[n] = "freeclaim" /\ broken' = broken /\ counted' = counted /\ free' = free
      /\ inventory' = inventory /\ sortedFor' = sortedFor
  BY DEF ClaimFree, memoryVars, freeVars
<1>2. /\ search[n] \in SearchType /\ past[n] \in PastType /\ past[n].why = "none"
      /\ search[n].category = "credit402" /\ search[n].choice \in Inventory
      /\ search[n].limit > 0
      /\ Bounded(search[n].limit, search[n].missed, past[n].first)
      /\ search[n].limit > 0 => search[n].missed < search[n].limit
  BY <1>1, OwnIs DEF Fits, ZeroCost
<1>3. SharedType'
  BY <1>1 DEF OrderInv, SharedType
<1>4. CASE GoOnWith(n, [search[n] EXCEPT !.choice = 0], "free") /\ taken' = taken
  <2>. DEFINE z == 0
              local == [search[n] EXCEPT !.choice = z]
  <2>0. z \in Models \cup {0} /\ GoOnWith(n, local, "free")
    BY <1>4
  <2>. HIDE DEF z
  <2>1. local \in SearchType
    BY <1>2, <2>0 DEF SearchType
  <2>2. /\ local.category = search[n].category /\ local.limit = search[n].limit
        /\ local.missed = search[n].missed
    BY <1>2 DEF SearchType
  <2>3. taken \subseteq taken' /\ broken \subseteq broken'
    BY <1>1, <1>4
  <2>. HIDE DEF local
  <2>4. OwnType' /\ OwnInv'
    BY <1>2, <2>0, <2>1, <2>2, <2>3, GoOnKeeps
  <2>5. InventoryInv'
    BY <1>1, <1>4, RestKeeps DEF OrderInv, InventoryInv
  <2>. QED BY <1>3, <2>4, <2>5 DEF OrderInv
<1>5. CASE /\ GoOn(n, "freecall") /\ taken' = taken \cup {search[n].choice}
           /\ UNCHANGED <<search, past>>
  <2>1. /\ at' = [at EXCEPT ![n] = "freecall"] /\ search' = [search EXCEPT ![n] = search[n]]
        /\ past' = [past EXCEPT ![n] = past[n]] /\ "freecall" \in Places
        /\ taken \subseteq taken' /\ broken \subseteq broken'
    BY <1>1, <1>5 DEF GoOn, OrderInv, OwnType, Places, ZeroCost
  <2>2. Fits("freecall", search[n], past[n])
    BY <1>2 DEF Fits, Ordinary, ZeroCost
  <2>3. ~Wanting("freecall", search[n], past[n])
    BY <1>2 DEF Wanting
  <2>4. OwnType' /\ OwnInv'
    BY <1>2, <2>1, <2>2, <2>3, MoveKeeps
  <2>5. InventoryInv'
    BY <1>1, <1>2, <1>5, RestKeeps DEF OrderInv, InventoryInv
  <2>. QED BY <1>3, <2>4, <2>5 DEF OrderInv
<1>. QED BY <1>4, <1>5 DEF ClaimFree

\* What a zero-cost call leaves in the search.
Heard(s, missed, end) ==
  [s EXCEPT !.missed = missed, !.choice = 0,
            !.called = IF end = "suppressed" THEN @ ELSE @ \cup {s.choice}]

LEMMA HeardIs ==
  ASSUME NEW s \in SearchType, NEW missed \in Nat, NEW end
  PROVE  /\ Heard(s, missed, end) \in SearchType /\ Heard(s, missed, end).missed = missed
         /\ Heard(s, missed, end).category = s.category /\ Heard(s, missed, end).limit = s.limit
<1>. DEFINE z == 0
            c == IF end = "suppressed" THEN s.called ELSE s.called \cup {s.choice}
            local == [s EXCEPT !.missed = missed, !.choice = z, !.called = c]
<1>1. c \in SUBSET (Models \cup {0}) /\ z \in Models \cup {0}
  BY DEF SearchType
<1>2. local = Heard(s, missed, end)
  BY DEF SearchType, Heard
<1>. HIDE DEF z, c
<1>3. local \in SearchType
  BY <1>1 DEF SearchType
<1>4. local.missed = missed /\ local.category = s.category /\ local.limit = s.limit
  BY DEF SearchType
<1>. QED BY <1>2, <1>3, <1>4

LEMMA FreeCallEndsKeeps ==
  ASSUME OrderInv, NEW n \in Searcher, FreeCallEnds(n)
  PROVE  OrderInv'
<1>. DEFINE m == search[n].choice
            More(end) == IF end \in {"privacy404", "passed", "credit402"} THEN 0 ELSE 1
            Missed(end) == search[n].missed + More(end)
            Local(end) == Heard(search[n], Missed(end), end)
<1>1. PICK end \in Ends :
        /\ IF end = "suppressed" THEN UNCHANGED memoryVars
           ELSE Recorded(m, Row[m].company, end)
        /\ free' = [calls   |-> free.calls + 1,
                    privacy |-> free.privacy + IF end = "privacy404" THEN 1 ELSE 0]
        /\ CASE end \in {"passed", "credit402"} -> Leave(n, Local(end), end)
             [] end \notin {"passed", "credit402", "privacy404"}
                /\ Missed(end) >= search[n].limit -> Leave(n, Local(end), "bounded")
             [] OTHER -> GoOnWith(n, Local(end), "free")
  BY DEF FreeCallEnds, Heard
<1>2. /\ at[n] = "freecall" /\ inventory' = inventory /\ sortedFor' = sortedFor
      /\ taken' = taken
  BY DEF FreeCallEnds, sharedVars
<1>3. /\ search[n] \in SearchType /\ past[n] \in PastType /\ past[n].why = "none"
      /\ search[n].category = "credit402" /\ search[n].limit > 0
      /\ Bounded(search[n].limit, search[n].missed, past[n].first)
      /\ search[n].missed < search[n].limit
      /\ search[n].limit \in Nat /\ search[n].missed \in Nat
  BY <1>2, OwnIs DEF Fits, ZeroCost, SearchType
<1>. DEFINE missed == Missed(end)
            local == Local(end)
<1>4. /\ missed \in Nat /\ missed <= search[n].limit
      /\ end \in {"privacy404", "passed", "credit402"} => missed = search[n].missed
  BY <1>3
<1>5. /\ local \in SearchType /\ local.missed = missed
      /\ local.category = "credit402" /\ local.limit = search[n].limit
  <2>. HIDE DEF Missed
  <2>. QED BY <1>3, <1>4, HeardIs
<1>6. \/ end \in {"passed", "credit402"} /\ Leave(n, local, end)
      \/ missed >= search[n].limit /\ Leave(n, local, "bounded")
      \/ missed < search[n].limit /\ GoOnWith(n, local, "free")
  <2>. HIDE DEF Local
  <2>1. CASE end \in {"passed", "credit402"}
    BY <1>1, <2>1
  <2>2. CASE end \notin {"passed", "credit402", "privacy404"} /\ missed >= search[n].limit
    BY <1>1, <2>2
  <2>3. CASE /\ end \notin {"passed", "credit402"}
             /\ ~(end \notin {"passed", "credit402", "privacy404"} /\ missed >= search[n].limit)
    <3>1. missed < search[n].limit
      BY <1>3, <1>4, <2>3
    <3>2. GoOnWith(n, local, "free")
      BY <1>1, <2>3
    <3>. QED BY <3>1, <3>2
  <2>. QED BY <2>1, <2>2, <2>3
<1>. HIDE DEF missed, local
<1>7. Bounded(local.limit, local.missed, past[n].first)
  BY <1>3, <1>4, <1>5 DEF Bounded
<1>8. /\ counted' \in [attempts : Nat, failures : Nat, quality : Nat]
      /\ taken \subseteq taken' /\ broken \subseteq broken'
  <2>1. CASE end = "suppressed"
    BY <1>1, <1>2, <2>1 DEF memoryVars, OrderInv, SharedType
  <2>2. CASE end # "suppressed"
    <3>1. Recorded(m, Row[m].company, end)
      BY <1>1, <2>2
    <3>. QED BY <1>2, <3>1, RecordedKeeps
  <2>. QED BY <2>1, <2>2
<1>9. SharedType'
  <2>1. /\ free.calls \in Nat /\ free.privacy \in Nat /\ free.privacy <= free.calls
    BY DEF OrderInv, SharedType
  <2>2. /\ free' \in [calls : Nat, privacy : Nat] /\ free'.privacy <= free'.calls
    BY <1>1, <2>1
  <2>. QED BY <1>8, <2>2 DEF SharedType
<1>10. InventoryInv'
  BY <1>2, RestKeeps DEF OrderInv, InventoryInv
<1>11. OwnType' /\ OwnInv'
  <2>0. local.category \in Ends \cup {"none"} /\ local.limit \in Nat /\ local.missed \in Nat
    BY <1>5 DEF SearchType
  <2>1. CASE end \in {"passed", "credit402"} /\ Leave(n, local, end)
    <3>1. end \in Reasons /\ end # "bounded" /\ end # "exhausted"
      BY <2>1 DEF Reasons
    <3>. QED BY <1>7, <1>8, <2>0, <2>1, <3>1, LeaveKeeps
  <2>2. CASE missed >= search[n].limit /\ Leave(n, local, "bounded")
    <3>1. "bounded" \in Reasons /\ local.missed >= local.limit
      BY <1>5, <2>2 DEF Reasons
    <3>. QED BY <1>7, <1>8, <2>0, <2>2, <3>1, LeaveKeeps
  <2>3. CASE missed < search[n].limit /\ GoOnWith(n, local, "free")
    <3>1. local.missed < local.limit
      BY <1>5, <2>3
    <3>. QED BY <1>3, <1>5, <1>7, <1>8, <2>3, <3>1, GoOnKeeps
  <2>. QED BY <1>6, <2>1, <2>2, <2>3
<1>. QED BY <1>9, <1>10, <1>11 DEF OrderInv

(***************************************************************************)
(* The order of the searches                                               *)
(***************************************************************************)
LEMMA OrderStarts == OrderInit => OrderInv
<1>. SUFFICES ASSUME OrderInit PROVE OrderInv
  OBVIOUS
<1>1. SharedType
  BY DEF OrderInit, OrderUnasked, SharedType
<1>2. Unstarted \in SearchType
  BY DEF Unstarted, SearchType
<1>3. NothingPast \in PastType
  BY DEF NothingPast, PastType, Reasons
<1>4. OwnType
  BY <1>2, <1>3 DEF OrderInit, OrderUnasked, OwnType, Places
<1>5. InventoryInv
  <2>1. \A i, j \in 1 .. Len(Standby) : Standby[i] = Standby[j] => i = j
    BY StandbyIs, OrderAssumption DEF IsInjective
  <2>2. /\ Standby \in [1 .. Len(Standby) -> Inventory]
        /\ \A m \in Inventory : \E i \in 1 .. Len(Standby) : Standby[i] = m
    <3>. DEFINE k == Len(Standby)
    <3>1. k \in Nat /\ DOMAIN Standby = 1 .. k /\ Standby \in [1 .. k -> Models]
      BY OrderAssumption
    <3>. HIDE DEF k
    <3>2. /\ Standby \in [1 .. k -> Inventory]
          /\ \A m \in Inventory : \E i \in 1 .. k : Standby[i] = m
      BY <3>1 DEF Inventory, Range
    <3>. QED BY <3>2 DEF k
  <2>. QED BY <2>1, <2>2 DEF OrderInit, OrderUnasked, InventoryInv
<1>6. Fits("initial", Unstarted, NothingPast)
  BY DEF Fits, Unstarted, NothingPast, Ordinary, ZeroCost, Bounded
<1>7. ~Wanting("initial", Unstarted, NothingPast)
  BY DEF Wanting, NothingPast
<1>8. OwnInv
  BY <1>6, <1>7 DEF OrderInit, OrderUnasked, OwnInv
<1>. QED BY <1>1, <1>4, <1>5, <1>8 DEF OrderInv

LEMMA OrderStep == OrderInv /\ [NextSearch]_orderVars => OrderInv'
<1>. SUFFICES ASSUME OrderInv, [NextSearch]_orderVars PROVE OrderInv'
  OBVIOUS
<1>1. CASE UNCHANGED orderVars
  BY <1>1 DEF orderVars, OrderInv, SharedType, OwnType, InventoryInv, OwnInv, Spent
<1>2. CASE NextSearch
  <2>1. PICK n \in Searcher : SearchStep(n)
    BY <1>2 DEF NextSearch
  <2>. QED BY <2>1, InitialCallKeeps, TurnKeeps, BreadthKeeps, NarrowKeeps, WidenKeeps,
              ChooseKeeps, ClaimChoiceKeeps, CallEndsKeeps, EnterFreeKeeps, AskPolicyKeeps,
              PolicyAnsweredKeeps, ChooseFreeKeeps, ClaimFreeKeeps, FreeCallEndsKeeps
           DEF SearchStep
<1>. QED BY <1>1, <1>2

\* At every moment of every run the inventory is a reordering of the plan's,
\* sorted by merit for the failure it was last sorted for, and what each search
\* remembers fits where it is: the inductive invariant of the searches.
THEOREM OrderInvariant == OrderSpec => []OrderInv
BY OrderStarts, OrderStep, PTL DEF OrderSpec

\* The candidate a search has settled on is outranked by no model it could have
\* had, for any rows, any pool and any inventory, and however the searches of
\* the other nodes interleave.
THEOREM PriorityKeptSafe == OrderSpec => []PriorityKept
<1>1. OrderInv => PriorityKept
  BY DEF OrderInv, OwnInv, OwnType, Fits, PriorityKept
<1>. QED BY <1>1, OrderInvariant, PTL

\* No ordinary search gives up while a standby model could be promoted, and no
\* zero-cost search goes past the root of its first space, for any plan.
THEOREM SearchSafe == OrderSpec => []SearchNeitherEarlyNorLong
<1>1. ASSUME OrderInv PROVE SearchNeitherEarlyNorLong
  <2>. SUFFICES ASSUME NEW n \in Searcher
       PROVE  /\ past[n].why = "exhausted" /\ search[n].category # "credit402" =>
                   past[n].shut \/ Eligible = {}
              /\ search[n].limit > 0 =>
                   /\ search[n].missed <= RootWithin(past[n].first, past[n].first, 1)
                   /\ past[n].why = "bounded" => search[n].missed > 0
    BY DEF SearchNeitherEarlyNorLong
  <2>1. /\ search[n] \in SearchType /\ past[n] \in PastType
        /\ Bounded(search[n].limit, search[n].missed, past[n].first)
        /\ past[n].why = "bounded" => search[n].missed >= search[n].limit
        /\ Wanting(at[n], search[n], past[n]) => Spent
    BY <1>1, OwnIs DEF Fits
  <2>2. past[n].why = "exhausted" /\ search[n].category # "credit402" =>
          past[n].shut \/ Eligible = {}
    BY <1>1, <2>1, EligibleIs DEF Wanting, OrderInv
  <2>3. ASSUME search[n].limit > 0
        PROVE  /\ search[n].missed <= RootWithin(past[n].first, past[n].first, 1)
               /\ past[n].why = "bounded" => search[n].missed > 0
    <3>1. search[n].limit \in Nat /\ search[n].missed \in Nat /\ past[n].first \in Nat
      BY <2>1 DEF SearchType, PastType
    <3>. DEFINE root == RootWithin(past[n].first, past[n].first, 1)
    <3>2. root \in Int
      <4>1. root \in 0 .. past[n].first
        BY <3>1, RootIsWithin
      <4>. QED BY <3>1, <4>1
    <3>3. search[n].limit <= root /\ search[n].missed <= search[n].limit
      BY <2>1, <2>3 DEF Bounded
    <3>. HIDE DEF root
    <3>4. search[n].missed <= root
      BY <3>1, <3>2, <3>3
    <3>5. past[n].why = "bounded" => search[n].missed > 0
      BY <2>1, <2>3, <3>1
    <3>. QED BY <3>4, <3>5 DEF root
  <2>. QED BY <2>2, <2>3
<1>. QED BY <1>1, OrderInvariant, PTL
==============================================================================
