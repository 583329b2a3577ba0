-------------------------- MODULE ExecutionPlan_proof --------------------------
(* From any ticket and any pool to the graph the engine runs.                 *)
(*                                                                            *)
(* First the solver: the weighted sum it minimizes is lexicographic, whatever *)
(* the candidates, the roles and their rating are.  Then what the operators   *)
(* make: sums over functions, the generations of a graph and its orders, the  *)
(* parts an order is cut into, the candidates and their assignments, the work *)
(* graph of a ticket.  Then, layer by layer, the invariants: what each layer  *)
(* makes is what the next one accepts, and nothing is lost on the way.        *)
EXTENDS ExecutionPlan, FiniteSetTheorems, WellFoundedInduction, SequenceTheorems, TLAPS

\* Multiplication by a natural number is monotone.
LEMMA TimesMonotone ==
  ASSUME NEW a \in Nat, NEW b \in Nat, NEW k \in Nat, a <= b
  PROVE  a * k \in Nat /\ b * k \in Nat /\ a * k <= b * k
<1>1. PICK d \in Nat : b = a + d
  BY SMT
<1>2. b * k = a * k + d * k
  BY <1>1, SMT
<1>3. a * k \in Nat /\ d * k \in Nat
  BY SMT
<1> QED
  BY <1>2, <1>3, SMT

\* One step more of a factor outweighs whatever is less than the scale.
LEMMA StepOutweighs ==
  ASSUME NEW a \in Nat, NEW b \in Nat, NEW k \in Nat, a < b,
         NEW x \in Nat, NEW y \in Nat, x < k
  PROVE  a * k + x < b * k + y
<1>1. (a + 1) * k <= b * k /\ b * k \in Nat
  BY TimesMonotone, a + 1 \in Nat, a + 1 <= b
<1>2. (a + 1) * k = a * k + k /\ a * k \in Nat
  BY SMT
<1> QED
  BY <1>1, <1>2, SMT

\* What the objectives of an assignment can be: the three after capability are
\* bounded by the bounds the scales are computed from.
Bounded(economy, repeated, tie, maxEconomy, positions, maxTie) ==
  /\ maxEconomy \in Nat /\ positions \in Nat /\ maxTie \in Nat
  /\ economy \in 0..maxEconomy /\ repeated \in 0..positions /\ tie \in 0..maxTie

\* The scales leave room for everything that comes after.
LEMMA ScalesLeaveRoom ==
  ASSUME NEW economy, NEW repeated, NEW tie,
         NEW maxEconomy, NEW positions, NEW maxTie,
         Bounded(economy, repeated, tie, maxEconomy, positions, maxTie)
  PROVE  LET d == DiversityScale(maxTie)
             e == EconomyScale(positions, maxTie)
             c == CapabilityScale(maxEconomy, positions, maxTie)
         IN /\ d \in Nat /\ e \in Nat /\ c \in Nat
            /\ tie < d
            /\ repeated * d + tie \in Nat /\ repeated * d + tie < e
            /\ economy * e + (repeated * d + tie) \in Nat
            /\ economy * e + (repeated * d + tie) < c
<1> DEFINE d == DiversityScale(maxTie)
           e == EconomyScale(positions, maxTie)
           c == CapabilityScale(maxEconomy, positions, maxTie)
<1>0. /\ maxEconomy \in Nat /\ positions \in Nat /\ maxTie \in Nat
      /\ economy \in Nat /\ economy <= maxEconomy
      /\ repeated \in Nat /\ repeated <= positions
      /\ tie \in Nat /\ tie <= maxTie
  BY DEF Bounded
<1>1. d = maxTie + 1 /\ d \in Nat
  BY <1>0 DEF DiversityScale
<1>2. repeated * d \in Nat /\ positions * d \in Nat /\ repeated * d <= positions * d
  BY <1>0, <1>1, TimesMonotone
<1>3. e = positions * d + maxTie + 1 /\ e \in Nat
  BY <1>0, <1>1, <1>2 DEF EconomyScale
<1>4. economy * e \in Nat /\ maxEconomy * e \in Nat /\ economy * e <= maxEconomy * e
  BY <1>0, <1>3, TimesMonotone
<1>5. c = maxEconomy * e + positions * d + maxTie + 1 /\ c \in Nat
  BY <1>0, <1>1, <1>2, <1>3, <1>4 DEF CapabilityScale
<1> HIDE DEF d, e, c
<1>6. tie < d
  BY <1>0, <1>1
<1>7. repeated * d + tie \in Nat /\ repeated * d + tie < e
  BY <1>0, <1>2, <1>3
<1>8. /\ economy * e + (repeated * d + tie) \in Nat
      /\ economy * e + (repeated * d + tie) < c
  BY <1>0, <1>2, <1>4, <1>5, <1>7
<1> QED
  BY <1>1, <1>3, <1>5, <1>6, <1>7, <1>8 DEF d, e, c

\* The objective of v5_cost_effectiveness_role_assignment.py is lexicographic:
\* an assignment better by capability, or by economy among equals, or by the
\* repeated companies among those, has a smaller weighted sum.
THEOREM LexicographicWeights ==
  ASSUME NEW maxEconomy, NEW positions, NEW maxTie,
         NEW c1 \in Nat, NEW e1, NEW r1, NEW t1,
         NEW c2 \in Nat, NEW e2, NEW r2, NEW t2,
         Bounded(e1, r1, t1, maxEconomy, positions, maxTie),
         Bounded(e2, r2, t2, maxEconomy, positions, maxTie),
         Before(<<c1, e1, r1>>, <<c2, e2, r2>>)
  PROVE  Weighted(c1, e1, r1, t1, maxEconomy, positions, maxTie)
           < Weighted(c2, e2, r2, t2, maxEconomy, positions, maxTie)
<1> DEFINE d == DiversityScale(maxTie)
           e == EconomyScale(positions, maxTie)
           c == CapabilityScale(maxEconomy, positions, maxTie)
           low(r, t) == r * d + t
           mid(x, r, t) == x * e + low(r, t)
<1>1. /\ d \in Nat /\ e \in Nat /\ c \in Nat
      /\ t1 < d /\ low(r1, t1) \in Nat /\ low(r1, t1) < e
      /\ mid(e1, r1, t1) \in Nat /\ mid(e1, r1, t1) < c
      /\ low(r2, t2) \in Nat /\ mid(e2, r2, t2) \in Nat
  BY ScalesLeaveRoom
<1>2. /\ e1 \in Nat /\ e2 \in Nat /\ r1 \in Nat /\ r2 \in Nat
      /\ t1 \in Nat /\ t2 \in Nat
  BY DEF Bounded
<1>3. /\ Weighted(c1, e1, r1, t1, maxEconomy, positions, maxTie) = c1 * c + mid(e1, r1, t1)
      /\ Weighted(c2, e2, r2, t2, maxEconomy, positions, maxTie) = c2 * c + mid(e2, r2, t2)
  <2>1. \A x, y, z, w \in Nat :
          x * c \in Nat /\ y * e \in Nat /\ z * d \in Nat
            /\ ((x * c + y * e) + z * d) + w = x * c + (y * e + (z * d + w))
    BY <1>1, TimesMonotone
  <2> QED
    BY <1>2, <2>1 DEF Weighted
<1>4. \/ c1 < c2
      \/ c1 = c2 /\ e1 < e2
      \/ c1 = c2 /\ e1 = e2 /\ r1 < r2
  <2> DEFINE s == <<c1, e1, r1>>
             t == <<c2, e2, r2>>
  <2>1. PICK i \in 1..3 : s[i] < t[i] /\ \A j \in 1..i-1 : s[j] = t[j]
    BY DEF Before
  <2>2. CASE i = 1
    BY <2>1, <2>2
  <2>3. CASE i = 2
    BY <2>1, <2>3, 1 \in 1..i-1
  <2>4. CASE i = 3
    BY <2>1, <2>4, 1 \in 1..i-1, 2 \in 1..i-1
  <2> QED
    BY <2>1, <2>2, <2>3, <2>4
<1> HIDE DEF d, e, c
<1>5. CASE c1 < c2
  <2> HIDE DEF mid
  <2> QED
    BY <1>1, <1>3, <1>5, StepOutweighs
<1>6. CASE c1 = c2 /\ e1 < e2
  <2>1. mid(e1, r1, t1) < mid(e2, r2, t2)
    <3> HIDE DEF low
    <3> QED
      BY <1>1, <1>2, <1>6, StepOutweighs
  <2>2. c1 * c \in Nat
    BY <1>1, TimesMonotone
  <2> HIDE DEF mid
  <2> QED
    BY <1>1, <1>3, <1>6, <2>1, <2>2
<1>7. CASE c1 = c2 /\ e1 = e2 /\ r1 < r2
  <2>1. low(r1, t1) < low(r2, t2)
    BY <1>1, <1>2, <1>7, StepOutweighs
  <2>2. c1 * c \in Nat /\ e1 * e \in Nat
    BY <1>1, <1>2, TimesMonotone
  <2> HIDE DEF low
  <2> QED
    BY <1>1, <1>3, <1>7, <2>1, <2>2
<1> QED
  BY <1>4, <1>5, <1>6, <1>7

------------------------------------------------------------------------------
Weighed(a) ==
  <<Total(metric.capability, a), Total(metric.economy, a), RepeatedCompanies(a)>>

Chosen == [role |-> plan.selected, recovery |-> plan.recovery]

\* Nothing with a smaller goal is left out by the solver.
LEMMA OptimalIsFirst ==
  ASSUME NEW roleCount, NEW recovery,
         NEW a \in Optimal(Candidates, roleCount, recovery, metric),
         NEW b \in Assignments(Candidates, roleCount, recovery),
         TotalsFit(a, Candidates, roleCount, recovery, metric),
         TotalsFit(b, Candidates, roleCount, recovery, metric)
  PROVE  ~Before(Weighed(b), Weighed(a))
<1> SUFFICES ASSUME Before(Weighed(b), Weighed(a)) PROVE FALSE
  OBVIOUS
<1> DEFINE maxEconomy == MaxEconomy(Candidates, roleCount, recovery, metric)
           positions == Positions(roleCount, recovery)
           maxTie == MaxTie(Candidates, roleCount, recovery)
           tie(x) == Total(TieScore(Candidates, roleCount), x)
           economy(x) == Total(metric.economy, x)
           capability(x) == Total(metric.capability, x)
<1> HIDE DEF maxEconomy, positions, maxTie, tie, economy, capability
<1>1. ASSUME NEW x, TotalsFit(x, Candidates, roleCount, recovery, metric)
      PROVE  /\ capability(x) \in Nat
             /\ Bounded(economy(x), RepeatedCompanies(x), tie(x),
                        maxEconomy, positions, maxTie)
  BY <1>1 DEF TotalsFit, Bounded, maxEconomy, positions, maxTie, tie, economy, capability
<1>2. ASSUME NEW x
      PROVE  Objective(x, Candidates, roleCount, recovery, metric)
               = Weighted(capability(x), economy(x), RepeatedCompanies(x), tie(x),
                          maxEconomy, positions, maxTie)
  BY DEF Objective, maxEconomy, positions, maxTie, tie, economy, capability
<1>3. Before(<<capability(b), economy(b), RepeatedCompanies(b)>>,
             <<capability(a), economy(a), RepeatedCompanies(a)>>)
  BY DEF Weighed, capability, economy
<1>4. Weighted(capability(b), economy(b), RepeatedCompanies(b), tie(b),
               maxEconomy, positions, maxTie)
        < Weighted(capability(a), economy(a), RepeatedCompanies(a), tie(a),
                   maxEconomy, positions, maxTie)
  BY <1>1, <1>3, LexicographicWeights
<1>5. Objective(a, Candidates, roleCount, recovery, metric)
        <= Objective(b, Candidates, roleCount, recovery, metric)
  BY DEF Optimal
<1>6. ASSUME NEW x, TotalsFit(x, Candidates, roleCount, recovery, metric)
      PROVE  Weighted(capability(x), economy(x), RepeatedCompanies(x), tie(x),
                      maxEconomy, positions, maxTie) \in Nat
  <2>1. /\ capability(x) \in Nat /\ economy(x) \in Nat
        /\ RepeatedCompanies(x) \in Nat /\ tie(x) \in Nat
        /\ DiversityScale(maxTie) \in Nat /\ EconomyScale(positions, maxTie) \in Nat
        /\ CapabilityScale(maxEconomy, positions, maxTie) \in Nat
    <3>1. /\ capability(x) \in Nat
          /\ Bounded(economy(x), RepeatedCompanies(x), tie(x),
                     maxEconomy, positions, maxTie)
      BY <1>1, <1>6
    <3>2. economy(x) \in Nat /\ RepeatedCompanies(x) \in Nat /\ tie(x) \in Nat
      BY <3>1 DEF Bounded
    <3>3. /\ DiversityScale(maxTie) \in Nat /\ EconomyScale(positions, maxTie) \in Nat
          /\ CapabilityScale(maxEconomy, positions, maxTie) \in Nat
      BY <3>1, ScalesLeaveRoom
    <3> QED BY <3>1, <3>2, <3>3
  <2> QED
    BY <2>1, TimesMonotone DEF Weighted
<1> QED
  BY <1>2, <1>4, <1>5, <1>6

------------------------------------------------------------------------------
\* A plan the solver proved optimal is one of its optima.
PlanOptimal ==
  pc = "plan" /\ optimal =>
    Chosen \in Optimal(Candidates, Len(roles), shape.recovery, metric)

\* The candidates are those of the pool.
LEMMA SamePool == ASSUME pool' = pool PROVE Candidates' = Candidates
BY DEF Candidates

\* An assignment proved optimal is one, from the step that adopts it on.
LEMMA PlanOptimalHolds == Spec => []PlanOptimal
<1>1. Init => PlanOptimal
  BY DEF Init, PlanOptimal
<1>2. PlanOptimal /\ [Next]_vars => PlanOptimal'
  <2> SUFFICES ASSUME PlanOptimal, [Next]_vars, pc' = "plan", optimal'
               PROVE  (Chosen \in Optimal(Candidates, Len(roles), shape.recovery, metric))'
    BY DEF PlanOptimal
  <2>1. CASE AssignModels
    <3>1. ~TooFewCandidates
      BY <2>1 DEF AssignModels, Refuse
    <3>2. PICK a \in Optimal(Candidates, Len(roles), shape.recovery, metric') : Adopt(a)
      BY <2>1, <3>1 DEF AssignModels
    <3>3. Chosen' = [role |-> a.role, recovery |-> a.recovery]
      BY <3>2 DEF Adopt, Chosen
    <3>4. a = [role |-> a.role, recovery |-> a.recovery]
      BY <3>2 DEF Optimal, Assignments
    <3>5. /\ Candidates' = Candidates /\ roles' = roles /\ shape' = shape
      BY <2>1, SamePool DEF AssignModels
    <3> QED
      BY <3>2, <3>3, <3>4, <3>5
  <2>2. CASE UNCHANGED vars
    <3>1. PlanOptimal' <=> PlanOptimal
      BY <2>2, SamePool DEF vars, PlanOptimal, Chosen
    <3> QED
      BY <3>1 DEF PlanOptimal
  <2>3. CASE BuildWorkGraph \/ DesignParameters \/ OptimizeShape \/ PartitionRoles
               \/ CheckPlan \/ BuildProposal \/ Materialize \/ Validate
    BY <2>3 DEF BuildWorkGraph, DesignParameters, OptimizeShape, PartitionRoles,
                CheckPlan, BuildProposal, Materialize, Validate, Refuse
  <2> QED
    BY <2>1, <2>2, <2>3 DEF Next
<1> QED
  BY <1>1, <1>2, PTL DEF Spec

\* For every pool, every metric and every number of roles: as long as no total
\* outgrows the bound its scale is computed from, the models of an assignment
\* proved optimal are the best by capability first, then by economy, then by
\* the spread over companies.
LEMMA FirstWhereTotalsFit == Spec => [](ObjectivesFit => CapabilityFirst)
<1>1. ASSUME PlanOptimal, ObjectivesFit, pc = "plan", optimal,
             NEW b \in Assignments(Candidates, Len(roles), shape.recovery)
      PROVE  ~Before(Weighed(b), Weighed(Chosen))
  <2>1. Chosen \in Optimal(Candidates, Len(roles), shape.recovery, metric)
    BY <1>1 DEF PlanOptimal
  <2>2. Chosen \in Assignments(Candidates, Len(roles), shape.recovery)
    BY <2>1 DEF Optimal
  <2>3. /\ TotalsFit(b, Candidates, Len(roles), shape.recovery, metric)
        /\ TotalsFit(Chosen, Candidates, Len(roles), shape.recovery, metric)
    BY <1>1, <2>2 DEF ObjectivesFit
  <2> QED
    BY <2>1, <2>3, OptimalIsFirst
<1>2. PlanOptimal => (ObjectivesFit => CapabilityFirst)
  BY <1>1 DEF CapabilityFirst, Weighed, Chosen
<1> QED
  BY <1>2, PlanOptimalHolds, PTL

------------------------------------------------------------------------------
\* A set of natural numbers that is not empty has a least member.
LEMMA LeastOf ==
  ASSUME NEW T \in SUBSET Nat, T # {}
  PROVE  \E x \in T : \A y \in T : x <= y
<1>1. PICK x \in T : \A y \in T : ~ (<<y, x>> \in OpToRel(<, Nat))
  BY NatLessThanWellFounded, WFMin
<1>2. \A y \in T : ~(y < x)
  BY <1>1 DEF OpToRel
<1>. QED BY <1>2

\* Counting up to N, with what is reached as a set.
LEMMA CountUp ==
  ASSUME NEW N \in Nat, NEW K, 0 \in K, \A n \in 1 .. N : n - 1 \in K => n \in K
  PROVE  \A n \in 0 .. N : n \in K
<1>. DEFINE Bad == {n \in 0 .. N : n \notin K}
<1>. SUFFICES ASSUME Bad # {} PROVE FALSE
  OBVIOUS
<1>1. PICK n \in Bad : \A i \in Bad : n <= i
  <2>1. Bad \in SUBSET Nat
    OBVIOUS
  <2>. QED BY <2>1, LeastOf
<1>2. n \in 1 .. N /\ n - 1 \in 0 .. N /\ ~(n <= n - 1)
  OBVIOUS
<1>3. n - 1 \in K
  BY <1>1, <1>2
<1>. QED BY <1>2, <1>3

\* A function defined by recursion on the numbers up to N, from the step g.
Steps(S, N) == [(1 .. N) \X S -> S]
Unfolds(f, a, N, g) == f[0] = a /\ \A n \in 1 .. N : f[n] = g[<<n, f[n - 1]>>]

\* A recursive function of a step from S to S exists.
LEMMA RecursionExists ==
  ASSUME NEW S, NEW a \in S, NEW N \in Nat, NEW g \in Steps(S, N)
  PROVE  \E f \in [0 .. N -> S] : Unfolds(f, a, N, g)
<1>0. g \in [(1 .. N) \X S -> S]
  BY DEF Steps
<1>. DEFINE Good(k) == \E f \in [0 .. k -> S] :
                          f[0] = a /\ \A n \in 1 .. k : f[n] = g[<<n, f[n - 1]>>]
            K == {k \in 0 .. N : Good(k)}
<1>1. 0 \in K
  <2>. DEFINE f == [n \in 0 .. 0 |-> a]
  <2>1. f \in [0 .. 0 -> S] /\ f[0] = a /\ 1 .. 0 = {}
    OBVIOUS
  <2>2. Good(0)
    <3>. HIDE DEF f
    <3>. QED BY <2>1
  <2>. QED BY <2>2
<1>2. ASSUME NEW k \in 1 .. N, k - 1 \in K PROVE k \in K
  <2>1. PICK f \in [0 .. k - 1 -> S] :
          f[0] = a /\ \A n \in 1 .. k - 1 : f[n] = g[<<n, f[n - 1]>>]
    BY <1>2
  <2>. DEFINE h == [n \in 0 .. k |-> IF n = k THEN g[<<k, f[k - 1]>>] ELSE f[n]]
  <2>2. k \in Nat /\ k - 1 \in 0 .. k - 1 /\ <<k, f[k - 1]>> \in (1 .. N) \X S
    OBVIOUS
  <2>3. \A n \in 0 .. k : n = k \/ n \in 0 .. k - 1
    BY <2>2
  <2>4. h \in [0 .. k -> S]
    BY <1>0, <2>1, <2>2, <2>3
  <2>5. h[0] = a
    BY <2>1, <2>2
  <2>6. ASSUME NEW n \in 1 .. k PROVE h[n] = g[<<n, h[n - 1]>>]
    <3>1. n - 1 \in 0 .. k - 1 /\ n \in 0 .. k /\ n - 1 \in 0 .. k /\ n - 1 # k
      BY <2>2
    <3>2. h[n - 1] = f[n - 1]
      BY <3>1
    <3>3. CASE n = k
      <4>1. h[k] = g[<<k, f[k - 1]>>]
        BY <2>2
      <4>. HIDE DEF h
      <4>. QED BY <3>2, <3>3, <4>1
    <3>4. CASE n # k
      <4>1. n \in 1 .. k - 1
        BY <2>2, <3>4
      <4>2. h[n] = f[n]
        BY <3>1, <3>4
      <4>. QED BY <2>1, <3>2, <4>1, <4>2
    <3>. QED BY <3>3, <3>4
  <2>7. Good(k)
    <3>. HIDE DEF h
    <3>. QED BY <2>4, <2>5, <2>6
  <2>. QED BY <2>7
<1>3. N \in K
  <2>. HIDE DEF K
  <2>1. \A n \in 0 .. N : n \in K
    BY <1>1, <1>2, CountUp
  <2>. QED BY <2>1
<1>. QED BY <1>3 DEF Unfolds

\* A finite set of integers has a greatest member.
LEMMA GreatestOf ==
  ASSUME NEW S \in SUBSET Int, IsFiniteSet(S), S # {}
  PROVE  Max(S) \in S /\ \A y \in S : Max(S) >= y
<1>. DEFINE Good(T) == \E x \in T : \A y \in T : x >= y
            Bad == {k \in Nat : \E T \in SUBSET S : T # {} /\ Cardinality(T) = k /\ ~Good(T)}
<1>1. Good(S)
  <2>. SUFFICES ASSUME ~Good(S) PROVE FALSE
    OBVIOUS
  <2>0. Bad # {} /\ Bad \in SUBSET Nat
    <3>1. Cardinality(S) \in Nat
      BY FS_CardinalityType
    <3>. QED BY <3>1
  <2>1. PICK k \in Bad : \A i \in Bad : k <= i
    <3>. HIDE DEF Bad
    <3>. QED BY <2>0, LeastOf
  <2>2. PICK T \in SUBSET S : T # {} /\ Cardinality(T) = k /\ ~Good(T)
    OBVIOUS
  <2>3. PICK x \in T : TRUE
    BY <2>2
  <2>4. IsFiniteSet(T) /\ Cardinality(T \ {x}) = k - 1 /\ k \in Nat
    BY <2>2, <2>3, FS_Subset, FS_RemoveElement
  <2>5. IsFiniteSet(T \ {x}) /\ Cardinality(T \ {x}) \in Nat
    BY <2>4, FS_Subset, FS_CardinalityType
  <2>6. T \ {x} # {}
    <3>. SUFFICES ASSUME T \ {x} = {} PROVE Good(T)
      BY <2>2
    <3>1. \A y \in T : y = x
      OBVIOUS
    <3>2. x \in Int /\ x >= x
      BY <2>2, <2>3
    <3>. QED BY <2>3, <3>1, <3>2
  <2>7. Good(T \ {x})
    <3>1. k - 1 \in Nat /\ ~(k <= k - 1)
      BY <2>4, <2>5
    <3>2. k - 1 \notin Bad
      <4>. HIDE DEF Bad
      <4>. QED BY <2>1, <3>1
    <3>3. T \ {x} \in SUBSET S
      BY <2>2
    <3>. QED BY <2>4, <2>6, <3>1, <3>2, <3>3
  <2>8. PICK z \in T \ {x} : \A y \in T \ {x} : z >= y
    BY <2>7
  <2>9. x \in Int /\ z \in Int /\ (z >= x \/ x >= z)
    BY <2>2, <2>3
  <2>10. CASE z >= x
    <3>1. \A y \in T : z >= y
      BY <2>8, <2>10
    <3>. QED BY <2>2, <3>1
  <2>11. CASE x >= z
    <3>1. \A y \in T : x >= y
      <4>. SUFFICES ASSUME NEW y \in T PROVE x >= y
        OBVIOUS
      <4>1. y \in Int /\ (y = x \/ z >= y)
        BY <2>2, <2>8
      <4>. QED BY <2>9, <2>11, <4>1
    <3>. QED BY <2>2, <2>3, <3>1
  <2>. QED BY <2>9, <2>10, <2>11
<1>. QED BY <1>1 DEF Max

\* The members of a finite set of numbers, counted from the least.
LEMMA PlacesCounted ==
  ASSUME NEW F \in SUBSET Nat, IsFiniteSet(F)
  PROVE  /\ Cardinality(F) \in Nat
         /\ \A i \in F : Cardinality({j \in F : j < i}) \in 0 .. Cardinality(F) - 1
         /\ \A i, j \in F : i < j => Cardinality({l \in F : l < i}) < Cardinality({l \in F : l < j})
         /\ \A k \in 0 .. Cardinality(F) - 1 : \E i \in F : Cardinality({j \in F : j < i}) = k
<1>. DEFINE n == Cardinality(F)
            Below(i) == {j \in F : j < i}
            f == [i \in F |-> Cardinality(Below(i))]
<1>1. n \in Nat
  BY FS_CardinalityType
<1>2. ASSUME NEW i \in F
      PROVE  IsFiniteSet(Below(i)) /\ Cardinality(Below(i)) \in 0 .. n - 1
  <2>1. Below(i) \in SUBSET F /\ i \notin Below(i)
    OBVIOUS
  <2>2. IsFiniteSet(Below(i)) /\ Cardinality(Below(i)) \in Nat
    BY <2>1, FS_Subset, FS_CardinalityType
  <2>3. Cardinality(Below(i)) <= n /\ Cardinality(Below(i)) # n
    BY <2>1, FS_Subset
  <2>. QED BY <1>1, <2>2, <2>3
<1>3. ASSUME NEW i \in F, NEW j \in F, i < j
      PROVE  Cardinality(Below(i)) < Cardinality(Below(j))
  <2>1. Below(i) \in SUBSET Below(j) /\ i \in Below(j) /\ i \notin Below(i)
    <3>1. F \subseteq Int
      OBVIOUS
    <3>2. \A l \in F : l < i => l < j
      BY <1>3, <3>1
    <3>3. i \notin Below(i)
      BY <3>1
    <3>4. i \in Below(j)
      BY <1>3
    <3>5. \A l \in Below(i) : l \in Below(j)
      BY <3>2
    <3>. HIDE DEF Below
    <3>. QED BY <3>3, <3>4, <3>5
  <2>2. /\ IsFiniteSet(Below(j)) /\ Cardinality(Below(i)) \in Nat
        /\ Cardinality(Below(j)) \in Nat
    BY <1>2
  <2>3. Cardinality(Below(i)) <= Cardinality(Below(j)) /\ Cardinality(Below(i)) # Cardinality(Below(j))
    <3>. HIDE DEF Below
    <3>. QED BY <2>1, <2>2, FS_Subset
  <2>. QED BY <2>2, <2>3
<1>4. ASSUME NEW i \in F, NEW j \in F, Cardinality(Below(i)) = Cardinality(Below(j))
      PROVE  i = j
  <2>1. i \in Nat /\ j \in Nat /\ Cardinality(Below(i)) \in Nat
    BY <1>2
  <2>2. ~(i < j) /\ ~(j < i)
    <3>. HIDE DEF Below
    <3>. QED BY <1>3, <1>4, <2>1
  <2>. QED BY <2>1, <2>2
<1>5. f \in Injection(F, 0 .. n - 1)
  <2>. HIDE DEF n, Below
  <2>. QED BY <1>2, <1>4 DEF Injection, IsInjective
<1>6. IsFiniteSet(0 .. n - 1) /\ Cardinality(0 .. n - 1) = n
  <2>. HIDE DEF n
  <2>1. Cardinality(0 .. n - 1) = IF 0 > n - 1 THEN 0 ELSE n - 1 - 0 + 1
    BY <1>1, FS_Interval
  <2>. QED BY <1>1, <2>1, FS_Interval
<1>7. f \in Surjection(F, 0 .. n - 1)
  <2>. HIDE DEF f, n
  <2>. QED BY <1>5, <1>6, FS_Injection DEF n
<1>8. \A k \in 0 .. n - 1 : \E i \in F : f[i] = k
  BY <1>7 DEF Surjection
<1>9. \A i, j \in F : i < j => Cardinality(Below(i)) < Cardinality(Below(j))
  BY <1>3
<1>. QED BY <1>1, <1>2, <1>8, <1>9
\* The sums over a finite set's subsets.
One(s) == CHOOSE x \in s : TRUE
Adds(g, f, T) ==
  \A s \in T : g[s] = IF s = {} THEN 0 ELSE f[One(s)] + g[s \ {One(s)}]

\* A set without one of its members has one member less.
LEMMA OneLess ==
  ASSUME NEW S, IsFiniteSet(S), NEW s \in SUBSET S, s # {}
  PROVE  /\ One(s) \in s /\ s \ {One(s)} \in SUBSET S
         /\ Cardinality(s) \in Nat /\ Cardinality(s) > 0
         /\ Cardinality(s \ {One(s)}) = Cardinality(s) - 1
<1>1. One(s) \in s
  BY DEF One
<1>2. IsFiniteSet(s) /\ Cardinality(s) \in Nat
  BY FS_Subset, FS_CardinalityType
<1>3. Cardinality(s) # 0
  BY <1>2, FS_EmptySet
<1>4. Cardinality(s \ {One(s)}) = Cardinality(s) - 1
  BY <1>1, <1>2, FS_RemoveElement
<1>. QED BY <1>1, <1>2, <1>3, <1>4

\* There is a function that adds up f over every subset of a finite set.
LEMMA SumsExist ==
  ASSUME NEW S, IsFiniteSet(S), NEW f \in [S -> Nat]
  PROVE  \E g \in [SUBSET S -> Nat] : Adds(g, f, SUBSET S)
<1>. DEFINE Upto(k) == {s \in SUBSET S : Cardinality(s) <= k}
            Good(k) == \E g \in [Upto(k) -> Nat] : Adds(g, f, Upto(k))
            Bad == {k \in Nat : ~Good(k)}
<1>0. \A s \in SUBSET S : IsFiniteSet(s) /\ Cardinality(s) \in Nat
  BY FS_Subset, FS_CardinalityType
<1>1. Good(0)
  <2>. DEFINE g == [s \in Upto(0) |-> 0]
  <2>1. \A s \in Upto(0) : s = {}
    BY <1>0, FS_EmptySet
  <2>2. g \in [Upto(0) -> Nat] /\ Adds(g, f, Upto(0))
    BY <2>1 DEF Adds
  <2>. QED BY <2>2
<1>2. ASSUME NEW k \in Nat, k > 0, Good(k - 1) PROVE Good(k)
  <2>1. PICK g \in [Upto(k - 1) -> Nat] : Adds(g, f, Upto(k - 1))
    BY <1>2
  <2>. DEFINE h == [s \in Upto(k) |-> IF s = {} THEN 0 ELSE f[One(s)] + g[s \ {One(s)}]]
  <2>2. ASSUME NEW s \in Upto(k), s # {}
        PROVE  s \ {One(s)} \in Upto(k - 1) /\ f[One(s)] \in Nat
    BY <1>0, <2>2, OneLess
  <2>3. h \in [Upto(k) -> Nat]
    BY <2>1, <2>2
  <2>4. \A s \in Upto(k - 1) : s \in Upto(k) /\ h[s] = g[s]
    <3>1. \A s \in Upto(k - 1) : s \in Upto(k)
      BY <1>0
    <3>. QED BY <2>1, <3>1 DEF Adds
  <2>5. Adds(h, f, Upto(k))
    BY <2>2, <2>4 DEF Adds
  <2>. HIDE DEF h
  <2>. QED BY <2>3, <2>5
<1>3. Bad = {}
  <2>. SUFFICES ASSUME Bad # {} PROVE FALSE
    OBVIOUS
  <2>. HIDE DEF Good
  <2>1. PICK k \in Bad : \A i \in Bad : k <= i
    BY LeastOf
  <2>2. k \in Nat /\ k > 0 /\ k - 1 \in Nat
    BY <1>1
  <2>3. Good(k - 1)
    BY <2>1, <2>2
  <2>. QED BY <1>2, <2>2, <2>3
<1>4. Good(Cardinality(S))
  <2>. HIDE DEF Good
  <2>. QED BY <1>0, <1>3
<1>5. Upto(Cardinality(S)) = SUBSET S
  BY FS_Subset
<1>. QED BY <1>4, <1>5

\* The sum of a function is what such a function makes of its whole domain.
LEMMA SumIs ==
  ASSUME NEW S, IsFiniteSet(S), NEW f \in [S -> Nat]
  PROVE  \E g \in [SUBSET S -> Nat] : Adds(g, f, SUBSET S) /\ SumFunction(f) = g[S]
<1>. DEFINE Is(g) ==
       g = [s \in SUBSET S |-> IF s = {} THEN 0 ELSE f[One(s)] + g[s \ {One(s)}]]
            iter == CHOOSE g : Is(g)
<1>1. SumFunction(f) = iter[S]
  <2>1. DOMAIN f = S
    OBVIOUS
  <2>2. SumFunction(f) = (CHOOSE g : g = [s \in SUBSET DOMAIN f |->
           IF s = {} THEN 0
           ELSE f[CHOOSE x \in s : TRUE] + g[s \ {CHOOSE x \in s : TRUE}]])[DOMAIN f]
    BY DEF SumFunction, SumFunctionOnSet, FoldFunctionOnSet, MapThenFoldSet
  <2>. QED BY <2>1, <2>2 DEF One
<1>2. PICK h \in [SUBSET S -> Nat] : Adds(h, f, SUBSET S)
  BY SumsExist
<1>3. Is(h)
  <2>1. h = [s \in SUBSET S |-> h[s]]
    OBVIOUS
  <2>. QED BY <1>2, <2>1 DEF Adds
<1>4. Is(iter)
  <2>. HIDE DEF Is
  <2>. QED BY <1>3
<1>. HIDE DEF iter
<1>5. /\ DOMAIN iter = SUBSET S
      /\ \A s \in SUBSET S :
           iter[s] = IF s = {} THEN 0 ELSE f[One(s)] + iter[s \ {One(s)}]
  BY <1>4
<1>6. \A s \in SUBSET S : iter[s] = h[s]
  <2>. DEFINE Bad == {k \in Nat : \E s \in SUBSET S : Cardinality(s) = k /\ iter[s] # h[s]}
  <2>1. Bad = {}
    <3>. SUFFICES ASSUME Bad # {} PROVE FALSE
      OBVIOUS
    <3>1. PICK k \in Bad : \A i \in Bad : k <= i
      BY LeastOf
    <3>2. PICK s \in SUBSET S : Cardinality(s) = k /\ iter[s] # h[s]
      OBVIOUS
    <3>3. s # {}
      BY <1>2, <1>5, <3>2 DEF Adds
    <3>4. /\ One(s) \in s /\ s \ {One(s)} \in SUBSET S
          /\ Cardinality(s \ {One(s)}) = k - 1 /\ k \in Nat /\ k > 0
      BY <3>2, <3>3, OneLess
    <3>5. iter[s \ {One(s)}] = h[s \ {One(s)}]
      <4>1. k - 1 \in Nat /\ ~(k <= k - 1)
        BY <3>4
      <4>2. k - 1 \notin Bad
        BY <3>1, <4>1
      <4>. QED BY <3>4, <4>1, <4>2
    <3>. QED BY <1>2, <1>5, <3>2, <3>3, <3>5 DEF Adds
  <2>. QED BY <2>1, FS_Subset, FS_CardinalityType
<1>7. iter \in [SUBSET S -> Nat]
  <2>1. iter = [s \in SUBSET S |-> iter[s]]
    BY <1>4, <1>5
  <2>. QED BY <1>2, <1>6, <2>1
<1>8. Adds(iter, f, SUBSET S)
  BY <1>5 DEF Adds
<1>. QED BY <1>1, <1>7, <1>8

\* A sum of numbers is no more than as many times the most as there are numbers.
LEMMA SumWithin ==
  ASSUME NEW S, IsFiniteSet(S), NEW f \in [S -> Nat], NEW most \in Nat,
         \A x \in S : f[x] <= most
  PROVE  SumFunction(f) \in Nat /\ SumFunction(f) <= Cardinality(S) * most
<1>1. PICK g \in [SUBSET S -> Nat] : Adds(g, f, SUBSET S) /\ SumFunction(f) = g[S]
  BY SumIs
<1>. DEFINE Bad == {k \in Nat : \E s \in SUBSET S : Cardinality(s) = k /\ ~(g[s] <= k * most)}
<1>2. Bad = {}
  <2>. SUFFICES ASSUME Bad # {} PROVE FALSE
    OBVIOUS
  <2>1. PICK k \in Bad : \A i \in Bad : k <= i
    BY LeastOf
  <2>2. PICK s \in SUBSET S : Cardinality(s) = k /\ ~(g[s] <= k * most)
    OBVIOUS
  <2>3. s # {}
    <3>. SUFFICES ASSUME s = {} PROVE FALSE
      OBVIOUS
    <3>1. g[s] = 0 /\ k \in Nat
      BY <1>1 DEF Adds
    <3>2. k * most \in Nat
      BY <3>1
    <3>. QED BY <2>2, <3>1, <3>2
  <2>4. /\ One(s) \in s /\ s \ {One(s)} \in SUBSET S
        /\ Cardinality(s \ {One(s)}) = k - 1 /\ k \in Nat /\ k > 0
    BY <2>2, <2>3, OneLess
  <2>5. k - 1 \in Nat /\ ~(k <= k - 1)
    BY <2>4
  <2>6. g[s \ {One(s)}] <= (k - 1) * most
    <3>1. k - 1 \notin Bad
      BY <2>1, <2>5
    <3>. QED BY <2>4, <2>5, <3>1
  <2>7. /\ g[s] = f[One(s)] + g[s \ {One(s)}] /\ f[One(s)] <= most /\ f[One(s)] \in Nat
        /\ g[s \ {One(s)}] \in Nat
    BY <1>1, <2>3, <2>4 DEF Adds
  <2>8. (k - 1) * most + most = k * most /\ (k - 1) * most \in Nat
    BY <2>4, <2>5
  <2>. QED BY <2>2, <2>6, <2>7, <2>8
<1>3. IsFiniteSet(S) /\ Cardinality(S) \in Nat
  BY FS_CardinalityType
<1>4. g[S] \in Nat
  BY <1>1
<1>5. g[S] <= Cardinality(S) * most
  BY <1>2, <1>3
<1>. QED BY <1>1, <1>4, <1>5

\* A function on 1 .. n is a sequence of that length.
LEMMA SequenceIs ==
  ASSUME NEW S, NEW n \in Nat, NEW s \in [1 .. n -> S]
  PROVE  s \in Seq(S) /\ Len(s) = n /\ DOMAIN s = 1 .. n
OBVIOUS

------------------------------------------------------------------------------
\* The numbers up to n.
LEMMA UpTo ==
  ASSUME NEW n \in Nat
  PROVE  IsFiniteSet(1 .. n) /\ Cardinality(1 .. n) = n /\ Cardinality(0 .. n) = n + 1
         /\ IsFiniteSet(0 .. n)
<1>1. Cardinality(1 .. n) = IF 1 > n THEN 0 ELSE n - 1 + 1
  BY FS_Interval
<1>2. Cardinality(0 .. n) = IF 0 > n THEN 0 ELSE n - 0 + 1
  BY FS_Interval
<1>3. IsFiniteSet(1 .. n) /\ IsFiniteSet(0 .. n)
  BY FS_Interval
<1>. QED BY <1>1, <1>2, <1>3

\* What is settled after each step.
LEMMA SettledIs ==
  ASSUME NEW G, IsFiniteSet(G.node)
  PROVE  /\ Cardinality(G.node) \in Nat
         /\ Settled(G) \in [0 .. Cardinality(G.node) -> SUBSET G.node]
         /\ Settled(G)[0] = {}
         /\ \A n \in 1 .. Cardinality(G.node) :
              Settled(G)[n] = Ready(G, Settled(G)[n - 1])
<1>. DEFINE V == G.node
            N == Cardinality(V)
            Is(f) == f = [n \in 0 .. N |-> IF n = 0 THEN {} ELSE Ready(G, f[n - 1])]
            s == CHOOSE f : Is(f)
            g == [p \in (1 .. N) \X SUBSET V |-> Ready(G, p[2])]
<1>1. N \in Nat
  BY FS_CardinalityType
<1>2. Settled(G) = s
  BY DEF Settled
<1>3. \A e : Ready(G, e) \in SUBSET V
  BY DEF Ready
<1>. HIDE DEF V, N
<1>4. PICK h \in [0 .. N -> SUBSET V] : Unfolds(h, {}, N, g)
  <2>1. g \in Steps(SUBSET V, N) /\ {} \in SUBSET V
    BY <1>3 DEF Steps
  <2>. HIDE DEF g
  <2>. QED BY <1>1, <2>1, RecursionExists
<1>5. \A n \in 1 .. N : n - 1 \in 0 .. N /\ n \in 0 .. N /\ n # 0
  BY <1>1
<1>6. Is(h)
  <2>1. \A n \in 1 .. N : h[n] = Ready(G, h[n - 1])
    BY <1>4, <1>5 DEF Unfolds
  <2>2. h = [n \in 0 .. N |-> h[n]] /\ \A n \in 0 .. N : n # 0 => n \in 1 .. N
    BY <1>1, <1>4
  <2>. QED BY <1>4, <2>1, <2>2 DEF Unfolds
<1>7. Is(s)
  <2>. HIDE DEF Is
  <2>. QED BY <1>6
<1>. HIDE DEF s
<1>8. DOMAIN s = 0 .. N /\ s[0] = {} /\ \A n \in 1 .. N : s[n] = Ready(G, s[n - 1])
  <2>1. DOMAIN s = 0 .. N
    BY <1>7
  <2>2. \A n \in 0 .. N : s[n] = IF n = 0 THEN {} ELSE Ready(G, s[n - 1])
    BY <1>7
  <2>3. s[0] = {}
    BY <1>1, <2>2
  <2>. QED BY <1>5, <2>1, <2>2, <2>3
<1>9. s \in [0 .. N -> SUBSET V]
  <2>1. \A n \in 0 .. N : s[n] \in SUBSET V
    BY <1>1, <1>3, <1>8
  <2>2. s = [n \in 0 .. N |-> s[n]]
    BY <1>7
  <2>. QED BY <2>1, <2>2
<1>. QED BY <1>1, <1>2, <1>8, <1>9 DEF V, N

\* Settling only adds.
LEMMA SettledGrows ==
  ASSUME NEW G, IsFiniteSet(G.node)
  PROVE  \A n \in 1 .. Cardinality(G.node) : Settled(G)[n - 1] \subseteq Settled(G)[n]
<1>. DEFINE N == Cardinality(G.node)
            s == Settled(G)
            K == {n \in 0 .. N : n = 0 \/ s[n - 1] \subseteq s[n]}
<1>1. N \in Nat /\ s[0] = {} /\ \A n \in 1 .. N : s[n] = Ready(G, s[n - 1])
  BY SettledIs
<1>. HIDE DEF s, N
<1>2. 0 \in K
  BY <1>1
<1>3. ASSUME NEW n \in 1 .. N, n - 1 \in K PROVE n \in K
  <2>1. CASE n = 1
    BY <1>1, <2>1
  <2>2. CASE n # 1
    <3>1. n - 1 \in 1 .. N /\ s[(n - 1) - 1] \subseteq s[n - 1] /\ n \in 0 .. N
      BY <1>1, <1>3, <2>2
    <3>2. s[n - 1] = Ready(G, s[(n - 1) - 1]) /\ s[n] = Ready(G, s[n - 1])
      BY <1>1, <3>1
    <3>3. s[n - 1] \subseteq s[n]
      BY <3>1, <3>2 DEF Ready
    <3>. QED BY <3>1, <3>3
  <2>. QED BY <2>1, <2>2
<1>4. \A n \in 0 .. N : n \in K
  <2>. HIDE DEF K
  <2>. QED BY <1>1, <1>2, <1>3, CountUp
<1>. QED BY <1>1, <1>4 DEF s, N

\* The steps that settle anything come first; there is nothing left to settle
\* after them.
SettledIn(G, d) ==
  /\ d \in 0 .. Cardinality(G.node)
  /\ \A n \in 1 .. d : Settled(G)[n] # Settled(G)[n - 1]
  /\ \A n \in d .. Cardinality(G.node) : Settled(G)[n] = Settled(G)[d]
  /\ Settled(G)[d] = Ready(G, Settled(G)[d])

\* The settled sets grow until nothing new is ready, and then stay.
LEMMA SettledStops ==
  ASSUME NEW G, IsFiniteSet(G.node)
  PROVE  \E d \in Nat : SettledIn(G, d)
<1>. DEFINE N == Cardinality(G.node)
            s == Settled(G)
            Still == {n \in 0 .. N : n = N \/ s[n + 1] = s[n]}
<1>1. /\ N \in Nat /\ s \in [0 .. N -> SUBSET G.node] /\ s[0] = {}
      /\ \A n \in 1 .. N : s[n] = Ready(G, s[n - 1])
  BY SettledIs
<1>2. \A n \in 1 .. N : s[n - 1] \subseteq s[n]
  BY SettledGrows
<1>. HIDE DEF s
<1>3. N \in Still /\ Still \in SUBSET Nat
  BY <1>1
<1>4. PICK d \in Still : \A n \in Still : d <= n
  <2>. HIDE DEF Still
  <2>. QED BY <1>3, LeastOf
<1>5. d \in 0 .. N
  OBVIOUS
<1>6. ASSUME NEW n \in 1 .. d PROVE s[n] # s[n - 1]
  <2>1. n - 1 \in 0 .. N /\ n - 1 # N /\ ~(d <= n - 1) /\ (n - 1) + 1 = n
    BY <1>1, <1>5
  <2>2. n - 1 \notin Still
    <3>. HIDE DEF Still
    <3>. QED BY <1>4, <2>1
  <2>. QED BY <2>1, <2>2
<1>7. s[d] = Ready(G, s[d])
  <2>1. CASE d = N
    \* Every step settled something, so everything is settled.
    <3>. DEFINE K == {n \in 0 .. N : n <= Cardinality(s[n])}
    <3>0. \A n \in 0 .. N : IsFiniteSet(s[n]) /\ Cardinality(s[n]) \in Nat
      BY <1>1, FS_Subset, FS_CardinalityType
    <3>1. 0 \in K
      BY <1>1, <3>0
    <3>2. ASSUME NEW n \in 1 .. N, n - 1 \in K PROVE n \in K
      <4>1. s[n] # s[n - 1] /\ s[n - 1] \in SUBSET s[n] /\ n - 1 \in 0 .. N /\ n \in 0 .. N
        BY <1>1, <1>2, <1>6, <2>1
      <4>2. IsFiniteSet(s[n]) /\ Cardinality(s[n]) \in Nat /\ Cardinality(s[n - 1]) \in Nat
        BY <3>0, <4>1
      <4>3. Cardinality(s[n - 1]) <= Cardinality(s[n]) /\ Cardinality(s[n - 1]) # Cardinality(s[n])
        BY <4>1, <4>2, FS_Subset
      <4>4. n - 1 <= Cardinality(s[n - 1])
        BY <3>2
      <4>5. n <= Cardinality(s[n])
        <5>1. n \in Int
          OBVIOUS
        <5>. QED BY <4>2, <4>3, <4>4, <5>1
      <4>. QED BY <4>1, <4>5
    <3>3. N \in K
      <4>1. \A n \in 0 .. N : n \in K
        <5>. HIDE DEF K, N
        <5>. QED BY <1>1, <3>1, <3>2, CountUp
      <4>2. N \in 0 .. N
        BY <1>1
      <4>. QED BY <4>1, <4>2
    <3>4. s[N] \in SUBSET G.node /\ N <= Cardinality(s[N])
      BY <1>1, <3>3
    <3>5. Cardinality(s[N]) <= N /\ Cardinality(s[N]) \in Nat
      BY <3>4, FS_Subset, FS_CardinalityType
    <3>6. s[N] = G.node
      BY <1>1, <3>4, <3>5, FS_Subset
    <3>. QED BY <2>1, <3>6 DEF Ready, Predecessors
  <2>2. CASE d # N
    <3>1. d + 1 \in 1 .. N /\ (d + 1) - 1 = d /\ s[d + 1] = s[d]
      BY <1>1, <1>4, <1>5, <2>2
    <3>2. s[d + 1] = Ready(G, s[(d + 1) - 1])
      BY <1>1, <3>1
    <3>. QED BY <3>1, <3>2
  <2>. QED BY <2>1, <2>2
<1>8. \A n \in d .. N : s[n] = s[d]
  <2>. DEFINE K == {n \in 0 .. N : n >= d => s[n] = s[d]}
  <2>1. 0 \in K
    BY <1>1, <1>5
  <2>2. ASSUME NEW n \in 1 .. N, n - 1 \in K PROVE n \in K
    <3>1. CASE n = d
      BY <3>1
    <3>2. CASE n > d
      <4>1. n - 1 >= d /\ n - 1 \in 0 .. N /\ n \in 0 .. N
        BY <1>1, <1>5, <3>2
      <4>2. s[n - 1] = s[d]
        BY <2>2, <4>1
      <4>3. s[n] = s[d]
        BY <1>1, <1>7, <4>2
      <4>. QED BY <4>1, <4>3
    <3>3. CASE n < d
      BY <1>1, <1>5, <3>3
    <3>. QED BY <1>1, <1>5, <3>1, <3>2, <3>3
  <2>3. \A n \in 0 .. N : n \in K
    <3>. HIDE DEF K, N
    <3>. QED BY <1>1, <2>1, <2>2, CountUp
  <2>. QED BY <1>1, <1>5, <2>3
<1>9. d \in Nat
  BY <1>1, <1>5
<1>. QED BY <1>5, <1>6, <1>7, <1>8, <1>9 DEF SettledIn, s

\* What was settled stays so.
LEMMA SettledStays ==
  ASSUME NEW G, IsFiniteSet(G.node)
  PROVE  \A i, j \in 0 .. Cardinality(G.node) :
           i <= j => Settled(G)[i] \subseteq Settled(G)[j]
<1>. DEFINE N == Cardinality(G.node)
            s == Settled(G)
            K == {j \in 0 .. N : \A i \in 0 .. N : i <= j => s[i] \subseteq s[j]}
<1>1. N \in Nat /\ \A n \in 1 .. N : s[n - 1] \subseteq s[n]
  BY SettledIs, SettledGrows
<1>. HIDE DEF s, N
<1>2. 0 \in K
  <2>1. \A i \in 0 .. N : i <= 0 => i = 0
    BY <1>1
  <2>. QED BY <1>1, <2>1
<1>3. ASSUME NEW n \in 1 .. N, n - 1 \in K PROVE n \in K
  <2>1. n \in 0 .. N /\ \A i \in 0 .. N : i <= n => i = n \/ i <= n - 1
    BY <1>1
  <2>2. s[n - 1] \subseteq s[n]
    BY <1>1
  <2>3. \A i \in 0 .. N : i <= n - 1 => s[i] \subseteq s[n - 1]
    BY <1>3
  <2>4. ASSUME NEW i \in 0 .. N, i <= n PROVE s[i] \subseteq s[n]
    <3>1. CASE i = n
      BY <3>1
    <3>2. CASE i <= n - 1
      BY <2>2, <2>3, <3>2
    <3>. QED BY <2>1, <2>4, <3>1, <3>2
  <2>. QED BY <2>1, <2>4
<1>4. \A n \in 0 .. N : n \in K
  <2>. HIDE DEF K
  <2>. QED BY <1>1, <1>2, <1>3, CountUp
<1>. QED BY <1>4 DEF s, N

\* The depth of a graph, and its generations.
LEMMA GenerationsAre ==
  ASSUME NEW G, IsFiniteSet(G.node), NEW d \in Nat, SettledIn(G, d)
  PROVE  Generations(G) = [n \in 1 .. d |-> Settled(G)[n] \ Settled(G)[n - 1]]
<1>. DEFINE N == Cardinality(G.node)
            s == Settled(G)
            T == {s[n] : n \in DOMAIN s}
            f == [n \in 0 .. d |-> s[n]]
<1>1. /\ N \in Nat /\ DOMAIN s = 0 .. N
  BY SettledIs
<1>2. \A i, j \in 0 .. N : i <= j => s[i] \subseteq s[j]
  BY SettledStays
<1>3. /\ d \in 0 .. N /\ \A n \in 1 .. d : s[n] # s[n - 1]
      /\ \A n \in d .. N : s[n] = s[d]
  BY DEF SettledIn
<1>0. Generations(G) = LET depth == Cardinality(T) - 1
                       IN [n \in 1 .. depth |-> s[n] \ s[n - 1]]
  BY DEF Generations
<1>. HIDE DEF s, N
<1>4. T = {s[n] : n \in 0 .. d}
  <2>1. \A n \in 0 .. N : n \in 0 .. d \/ s[n] = s[d]
    BY <1>1, <1>3
  <2>2. d \in 0 .. d /\ \A n \in 0 .. d : n \in 0 .. N
    BY <1>1, <1>3
  <2>. QED BY <1>1, <2>1, <2>2
<1>5. Range(f) = T
  BY <1>4 DEF Range
<1>6. IsInjective(f)
  <2>1. ASSUME NEW i \in 0 .. d, NEW j \in 0 .. d, i < j PROVE s[i] # s[j]
    <3>1. /\ j \in 1 .. d /\ j \in 0 .. N /\ j - 1 \in 0 .. N /\ i \in 0 .. N
          /\ i <= j - 1 /\ j - 1 <= j
      BY <1>1, <1>3, <2>1
    <3>2. s[i] \subseteq s[j - 1] /\ s[j - 1] \subseteq s[j] /\ s[j] # s[j - 1]
      BY <1>2, <1>3, <3>1
    <3>. QED BY <3>2
  <2>2. \A i, j \in 0 .. d : i = j \/ i < j \/ j < i
    OBVIOUS
  <2>3. DOMAIN f = 0 .. d /\ \A i \in 0 .. d : f[i] = s[i]
    OBVIOUS
  <2>4. ASSUME NEW i \in 0 .. d, NEW j \in 0 .. d, s[i] = s[j] PROVE i = j
    BY <2>1, <2>2, <2>4
  <2>. HIDE DEF f
  <2>. QED BY <2>3, <2>4 DEF IsInjective
<1>7. f \in Surjection(0 .. d, T)
  <2>1. \A t \in T : \E n \in 0 .. d : f[n] = t
    BY <1>4
  <2>2. f \in [0 .. d -> T]
    BY <1>4
  <2>. HIDE DEF T
  <2>. QED BY <2>1, <2>2 DEF Surjection
<1>8. Cardinality(T) = d + 1
  <2>1. f \in Injection(0 .. d, T)
    BY <1>6, <1>7 DEF Injection, Surjection
  <2>2. IsFiniteSet(0 .. d) /\ Cardinality(0 .. d) = d + 1
    BY UpTo
  <2>. HIDE DEF T, f
  <2>. QED BY <1>7, <2>1, <2>2, FS_Surjection
<1>9. Cardinality(T) - 1 = d
  <2>. HIDE DEF T
  <2>. QED BY <1>8
<1>. HIDE DEF T
<1>. QED BY <1>0, <1>9 DEF s

\* A graph whose edges go upwards has no cycle.
LEMMA RankedIsAcyclic ==
  ASSUME NEW G, IsFiniteSet(G.node), NEW rank,
         \A x \in G.node : rank[x] \in Nat,
         \A x, y \in G.node : <<x, y>> \in G.edge => rank[x] < rank[y]
  PROVE  Acyclic(G)
<1>1. PICK d \in Nat : SettledIn(G, d)
  BY SettledStops
<1>. DEFINE N == Cardinality(G.node)
            s == Settled(G)
            T == {k \in Nat : \E x \in G.node \ s[d] : rank[x] = k}
<1>2. s[N] = s[d] /\ s[d] = Ready(G, s[d]) /\ s[d] \in SUBSET G.node
  <2>1. N \in d .. N /\ d \in 0 .. N
    BY SettledIs, <1>1 DEF SettledIn
  <2>. QED BY <1>1, <2>1, SettledIs DEF SettledIn
<1>. SUFFICES ASSUME s[d] # G.node PROVE FALSE
  BY <1>2 DEF Acyclic
<1>. HIDE DEF s
<1>3. T # {} /\ T \in SUBSET Nat
  BY <1>2
<1>4. PICK k \in T : \A i \in T : k <= i
  <2>. HIDE DEF T
  <2>. QED BY <1>3, LeastOf
<1>5. PICK x \in G.node \ s[d] : rank[x] = k
  OBVIOUS
<1>6. Predecessors(G, x) \subseteq s[d]
  <2>. SUFFICES ASSUME NEW y \in G.node, <<y, x>> \in G.edge, y \notin s[d] PROVE FALSE
    BY DEF Predecessors
  <2>1. rank[y] \in Nat /\ rank[y] < k /\ k \in Nat
    BY <1>5
  <2>2. rank[y] \in T /\ ~(k <= rank[y])
    BY <2>1
  <2>. HIDE DEF T
  <2>. QED BY <1>4, <2>2
<1>7. x \in Ready(G, s[d])
  BY <1>5, <1>6 DEF Ready
<1>. QED BY <1>2, <1>5, <1>7

\* The generations of a graph without a cycle: every node is in one, the nodes it
\* depends on are in earlier ones.
LEMMA GenerationsDivide ==
  ASSUME NEW G, IsFiniteSet(G.node), Acyclic(G)
  PROVE  /\ Len(Generations(G)) \in Nat
         /\ DOMAIN Generations(G) = 1 .. Len(Generations(G))
         /\ Generations(G) \in Seq(SUBSET G.node)
         /\ \A x \in G.node : \E n \in DOMAIN Generations(G) : x \in Generations(G)[n]
         /\ \A m, n \in DOMAIN Generations(G) :
              m # n => Generations(G)[m] \cap Generations(G)[n] = {}
         /\ \A x, y \in G.node, m, n \in DOMAIN Generations(G) :
              <<x, y>> \in G.edge /\ x \in Generations(G)[m] /\ y \in Generations(G)[n]
                => m < n
<1>1. PICK d \in Nat : SettledIn(G, d)
  BY SettledStops
<1>. DEFINE N == Cardinality(G.node)
            s == Settled(G)
            g == Generations(G)
<1>2. g = [n \in 1 .. d |-> s[n] \ s[n - 1]]
  BY <1>1, GenerationsAre
<1>3. /\ N \in Nat /\ s \in [0 .. N -> SUBSET G.node] /\ s[0] = {}
      /\ \A n \in 1 .. N : s[n] = Ready(G, s[n - 1])
  BY SettledIs
<1>4. d \in 0 .. N /\ s[d] = G.node
  <2>1. d \in 0 .. N /\ N \in d .. N
    BY <1>1, <1>3 DEF SettledIn
  <2>. QED BY <1>1, <2>1 DEF SettledIn, Acyclic
<1>5. \A i, j \in 0 .. N : i <= j => s[i] \subseteq s[j]
  BY SettledStays
<1>. HIDE DEF s, N, g
<1>6. g \in Seq(SUBSET G.node) /\ Len(g) = d /\ DOMAIN g = 1 .. d
  <2>1. \A n \in 1 .. d : n \in 0 .. N
    BY <1>3, <1>4
  <2>2. g \in [1 .. d -> SUBSET G.node]
    BY <1>2, <1>3, <2>1
  <2>. QED BY <2>2, SequenceIs
<1>7. ASSUME NEW x \in G.node PROVE \E n \in 1 .. d : x \in g[n]
  <2>. DEFINE T == {n \in 0 .. d : x \in s[n]}
  <2>1. T # {} /\ T \in SUBSET Nat
    BY <1>4
  <2>2. PICK n \in T : \A i \in T : n <= i
    <3>. HIDE DEF T
    <3>. QED BY <2>1, LeastOf
  <2>3. n \in 1 .. d /\ n - 1 \in 0 .. d /\ ~(n <= n - 1)
    BY <1>3, <1>4
  <2>4. n - 1 \notin T
    <3>. HIDE DEF T
    <3>. QED BY <2>2, <2>3
  <2>. QED BY <1>2, <2>3, <2>4
<1>8. ASSUME NEW m \in 1 .. d, NEW n \in 1 .. d, m < n PROVE g[m] \cap g[n] = {}
  <2>1. m \in 0 .. N /\ n - 1 \in 0 .. N /\ m <= n - 1
    BY <1>3, <1>4, <1>8
  <2>2. s[m] \subseteq s[n - 1]
    BY <1>5, <2>1
  <2>. QED BY <1>2, <2>2
<1>9. \A m, n \in 1 .. d : m # n => g[m] \cap g[n] = {}
  <2>1. \A m, n \in 1 .. d : m # n => m < n \/ n < m
    OBVIOUS
  <2>2. ASSUME NEW m \in 1 .. d, NEW n \in 1 .. d, m # n PROVE g[m] \cap g[n] = {}
    <3>1. CASE m < n
      BY <1>8, <3>1
    <3>2. CASE n < m
      <4>1. g[n] \cap g[m] = {}
        BY <1>8, <3>2
      <4>. QED BY <4>1
    <3>. QED BY <2>1, <2>2, <3>1, <3>2
  <2>. QED BY <2>2
<1>10. ASSUME NEW x \in G.node, NEW y \in G.node, NEW m \in 1 .. d, NEW n \in 1 .. d,
              <<x, y>> \in G.edge, x \in g[m], y \in g[n]
       PROVE  m < n
  <2>1. n \in 1 .. N /\ n - 1 \in 0 .. N /\ m - 1 \in 0 .. N /\ m \in Int /\ n \in Int
    BY <1>3, <1>4
  <2>2. y \in s[n] /\ x \notin s[m - 1]
    BY <1>2, <1>10
  <2>3. y \in Ready(G, s[n - 1])
    BY <1>3, <2>1, <2>2
  <2>4. x \in s[n - 1]
    BY <1>10, <2>3 DEF Ready, Predecessors
  <2>5. ~(n <= m)
    <3>1. n <= m => n - 1 <= m - 1
      BY <2>1
    <3>. QED BY <1>5, <2>1, <2>2, <2>4, <3>1
  <2>. QED BY <2>1, <2>5
<1>11. Len(g) \in Nat /\ DOMAIN g = 1 .. Len(g)
  BY <1>6
<1>12. \A x \in G.node : \E n \in DOMAIN g : x \in g[n]
  BY <1>6, <1>7
<1>13. \A m, n \in DOMAIN g : m # n => g[m] \cap g[n] = {}
  BY <1>6, <1>9
<1>14. \A x, y \in G.node, m, n \in DOMAIN g :
         <<x, y>> \in G.edge /\ x \in g[m] /\ y \in g[n] => m < n
  BY <1>6, <1>10
<1>. QED BY <1>6, <1>11, <1>12, <1>13, <1>14 DEF g

\* A graph without a cycle has a rank that every edge raises.
LEMMA AcyclicIsRanked ==
  ASSUME NEW G, IsFiniteSet(G.node), Acyclic(G)
  PROVE  \E rank \in [G.node -> Nat] :
           \A x, y \in G.node : <<x, y>> \in G.edge => rank[x] < rank[y]
<1>. DEFINE g == Generations(G)
            rank == [x \in G.node |-> CHOOSE n \in DOMAIN g : x \in g[n]]
<1>1. /\ DOMAIN g = 1 .. Len(g) /\ Len(g) \in Nat
      /\ \A x \in G.node : \E n \in DOMAIN g : x \in g[n]
  BY GenerationsDivide
<1>2. \A x, y \in G.node, m, n \in DOMAIN g :
         <<x, y>> \in G.edge /\ x \in g[m] /\ y \in g[n] => m < n
  BY GenerationsDivide
<1>. HIDE DEF g
<1>3. \A x \in G.node : rank[x] \in DOMAIN g /\ x \in g[rank[x]]
  BY <1>1
<1>4. rank \in [G.node -> Nat]
  BY <1>1, <1>3
<1>. HIDE DEF rank
<1>. QED BY <1>2, <1>3, <1>4

------------------------------------------------------------------------------
\* The members of S in an order in which each comes after all it depends on.
InOrder(o, G, S) ==
  /\ o \in Seq(G.node) /\ IsInjective(o) /\ Range(o) = S
  /\ \A j \in 1 .. Len(o) : \A x \in Predecessors(G, o[j]) :
       \E i \in 1 .. j - 1 : o[i] = x

\* The members of a finite set in any order.
LEMMA ArrangedIs ==
  ASSUME NEW V, NEW T \in SUBSET V, IsFiniteSet(T), NEW t \in SetToSeqs(T)
  PROVE  t \in Seq(V) /\ IsInjective(t) /\ Range(t) = T
<1>. DEFINE n == Cardinality(T)
<1>1. n \in Nat /\ IsFiniteSet(1 .. n) /\ Cardinality(1 .. n) = n
  BY FS_CardinalityType, UpTo
<1>2. t \in [1 .. n -> T] /\ \A i, j \in 1 .. n : i # j => t[i] # t[j]
  BY DEF SetToSeqs
<1>. HIDE DEF n
<1>3. t \in Injection(1 .. n, T)
  BY <1>2 DEF Injection, IsInjective
<1>4. t \in Surjection(1 .. n, T)
  BY <1>1, <1>3, FS_Injection DEF n
<1>5. Range(t) = T
  <2>1. DOMAIN t = 1 .. n /\ \A x \in T : \E i \in 1 .. n : t[i] = x
    BY <1>2, <1>4 DEF Surjection
  <2>2. \A i \in 1 .. n : t[i] \in T
    BY <1>2
  <2>. QED BY <2>1, <2>2 DEF Range
<1>6. t \in [1 .. n -> V]
  BY <1>2
<1>7. t \in Seq(V)
  BY <1>1, <1>6, SequenceIs
<1>. QED BY <1>3, <1>5, <1>7 DEF Injection

\* Another generation at the end.
LEMMA OrderExtends ==
  ASSUME NEW G, NEW S \in SUBSET G.node, NEW T \in SUBSET G.node, IsFiniteSet(T),
         S \cap T = {}, \A x \in T : Predecessors(G, x) \subseteq S,
         NEW o, InOrder(o, G, S), NEW t \in SetToSeqs(T)
  PROVE  InOrder(o \o t, G, S \cup T)
<1>. DEFINE V == G.node
            w == o \o t
            l == Len(o)
            m == Len(t)
<1>1. o \in Seq(V) /\ IsInjective(o) /\ Range(o) = S
  BY DEF InOrder
<1>2. t \in Seq(V) /\ IsInjective(t) /\ Range(t) = T
  BY ArrangedIs
<1>3. /\ l \in Nat /\ m \in Nat /\ DOMAIN o = 1 .. l /\ DOMAIN t = 1 .. m
  BY <1>1, <1>2
<1>4. /\ w \in Seq(V) /\ Len(w) = l + m /\ DOMAIN w = 1 .. l + m
      /\ \A i \in 1 .. l : w[i] = o[i]
      /\ \A i \in l + 1 .. l + m : w[i] = t[i - l] /\ i - l \in 1 .. m
  <2>1. w \in Seq(V) /\ Len(w) = l + m
    BY <1>1, <1>2
  <2>2. \A i \in 1 .. l + m : w[i] = IF i <= l THEN o[i] ELSE t[i - l]
    BY <1>1, <1>2
  <2>3. DOMAIN w = 1 .. l + m
    BY <2>1
  <2>. HIDE DEF w
  <2>. QED BY <1>3, <2>1, <2>2, <2>3
<1>5. /\ \A i \in 1 .. l : o[i] \in S
      /\ \A i \in 1 .. m : t[i] \in T
      /\ \A x \in S : \E i \in 1 .. l : o[i] = x
      /\ \A x \in T : \E i \in 1 .. m : t[i] = x
  BY <1>1, <1>2, <1>3 DEF Range
<1>. HIDE DEF w, l, m
<1>6. \A i \in 1 .. l + m : i \in 1 .. l \/ i \in l + 1 .. l + m
  BY <1>3
<1>7. /\ \A i \in 1 .. l : w[i] \in S /\ i \in 1 .. l + m
      /\ \A i \in l + 1 .. l + m : w[i] \in T /\ i \in 1 .. l + m
  BY <1>3, <1>4, <1>5
<1>8. IsInjective(w)
  <2>. SUFFICES ASSUME NEW i \in 1 .. l + m, NEW j \in 1 .. l + m, w[i] = w[j]
                PROVE  i = j
    BY <1>4 DEF IsInjective
  <2>1. CASE i \in 1 .. l /\ j \in 1 .. l
    BY <1>1, <1>3, <1>4, <2>1 DEF IsInjective
  <2>2. CASE i \in l + 1 .. l + m /\ j \in l + 1 .. l + m
    <3>1. t[i - l] = t[j - l] /\ i - l \in 1 .. m /\ j - l \in 1 .. m
      BY <1>4, <2>2
    <3>2. i - l = j - l
      BY <1>2, <1>3, <3>1 DEF IsInjective
    <3>. QED BY <1>3, <3>2
  <2>. QED BY <1>6, <1>7, <2>1, <2>2
<1>9. Range(w) = S \cup T
  <2>1. \A x \in S : \E i \in 1 .. l + m : w[i] = x
    BY <1>4, <1>5, <1>7
  <2>2. \A x \in T : \E i \in 1 .. l + m : w[i] = x
    <3>. SUFFICES ASSUME NEW x \in T PROVE \E i \in 1 .. l + m : w[i] = x
      OBVIOUS
    <3>1. PICK k \in 1 .. m : t[k] = x
      BY <1>5
    <3>2. PICK i \in l + 1 .. l + m : i = l + k
      BY <1>3
    <3>3. i - l = k
      BY <1>3, <3>2
    <3>. QED BY <1>4, <1>7, <3>1, <3>2, <3>3
  <2>3. \A i \in 1 .. l + m : w[i] \in S \cup T
    BY <1>6, <1>7
  <2>. QED BY <1>4, <2>1, <2>2, <2>3 DEF Range
<1>10. ASSUME NEW j \in 1 .. l + m, NEW x \in Predecessors(G, w[j])
       PROVE  \E i \in 1 .. j - 1 : w[i] = x
  <2>1. CASE j \in 1 .. l
    <3>1. x \in Predecessors(G, o[j])
      BY <1>4, <2>1
    <3>2. PICK i \in 1 .. j - 1 : o[i] = x
      BY <2>1, <3>1 DEF InOrder, l
    <3>3. i \in 1 .. l
      BY <1>3, <2>1
    <3>. QED BY <1>4, <3>2, <3>3
  <2>2. CASE j \in l + 1 .. l + m
    <3>1. x \in S
      BY <1>7, <2>2
    <3>2. PICK i \in 1 .. l : o[i] = x
      BY <1>5, <3>1
    <3>3. i \in 1 .. j - 1
      BY <1>3, <2>2
    <3>. QED BY <1>4, <3>2, <3>3
  <2>. QED BY <1>6, <2>1, <2>2
<1>. QED BY <1>4, <1>8, <1>9, <1>10 DEF InOrder, w

\* An order followed by a generation.
LEMMA FollowedIs ==
  ASSUME NEW orders, NEW generation, NEW w \in Followed(orders, generation)
  PROVE  \E v \in orders : \E t \in SetToSeqs(generation) : w = v \o t
<1>. DEFINE T == SetToSeqs(generation)
<1>1. w \in {v \o t : v \in orders, t \in T}
  BY DEF Followed
<1>. HIDE DEF T
<1>2. \E v \in orders : \E t \in T : w = v \o t
  BY <1>1
<1>. QED BY <1>2 DEF T

\* A topological sort of a graph without a cycle returns every node, each after
\* all it depends on.
LEMMA OrdersAreInOrder ==
  ASSUME NEW G, IsFiniteSet(G.node), Acyclic(G), NEW o \in TopologicalOrders(G)
  PROVE  InOrder(o, G, G.node)
<1>1. PICK d \in Nat : SettledIn(G, d)
  BY SettledStops
<1>. DEFINE V == G.node
            N == Cardinality(V)
            s == Settled(G)
            g == Generations(G)
            P == SUBSET Seq(V)
            Is(f) == f = [n \in 0 .. Len(g) |-> IF n = 0 THEN {<<>>}
                                                ELSE Followed(f[n - 1], g[n])]
            q == CHOOSE f : Is(f)
            step == [p \in (1 .. d) \X P |-> Followed(p[2], g[p[1]])]
<1>2. g = [n \in 1 .. d |-> s[n] \ s[n - 1]] /\ Len(g) \in Nat /\ DOMAIN g = 1 .. Len(g)
  BY <1>1, GenerationsAre, GenerationsDivide
<1>3. /\ N \in Nat /\ s \in [0 .. N -> SUBSET V] /\ s[0] = {}
      /\ \A n \in 1 .. N : s[n] = Ready(G, s[n - 1])
  BY SettledIs
<1>4. d \in 0 .. N /\ s[d] = V
  <2>1. d \in 0 .. N /\ N \in d .. N
    BY <1>1, <1>3 DEF SettledIn
  <2>. QED BY <1>1, <2>1 DEF SettledIn, Acyclic
<1>5. \A n \in 1 .. N : s[n - 1] \subseteq s[n]
  BY SettledGrows
<1>6. TopologicalOrders(G) = q[Len(g)]
  BY DEF TopologicalOrders
<1>. HIDE DEF s, g, N
<1>7. Len(g) = d
  <2>1. DOMAIN g = 1 .. d
    BY <1>2
  <2>. QED BY <1>2, <2>1
<1>8. \A n \in 1 .. d : /\ n \in 1 .. N /\ n - 1 \in 0 .. N /\ n - 1 \in 0 .. d /\ n \in 0 .. d
                        /\ n # 0
  BY <1>3, <1>4
<1>9. \A n \in 1 .. d :
        /\ g[n] \in SUBSET V /\ IsFiniteSet(g[n]) /\ s[n - 1] \in SUBSET V
        /\ s[n - 1] \cap g[n] = {} /\ s[n] = s[n - 1] \cup g[n]
        /\ \A x \in g[n] : Predecessors(G, x) \subseteq s[n - 1]
  <2>. SUFFICES ASSUME NEW n \in 1 .. d
                PROVE  /\ g[n] \in SUBSET V /\ IsFiniteSet(g[n]) /\ s[n - 1] \in SUBSET V
                       /\ s[n - 1] \cap g[n] = {} /\ s[n] = s[n - 1] \cup g[n]
                       /\ \A x \in g[n] : Predecessors(G, x) \subseteq s[n - 1]
    OBVIOUS
  <2>1. g[n] = s[n] \ s[n - 1]
    BY <1>2
  <2>2. n \in 1 .. N /\ n \in 0 .. N /\ n - 1 \in 0 .. N
    BY <1>3, <1>8
  <2>3. s[n] \in SUBSET V /\ s[n - 1] \in SUBSET V
    BY <1>3, <2>2
  <2>4. s[n] = Ready(G, s[n - 1])
    BY <1>3, <2>2
  <2>5. s[n - 1] \subseteq s[n]
    BY <1>5, <2>2
  <2>6. g[n] \in SUBSET V
    BY <2>1, <2>3
  <2>7. IsFiniteSet(g[n])
    BY <2>6, FS_Subset
  <2>8. s[n - 1] \cap g[n] = {} /\ s[n] = s[n - 1] \cup g[n]
    BY <2>1, <2>5
  <2>9. \A x \in Ready(G, s[n - 1]) : Predecessors(G, x) \subseteq s[n - 1]
    BY DEF Ready
  <2>10. \A x \in g[n] : Predecessors(G, x) \subseteq s[n - 1]
    BY <2>1, <2>4, <2>9
  <2>. QED BY <2>3, <2>6, <2>7, <2>8, <2>10
<1>10. \A n \in 1 .. d, e \in P : Followed(e, g[n]) \in P
  <2>. SUFFICES ASSUME NEW n \in 1 .. d, NEW e \in P
                PROVE  Followed(e, g[n]) \in P
    OBVIOUS
  <2>. SUFFICES ASSUME NEW v \in Followed(e, g[n])
                PROVE  v \in Seq(V)
    OBVIOUS
  <2>. HIDE DEF P, q, step, V
  <2>0. \E w \in e : \E t \in SetToSeqs(g[n]) : v = w \o t
    BY FollowedIs
  <2>1. PICK w \in e : \E t \in SetToSeqs(g[n]) : v = w \o t
    BY <2>0
  <2>2. PICK t \in SetToSeqs(g[n]) : v = w \o t
    BY <2>1
  <2>3. t \in Seq(V)
    BY <1>9, ArrangedIs
  <2>4. w \in Seq(V)
    BY DEF P
  <2>. QED BY <2>2, <2>3, <2>4
<1>11. PICK h \in [0 .. d -> P] : Unfolds(h, {<<>>}, d, step)
  <2>1. step \in Steps(P, d) /\ {<<>>} \in P
    <3>1. <<>> \in Seq(V)
      OBVIOUS
    <3>. HIDE DEF P
    <3>2. step \in Steps(P, d)
      BY <1>10 DEF Steps
    <3>. QED BY <3>1, <3>2 DEF P
  <2>. HIDE DEF step, P
  <2>. QED BY <2>1, RecursionExists
<1>. HIDE DEF P
<1>12. Is(h)
  <2>1. \A n \in 1 .. d : h[n] = Followed(h[n - 1], g[n])
    BY <1>8, <1>11 DEF Unfolds
  <2>2. h = [n \in 0 .. d |-> h[n]] /\ \A n \in 0 .. d : n # 0 => n \in 1 .. d
    BY <1>11
  <2>. QED BY <1>7, <1>11, <2>1, <2>2 DEF Unfolds
<1>13. Is(q)
  <2>. HIDE DEF Is
  <2>. QED BY <1>12
<1>. HIDE DEF q
<1>14. q[0] = {<<>>} /\ \A n \in 1 .. d : q[n] = Followed(q[n - 1], g[n])
  <2>1. \A n \in 0 .. d : q[n] = IF n = 0 THEN {<<>>} ELSE Followed(q[n - 1], g[n])
    BY <1>7, <1>13
  <2>. QED BY <1>8, <2>1
<1>. DEFINE K == {n \in 0 .. d : \A w \in q[n] : InOrder(w, G, s[n])}
<1>15. 0 \in K
  <2>1. InOrder(<<>>, G, {})
    BY DEF InOrder, IsInjective, Range
  <2>2. \A w \in q[0] : InOrder(w, G, s[0])
    BY <1>3, <1>14, <2>1
  <2>3. 0 \in 0 .. d
    OBVIOUS
  <2>. QED BY <2>2, <2>3
<1>16. ASSUME NEW n \in 1 .. d, n - 1 \in K PROVE n \in K
  <2>1. ASSUME NEW w \in q[n] PROVE InOrder(w, G, s[n])
    <3>0. \E v \in q[n - 1] : \E t \in SetToSeqs(g[n]) : w = v \o t
      <4>. DEFINE A == q[n - 1]
                  B == g[n]
      <4>1. w \in Followed(A, B)
        BY <1>14
      <4>. HIDE DEF A, B
      <4>2. \E v \in A : \E t \in SetToSeqs(B) : w = v \o t
        BY <4>1, FollowedIs
      <4>. QED BY <4>2 DEF A, B
    <3>4. PICK v \in q[n - 1] : \E t \in SetToSeqs(g[n]) : w = v \o t
      BY <3>0
    <3>1. PICK t \in SetToSeqs(g[n]) : w = v \o t
      BY <3>4
    <3>2. InOrder(v, G, s[n - 1])
      BY <1>16
    <3>3. InOrder(v \o t, G, s[n - 1] \cup g[n])
      BY <1>9, <3>2, OrderExtends
    <3>. QED BY <1>9, <3>1, <3>3
  <2>. QED BY <1>8, <2>1
<1>17. \A n \in 0 .. d : n \in K
  <2>. HIDE DEF K
  <2>. QED BY <1>15, <1>16, CountUp
<1>18. InOrder(o, G, s[d])
  <2>1. d \in 0 .. d
    OBVIOUS
  <2>. QED BY <1>6, <1>7, <1>17, <2>1
<1>. QED BY <1>4, <1>18

------------------------------------------------------------------------------
\* The first n units of an order, cut into parts none of which is empty: part r
\* ends with the unit at e[r].
Ends(e, b, order, n) ==
  /\ b \in Seq(Seq(Range(order))) /\ Len(b) >= 1
  /\ e \in [0 .. Len(b) -> 0 .. n] /\ e[0] = 0 /\ e[Len(b)] = n
  /\ \A r \in 1 .. Len(b) : e[r - 1] < e[r] /\ b[r] = SubSeq(order, e[r - 1] + 1, e[r])

CutsInto(b, order, n) == \E e : Ends(e, b, order, n)

\* One part only.
LEMMA CutsFirst ==
  ASSUME NEW S, NEW order \in Seq(S), Len(order) >= 1
  PROVE  CutsInto(<< <<order[1]>> >>, order, 1)
<1>. DEFINE b == << <<order[1]>> >>
            e == [r \in 0 .. 1 |-> r]
<1>1. order[1] \in Range(order)
  BY DEF Range
<1>2. b \in Seq(Seq(Range(order))) /\ Len(b) = 1 /\ b[1] = <<order[1]>>
  <2>1. <<order[1]>> \in Seq(Range(order))
    BY <1>1
  <2>. QED BY <2>1
<1>3. SubSeq(order, 1, 1) = <<order[1]>>
  <2>1. 1 \in 1 .. Len(order)
    OBVIOUS
  <2>2. SubSeq(order, 1, 1) = <<order[1]>> \o SubSeq(order, 2, 1)
    BY <2>1, SubSeqRecursiveFirst
  <2>3. SubSeq(order, 2, 1) = <<>>
    BY SubSeqEmpty
  <2>4. <<order[1]>> \o <<>> = <<order[1]>>
    <3>1. <<order[1]>> \in Seq(Range(order))
      BY <1>1
    <3>. QED BY <3>1, ConcatEmptySeq
  <2>. QED BY <2>2, <2>3, <2>4
<1>4. \A r \in 1 .. 1 : e[r - 1] < e[r] /\ b[r] = SubSeq(order, e[r - 1] + 1, e[r])
  <2>1. e[0] = 0 /\ e[1] = 1
    OBVIOUS
  <2>2. \A r \in 1 .. 1 : r = 1 /\ r - 1 = 0
    OBVIOUS
  <2>. HIDE DEF e, b
  <2>3. e[0] < e[1] /\ e[0] + 1 = 1
    BY <2>1
  <2>4. b[1] = SubSeq(order, e[0] + 1, e[1])
    BY <1>2, <1>3, <2>1, <2>3
  <2>. QED BY <2>2, <2>3, <2>4
<1>5. e \in [0 .. 1 -> 0 .. 1] /\ e[0] = 0 /\ e[1] = 1
  OBVIOUS
<1>6. Ends(e, b, order, 1)
  <2>. HIDE DEF e, b
  <2>. QED BY <1>2, <1>4, <1>5 DEF Ends
<1>. QED BY <1>6 DEF CutsInto

\* A unit more, in a part of its own.
LEMMA CutsMore ==
  ASSUME NEW S, NEW order \in Seq(S), NEW n \in 1 .. Len(order), NEW b,
         CutsInto(b, order, n - 1)
  PROVE  CutsInto(Append(b, <<order[n]>>), order, n)
         /\ Len(Append(b, <<order[n]>>)) = Len(b) + 1
<1>1. PICK e : Ends(e, b, order, n - 1)
  BY DEF CutsInto
<1>. DEFINE l == Len(b)
            c == Append(b, <<order[n]>>)
            f == [r \in 0 .. l + 1 |-> IF r = l + 1 THEN n ELSE e[r]]
            R == Range(order)
<1>2. /\ b \in Seq(Seq(R)) /\ l \in Nat /\ l >= 1
      /\ e \in [0 .. l -> 0 .. n - 1] /\ e[0] = 0 /\ e[l] = n - 1
      /\ \A r \in 1 .. l : e[r - 1] < e[r] /\ b[r] = SubSeq(order, e[r - 1] + 1, e[r])
  BY <1>1 DEF Ends
<1>3. order[n] \in R /\ n \in Nat /\ n \in 1 .. Len(order) /\ Len(order) \in Nat
  BY DEF Range
<1>4. <<order[n]>> \in Seq(R)
  BY <1>3
<1>5. /\ c \in Seq(Seq(R)) /\ Len(c) = l + 1 /\ c[l + 1] = <<order[n]>>
      /\ \A r \in 1 .. l : c[r] = b[r]
  <2>. HIDE DEF R
  <2>. QED BY <1>2, <1>4, AppendProperties
<1>6. SubSeq(order, n, n) = <<order[n]>>
  <2>1. SubSeq(order, n, n) = <<order[n]>> \o SubSeq(order, n + 1, n)
    BY <1>3, SubSeqRecursiveFirst
  <2>2. SubSeq(order, n + 1, n) = <<>>
    BY <1>3, SubSeqEmpty
  <2>. QED BY <1>4, <2>1, <2>2, ConcatEmptySeq
<1>. HIDE DEF c, l, R
<1>7. /\ f \in [0 .. l + 1 -> 0 .. n] /\ f[0] = 0 /\ f[l + 1] = n
      /\ \A r \in 0 .. l : f[r] = e[r]
  <2>0. \A x \in 0 .. n - 1 : x \in 0 .. n
    BY <1>3
  <2>1. \A r \in 0 .. l : r # l + 1 /\ r \in 0 .. l + 1 /\ e[r] \in 0 .. n
    <3>1. \A r \in 0 .. l : r # l + 1 /\ r \in 0 .. l + 1
      BY <1>2
    <3>2. \A r \in 0 .. l : e[r] \in 0 .. n - 1
      BY <1>2
    <3>. QED BY <2>0, <3>1, <3>2
  <2>2. \A r \in 0 .. l : f[r] = e[r]
    BY <2>1
  <2>3. f[l + 1] = n /\ n \in 0 .. n
    BY <1>2, <1>3
  <2>4. \A r \in 0 .. l + 1 : r = l + 1 \/ r \in 0 .. l
    BY <1>2
  <2>5. \A r \in 0 .. l + 1 : f[r] \in 0 .. n
    BY <2>1, <2>2, <2>3, <2>4
  <2>6. f = [r \in 0 .. l + 1 |-> f[r]]
    OBVIOUS
  <2>7. 0 \in 0 .. l
    BY <1>2
  <2>. HIDE DEF f
  <2>. QED BY <1>2, <2>2, <2>3, <2>5, <2>6, <2>7
<1>. HIDE DEF f
<1>8. ASSUME NEW r \in 1 .. l + 1
      PROVE  f[r - 1] < f[r] /\ c[r] = SubSeq(order, f[r - 1] + 1, f[r])
  <2>1. CASE r = l + 1
    <3>1. r - 1 = l /\ l \in 0 .. l
      BY <1>2, <2>1
    <3>2. f[r - 1] = n - 1 /\ f[r] = n
      BY <1>2, <1>7, <2>1, <3>1
    <3>3. (n - 1) + 1 = n /\ n - 1 < n
      BY <1>3
    <3>. QED BY <1>5, <1>6, <2>1, <3>2, <3>3
  <2>2. CASE r # l + 1
    <3>1. r \in 1 .. l /\ r - 1 \in 0 .. l /\ r \in 0 .. l
      BY <1>2, <2>2
    <3>. QED BY <1>2, <1>5, <1>7, <3>1
  <2>. QED BY <2>1, <2>2
<1>9. Ends(f, c, order, n)
  <2>1. Len(c) >= 1
    BY <1>2, <1>5
  <2>2. Len(c) = l + 1 /\ c \in Seq(Seq(Range(order)))
    BY <1>5 DEF R
  <2>. QED BY <1>7, <1>8, <2>1, <2>2 DEF Ends
<1>. QED BY <1>5, <1>9 DEF CutsInto, c, l

\* A unit more, at the end of the last part.
LEMMA CutsLonger ==
  ASSUME NEW S, NEW order \in Seq(S), NEW n \in 1 .. Len(order), NEW b,
         CutsInto(b, order, n - 1)
  PROVE  CutsInto(ReplaceAt(b, Len(b), Append(Last(b), order[n])), order, n)
         /\ Len(ReplaceAt(b, Len(b), Append(Last(b), order[n]))) = Len(b)
<1>1. PICK e : Ends(e, b, order, n - 1)
  BY DEF CutsInto
<1>. DEFINE l == Len(b)
            x == Append(b[l], order[n])
            c == [b EXCEPT ![l] = x]
            f == [r \in 0 .. l |-> IF r = l THEN n ELSE e[r]]
            R == Range(order)
<1>2. /\ b \in Seq(Seq(R)) /\ l \in Nat /\ l >= 1
      /\ e \in [0 .. l -> 0 .. n - 1] /\ e[0] = 0 /\ e[l] = n - 1
      /\ \A r \in 1 .. l : e[r - 1] < e[r] /\ b[r] = SubSeq(order, e[r - 1] + 1, e[r])
  BY <1>1 DEF Ends
<1>3. order[n] \in R /\ n \in Nat /\ n \in 1 .. Len(order) /\ Len(order) \in Nat
  BY DEF Range
<1>4. l \in 1 .. l /\ b[l] \in Seq(R)
  <2>. HIDE DEF R
  <2>. QED BY <1>2
<1>5. x \in Seq(R)
  <2>. HIDE DEF R
  <2>. QED BY <1>3, <1>4, AppendProperties
<1>. HIDE DEF x, R
<1>6. /\ c \in Seq(Seq(R)) /\ Len(c) = l
      /\ \A r \in 1 .. l : c[r] = IF r = l THEN x ELSE b[r]
  BY <1>2, <1>4, <1>5, ExceptSeq
<1>7. ReplaceAt(b, Len(b), Append(Last(b), order[n])) = c
  BY DEF ReplaceAt, Last, x
<1>. HIDE DEF c, l
<1>8. l - 1 \in 0 .. l /\ e[l - 1] \in 0 .. n - 1 /\ e[l - 1] < n - 1
  BY <1>2, <1>4
<1>9. x = SubSeq(order, e[l - 1] + 1, n)
  <2>. DEFINE p == e[l - 1] + 1
  <2>1. p \in 1 .. Len(order) /\ n \in p .. Len(order)
    BY <1>3, <1>8
  <2>2. b[l] = SubSeq(order, p, n - 1)
    BY <1>2, <1>4
  <2>. HIDE DEF p
  <2>3. SubSeq(order, p, n) = SubSeq(order, p, n - 1) \o <<order[n]>>
    BY <2>1, SubSeqRecursiveSecond
  <2>4. x = b[l] \o <<order[n]>>
    BY <1>3, <1>4, AppendIsConcat DEF x
  <2>. QED BY <2>2, <2>3, <2>4 DEF p
<1>10. /\ f \in [0 .. l -> 0 .. n] /\ f[0] = 0 /\ f[l] = n
       /\ \A r \in 0 .. l - 1 : f[r] = e[r]
  <2>0. \A y \in 0 .. n - 1 : y \in 0 .. n
    BY <1>3
  <2>1. \A r \in 0 .. l - 1 : r # l /\ r \in 0 .. l /\ e[r] \in 0 .. n
    <3>1. \A r \in 0 .. l - 1 : r # l /\ r \in 0 .. l
      BY <1>2
    <3>2. \A r \in 0 .. l : e[r] \in 0 .. n - 1
      BY <1>2
    <3>. QED BY <2>0, <3>1, <3>2
  <2>2. \A r \in 0 .. l - 1 : f[r] = e[r]
    BY <2>1
  <2>3. f[l] = n /\ n \in 0 .. n
    BY <1>2, <1>3
  <2>4. \A r \in 0 .. l : r = l \/ r \in 0 .. l - 1
    BY <1>2
  <2>5. \A r \in 0 .. l : f[r] \in 0 .. n
    BY <2>1, <2>2, <2>3, <2>4
  <2>6. f = [r \in 0 .. l |-> f[r]]
    OBVIOUS
  <2>7. 0 \in 0 .. l - 1
    BY <1>2
  <2>. HIDE DEF f
  <2>. QED BY <1>2, <2>2, <2>3, <2>5, <2>6, <2>7
<1>. HIDE DEF f
<1>11. ASSUME NEW r \in 1 .. l
       PROVE  f[r - 1] < f[r] /\ c[r] = SubSeq(order, f[r - 1] + 1, f[r])
  <2>1. r - 1 \in 0 .. l - 1 /\ f[r - 1] = e[r - 1]
    BY <1>2, <1>10
  <2>2. CASE r = l
    <3>1. f[r - 1] = e[l - 1] /\ f[r] = n
      BY <1>10, <2>1, <2>2
    <3>2. e[l - 1] < n
      BY <1>3, <1>8
    <3>3. c[r] = x
      BY <1>6, <2>2
    <3>. QED BY <1>9, <3>1, <3>2, <3>3
  <2>3. CASE r # l
    <3>1. r \in 0 .. l - 1
      BY <1>2, <2>3
    <3>2. f[r] = e[r] /\ c[r] = b[r]
      BY <1>6, <1>10, <2>3, <3>1
    <3>. QED BY <1>2, <2>1, <3>1, <3>2
  <2>. QED BY <2>2, <2>3
<1>12. Ends(f, c, order, n)
  BY <1>2, <1>6, <1>10, <1>11 DEF Ends, R
<1>. QED BY <1>6, <1>7, <1>12 DEF CutsInto, l

\* One member of a sequence replaced by two.
WithTwo(b, k, x, y) == SubSeq(b, 1, k - 1) \o <<x, y>> \o SubSeq(b, k + 1, Len(b))

IsWithTwo(c, b, k, x, y, S) ==
  /\ c \in Seq(S) /\ Len(c) = Len(b) + 1
  /\ \A r \in 1 .. k - 1 : c[r] = b[r]
  /\ c[k] = x /\ c[k + 1] = y
  /\ \A r \in k + 2 .. Len(b) + 1 : c[r] = b[r - 1]

\* What a sequence is once one of its members is replaced by two.
LEMMA Spliced ==
  ASSUME NEW S, NEW b \in Seq(S), NEW k \in 1 .. Len(b), NEW x \in S, NEW y \in S
  PROVE  IsWithTwo(WithTwo(b, k, x, y), b, k, x, y, S)
<1>. DEFINE l == Len(b)
            u == SubSeq(b, 1, k - 1)
            v == <<x, y>>
            w == SubSeq(b, k + 1, l)
            c == u \o v \o w
<1>1. l \in Nat /\ k \in 1 .. l /\ k \in Nat
  OBVIOUS
<1>2. /\ u \in Seq(S) /\ Len(u) = k - 1
      /\ \A r \in 1 .. k - 1 : u[r] = b[r]
  <2>1. \A i \in 1 .. k - 1 : b[i] \in S
    OBVIOUS
  <2>2. /\ u \in Seq(S) /\ Len(u) = IF 1 <= k - 1 THEN k - 1 - 1 + 1 ELSE 0
        /\ \A i \in 1 .. k - 1 - 1 + 1 : u[i] = b[1 + i - 1]
    BY <1>1, <2>1, SubSeqProperties
  <2>. HIDE DEF u
  <2>. QED BY <1>1, <2>2
<1>3. v \in Seq(S) /\ Len(v) = 2 /\ v[1] = x /\ v[2] = y
  OBVIOUS
<1>4. /\ w \in Seq(S) /\ Len(w) = l - k
      /\ \A r \in 1 .. l - k : w[r] = b[k + r]
  <2>1. \A i \in k + 1 .. l : b[i] \in S
    BY <1>1
  <2>2. /\ w \in Seq(S) /\ Len(w) = IF k + 1 <= l THEN l - (k + 1) + 1 ELSE 0
        /\ \A i \in 1 .. l - (k + 1) + 1 : w[i] = b[(k + 1) + i - 1]
    BY <1>1, <2>1, SubSeqProperties
  <2>. HIDE DEF w
  <2>. QED BY <1>1, <2>2
<1>. HIDE DEF u, v, w
<1>5. /\ u \o v \in Seq(S) /\ Len(u \o v) = k + 1
      /\ \A r \in 1 .. k + 1 : (u \o v)[r] = IF r <= k - 1 THEN u[r] ELSE v[r - (k - 1)]
  <2>1. u \o v \in Seq(S) /\ Len(u \o v) = k + 1
    <3>1. u \o v \in Seq(S) /\ Len(u \o v) = Len(u) + Len(v)
      BY <1>2, <1>3, ConcatProperties
    <3>. QED BY <1>1, <1>2, <1>3, <3>1
  <2>2. \A r \in 1 .. Len(u) + Len(v) : (u \o v)[r] = IF r <= Len(u) THEN u[r] ELSE v[r - Len(u)]
    BY <1>2, <1>3, ConcatProperties
  <2>. QED BY <1>1, <1>2, <1>3, <2>1, <2>2
<1>6. /\ c \in Seq(S) /\ Len(c) = l + 1
      /\ \A r \in 1 .. l + 1 : c[r] = IF r <= k + 1 THEN (u \o v)[r] ELSE w[r - (k + 1)]
  <2>. DEFINE z == u \o v
  <2>1. z \in Seq(S) /\ Len(z) = k + 1
    BY <1>5
  <2>. HIDE DEF z
  <2>2. /\ z \o w \in Seq(S) /\ Len(z \o w) = Len(z) + Len(w)
        /\ \A r \in 1 .. Len(z) + Len(w) : (z \o w)[r] = IF r <= Len(z) THEN z[r] ELSE w[r - Len(z)]
    BY <1>4, <2>1, ConcatProperties
  <2>3. Len(z) + Len(w) = l + 1
    BY <1>1, <1>4, <2>1
  <2>. QED BY <2>1, <2>2, <2>3 DEF z
<1>. HIDE DEF c, l
<1>7. \A r \in 1 .. k - 1 : c[r] = b[r]
  <2>. SUFFICES ASSUME NEW r \in 1 .. k - 1 PROVE c[r] = b[r]
    OBVIOUS
  <2>1. r \in 1 .. l + 1 /\ r \in 1 .. k + 1 /\ r <= k + 1 /\ r <= k - 1
    BY <1>1
  <2>. QED BY <1>2, <1>5, <1>6, <2>1
<1>8. c[k] = x
  <2>1. k \in 1 .. l + 1 /\ k \in 1 .. k + 1 /\ k <= k + 1 /\ ~(k <= k - 1) /\ k - (k - 1) = 1
    BY <1>1
  <2>. QED BY <1>3, <1>5, <1>6, <2>1
<1>9. c[k + 1] = y
  <2>1. /\ k + 1 \in 1 .. l + 1 /\ k + 1 \in 1 .. k + 1 /\ k + 1 <= k + 1
        /\ ~(k + 1 <= k - 1) /\ (k + 1) - (k - 1) = 2
    BY <1>1
  <2>. QED BY <1>3, <1>5, <1>6, <2>1
<1>10. \A r \in k + 2 .. l + 1 : c[r] = b[r - 1]
  <2>. SUFFICES ASSUME NEW r \in k + 2 .. l + 1 PROVE c[r] = b[r - 1]
    OBVIOUS
  <2>1. /\ r \in 1 .. l + 1 /\ ~(r <= k + 1) /\ r - (k + 1) \in 1 .. l - k
        /\ k + (r - (k + 1)) = r - 1
    BY <1>1
  <2>. QED BY <1>4, <1>6, <2>1
<1>11. c = WithTwo(b, k, x, y)
  BY DEF c, l, u, v, w, WithTwo
<1>. QED BY <1>6, <1>7, <1>8, <1>9, <1>10, <1>11 DEF l, IsWithTwo

\* A part cut in two.
Halved(b, k, half) ==
  WithTwo(b, k, SubSeq(b[k], 1, half), SubSeq(b[k], half + 1, Len(b[k])))

\* A part cut in two leaves the order cut into one part more.
LEMMA CutsInTwo ==
  ASSUME NEW S, NEW order \in Seq(S), NEW n \in 0 .. Len(order), NEW b,
         CutsInto(b, order, n), NEW k \in 1 .. Len(b), NEW half \in Nat,
         1 <= half, half < Len(b[k])
  PROVE  CutsInto(Halved(b, k, half), order, n) /\ Len(Halved(b, k, half)) = Len(b) + 1
<1>1. PICK e : Ends(e, b, order, n)
  BY DEF CutsInto
<1>. DEFINE l == Len(b)
            R == Range(order)
            m == Len(b[k])
            p == e[k - 1]
            x == SubSeq(b[k], 1, half)
            y == SubSeq(b[k], half + 1, m)
            c == SubSeq(b, 1, k - 1) \o <<x, y>> \o SubSeq(b, k + 1, l)
            f == [r \in 0 .. l + 1 |-> IF r < k THEN e[r]
                                       ELSE IF r = k THEN p + half ELSE e[r - 1]]
<1>2. /\ b \in Seq(Seq(R)) /\ l \in Nat /\ l >= 1
      /\ e \in [0 .. l -> 0 .. n] /\ e[0] = 0 /\ e[l] = n
      /\ \A r \in 1 .. l : e[r - 1] < e[r] /\ b[r] = SubSeq(order, e[r - 1] + 1, e[r])
  BY <1>1 DEF Ends
<1>3. /\ n \in Nat /\ n <= Len(order) /\ Len(order) \in Nat
      /\ order \in Seq(R)
  <2>1. \A i \in 1 .. Len(order) : order[i] \in R
    BY DEF Range
  <2>2. order = [i \in 1 .. Len(order) |-> order[i]]
    OBVIOUS
  <2>3. order \in [1 .. Len(order) -> R]
    BY <2>1, <2>2
  <2>. QED BY <2>3, SequenceIs
<1>. HIDE DEF R, l
<1>4. /\ k \in 1 .. l /\ k - 1 \in 0 .. l /\ k \in 0 .. l
      /\ p \in 0 .. n /\ e[k] \in 0 .. n /\ p < e[k]
      /\ b[k] = SubSeq(order, p + 1, e[k])
  <2>1. k \in 1 .. l /\ k - 1 \in 0 .. l /\ k \in 0 .. l
    BY <1>2 DEF l
  <2>2. p \in 0 .. n /\ e[k] \in 0 .. n
    BY <1>2, <2>1
  <2>3. p < e[k] /\ b[k] = SubSeq(order, p + 1, e[k])
    BY <1>2, <2>1
  <2>. QED BY <2>1, <2>2, <2>3
<1>. HIDE DEF p
<1>5. b[k] \in Seq(R) /\ m = e[k] - p
  <2>1. \A i \in p + 1 .. e[k] : order[i] \in R
    <3>1. p \in Nat /\ e[k] \in Nat /\ e[k] <= Len(order) /\ Len(order) \in Nat
      BY <1>3, <1>4
    <3>2. \A i \in p + 1 .. e[k] : i \in 1 .. Len(order)
      BY <3>1
    <3>3. \A i \in 1 .. Len(order) : order[i] \in R
      BY <1>3
    <3>. QED BY <3>2, <3>3
  <2>2. b[k] \in Seq(R) /\ Len(b[k]) = IF p + 1 <= e[k] THEN e[k] - (p + 1) + 1 ELSE 0
    BY <1>4, <2>1, SubSeqProperties
  <2>. QED BY <1>4, <2>2
<1>. HIDE DEF m
<1>6. half \in Nat /\ 1 <= half /\ half < m /\ m \in Nat
  BY <1>5 DEF m
<1>7. /\ x \in Seq(R) /\ y \in Seq(R)
      /\ x = SubSeq(order, p + 1, p + half)
      /\ y = SubSeq(order, p + half + 1, e[k])
  <2>. DEFINE i == p + 1
              j == e[k]
  <2>1. /\ i \in 1 .. Len(order) /\ j \in 1 .. Len(order)
        /\ 1 \in 1 .. j - i + 1 /\ half \in 1 .. j - i + 1
        /\ half + 1 \in 1 .. j - i + 1 /\ m \in 1 .. j - i + 1
    <3>1. /\ p \in Nat /\ e[k] \in Nat /\ p < e[k] /\ e[k] <= Len(order)
          /\ Len(order) \in Nat
      BY <1>3, <1>4
    <3>2. i \in 1 .. Len(order) /\ j \in 1 .. Len(order)
      BY <3>1
    <3>3. m = e[k] - p
      BY <1>5
    <3>4. j - i + 1 = m
      BY <3>1, <3>3
    <3>. HIDE DEF i, j
    <3>5. 1 \in 1 .. m /\ half \in 1 .. m /\ half + 1 \in 1 .. m /\ m \in 1 .. m
      BY <1>6
    <3>. QED BY <3>2, <3>4, <3>5
  <2>4. i + 1 - 1 = p + 1 /\ i + half - 1 = p + half /\ i + (half + 1) - 1 = p + half + 1
    BY <1>4, <1>6
  <2>9. i + m - 1 = j
    <3>1. m = e[k] - p /\ e[k] \in Int /\ p \in Int
      BY <1>3, <1>4, <1>5
    <3>2. \A u, v \in Int : (v + 1) + (u - v) - 1 = u
      OBVIOUS
    <3>3. (p + 1) + (e[k] - p) - 1 = e[k]
      BY <3>1, <3>2
    <3>. QED BY <3>1, <3>3
  <2>. HIDE DEF i, j
  <2>2. SubSeq(SubSeq(order, i, j), 1, half) = SubSeq(order, i + 1 - 1, i + half - 1)
    BY <2>1, SubSeqOfSubSeq
  <2>3. SubSeq(SubSeq(order, i, j), half + 1, m)
          = SubSeq(order, i + (half + 1) - 1, i + m - 1)
    <3>. DEFINE h == half + 1
    <3>. HIDE DEF h
    <3>1. h \in 1 .. j - i + 1
      BY <2>1 DEF h
    <3>2. SubSeq(SubSeq(order, i, j), h, m) = SubSeq(order, i + h - 1, i + m - 1)
      BY <2>1, <3>1, SubSeqOfSubSeq
    <3>. QED BY <3>2 DEF h
  <2>5. x = SubSeq(order, p + 1, p + half) /\ y = SubSeq(order, p + half + 1, e[k])
    BY <1>4, <2>2, <2>3, <2>4, <2>9 DEF x, y, i, j
  <2>6. \A u \in p + 1 .. e[k] : order[u] \in R
    <3>1. p \in Nat /\ e[k] \in Nat /\ e[k] <= Len(order) /\ Len(order) \in Nat
      BY <1>3, <1>4
    <3>2. \A u \in p + 1 .. e[k] : u \in 1 .. Len(order)
      BY <3>1
    <3>3. \A u \in 1 .. Len(order) : order[u] \in R
      BY <1>3
    <3>. QED BY <3>2, <3>3
  <2>10. /\ p \in Nat /\ e[k] \in Nat /\ half \in Nat
         /\ 1 <= half /\ p + half < e[k]
    <3>1. m = e[k] - p /\ e[k] \in Nat /\ p \in Nat /\ half \in Nat /\ half < m /\ 1 <= half
      <4>1. m = e[k] - p /\ e[k] \in Nat /\ p \in Nat
        BY <1>4, <1>5
      <4>. QED BY <1>6, <4>1
    <3>. QED BY <3>1
  <2>7. x \in Seq(R)
    <3>1. \A u \in p + 1 .. p + half : order[u] \in R
      <4>1. \A u \in p + 1 .. p + half : u \in p + 1 .. e[k]
        BY <2>10
      <4>. QED BY <4>1, <2>6
    <3>2. p + 1 \in Int /\ p + half \in Int
      BY <1>4, <1>6
    <3>3. SubSeq(order, p + 1, p + half) \in Seq(R)
      BY <3>1, <3>2, SubSeqProperties
    <3>. QED BY <2>5, <3>3
  <2>8. y \in Seq(R)
    <3>1. \A u \in p + half + 1 .. e[k] : order[u] \in R
      <4>1. \A u \in p + half + 1 .. e[k] : u \in p + 1 .. e[k]
        BY <2>10
      <4>. QED BY <4>1, <2>6
    <3>2. p + half + 1 \in Int /\ e[k] \in Int
      BY <1>4, <1>6
    <3>3. SubSeq(order, p + half + 1, e[k]) \in Seq(R)
      BY <3>1, <3>2, SubSeqProperties
    <3>. QED BY <2>5, <3>3
  <2>. QED BY <2>5, <2>7, <2>8
<1>. HIDE DEF x, y
<1>8. /\ c \in Seq(Seq(R)) /\ Len(c) = l + 1
      /\ \A r \in 1 .. k - 1 : c[r] = b[r]
      /\ c[k] = x /\ c[k + 1] = y
      /\ \A r \in k + 2 .. l + 1 : c[r] = b[r - 1]
  <2>. DEFINE P == Seq(R)
  <2>1. b \in Seq(P) /\ k \in 1 .. Len(b) /\ x \in P /\ y \in P
    BY <1>2, <1>4, <1>7 DEF l
  <2>. HIDE DEF P
  <2>3. c = WithTwo(b, k, x, y)
    BY DEF l, WithTwo
  <2>2. /\ c \in Seq(P) /\ Len(c) = Len(b) + 1
        /\ \A r \in 1 .. k - 1 : c[r] = b[r]
        /\ c[k] = x /\ c[k + 1] = y
        /\ \A r \in k + 2 .. Len(b) + 1 : c[r] = b[r - 1]
    <3>. HIDE DEF c
    <3>. DEFINE d == WithTwo(b, k, x, y)
    <3>0. IsWithTwo(d, b, k, x, y, P)
      BY <2>1, Spliced
    <3>. HIDE DEF d
    <3>1. c = d
      BY <2>3 DEF d
    <3>. QED BY <3>0, <3>1 DEF IsWithTwo
  <2>. HIDE DEF c
  <2>. QED BY <2>2 DEF P, l
<1>. HIDE DEF c
<1>9. /\ \A r \in 0 .. k - 1 : r \in 0 .. l + 1 /\ f[r] = e[r]
      /\ f[k] = p + half
      /\ \A r \in k + 1 .. l + 1 : r \in 0 .. l + 1 /\ f[r] = e[r - 1] /\ r - 1 \in 0 .. l
  <2>1. \A r \in 0 .. k - 1 : r \in 0 .. l + 1 /\ r < k
    BY <1>2, <1>4
  <2>2. k \in 0 .. l + 1 /\ ~(k < k)
    BY <1>2, <1>4
  <2>3. \A r \in k + 1 .. l + 1 : r \in 0 .. l + 1 /\ ~(r < k) /\ r # k /\ r - 1 \in 0 .. l
    BY <1>2, <1>4
  <2>. QED BY <2>1, <2>2, <2>3
<1>10. f \in [0 .. l + 1 -> 0 .. n]
  <2>1. p + half \in 0 .. n
    BY <1>3, <1>4, <1>5, <1>6
  <2>2. \A r \in 0 .. l + 1 : r \in 0 .. k - 1 \/ r = k \/ r \in k + 1 .. l + 1
    BY <1>2, <1>4
  <2>3. \A r \in 0 .. l : e[r] \in 0 .. n
    BY <1>2
  <2>4. \A r \in 0 .. k - 1 : r \in 0 .. l
    BY <1>2, <1>4
  <2>5. f = [r \in 0 .. l + 1 |-> f[r]]
    OBVIOUS
  <2>. HIDE DEF f
  <2>6. \A r \in 0 .. l + 1 : f[r] \in 0 .. n
    BY <1>9, <2>1, <2>2, <2>3, <2>4
  <2>. QED BY <2>5, <2>6
<1>. HIDE DEF f
<1>11. f[0] = 0 /\ f[l + 1] = n
  <2>1. 0 \in 0 .. k - 1 /\ l + 1 \in k + 1 .. l + 1 /\ (l + 1) - 1 = l
    BY <1>2, <1>4
  <2>. QED BY <1>2, <1>9, <2>1
<1>12. ASSUME NEW r \in 1 .. l + 1
       PROVE  f[r - 1] < f[r] /\ c[r] = SubSeq(order, f[r - 1] + 1, f[r])
  <2>1. CASE r < k
    <3>1. r \in 1 .. l /\ r \in 1 .. k - 1 /\ r - 1 \in 0 .. k - 1 /\ r \in 0 .. k - 1
      BY <1>2, <1>4, <2>1
    <3>2. f[r] = e[r] /\ f[r - 1] = e[r - 1] /\ c[r] = b[r]
      BY <1>8, <1>9, <3>1
    <3>. QED BY <1>2, <3>1, <3>2
  <2>2. CASE r = k
    <3>1. r - 1 \in 0 .. k - 1
      BY <1>4, <2>2
    <3>2. f[r - 1] = p /\ f[r] = p + half
      BY <1>9, <2>2, <3>1 DEF p
    <3>3. p < p + half
      BY <1>4, <1>6
    <3>. QED BY <1>7, <1>8, <2>2, <3>2, <3>3
  <2>3. CASE r = k + 1
    <3>1. r - 1 = k /\ r \in k + 1 .. l + 1
      BY <1>4, <2>3
    <3>2. f[r - 1] = p + half /\ f[r] = e[k]
      BY <1>9, <3>1
    <3>3. p + half < e[k] /\ f[r - 1] + 1 = p + half + 1
      <4>1. m = e[k] - p /\ e[k] \in Nat /\ p \in Nat
        BY <1>4, <1>5
      <4>2. half \in Nat /\ half < m
        BY <1>6
      <4>3. p + half < e[k]
        BY <4>1, <4>2
      <4>. QED BY <3>2, <4>3
    <3>4. c[r] = SubSeq(order, f[r - 1] + 1, f[r])
      BY <1>7, <1>8, <2>3, <3>2, <3>3
    <3>. QED BY <3>2, <3>3, <3>4
  <2>4. CASE r > k + 1
    <3>1. /\ r \in k + 2 .. l + 1 /\ r \in k + 1 .. l + 1 /\ r - 1 \in k + 1 .. l + 1
          /\ r - 1 \in 1 .. l
      BY <1>2, <1>4, <2>4
    <3>2. f[r] = e[r - 1] /\ f[r - 1] = e[(r - 1) - 1] /\ c[r] = b[r - 1]
      BY <1>8, <1>9, <3>1
    <3>. QED BY <1>2, <3>1, <3>2
  <2>5. r < k \/ r = k \/ r = k + 1 \/ r > k + 1
    BY <1>2, <1>4
  <2>. QED BY <2>1, <2>2, <2>3, <2>4, <2>5
<1>13. Ends(f, c, order, n)
  <2>1. Len(c) >= 1 /\ c \in Seq(Seq(Range(order)))
    BY <1>2, <1>8 DEF R
  <2>. QED BY <1>8, <1>10, <1>11, <1>12, <2>1 DEF Ends
<1>14. CutsInto(c, order, n)
  BY <1>13 DEF CutsInto
<1>15. c = Halved(b, k, half)
  BY DEF c, x, y, m, l, Halved, WithTwo
<1>. QED BY <1>8, <1>14, <1>15 DEF l

\* The longest part is cut in half, as long as there are fewer parts than units.
LEMMA SplitIs ==
  ASSUME NEW S, NEW order \in Seq(S), NEW n \in 0 .. Len(order), NEW b,
         CutsInto(b, order, n), Len(b) < n
  PROVE  CutsInto(SplitLargest(b), order, n) /\ Len(SplitLargest(b)) = Len(b) + 1
<1>1. PICK e : Ends(e, b, order, n)
  BY DEF CutsInto
<1>. DEFINE l == Len(b)
            R == Range(order)
            k == CHOOSE k \in DOMAIN b : IsLongest(k, b)
            half == (Len(b[k]) + 1) \div 2
<1>2. /\ b \in Seq(Seq(R)) /\ l \in Nat /\ l >= 1
      /\ e \in [0 .. l -> 0 .. n] /\ e[0] = 0 /\ e[l] = n
      /\ \A r \in 1 .. l : e[r - 1] < e[r] /\ b[r] = SubSeq(order, e[r - 1] + 1, e[r])
  BY <1>1 DEF Ends
<1>3. n \in Nat /\ n <= Len(order) /\ Len(order) \in Nat /\ DOMAIN b = 1 .. l
  BY <1>2
<1>4. \A r \in 1 .. l : r - 1 \in 0 .. l /\ Len(b[r]) = e[r] - e[r - 1]
                        /\ e[r] \in 0 .. n /\ e[r - 1] \in 0 .. n
                        /\ Len(b[r]) \in Nat /\ Len(b[r]) <= n
  <2>. SUFFICES ASSUME NEW r \in 1 .. l
                PROVE  r - 1 \in 0 .. l /\ Len(b[r]) = e[r] - e[r - 1]
                       /\ e[r] \in 0 .. n /\ e[r - 1] \in 0 .. n
                       /\ Len(b[r]) \in Nat /\ Len(b[r]) <= n
    OBVIOUS
  <2>. DEFINE u == e[r - 1]
              v == e[r]
  <2>1. r - 1 \in 0 .. l /\ r \in 0 .. l
    BY <1>2
  <2>2. u \in 0 .. n /\ v \in 0 .. n /\ u < v /\ b[r] = SubSeq(order, u + 1, v)
    BY <1>2, <2>1
  <2>. HIDE DEF u, v
  <2>3. \A i \in u + 1 .. v : order[i] \in S
    BY <1>3, <2>2
  <2>4. Len(b[r]) = IF u + 1 <= v THEN v - (u + 1) + 1 ELSE 0
    BY <2>2, <2>3, SubSeqProperties
  <2>5. Len(b[r]) = v - u
    BY <2>2, <2>4
  <2>6. Len(b[r]) \in Nat /\ Len(b[r]) <= n
    BY <1>3, <2>2, <2>5
  <2>. QED BY <2>1, <2>2, <2>5, <2>6 DEF u, v
<1>. HIDE DEF R
\* There is a longest part, and a first one among those.
<1>5. \E j \in 1 .. l : \A i \in 1 .. l : Len(b[i]) <= Len(b[j])
  <2>. DEFINE T == {v \in Nat : \E j \in 1 .. l : v = n - Len(b[j])}
  <2>1. T \in SUBSET Nat /\ T # {}
    <3>1. 1 \in 1 .. l
      BY <1>2
    <3>2. n - Len(b[1]) \in Nat
      BY <1>3, <1>4, <3>1
    <3>3. n - Len(b[1]) \in T
      BY <3>1, <3>2
    <3>. QED BY <3>3
  <2>2. PICK v \in T : \A w \in T : v <= w
    <3>. HIDE DEF T
    <3>. QED BY <2>1, LeastOf
  <2>3. PICK j \in 1 .. l : v = n - Len(b[j])
    OBVIOUS
  <2>4. ASSUME NEW i \in 1 .. l PROVE Len(b[i]) <= Len(b[j])
    <3>1. n - Len(b[i]) \in T
      BY <1>3, <1>4
    <3>2. v <= n - Len(b[i])
      <4>. HIDE DEF T
      <4>. QED BY <2>2, <3>1
    <3>3. Len(b[i]) \in Nat /\ Len(b[j]) \in Nat
      BY <1>4
    <3>. QED BY <1>3, <2>3, <3>2, <3>3
  <2>. QED BY <2>4
<1>6. \E j \in 1 .. l : IsLongest(j, b)
  <2>. DEFINE U == {j \in 1 .. l : \A i \in 1 .. l : Len(b[i]) <= Len(b[j])}
  <2>1. U \in SUBSET Nat /\ U # {}
    BY <1>5
  <2>2. PICK j \in U : \A i \in U : j <= i
    <3>. HIDE DEF U
    <3>. QED BY <2>1, LeastOf
  <2>3. j \in 1 .. l /\ \A i \in 1 .. l : Len(b[i]) <= Len(b[j])
    OBVIOUS
  <2>4. ASSUME NEW i \in 1 .. j - 1 PROVE Len(b[i]) < Len(b[j])
    <3>1. i \in 1 .. l /\ ~(j <= i)
      BY <1>2, <2>3
    <3>2. i \notin U
      <4>. HIDE DEF U
      <4>. QED BY <2>2, <3>1
    <3>3. PICK h \in 1 .. l : ~(Len(b[h]) <= Len(b[i]))
      BY <3>1, <3>2
    <3>4. Len(b[h]) <= Len(b[j])
      BY <2>3
    <3>5. Len(b[h]) \in Nat /\ Len(b[i]) \in Nat /\ Len(b[j]) \in Nat
      BY <1>4, <2>3, <3>1
    <3>. QED BY <3>3, <3>4, <3>5
  <2>5. IsLongest(j, b)
    BY <1>3, <2>3, <2>4 DEF IsLongest
  <2>. QED BY <2>3, <2>5
<1>7. k \in 1 .. l /\ IsLongest(k, b)
  BY <1>3, <1>6
<1>8. SplitLargest(b) = IF Len(b[k]) <= 1 THEN b ELSE Halved(b, k, half)
  BY DEF SplitLargest, Halved, WithTwo
<1>. HIDE DEF k
<1>9. ~(Len(b[k]) <= 1)
  <2>. SUFFICES ASSUME Len(b[k]) <= 1 PROVE FALSE
    OBVIOUS
  <2>1. \A r \in 1 .. l : e[r] = e[r - 1] + 1
    <3>. SUFFICES ASSUME NEW r \in 1 .. l PROVE e[r] = e[r - 1] + 1
      OBVIOUS
    <3>1. Len(b[r]) <= Len(b[k]) /\ Len(b[r]) = e[r] - e[r - 1] /\ e[r - 1] < e[r]
      BY <1>2, <1>3, <1>4, <1>7 DEF IsLongest
    <3>2. e[r] \in Nat /\ e[r - 1] \in Nat /\ Len(b[k]) \in Nat
      BY <1>4, <1>7
    <3>. QED BY <3>1, <3>2
  <2>. DEFINE K == {r \in 0 .. l : e[r] = r}
  <2>2. 0 \in K
    BY <1>2
  <2>3. ASSUME NEW r \in 1 .. l, r - 1 \in K PROVE r \in K
    BY <1>2, <2>1, <2>3
  <2>4. \A r \in 0 .. l : r \in K
    <3>. HIDE DEF K, l
    <3>1. l \in Nat
      BY <1>2
    <3>. QED BY <2>2, <2>3, <3>1, CountUp
  <2>5. e[l] = l
    <3>1. l \in 0 .. l
      BY <1>2
    <3>. QED BY <2>4, <3>1
  <2>. QED BY <1>2, <1>3, <2>5
<1>10. half \in Nat /\ 1 <= half /\ half < Len(b[k])
  <2>. DEFINE m == Len(b[k])
  <2>1. m \in Nat /\ ~(m <= 1)
    BY <1>4, <1>7, <1>9
  <2>2. half = (m + 1) \div 2
    OBVIOUS
  <2>. HIDE DEF m, half
  <2>3. half \in Nat /\ 1 <= half /\ half < m
    BY <2>1, <2>2
  <2>. QED BY <2>3 DEF m
<1>. HIDE DEF half
<1>11. CutsInto(Halved(b, k, half), order, n) /\ Len(Halved(b, k, half)) = Len(b) + 1
  BY <1>7, <1>10, CutsInTwo
<1>. QED BY <1>8, <1>9, <1>11

AtMost(b, order, n, heads) == CutsInto(b, order, n) /\ Len(b) <= heads

\* The buckets: the whole order, in at most as many parts as asked for.
LEMMA BucketsAre ==
  ASSUME NEW S, NEW order \in Seq(S), Len(order) >= 1, NEW heads \in Nat, heads >= 1,
         NEW weight
  PROVE  CutsInto(Buckets(order, heads, weight), order, Len(order))
         /\ Len(Buckets(order, heads, weight)) <= heads
<1>. DEFINE N == Len(order)
            R == Range(order)
            P == {b \in Seq(Seq(R)) : Len(b) >= 1}
            pack(b, n) == Packed(b, n, order, heads, weight)
            start == << <<>> >>
            Is(f) == f = [n \in 0 .. N |-> IF n = 0 THEN start ELSE pack(f[n - 1], n)]
            cut == CHOOSE f : Is(f)
            step == [p \in (1 .. N) \X P |-> pack(p[2], p[1])]
<1>0. Buckets(order, heads, weight) = cut[N]
  BY DEF Buckets
<1>1. N \in Nat /\ N >= 1 /\ \A n \in 1 .. N : order[n] \in R
  BY DEF Range
<1>. HIDE DEF N, R
<1>2. \A n \in 1 .. N : /\ n - 1 \in 0 .. N /\ n \in 0 .. N /\ n # 0 /\ n \in Nat
  BY <1>1
<1>3. \A n \in 1 .. N, b \in P : pack(b, n) \in P
  <2>. SUFFICES ASSUME NEW n \in 1 .. N, NEW b \in P PROVE pack(b, n) \in P
    OBVIOUS
  <2>1. order[n] \in R /\ b \in Seq(Seq(R)) /\ Len(b) \in 1 .. Len(b) /\ Len(b) \in Nat
        /\ Len(b) >= 1
    BY <1>1
  <2>2. b[Len(b)] \in Seq(R)
    BY <2>1
  <2>3. <<order[n]>> \in Seq(R) /\ Append(b[Len(b)], order[n]) \in Seq(R)
    BY <2>1, <2>2, AppendProperties
  <2>. DEFINE Q == Seq(R)
              x == <<order[n]>>
              y == Append(b[Len(b)], order[n])
  <2>4. x \in Q /\ y \in Q /\ b \in Seq(Q)
    BY <2>1, <2>3
  <2>. HIDE DEF Q, x, y
  <2>5. Append(b, x) \in Seq(Q) /\ Len(Append(b, x)) = Len(b) + 1
    BY <2>4, AppendProperties
  <2>6. [b EXCEPT ![Len(b)] = y] \in Seq(Q) /\ Len([b EXCEPT ![Len(b)] = y]) = Len(b)
    BY <2>1, <2>4, ExceptSeq
  <2>7. pack(b, n) = Append(b, x) \/ pack(b, n) = [b EXCEPT ![Len(b)] = y]
    BY DEF Packed, ReplaceAt, Last, x, y
  <2>8. pack(b, n) \in Seq(Q) /\ Len(pack(b, n)) >= 1
    <3>. HIDE DEF pack
    <3>1. CASE pack(b, n) = Append(b, x)
      <4>1. Len(pack(b, n)) = Len(b) + 1
        BY <2>5, <3>1
      <4>. QED BY <2>1, <2>5, <3>1, <4>1
    <3>2. CASE pack(b, n) = [b EXCEPT ![Len(b)] = y]
      <4>1. Len(pack(b, n)) = Len(b)
        BY <2>6, <3>2
      <4>. QED BY <2>1, <2>6, <3>2, <4>1
    <3>. QED BY <2>7, <3>1, <3>2
  <2>. QED BY <2>8 DEF Q
<1>4. start \in P /\ Len(start) = 1
  <2>1. <<>> \in Seq(R)
    OBVIOUS
  <2>2. start \in Seq(Seq(R)) /\ Len(start) = 1
    BY <2>1
  <2>. QED BY <2>2
<1>. HIDE DEF P, pack, start
<1>5. PICK h \in [0 .. N -> P] : Unfolds(h, start, N, step)
  <2>1. step \in Steps(P, N)
    BY <1>3 DEF Steps
  <2>. HIDE DEF step
  <2>. QED BY <1>1, <1>4, <2>1, RecursionExists
<1>6. Is(h)
  <2>1. \A n \in 1 .. N : h[n] = pack(h[n - 1], n)
    BY <1>2, <1>5 DEF Unfolds
  <2>2. h = [n \in 0 .. N |-> h[n]] /\ \A n \in 0 .. N : n # 0 => n \in 1 .. N
    BY <1>1, <1>5
  <2>. QED BY <1>5, <2>1, <2>2 DEF Unfolds
<1>7. Is(cut)
  <2>. HIDE DEF Is
  <2>. QED BY <1>6
<1>. HIDE DEF cut
<1>8. cut[0] = start /\ \A n \in 1 .. N : cut[n] = pack(cut[n - 1], n)
  <2>1. \A n \in 0 .. N : cut[n] = IF n = 0 THEN start ELSE pack(cut[n - 1], n)
    BY <1>7
  <2>2. 0 \in 0 .. N
    BY <1>1
  <2>. QED BY <1>2, <2>1, <2>2
<1>. DEFINE K == {n \in 0 .. N : n # 0 => AtMost(cut[n], order, n, heads)}
<1>9. 0 \in K
  <2>1. 0 \in 0 .. N
    BY <1>1
  <2>. QED BY <2>1
<1>10. ASSUME NEW n \in 1 .. N, n - 1 \in K PROVE n \in K
  <2>. DEFINE b == cut[n - 1]
  <2>1. cut[n] = Packed(b, n, order, heads, weight)
    BY <1>8 DEF pack
  <2>2. CASE n = 1
    <3>1. b = << <<>> >> /\ Len(b) = 1 /\ b[1] = <<>>
      BY <1>4, <1>8, <2>2 DEF start
    <3>. HIDE DEF b
    <3>2. Last(b) = <<>> /\ ~Begins(b, n, order, heads, weight)
      BY <3>1 DEF Begins, Last
    <3>3. cut[n] = ReplaceAt(b, 1, Append(<<>>, order[1]))
      BY <2>1, <2>2, <3>1, <3>2 DEF Packed
    <3>4. Append(<<>>, order[1]) = <<order[1]>>
      OBVIOUS
    <3>. DEFINE x == <<order[1]>>
    <3>. HIDE DEF x
    <3>5. [<< <<>> >> EXCEPT ![1] = x] = <<x>>
      OBVIOUS
    <3>6. cut[n] = << <<order[1]>> >>
      BY <3>1, <3>3, <3>4, <3>5 DEF ReplaceAt, x
    <3>7. CutsInto(<< <<order[1]>> >>, order, 1)
      BY <1>1, CutsFirst DEF N
    <3>8. CutsInto(cut[n], order, n) /\ Len(cut[n]) <= heads
      <4>1. Len(cut[n]) = 1
        BY <3>6
      <4>2. CutsInto(cut[n], order, n)
        BY <2>2, <3>6, <3>7
      <4>. QED BY <4>1, <4>2
    <3>. QED BY <1>2, <3>8 DEF AtMost
  <2>3. CASE n # 1
    <3>1. CutsInto(b, order, n - 1) /\ Len(b) <= heads
      BY <1>2, <1>10, <2>3 DEF AtMost
    <3>2. n \in 1 .. Len(order)
      BY DEF N
    <3>. HIDE DEF b
    <3>3. Len(b) \in Nat
      <4>1. PICK e : Ends(e, b, order, n - 1)
        BY <3>1 DEF CutsInto
      <4>. QED BY <4>1 DEF Ends
    <3>4. CASE Begins(b, n, order, heads, weight)
      <4>1. CutsInto(Append(b, <<order[n]>>), order, n)
            /\ Len(Append(b, <<order[n]>>)) = Len(b) + 1
        BY <3>1, <3>2, CutsMore
      <4>2. cut[n] = Append(b, <<order[n]>>)
        BY <2>1, <3>4 DEF Packed
      <4>3. Len(b) < heads
        BY <3>4 DEF Begins
      <4>4. Len(b) + 1 <= heads
        BY <3>3, <4>3
      <4>. QED BY <1>2, <4>1, <4>2, <4>4 DEF AtMost
    <3>5. CASE ~Begins(b, n, order, heads, weight)
      <4>1. CutsInto(ReplaceAt(b, Len(b), Append(Last(b), order[n])), order, n)
            /\ Len(ReplaceAt(b, Len(b), Append(Last(b), order[n]))) = Len(b)
        BY <3>1, <3>2, CutsLonger
      <4>2. cut[n] = ReplaceAt(b, Len(b), Append(Last(b), order[n]))
        BY <2>1, <3>5 DEF Packed
      <4>. QED BY <1>2, <3>1, <4>1, <4>2 DEF AtMost
    <3>. QED BY <3>4, <3>5
  <2>. QED BY <2>2, <2>3
<1>11. \A n \in 0 .. N : n \in K
  <2>. HIDE DEF K
  <2>. QED BY <1>1, <1>9, <1>10, CountUp
<1>12. CutsInto(cut[N], order, N) /\ Len(cut[N]) <= heads
  <2>1. N \in 0 .. N /\ N # 0
    BY <1>1
  <2>. QED BY <1>11, <2>1 DEF AtMost
<1>. QED BY <1>0, <1>12 DEF N

\* The parts are as many as asked for, when there are units enough.
LEMMA FilledIs ==
  ASSUME NEW S, NEW order \in Seq(S), NEW n \in 0 .. Len(order), NEW b,
         NEW heads \in Nat, heads <= n, AtMost(b, order, n, heads)
  PROVE  CutsInto(FilledUp(b, heads), order, n) /\ Len(FilledUp(b, heads)) = heads
<1>. DEFINE R == Range(order)
            P == {c \in Seq(Seq(R)) : AtMost(c, order, n, heads)}
            fill(c) == IF Len(c) < heads THEN SplitLargest(c) ELSE c
            Is(f) == f = [i \in 0 .. heads |-> IF i = 0 THEN b ELSE fill(f[i - 1])]
            split == CHOOSE f : Is(f)
            step == [p \in (1 .. heads) \X P |-> fill(p[2])]
<1>0. FilledUp(b, heads) = split[heads]
  BY DEF FilledUp
<1>. HIDE DEF R
<1>1. ASSUME NEW c, CutsInto(c, order, n)
      PROVE  c \in Seq(Seq(R)) /\ Len(c) \in Nat /\ Len(c) >= 1
  <2>1. PICK e : Ends(e, c, order, n)
    BY <1>1 DEF CutsInto
  <2>. QED BY <2>1 DEF Ends, R
<1>2. \A c \in P : fill(c) \in P
  <2>. SUFFICES ASSUME NEW c \in P PROVE fill(c) \in P
    OBVIOUS
  <2>1. CutsInto(c, order, n) /\ Len(c) <= heads /\ Len(c) \in Nat
    BY <1>1 DEF AtMost
  <2>2. CASE Len(c) < heads
    <3>1. Len(c) < n
      BY <2>1, <2>2
    <3>2. CutsInto(SplitLargest(c), order, n) /\ Len(SplitLargest(c)) = Len(c) + 1
      BY <2>1, <3>1, SplitIs
    <3>3. Len(SplitLargest(c)) <= heads
      BY <2>1, <2>2, <3>2
    <3>. QED BY <1>1, <2>2, <3>2, <3>3 DEF AtMost
  <2>3. CASE ~(Len(c) < heads)
    BY <2>3
  <2>. QED BY <2>2, <2>3
<1>3. b \in P
  BY <1>1 DEF AtMost
<1>4. \A c \in P : /\ CutsInto(c, order, n) /\ Len(c) <= heads /\ Len(c) \in Nat /\ Len(c) >= 1
                   /\ Len(c) < heads => Len(fill(c)) = Len(c) + 1
  <2>. SUFFICES ASSUME NEW c \in P
                PROVE  /\ CutsInto(c, order, n) /\ Len(c) <= heads /\ Len(c) \in Nat /\ Len(c) >= 1
                       /\ Len(c) < heads => Len(fill(c)) = Len(c) + 1
    OBVIOUS
  <2>1. CutsInto(c, order, n) /\ Len(c) <= heads /\ Len(c) \in Nat /\ Len(c) >= 1
    BY <1>1 DEF AtMost
  <2>2. ASSUME Len(c) < heads PROVE Len(fill(c)) = Len(c) + 1
    <3>1. Len(c) < n
      BY <2>1, <2>2
    <3>2. Len(SplitLargest(c)) = Len(c) + 1
      BY <2>1, <3>1, SplitIs
    <3>. QED BY <2>2, <3>2
  <2>. HIDE DEF fill
  <2>. QED BY <2>1, <2>2
<1>5. \A c \in P : ~(Len(c) < heads) => fill(c) = c
  OBVIOUS
<1>. HIDE DEF P, fill
<1>6. \A i \in 1 .. heads : i - 1 \in 0 .. heads /\ i \in 0 .. heads /\ i # 0 /\ i \in Nat
  OBVIOUS
<1>7. PICK h \in [0 .. heads -> P] : Unfolds(h, b, heads, step)
  <2>1. step \in Steps(P, heads)
    BY <1>2 DEF Steps
  <2>. HIDE DEF step
  <2>. QED BY <1>3, <2>1, RecursionExists
<1>8. Is(h)
  <2>1. \A i \in 1 .. heads : h[i] = fill(h[i - 1])
    BY <1>6, <1>7 DEF Unfolds
  <2>2. h = [i \in 0 .. heads |-> h[i]] /\ \A i \in 0 .. heads : i # 0 => i \in 1 .. heads
    BY <1>7
  <2>. QED BY <1>7, <2>1, <2>2 DEF Unfolds
<1>9. Is(split)
  <2>. HIDE DEF Is
  <2>. QED BY <1>8
<1>. HIDE DEF split
<1>10. split[0] = b /\ \A i \in 1 .. heads : split[i] = fill(split[i - 1])
  <2>1. \A i \in 0 .. heads : split[i] = IF i = 0 THEN b ELSE fill(split[i - 1])
    BY <1>9
  <2>2. 0 \in 0 .. heads
    OBVIOUS
  <2>. QED BY <1>6, <2>1, <2>2
\* Every round adds a part until there are enough.
<1>. DEFINE K == {i \in 0 .. heads : split[i] \in P /\ (Len(split[i]) >= i + 1 \/ Len(split[i]) = heads)}
<1>11. 0 \in K
  <2>1. split[0] \in P /\ Len(split[0]) >= 0 + 1
    <3>1. Len(b) \in Nat /\ Len(b) >= 1
      BY <1>3, <1>4
    <3>. QED BY <1>3, <1>10, <3>1
  <2>2. 0 \in 0 .. heads
    OBVIOUS
  <2>. QED BY <2>1, <2>2
<1>12. ASSUME NEW i \in 1 .. heads, i - 1 \in K PROVE i \in K
  <2>. DEFINE c == split[i - 1]
  <2>1. c \in P /\ (Len(c) >= (i - 1) + 1 \/ Len(c) = heads)
    BY <1>12
  <2>2. split[i] = fill(c)
    BY <1>10
  <2>. HIDE DEF c
  <2>3. Len(c) <= heads /\ Len(c) \in Nat
    BY <1>4, <2>1
  <2>4. split[i] \in P
    BY <1>2, <2>1, <2>2
  <2>5. CASE Len(c) < heads
    <3>1. Len(split[i]) = Len(c) + 1
      BY <1>4, <2>1, <2>2, <2>5
    <3>2. Len(split[i]) >= i + 1
      BY <2>1, <2>3, <2>5, <3>1
    <3>. QED BY <1>6, <2>4, <3>2
  <2>6. CASE ~(Len(c) < heads)
    <3>1. split[i] = c /\ Len(c) = heads
      BY <1>5, <2>1, <2>2, <2>3, <2>6
    <3>. QED BY <1>6, <2>4, <3>1
  <2>. QED BY <2>5, <2>6
<1>13. \A i \in 0 .. heads : i \in K
  <2>. HIDE DEF K
  <2>. QED BY <1>11, <1>12, CountUp
<1>14. split[heads] \in P /\ (Len(split[heads]) >= heads + 1 \/ Len(split[heads]) = heads)
  <2>1. heads \in 0 .. heads
    OBVIOUS
  <2>. QED BY <1>13, <2>1
<1>. DEFINE filled == split[heads]
<1>15. filled \in P /\ (Len(filled) >= heads + 1 \/ Len(filled) = heads)
  BY <1>14
<1>. HIDE DEF filled
<1>16. CutsInto(filled, order, n) /\ Len(filled) <= heads /\ Len(filled) \in Nat
  BY <1>4, <1>15
<1>17. Len(filled) = heads
  BY <1>15, <1>16
<1>. QED BY <1>0, <1>16, <1>17 DEF filled

\* The smaller of two numbers.
LEMMA MinOfTwo ==
  ASSUME NEW a \in Int, NEW b \in Int
  PROVE  Min({a, b}) = IF a <= b THEN a ELSE b
<1>. DEFINE w == IF a <= b THEN a ELSE b
<1>1. w \in {a, b} /\ \A y \in {a, b} : w <= y
  OBVIOUS
<1>2. \A x \in {a, b} : (\A y \in {a, b} : x <= y) => x = w
  OBVIOUS
<1>3. Min({a, b}) = CHOOSE x \in {a, b} : \A y \in {a, b} : x <= y
  BY DEF Min
<1>. HIDE DEF w
<1>4. Min({a, b}) = w
  BY <1>1, <1>2, <1>3
<1>. QED BY <1>4 DEF w

\* The roles: the whole order cut into as many parts as asked for, or into single
\* units when there are fewer of them.
LEMMA PartitionIs ==
  ASSUME NEW S, NEW order \in Seq(S), Len(order) >= 1, NEW heads \in Nat, heads >= 1,
         NEW weight
  PROVE  CutsInto(Partition(order, heads, weight), order, Len(order))
         /\ Len(Partition(order, heads, weight)) = Min({heads, Len(order)})
<1>. DEFINE size == Min({heads, Len(order)})
<1>1. Len(order) \in Nat
  OBVIOUS
<1>2. size \in Nat /\ size >= 1 /\ size <= Len(order)
  <2>1. size = IF heads <= Len(order) THEN heads ELSE Len(order)
    BY <1>1, MinOfTwo
  <2>. HIDE DEF size
  <2>. QED BY <1>1, <2>1
<1>3. Partition(order, heads, weight) = FilledUp(Buckets(order, size, weight), size)
  BY DEF Partition
<1>. HIDE DEF size
<1>4. AtMost(Buckets(order, size, weight), order, Len(order), size)
  BY <1>2, BucketsAre DEF AtMost
<1>5. Len(order) \in 0 .. Len(order)
  BY <1>1
<1>. DEFINE b == Buckets(order, size, weight)
            n == Len(order)
<1>. HIDE DEF b, n
<1>6. n \in 0 .. Len(order) /\ size <= n /\ AtMost(b, order, n, size)
  BY <1>2, <1>4, <1>5 DEF b, n
<1>7. CutsInto(FilledUp(b, size), order, n) /\ Len(FilledUp(b, size)) = size
  BY <1>2, <1>6, FilledIs
<1>. QED BY <1>3, <1>7 DEF b, n, size

------------------------------------------------------------------------------
\* Each candidate once: the models of the pool but for the excluded ones.
LEMMA DistinctIs ==
  ASSUME NEW S, NEW seq \in Seq(S), NEW excluded
  PROVE  LET d == Distinct(seq, excluded)
         IN /\ d \in Seq(S) /\ Len(d) \in Nat /\ DOMAIN d = 1 .. Len(d)
            /\ Range(d) = Range(seq) \ excluded
            /\ IsInjective(d)
            /\ IsFiniteSet(Range(d)) /\ Cardinality(Range(d)) = Len(d)
<1>. DEFINE F == FirstPlaces(seq, excluded)
            n == Cardinality(F)
            rank(i) == Cardinality({j \in F : j < i})
            at == [k \in 1 .. n |->
                     CHOOSE i \in F : Cardinality({j \in F : j < i}) = k - 1]
            d == [k \in 1 .. n |->
                     seq[CHOOSE i \in F : Cardinality({j \in F : j < i}) = k - 1]]
<1>0. d = Distinct(seq, excluded)
  BY DEF Distinct
<1>1. Len(seq) \in Nat /\ DOMAIN seq = 1 .. Len(seq) /\ F \in SUBSET (1 .. Len(seq))
  BY DEF FirstPlaces
<1>2. F \in SUBSET Nat /\ IsFiniteSet(F)
  <2>1. IsFiniteSet(1 .. Len(seq))
    BY <1>1, FS_Interval
  <2>. QED BY <1>1, <2>1, FS_Subset
<1>. HIDE DEF F
<1>3. /\ n \in Nat
      /\ \A i \in F : rank(i) \in 0 .. n - 1
      /\ \A i, j \in F : i < j => rank(i) < rank(j)
      /\ \A k \in 0 .. n - 1 : \E i \in F : rank(i) = k
  BY <1>2, PlacesCounted
<1>4. \A k \in 1 .. n : at[k] \in F /\ rank(at[k]) = k - 1
  <2>. SUFFICES ASSUME NEW k \in 1 .. n PROVE at[k] \in F /\ rank(at[k]) = k - 1
    OBVIOUS
  <2>1. k - 1 \in 0 .. n - 1
    <3>. HIDE DEF n
    <3>. QED BY <1>3
  <2>2. \E i \in F : rank(i) = k - 1
    BY <1>3, <2>1
  <2>. QED BY <2>2
<1>5. \A k \in 1 .. n : d[k] = seq[at[k]]
  OBVIOUS
<1>6. DOMAIN d = 1 .. n /\ DOMAIN at = 1 .. n
  OBVIOUS
<1>. HIDE DEF n, at, rank
<1>7. d \in [1 .. n -> S]
  <2>1. \A k \in 1 .. n : seq[at[k]] \in S
    <3>1. \A k \in 1 .. n : at[k] \in F
      BY <1>4
    <3>2. \A i \in F : seq[i] \in S
      BY <1>1
    <3>. QED BY <3>1, <3>2
  <2>2. d = [k \in 1 .. n |-> d[k]]
    OBVIOUS
  <2>. HIDE DEF d
  <2>. QED BY <1>5, <2>1, <2>2
<1>. HIDE DEF d
<1>8. d \in Seq(S) /\ Len(d) = n
  BY <1>3, <1>7, SequenceIs
\* The same model has one first place.
<1>9. \A i, j \in F : seq[i] = seq[j] => i = j
  <2>. SUFFICES ASSUME NEW i \in F, NEW j \in F, seq[i] = seq[j] PROVE i = j
    OBVIOUS
  <2>1. i \in Nat /\ j \in Nat /\ i >= 1 /\ j >= 1
    BY <1>1
  <2>2. ~(i < j)
    <3>1. i < j => i \in 1 .. j - 1
      BY <2>1
    <3>. QED BY <3>1 DEF F, FirstPlaces
  <2>3. ~(j < i)
    <3>1. j < i => j \in 1 .. i - 1
      BY <2>1
    <3>. QED BY <3>1 DEF F, FirstPlaces
  <2>. QED BY <2>1, <2>2, <2>3
<1>10. IsInjective(d)
  <2>. SUFFICES ASSUME NEW k \in 1 .. n, NEW l \in 1 .. n, d[k] = d[l] PROVE k = l
    BY <1>6 DEF IsInjective
  <2>1. at[k] = at[l]
    BY <1>4, <1>5, <1>9
  <2>2. k - 1 = l - 1 /\ k \in Int /\ l \in Int
    BY <1>3, <1>4, <2>1
  <2>. QED BY <2>2
<1>11. Range(d) = Range(seq) \ excluded
  <2>1. ASSUME NEW k \in 1 .. n PROVE d[k] \in Range(seq) \ excluded
    <3>1. at[k] \in 1 .. Len(seq) /\ seq[at[k]] \notin excluded
      BY <1>1, <1>4 DEF F, FirstPlaces
    <3>. QED BY <1>1, <1>5, <3>1 DEF Range
  <2>2. ASSUME NEW m \in Range(seq) \ excluded PROVE \E k \in 1 .. n : d[k] = m
    <3>. DEFINE P == {i \in 1 .. Len(seq) : seq[i] = m}
    <3>1. P # {} /\ P \in SUBSET Nat
      BY <1>1 DEF Range
    <3>2. PICK i \in P : \A j \in P : i <= j
      <4>. HIDE DEF P
      <4>. QED BY <3>1, LeastOf
    <3>3. i \in F
      <4>1. i \in 1 .. Len(seq) /\ seq[i] = m /\ m \notin excluded
        OBVIOUS
      <4>2. ASSUME NEW j \in 1 .. i - 1 PROVE seq[j] # seq[i]
        <5>1. j \in 1 .. Len(seq) /\ ~(i <= j)
          BY <1>1, <4>1
        <5>2. j \notin P
          BY <3>2, <5>1
        <5>. QED BY <4>1, <5>1, <5>2
      <4>. QED BY <1>1, <4>1, <4>2 DEF F, FirstPlaces
    <3>. DEFINE c == rank(i)
    <3>4. c \in 0 .. n - 1
      BY <1>3, <3>3
    <3>5. PICK k \in 1 .. n : k - 1 = c
      <4>. HIDE DEF c
      <4>1. c \in Int /\ c + 1 \in 1 .. n
        BY <1>3, <3>4
      <4>2. PICK k \in 1 .. n : k = c + 1
        BY <4>1
      <4>3. k - 1 = c
        BY <4>1, <4>2
      <4>. QED BY <4>3
    <3>6. at[k] \in F /\ rank(at[k]) = c
      BY <1>4, <3>5
    <3>7. at[k] = i
      <4>1. at[k] \in Nat /\ i \in Nat
        BY <1>2, <3>3, <3>6
      <4>2. ~(at[k] < i) /\ ~(i < at[k])
        <5>1. c \in Int /\ ~(c < c)
          BY <1>3, <3>4
        <5>. QED BY <1>3, <3>3, <3>6, <5>1
      <4>. QED BY <4>1, <4>2
    <3>8. d[k] = seq[i]
      BY <1>5, <3>7
    <3>9. seq[i] = m
      OBVIOUS
    <3>. QED BY <3>8, <3>9
  <2>3. \A m : m \in Range(d) <=> \E k \in 1 .. n : d[k] = m
    BY <1>6 DEF Range
  <2>4. \A m : m \in Range(d) <=> m \in Range(seq) \ excluded
    BY <2>1, <2>2, <2>3
  <2>. QED BY <2>4
<1>12. IsFiniteSet(Range(d)) /\ Cardinality(Range(d)) = n
  <2>1. IsFiniteSet(1 .. n) /\ Cardinality(1 .. n) = n
    <3>1. Cardinality(1 .. n) = IF 1 > n THEN 0 ELSE n - 1 + 1
      BY <1>3, FS_Interval
    <3>. QED BY <1>3, <3>1, FS_Interval
  <2>2. d \in [1 .. n -> Range(d)]
    BY <1>7 DEF Range
  <2>3. d \in Injection(1 .. n, Range(d)) /\ d \in Surjection(1 .. n, Range(d))
    <3>1. \A m \in Range(d) : \E k \in 1 .. n : d[k] = m
      BY <1>6 DEF Range
    <3>. QED BY <1>10, <2>2, <3>1 DEF Injection, Surjection
  <2>4. IsFiniteSet(Range(d)) /\ Cardinality(Range(d)) <= n
    BY <2>1, <2>3, FS_Surjection
  <2>5. Cardinality(1 .. n) <= Cardinality(Range(d))
    BY <2>3, <2>4, FS_Injection
  <2>. QED BY <1>3, <2>1, <2>4, <2>5, FS_CardinalityType
<1>. QED BY <1>0, <1>3, <1>6, <1>8, <1>10, <1>11, <1>12

------------------------------------------------------------------------------
\* What a function makes of a finite set is finite.
LEMMA ImageIsFinite ==
  ASSUME NEW S, IsFiniteSet(S), NEW f, f = [x \in S |-> f[x]]
  PROVE  IsFiniteSet(Range(f)) /\ Cardinality(Range(f)) <= Cardinality(S)
<1>1. f \in Surjection(S, Range(f))
  <2>1. f \in [S -> Range(f)]
    <3>. QED BY DEF Range
  <2>2. \A y \in Range(f) : \E x \in S : f[x] = y
    BY DEF Range
  <2>. QED BY <2>1, <2>2 DEF Surjection
<1>. QED BY <1>1, FS_Surjection

\* The best and the worst score are rating.
LEMMA ScoresBounded ==
  ASSUME NEW C, IsFiniteSet(C), C # {}, NEW roleCount \in Nat, NEW score,
         \A m \in C, r \in 0 .. roleCount : score[m][r] \in Nat
  PROVE  /\ Largest(score, C, roleCount) \in Nat
         /\ \A m \in C, r \in 0 .. roleCount : score[m][r] <= Largest(score, C, roleCount)
<1>. DEFINE R == 0 .. roleCount
            T == {score[m][r] : m \in C, r \in R}
            f == [p \in C \X R |-> score[p[1]][p[2]]]
<1>1. IsFiniteSet(C \X R)
  <2>1. IsFiniteSet(R)
    BY FS_Interval
  <2>. HIDE DEF R
  <2>. QED BY <2>1, FS_Product
<1>2. Range(f) = T
  <2>1. ASSUME NEW m \in C, NEW r \in R PROVE score[m][r] \in Range(f)
    <3>1. <<m, r>> \in DOMAIN f /\ f[<<m, r>>] = score[m][r]
      OBVIOUS
    <3>. HIDE DEF f
    <3>. QED BY <3>1 DEF Range
  <2>2. ASSUME NEW x \in Range(f) PROVE x \in T
    <3>1. PICK p \in C \X R : x = score[p[1]][p[2]]
      BY DEF Range
    <3>. QED BY <3>1
  <2>3. \A x \in T : x \in Range(f)
    <3>. HIDE DEF f
    <3>. QED BY <2>1
  <2>. HIDE DEF f, T
  <2>. QED BY <2>2, <2>3
<1>3. IsFiniteSet(T)
  <2>1. f = [p \in C \X R |-> f[p]]
    OBVIOUS
  <2>. HIDE DEF f, T
  <2>. QED BY <1>1, <1>2, <2>1, ImageIsFinite
<1>4. T \in SUBSET Nat
  OBVIOUS
<1>5. T # {}
  <2>1. PICK m \in C : TRUE
    OBVIOUS
  <2>2. 0 \in R
    OBVIOUS
  <2>3. score[m][0] \in T
    BY <2>2
  <2>. HIDE DEF T
  <2>. QED BY <2>3
<1>6. Max(T) \in T /\ \A y \in T : Max(T) >= y
  <2>. HIDE DEF T
  <2>. QED BY <1>3, <1>4, <1>5, GreatestOf
<1>7. Max(T) \in Nat
  BY <1>4, <1>6
<1>8. ASSUME NEW m \in C, NEW r \in R PROVE score[m][r] <= Max(T)
  <2>1. score[m][r] \in T /\ score[m][r] \in Nat
    OBVIOUS
  <2>. HIDE DEF T
  <2>2. Max(T) >= score[m][r]
    BY <1>6, <2>1
  <2>. QED BY <1>7, <2>1, <2>2
<1>9. Largest(score, C, roleCount) = Max(T)
  BY DEF Largest
<1>10. \A m \in C, r \in 0 .. roleCount : score[m][r] <= Max(T)
  <2>. HIDE DEF T
  <2>. QED BY <1>8
<1>. HIDE DEF T
<1>. QED BY <1>7, <1>9, <1>10

\* A total is a sum over as many positions as there are.
LEMMA TotalWithin ==
  ASSUME NEW C, IsFiniteSet(C), NEW roleCount \in Nat, NEW recovery \in Nat,
         NEW a, a.role \in [1 .. roleCount -> C], a.recovery \in SUBSET C,
         Cardinality(a.recovery) = recovery,
         NEW score, NEW most \in Nat,
         \A m \in C, r \in 0 .. roleCount : score[m][r] \in Nat /\ score[m][r] <= most
  PROVE  Total(score, a) \in 0 .. Positions(roleCount, recovery) * most
<1>. DEFINE f == [r \in DOMAIN a.role |-> score[a.role[r]][r]]
            g == [m \in a.recovery |-> score[m][0]]
<1>1. /\ f \in [1 .. roleCount -> Nat] /\ \A r \in 1 .. roleCount : f[r] <= most
  OBVIOUS
<1>2. /\ g \in [a.recovery -> Nat] /\ \A m \in a.recovery : g[m] <= most
  <2>1. \A m \in a.recovery : m \in C /\ 0 \in 0 .. roleCount
    OBVIOUS
  <2>. QED BY <2>1
<1>3. IsFiniteSet(1 .. roleCount) /\ Cardinality(1 .. roleCount) = roleCount
  <2>1. Cardinality(1 .. roleCount) = IF 1 > roleCount THEN 0 ELSE roleCount - 1 + 1
    BY FS_Interval
  <2>. QED BY <2>1, FS_Interval
<1>4. IsFiniteSet(a.recovery)
  BY FS_Subset
<1>. DEFINE x == SumFunction(f)
            y == SumFunction(g)
<1>5. Total(score, a) = x + y
  BY DEF Total
<1>. HIDE DEF f, g
<1>6. x \in Nat /\ x <= roleCount * most
  BY <1>1, <1>3, SumWithin
<1>7. y \in Nat /\ y <= recovery * most
  BY <1>2, <1>4, SumWithin
<1>. HIDE DEF x, y
<1>8. (roleCount + recovery) * most = roleCount * most + recovery * most
      /\ roleCount * most \in Nat /\ recovery * most \in Nat
  OBVIOUS
<1>. QED BY <1>5, <1>6, <1>7, <1>8 DEF Positions

------------------------------------------------------------------------------
\* The order of the candidates is within what a position may add.
LEMMA TieWithin ==
  ASSUME NEW S, NEW cands \in Seq(S), NEW roleCount \in Nat,
         NEW m \in Range(cands), NEW r \in 0 .. roleCount
  PROVE  /\ TieScore(cands, roleCount)[m][r] \in Nat
         /\ TieScore(cands, roleCount)[m][r] <= Len(cands) * (roleCount + 1) + roleCount + 1
         /\ Len(cands) * (roleCount + 1) + roleCount + 1 \in Nat
<1>. DEFINE i == CHOOSE i \in DOMAIN cands : cands[i] = m
            l == Len(cands)
<1>1. i \in 1 .. l /\ l \in Nat
  <2>1. DOMAIN cands = 1 .. l
    OBVIOUS
  <2>2. \E j \in DOMAIN cands : cands[j] = m
    BY DEF Range
  <2>. QED BY <2>1, <2>2
<1>2. TieScore(cands, roleCount)[m][r]
        = IF r = 0 THEN l * roleCount + i - 1 ELSE (i - 1) * roleCount + r - 1
  BY DEF TieScore
<1>. HIDE DEF i, l
<1>3. /\ l * (roleCount + 1) = l * roleCount + l
      /\ l * roleCount \in Nat
  BY <1>1
<1>4. i - 1 \in Nat /\ i - 1 <= l /\ r \in Nat /\ r <= roleCount
  BY <1>1
<1>5. (i - 1) * roleCount \in Nat /\ (i - 1) * roleCount <= l * roleCount
  BY <1>1, <1>4, TimesMonotone
<1>. DEFINE u == l * roleCount
            v == (i - 1) * roleCount
            w == l * (roleCount + 1)
<1>6. u \in Nat /\ v \in Nat /\ v <= u /\ w = u + l
  BY <1>3, <1>5
<1>7. TieScore(cands, roleCount)[m][r] = IF r = 0 THEN u + i - 1 ELSE v + r - 1
  BY <1>2
<1>. DEFINE per == Len(cands) * (roleCount + 1) + roleCount + 1
            tie == TieScore(cands, roleCount)[m][r]
<1>8. per = w + roleCount + 1
  BY DEF l
<1>. HIDE DEF u, v, w, per, tie
<1>9. w + roleCount + 1 \in Nat
  BY <1>1, <1>6
<1>10. CASE r = 0
  <2>1. tie = u + i - 1
    BY <1>7, <1>10 DEF tie
  <2>2. tie \in Nat /\ tie <= per /\ per \in Nat
    BY <1>1, <1>6, <1>8, <1>9, <2>1
  <2>. QED BY <2>2 DEF tie, per
<1>11. CASE r # 0
  <2>1. tie = v + r - 1
    BY <1>7, <1>11 DEF tie
  <2>2. r >= 1
    BY <1>4, <1>11
  <2>3. tie \in Nat /\ tie <= per /\ per \in Nat
    BY <1>1, <1>4, <1>6, <1>8, <1>9, <2>1, <2>2
  <2>. QED BY <2>3 DEF tie, per
<1>. QED BY <1>10, <1>11

\* What an assignment is.
LEMMA AssignmentIs ==
  ASSUME NEW cands, NEW roleCount, NEW recovery,
         NEW a \in Assignments(cands, roleCount, recovery)
  PROVE  /\ a.role \in [1 .. roleCount -> Range(cands)] /\ IsInjective(a.role)
         /\ a.recovery \in SUBSET Range(cands) /\ Cardinality(a.recovery) = recovery
         /\ Range(a.role) \cap a.recovery = {}
         /\ a = [role |-> a.role, recovery |-> a.recovery]
BY DEF Assignments, Injection, kSubset

\* Companies that hold another position are fewer than the positions.
LEMMA CompaniesWithin ==
  ASSUME NEW cands, IsFiniteSet(Range(cands)), NEW roleCount \in Nat, NEW recovery \in Nat,
         NEW a \in Assignments(cands, roleCount, recovery)
  PROVE  RepeatedCompanies(a) \in 0 .. Positions(roleCount, recovery)
<1>. DEFINE A == Assigned(a)
            f == [m \in A |-> Company[m]]
            C == {Company[m] : m \in A}
<1>1. /\ a.role \in [1 .. roleCount -> Range(cands)]
      /\ a.recovery \in SUBSET Range(cands) /\ Cardinality(a.recovery) = recovery
  BY AssignmentIs
<1>2. IsFiniteSet(Range(a.role)) /\ Cardinality(Range(a.role)) <= roleCount
      /\ Cardinality(Range(a.role)) \in Nat
  <2>1. IsFiniteSet(1 .. roleCount) /\ Cardinality(1 .. roleCount) = roleCount
    <3>1. Cardinality(1 .. roleCount) = IF 1 > roleCount THEN 0 ELSE roleCount - 1 + 1
      BY FS_Interval
    <3>. QED BY <3>1, FS_Interval
  <2>2. a.role = [r \in 1 .. roleCount |-> a.role[r]]
    BY <1>1
  <2>3. IsFiniteSet(Range(a.role)) /\ Cardinality(Range(a.role)) <= Cardinality(1 .. roleCount)
    BY <2>1, <2>2, ImageIsFinite
  <2>. QED BY <2>1, <2>3, FS_CardinalityType
<1>3. IsFiniteSet(a.recovery)
  BY <1>1, FS_Subset
<1>4. IsFiniteSet(A) /\ Cardinality(A) <= roleCount + recovery
      /\ Cardinality(A) \in Nat
  <2>1. /\ IsFiniteSet(A)
        /\ Cardinality(A) = Cardinality(Range(a.role)) + Cardinality(a.recovery)
                              - Cardinality(Range(a.role) \cap a.recovery)
    BY <1>2, <1>3, FS_Union DEF Assigned
  <2>2. Cardinality(Range(a.role) \cap a.recovery) \in Nat
    BY <1>2, FS_Intersection, FS_CardinalityType
  <2>3. Cardinality(A) \in Nat
    BY <2>1, FS_CardinalityType
  <2>. HIDE DEF A
  <2>. QED BY <1>1, <1>2, <2>1, <2>2, <2>3
<1>5. IsFiniteSet(Range(f)) /\ Cardinality(Range(f)) <= Cardinality(A)
  <2>1. f = [m \in A |-> f[m]]
    OBVIOUS
  <2>. HIDE DEF f, A
  <2>. QED BY <1>4, <2>1, ImageIsFinite
<1>6. Range(f) = C
  BY DEF Range
<1>7. Cardinality(C) \in Nat /\ Cardinality(C) <= Cardinality(A)
  <2>. HIDE DEF f, A, C
  <2>. QED BY <1>5, <1>6, FS_CardinalityType
<1>8. RepeatedCompanies(a) = Cardinality(A) - Cardinality(C)
  BY DEF RepeatedCompanies
<1>. HIDE DEF A, C
<1>. QED BY <1>4, <1>7, <1>8 DEF Positions

\* Every total fits the bound its scale is computed from.
LEMMA TotalsAlwaysFit ==
  ASSUME NEW S, NEW cands \in Seq(S), Len(cands) > 0, IsFiniteSet(Range(cands)),
         NEW roleCount \in Nat, NEW recovery \in Nat, NEW rating,
         \A m \in Range(cands), r \in 0 .. roleCount :
           rating.capability[m][r] \in Nat /\ rating.economy[m][r] \in Nat,
         NEW a \in Assignments(cands, roleCount, recovery)
  PROVE  TotalsFit(a, cands, roleCount, recovery, rating)
<1>. DEFINE C == Range(cands)
            places == Positions(roleCount, recovery)
            per == Len(cands) * (roleCount + 1) + roleCount + 1
            most == Largest(rating.economy, C, roleCount)
<1>1. C # {}
  <2>1. 1 \in DOMAIN cands
    OBVIOUS
  <2>. QED BY <2>1 DEF Range
<1>2. /\ a.role \in [1 .. roleCount -> C] /\ a.recovery \in SUBSET C
      /\ Cardinality(a.recovery) = recovery
  BY AssignmentIs
<1>. HIDE DEF C
<1>3. places \in Nat
  BY DEF Positions
<1>. HIDE DEF places
<1>4. Total(rating.capability, a) \in Nat
  <2>. DEFINE top == Largest(rating.capability, C, roleCount)
  <2>1. top \in Nat /\ \A m \in C, r \in 0 .. roleCount : rating.capability[m][r] <= top
    BY <1>1, ScoresBounded DEF C
  <2>. HIDE DEF top
  <2>2. Total(rating.capability, a) \in 0 .. places * top
    BY <1>2, <2>1, TotalWithin DEF C, places
  <2>. QED BY <1>3, <2>1, <2>2
<1>5. most \in Nat /\ \A m \in C, r \in 0 .. roleCount : rating.economy[m][r] <= most
  BY <1>1, ScoresBounded DEF C
<1>. HIDE DEF most
<1>6. Total(rating.economy, a) \in 0 .. places * most
  BY <1>2, <1>5, TotalWithin DEF C, places
<1>7. MaxEconomy(cands, roleCount, recovery, rating) \in Nat
      /\ MaxEconomy(cands, roleCount, recovery, rating) >= places * most
  <2>. DEFINE e == places * most
  <2>1. e \in Nat
    BY <1>3, <1>5
  <2>2. MaxEconomy(cands, roleCount, recovery, rating) = Max({1, e})
    BY DEF MaxEconomy, places, most, C
  <2>. HIDE DEF e
  <2>3. IsFiniteSet({1, e})
    <3>1. IsFiniteSet({1} \cup {e})
      BY FS_Singleton, FS_Union
    <3>2. {1, e} = {1} \cup {e}
      OBVIOUS
    <3>. QED BY <3>1, <3>2
  <2>4. Max({1, e}) \in {1, e} /\ \A y \in {1, e} : Max({1, e}) >= y
    BY <2>1, <2>3, GreatestOf
  <2>5. Max({1, e}) \in Nat /\ Max({1, e}) >= e
    BY <2>1, <2>4
  <2>. QED BY <2>2, <2>5 DEF e
<1>8. Total(TieScore(cands, roleCount), a) \in 0 .. places * per /\ per \in Nat
  <2>1. \A m \in C, r \in 0 .. roleCount :
          /\ TieScore(cands, roleCount)[m][r] \in Nat
          /\ TieScore(cands, roleCount)[m][r] <= per
    BY TieWithin DEF C
  <2>2. per \in Nat
    OBVIOUS
  <2>. HIDE DEF per
  <2>. QED BY <1>2, <2>1, <2>2, TotalWithin DEF C, places
<1>9. MaxTie(cands, roleCount, recovery) = places * per
  BY DEF MaxTie, places
<1>. HIDE DEF per
<1>10. places * per \in Nat
  BY <1>3, <1>8
<1>11. RepeatedCompanies(a) \in 0 .. places
  BY CompaniesWithin DEF places
<1>12. Total(rating.economy, a) \in 0 .. MaxEconomy(cands, roleCount, recovery, rating)
  <2>1. places * most \in Nat
    BY <1>3, <1>5
  <2>. DEFINE e == places * most
  <2>. HIDE DEF e
  <2>2. e \in Nat /\ Total(rating.economy, a) \in 0 .. e
    BY <1>6, <2>1 DEF e
  <2>3. MaxEconomy(cands, roleCount, recovery, rating) >= e
    BY <1>7 DEF e
  <2>. QED BY <1>7, <2>2, <2>3
<1>. QED BY <1>3, <1>4, <1>7, <1>8, <1>9, <1>10, <1>11, <1>12 DEF TotalsFit, places

------------------------------------------------------------------------------
\* The identities that units may get.
IdsFor(units) ==
  {units[n].id : n \in 1 .. Len(units)}
    \cup {Append(units[n].id, n) : n \in 1 .. Len(units)}

NewId(units, earlier, n) ==
  IF Contains(earlier, units[n].id) THEN Append(units[n].id, n) ELSE units[n].id

\* The i-th unit keeps its own identity or, where an earlier one bears it, gets
\* its position appended.
NamedIn(units, ids, i) ==
  \/ ids[i] = units[i].id /\ \A k \in 1 .. i - 1 : ids[k] # units[i].id
  \/ ids[i] = Append(units[i].id, i) /\ \E k \in 1 .. i - 1 : ids[k] = units[i].id

\* Every unit gets one identity, its own or one with its position.
LEMMA UnitIdsAre ==
  ASSUME NEW units, Len(units) \in Nat
  PROVE  /\ UnitIds(units) \in Seq(IdsFor(units)) /\ Len(UnitIds(units)) = Len(units)
         /\ \A i \in 1 .. Len(units) : NamedIn(units, UnitIds(units), i)
<1>. DEFINE N == Len(units)
            I == IdsFor(units)
            Is(f) == f = [n \in 0 .. N |-> IF n = 0 THEN <<>>
                                           ELSE Append(f[n - 1], NewId(units, f[n - 1], n))]
            ids == CHOOSE f : Is(f)
            g == [p \in (1 .. N) \X Seq(I) |-> Append(p[2], NewId(units, p[2], p[1]))]
<1>1. UnitIds(units) = ids[N]
  BY DEF UnitIds, NewId
<1>2. \A e, n : n \in 1 .. N => NewId(units, e, n) \in I
  BY DEF NewId, IdsFor
<1>. HIDE DEF I, N
<1>0. N \in Nat
  BY DEF N
<1>3. PICK h \in [0 .. N -> Seq(I)] : Unfolds(h, <<>>, N, g)
  <2>1. \A p \in (1 .. N) \X Seq(I) : Append(p[2], NewId(units, p[2], p[1])) \in Seq(I)
    <3>1. \A n \in 1 .. N : \A e \in Seq(I) : Append(e, NewId(units, e, n)) \in Seq(I)
      BY <1>2
    <3>. QED BY <3>1
  <2>2. g \in Steps(Seq(I), N) /\ <<>> \in Seq(I)
    BY <2>1 DEF Steps
  <2>. HIDE DEF g
  <2>. QED BY <1>0, <2>2, RecursionExists
<1>4. \A n \in 1 .. N : n - 1 \in 0 .. N /\ n \in 0 .. N /\ n # 0
  BY <1>0
<1>5. \A n \in 1 .. N : h[n] = Append(h[n - 1], NewId(units, h[n - 1], n))
  <2>1. \A n \in 1 .. N : h[n] = g[<<n, h[n - 1]>>] /\ h[n - 1] \in Seq(I)
    BY <1>3, <1>4 DEF Unfolds
  <2>. QED BY <2>1
<1>6. Is(h)
  <2>2. h = [n \in 0 .. N |-> h[n]] /\ \A n \in 0 .. N : n # 0 => n \in 1 .. N
    BY <1>0, <1>3
  <2>3. h[0] = <<>>
    BY <1>3 DEF Unfolds
  <2>. QED BY <1>5, <2>2, <2>3
<1>7. Is(ids)
  <2>. HIDE DEF Is
  <2>. QED BY <1>6
<1>. HIDE DEF ids
<1>8. ids[0] = <<>> /\ \A n \in 1 .. N : ids[n] = Append(ids[n - 1], NewId(units, ids[n - 1], n))
  <2>2. \A n \in 0 .. N : ids[n] = IF n = 0 THEN <<>>
                                   ELSE Append(ids[n - 1], NewId(units, ids[n - 1], n))
    BY <1>7
  <2>3. ids[0] = <<>>
    BY <1>0, <2>2
  <2>. QED BY <1>4, <2>2, <2>3
<1>. DEFINE K == {n \in 0 .. N : /\ ids[n] \in Seq(I) /\ Len(ids[n]) = n
                                 /\ \A i \in 1 .. n : NamedIn(units, ids[n], i)}
<1>9. 0 \in K
  <2>1. <<>> \in Seq(I) /\ Len(<<>>) = 0 /\ 0 \in 0 .. N /\ 1 .. 0 = {}
    BY <1>0
  <2>. QED BY <1>8, <2>1
<1>10. ASSUME NEW n \in 1 .. N, n - 1 \in K PROVE n \in K
  <2>0. \A i \in 1 .. n - 1 : NamedIn(units, ids[n - 1], i)
    BY <1>10
  <2>1. /\ ids[n - 1] \in Seq(I) /\ Len(ids[n - 1]) = n - 1
        /\ ids[n] = Append(ids[n - 1], NewId(units, ids[n - 1], n))
        /\ NewId(units, ids[n - 1], n) \in I
    BY <1>2, <1>8, <1>10
  <2>. DEFINE u == ids[n - 1]
              x == NewId(units, ids[n - 1], n)
  <2>. HIDE DEF u, x
  <2>2. Append(u, x) \in Seq(I) /\ Len(Append(u, x)) = n
    BY <1>0, <2>1 DEF u, x
  <2>3. ids[n] \in Seq(I) /\ Len(ids[n]) = n
    BY <2>1, <2>2 DEF u, x
  <2>4. ids[n][n] = x /\ \A i \in 1 .. n - 1 : ids[n][i] = u[i]
    <3>1. u \in Seq(I) /\ Len(u) = n - 1 /\ ids[n] = Append(u, x) /\ x \in I /\ n \in Nat
      BY <1>0, <2>1 DEF u, x
    <3>. QED BY <3>1
  <2>5. ASSUME NEW i \in 1 .. n PROVE NamedIn(units, ids[n], i)
    <3>1. CASE i # n
      <4>1. i \in 1 .. n - 1 /\ \A k \in 1 .. i - 1 : k \in 1 .. n - 1
        BY <1>0, <3>1
      <4>2. NamedIn(units, u, i)
        BY <2>0, <4>1 DEF u
      <4>. QED BY <2>4, <4>1, <4>2 DEF NamedIn
    <3>2. CASE i = n
      <4>1. CASE Contains(u, units[n].id)
        <5>1. PICK k \in 1 .. n - 1 : u[k] = units[n].id
          <6>1. Len(u) = n - 1
            BY <2>1 DEF u
          <6>. QED BY <4>1, <6>1 DEF Contains
        <5>2. x = Append(units[n].id, n)
          BY <4>1 DEF x, u, NewId
        <5>. QED BY <2>4, <3>2, <5>1, <5>2 DEF NamedIn
      <4>2. CASE ~Contains(u, units[n].id)
        <5>1. x = units[n].id
          BY <4>2 DEF x, u, NewId
        <5>2. \A k \in 1 .. n - 1 : u[k] # units[n].id
          <6>1. Len(u) = n - 1
            BY <2>1 DEF u
          <6>. QED BY <4>2, <6>1 DEF Contains
        <5>. QED BY <2>4, <3>2, <5>1, <5>2 DEF NamedIn
      <4>. QED BY <4>1, <4>2
    <3>. QED BY <3>1, <3>2
  <2>. QED BY <1>4, <2>3, <2>5
<1>11. \A n \in 0 .. N : n \in K
  <2>. HIDE DEF K
  <2>. QED BY <1>0, <1>9, <1>10, CountUp
<1>12. N \in K
  <2>. HIDE DEF K
  <2>. QED BY <1>0, <1>11
<1>. QED BY <1>1, <1>12 DEF I, N

\* What a sequence has at its places is finite, and no more than its length.
LEMMA PlacesFinite ==
  ASSUME NEW S, NEW s \in Seq(S)
  PROVE  /\ IsFiniteSet(DOMAIN s) /\ IsFiniteSet(Range(s))
         /\ Cardinality(Range(s)) \in Nat /\ Cardinality(Range(s)) <= Len(s)
         /\ Range(s) \in SUBSET S /\ Len(s) \in Nat /\ DOMAIN s = 1 .. Len(s)
<1>1. Len(s) \in Nat /\ DOMAIN s = 1 .. Len(s) /\ s = [i \in 1 .. Len(s) |-> s[i]]
      /\ \A i \in 1 .. Len(s) : s[i] \in S
  OBVIOUS
<1>2. IsFiniteSet(1 .. Len(s)) /\ Cardinality(1 .. Len(s)) = Len(s)
  BY <1>1, UpTo
<1>3. IsFiniteSet(Range(s)) /\ Cardinality(Range(s)) <= Len(s)
  BY <1>1, <1>2, ImageIsFinite
<1>4. Cardinality(Range(s)) \in Nat
  BY <1>3, FS_CardinalityType
<1>5. Range(s) \in SUBSET S
  BY <1>1 DEF Range
<1>. QED BY <1>1, <1>2, <1>3, <1>4, <1>5

\* Evidence makes one branch, or at least two.
LEMMA SomeBranch ==
  ASSUME NEW S, NEW rows \in Seq(S)
  PROVE  Cardinality(EvidenceBranches(rows).branches) \in Nat
         /\ Cardinality(EvidenceBranches(rows).branches) >= 1
<1>. DEFINE best == CHOOSE k \in Anchors(rows) :
                      \A l \in Anchors(rows) \ {k} :
                        Before(AnchorScore(rows, l), AnchorScore(rows, k))
            kept == IF Repeated(rows, best) = {} THEN Groups(rows, best)
                    ELSE {g \in Groups(rows, best) : Cardinality(g) > 1}
            b == EvidenceBranches(rows).branches
<1>1. b = IF Anchors(rows) = {} \/ Cardinality(kept) < 2 THEN {DOMAIN rows} ELSE kept
  BY DEF EvidenceBranches
<1>2. IsFiniteSet(kept)
  <2>. DEFINE W == RowsWith(rows, best)
              f == [i \in W |-> Group(rows, best, rows[i][best])]
  <2>1. IsFiniteSet(W)
    <3>1. W \in SUBSET DOMAIN rows
      BY DEF RowsWith
    <3>. QED BY <3>1, PlacesFinite, FS_Subset
  <2>2. Groups(rows, best) = Range(f)
    BY DEF Groups, Range
  <2>3. IsFiniteSet(Range(f))
    <3>1. f = [i \in W |-> f[i]]
      OBVIOUS
    <3>. HIDE DEF f, W
    <3>. QED BY <2>1, <3>1, ImageIsFinite
  <2>4. kept \in SUBSET Groups(rows, best)
    OBVIOUS
  <2>. QED BY <2>2, <2>3, <2>4, FS_Subset
<1>. HIDE DEF kept
<1>3. Cardinality(kept) \in Nat
  BY <1>2, FS_CardinalityType
<1>4. Cardinality({DOMAIN rows}) = 1
  BY FS_Singleton
<1>5. Cardinality(b) \in Nat /\ Cardinality(b) >= 1
  BY <1>1, <1>3, <1>4
<1>. QED BY <1>5

\* An identity is a sequence that is not empty, and not that of the last unit.
IsName(x) == (\E S : x \in Seq(S)) /\ Len(x) >= 1 /\ x # <<"integration">>

LEMMA NumberedName ==
  ASSUME NEW x, NEW n \in Nat
  PROVE  IsName(<<x, n>>)
<1>1. <<x, n>> \in Seq({x, n}) /\ Len(<<x, n>>) = 2
  OBVIOUS
<1>2. Len(<<"integration">>) = 1
  OBVIOUS
<1>3. <<x, n>> # <<"integration">> /\ Len(<<x, n>>) >= 1
  BY <1>1, <1>2
<1>. QED BY <1>1, <1>3 DEF IsName

\* With its position a name is longer than that of the last unit, and two of them
\* are the same only at the same position.
LEMMA NameWithPosition ==
  ASSUME NEW x, IsName(x), NEW m
  PROVE  /\ Append(x, m) # <<"integration">>
         /\ \A y, n : IsName(y) /\ Append(x, m) = Append(y, n) => m = n
<1>1. PICK S : x \in Seq(S)
  BY DEF IsName
<1>2. Len(Append(x, m)) = Len(x) + 1 /\ Append(x, m)[Len(x) + 1] = m /\ Len(x) \in Nat
  BY <1>1
<1>3. Append(x, m) # <<"integration">>
  <2>1. Len(<<"integration">>) = 1 /\ Len(x) >= 1
    BY DEF IsName
  <2>. QED BY <1>2, <2>1
<1>4. ASSUME NEW y, NEW n, IsName(y), Append(x, m) = Append(y, n) PROVE m = n
  <2>1. PICK T : y \in Seq(T)
    BY <1>4 DEF IsName
  <2>2. Len(Append(y, n)) = Len(y) + 1 /\ Append(y, n)[Len(y) + 1] = n /\ Len(y) \in Nat
    BY <2>1
  <2>3. Len(x) = Len(y)
    BY <1>2, <1>4, <2>2
  <2>. QED BY <1>2, <1>4, <2>2, <2>3
<1>. QED BY <1>3, <1>4

\* A ticket has units with names, and none of them can get the identity of the
\* last one.
LEMMA TicketUnitsAre ==
  ASSUME NEW t \in Tickets
  PROVE  /\ Len(TicketUnits(t)) \in Nat /\ Len(TicketUnits(t)) >= 1
         /\ DOMAIN TicketUnits(t) = 1 .. Len(TicketUnits(t))
         /\ \A i \in DOMAIN TicketUnits(t) : IsName(TicketUnits(t)[i].id)
         /\ <<"integration">> \notin IdsFor(TicketUnits(t))
<1>1. /\ t.units \in Seq(Range(t.units)) /\ t.evidence \in Seq(Range(t.evidence))
      /\ \A i \in DOMAIN t.units : t.units[i].id # NoId => IsIdentity(t.units[i].id)
  BY PlanAssumption
<1>2. CASE t.units # <<>>
  <2>. DEFINE w == t.units
              l == ListedUnits(w)
              X == {l[i] : i \in 1 .. Len(w)}
  <2>1. Len(w) \in Nat /\ DOMAIN w = 1 .. Len(w) /\ Len(w) >= 1
    BY <1>1, <1>2
  <2>2. l \in [1 .. Len(w) -> X]
    <3>1. DOMAIN l = 1 .. Len(w) /\ l = [i \in 1 .. Len(w) |-> l[i]]
      BY <2>1 DEF ListedUnits
    <3>. HIDE DEF l
    <3>. QED BY <3>1
  <2>3. Len(l) = Len(w) /\ DOMAIN l = 1 .. Len(w)
    <3>. HIDE DEF l, X
    <3>. QED BY <2>1, <2>2, SequenceIs
  <2>4. \A i \in 1 .. Len(w) :
          /\ l[i].id = IF w[i].id = NoId THEN <<"work", i>> ELSE w[i].id
          /\ w[i].id # NoId => IsIdentity(w[i].id)
    BY <1>1, <2>1 DEF ListedUnits
  <2>5. \A x : IsIdentity(x) => IsName(x)
    <3>. SUFFICES ASSUME NEW x, IsIdentity(x) PROVE IsName(x)
      OBVIOUS
    <3>. DEFINE head == Head(x)
                tail == Tail(x)
                S == Nat \cup {head}
    <3>1. tail \in Seq(S) /\ head \in S
      BY DEF IsIdentity
    <3>2. x = <<head>> \o tail /\ x # <<"integration">>
      BY DEF IsIdentity
    <3>. HIDE DEF S, head, tail
    <3>3. <<head>> \in Seq(S) /\ Len(<<head>>) = 1
      BY <3>1
    <3>4. x \in Seq(S) /\ Len(x) = 1 + Len(tail) /\ Len(tail) \in Nat
      BY <3>1, <3>2, <3>3
    <3>. QED BY <3>2, <3>4 DEF IsName
  <2>6. \A i \in Nat : IsName(<<"work", i>>)
    BY NumberedName
  <2>7. \A i \in 1 .. Len(w) : IsName(l[i].id)
    <3>1. \A i \in 1 .. Len(w) : i \in Nat
      BY <2>1
    <3>. HIDE DEF l
    <3>. QED BY <2>4, <2>5, <2>6, <3>1
  <2>8. \A i \in 1 .. Len(w) : l[i].id # <<"integration">> /\ Append(l[i].id, i) # <<"integration">>
    <3>. HIDE DEF l
    <3>. QED BY <2>7, NameWithPosition DEF IsName
  <2>9. TicketUnits(t) = l
    BY <1>2 DEF TicketUnits
  <2>. HIDE DEF l, w
  <2>. QED BY <2>1, <2>3, <2>7, <2>8, <2>9 DEF IdsFor
<1>3. CASE t.units = <<>>
  <2>. DEFINE c == Cardinality(EvidenceBranches(t.evidence).branches)
              a == AnalysisUnits(c)
              X == {a[i] : i \in 1 .. c}
  <2>1. c \in Nat /\ c >= 1
    BY <1>1, SomeBranch
  <2>. HIDE DEF c
  <2>2. a \in [1 .. c -> X]
    <3>1. DOMAIN a = 1 .. c /\ a = [i \in 1 .. c |-> a[i]]
      BY DEF AnalysisUnits
    <3>. HIDE DEF a
    <3>. QED BY <3>1
  <2>3. Len(a) = c /\ DOMAIN a = 1 .. c
    <3>. HIDE DEF a, X
    <3>. QED BY <2>1, <2>2, SequenceIs
  <2>4. \A i \in 1 .. c : a[i].id = <<"analysis", i>>
    BY DEF AnalysisUnits
  <2>5. \A i \in 1 .. c : /\ IsName(a[i].id) /\ a[i].id # <<"integration">>
                          /\ Append(a[i].id, i) # <<"integration">>
    <3>1. \A i \in Nat : IsName(<<"analysis", i>>)
      BY NumberedName
    <3>2. \A i \in 1 .. c : i \in Nat
      BY <2>1
    <3>4. \A i \in 1 .. c : IsName(a[i].id)
      BY <2>4, <3>1, <3>2
    <3>. HIDE DEF a
    <3>. QED BY <3>4, NameWithPosition DEF IsName
  <2>6. TicketUnits(t) = a
    BY <1>3 DEF TicketUnits, c
  <2>. HIDE DEF a
  <2>. QED BY <2>1, <2>3, <2>5, <2>6 DEF IdsFor
<1>. QED BY <1>2, <1>3

------------------------------------------------------------------------------
\* A work graph: something to do, no cycles, and one unit that comes last.
OneSinkDag(G) ==
  /\ IsFiniteSet(G.node) /\ G.node # {} /\ G.edge \subseteq G.node \X G.node
  /\ Acyclic(G) /\ \E u : Leaves(G) = {u}

\* Of finitely many nodes one has the greatest rank.
LEMMA HighestRank ==
  ASSUME NEW V, IsFiniteSet(V), V # {}, NEW rank \in [V -> Nat]
  PROVE  \E x \in V : \A y \in V : rank[y] <= rank[x]
<1>. DEFINE T == Range(rank)
<1>1. rank = [x \in V |-> rank[x]] /\ DOMAIN rank = V
  OBVIOUS
<1>2. IsFiniteSet(T)
  BY <1>1, ImageIsFinite
<1>3. T \in SUBSET Int /\ T # {} /\ \A y \in V : rank[y] \in T
  BY <1>1 DEF Range
<1>4. \A t \in T : \E x \in V : rank[x] = t
  BY <1>1 DEF Range
<1>. HIDE DEF T
<1>5. Max(T) \in T /\ \A y \in T : Max(T) >= y
  BY <1>2, <1>3, GreatestOf
<1>6. PICK x \in V : rank[x] = Max(T)
  BY <1>4, <1>5
<1>. QED BY <1>3, <1>5, <1>6

\* Something is last.
LEMMA SomeLeaf ==
  ASSUME NEW G, IsFiniteSet(G.node), G.node # {}, Acyclic(G)
  PROVE  Leaves(G) # {}
<1>1. PICK rank \in [G.node -> Nat] :
        \A x, y \in G.node : <<x, y>> \in G.edge => rank[x] < rank[y]
  BY AcyclicIsRanked
<1>2. PICK x \in G.node : \A y \in G.node : rank[y] <= rank[x]
  BY HighestRank
<1>3. \A y \in G.node : <<x, y>> \notin G.edge
  <2>. SUFFICES ASSUME NEW y \in G.node, <<x, y>> \in G.edge PROVE FALSE
    OBVIOUS
  <2>1. rank[x] < rank[y] /\ rank[y] <= rank[x] /\ rank[x] \in Nat /\ rank[y] \in Nat
    BY <1>1, <1>2
  <2>. QED BY <2>1
<1>4. x \in Leaves(G)
  BY <1>3 DEF Leaves, Successors
<1>. QED BY <1>4

\* The integration makes one leaf of several and no cycle.
LEMMA IntegratedIs ==
  ASSUME NEW G, IsFiniteSet(G.node), G.node # {}, G.edge \subseteq G.node \X G.node,
         Acyclic(G), <<"integration">> \notin G.node
  PROVE  /\ OneSinkDag(Integrated(G))
         /\ Integrated(G) = G \/ Integrated(G).node = G.node \cup {<<"integration">>}
<1>. DEFINE L == <<"integration">>
            W == [node |-> G.node \cup {L},
                  edge |-> G.edge \cup {<<x, L>> : x \in Leaves(G)}]
<1>0. IsFiniteSet(Leaves(G)) /\ Leaves(G) \in SUBSET G.node
  <2>1. Leaves(G) \in SUBSET G.node
    BY DEF Leaves
  <2>. QED BY <2>1, FS_Subset
<1>1. CASE Cardinality(Leaves(G)) > 1
  <2>1. Integrated(G) = W
    BY <1>1 DEF Integrated
  <2>. DEFINE V == W.node
              E == W.edge
  <2>2. V = G.node \cup {L} /\ E = G.edge \cup {<<x, L>> : x \in Leaves(G)}
    OBVIOUS
  <2>. HIDE DEF W, L
  <2>3. IsFiniteSet(V) /\ V # {}
    BY <2>2, FS_AddElement
  <2>4. E \subseteq V \X V
    BY <1>0, <2>2
  <2>5. PICK rank \in [G.node -> Nat] :
          \A x, y \in G.node : <<x, y>> \in G.edge => rank[x] < rank[y]
    BY AcyclicIsRanked
  <2>6. PICK z \in G.node : \A y \in G.node : rank[y] <= rank[z]
    BY HighestRank
  <2>. DEFINE up == [x \in V |-> IF x = L THEN rank[z] + 1 ELSE rank[x]]
  <2>7. \A x \in V : up[x] \in Nat
    BY <2>2, <2>5, <2>6
  <2>8. L \notin G.node
    BY DEF L
  <2>9. \A x \in G.node : up[x] = rank[x] /\ rank[x] < up[L] /\ x # L /\ x \in V
    <3>1. up[L] = rank[z] + 1 /\ \A x \in G.node : x # L /\ x \in V
      BY <2>2, <2>8
    <3>2. \A x \in G.node : up[x] = rank[x] /\ rank[x] \in Nat /\ rank[x] <= rank[z]
      BY <2>5, <2>6, <3>1
    <3>. HIDE DEF up
    <3>. QED BY <2>6, <3>1, <3>2
  <2>. HIDE DEF up
  <2>10. ASSUME NEW x \in V, NEW y \in V, <<x, y>> \in E PROVE up[x] < up[y]
    <3>1. CASE <<x, y>> \in G.edge
      <4>1. x \in G.node /\ y \in G.node
        BY <3>1
      <4>2. rank[x] < rank[y]
        BY <2>5, <3>1, <4>1
      <4>. QED BY <2>9, <4>1, <4>2
    <3>2. CASE <<x, y>> \notin G.edge
      <4>1. x \in Leaves(G) /\ y = L
        BY <2>2, <2>10, <3>2
      <4>. QED BY <1>0, <2>9, <4>1
    <3>. QED BY <3>1, <3>2
  <2>11. Acyclic(W)
    BY <2>3, <2>7, <2>10, RankedIsAcyclic
  <2>12. Leaves(W) = {L}
    <3>1. L \in Leaves(W)
      <4>1. \A y \in V : <<L, y>> \notin E
        BY <1>0, <2>2, <2>8
      <4>. QED BY <2>2, <4>1 DEF Leaves, Successors
    <3>2. ASSUME NEW x \in V, x # L PROVE x \notin Leaves(W)
      <4>1. x \in G.node
        BY <2>2, <3>2
      <4>2. CASE x \in Leaves(G)
        <5>1. <<x, L>> \in E /\ L \in V
          BY <2>2, <4>2
        <5>. QED BY <5>1 DEF Leaves, Successors
      <4>3. CASE x \notin Leaves(G)
        <5>1. PICK y \in G.node : <<x, y>> \in G.edge
          BY <4>1, <4>3 DEF Leaves, Successors
        <5>2. <<x, y>> \in E /\ y \in V
          BY <2>2, <5>1
        <5>. QED BY <5>2 DEF Leaves, Successors
      <4>. QED BY <4>2, <4>3
    <3>3. Leaves(W) \in SUBSET V
      BY DEF Leaves
    <3>. HIDE DEF V
    <3>. QED BY <3>1, <3>2, <3>3
  <2>13. OneSinkDag(W)
    BY <2>3, <2>4, <2>11, <2>12 DEF OneSinkDag
  <2>. QED BY <2>1, <2>2, <2>13 DEF L
<1>2. CASE ~(Cardinality(Leaves(G)) > 1)
  <2>1. Integrated(G) = G
    BY <1>2 DEF Integrated
  <2>2. Leaves(G) # {}
    BY SomeLeaf
  <2>3. Cardinality(Leaves(G)) \in Nat /\ Cardinality(Leaves(G)) # 0
    BY <1>0, <2>2, FS_CardinalityType, FS_EmptySet
  <2>4. Cardinality(Leaves(G)) = 1
    BY <1>2, <2>3
  <2>5. \E u : Leaves(G) = {u}
    BY <1>0, <2>4, FS_Singleton
  <2>6. OneSinkDag(G)
    BY <2>5 DEF OneSinkDag
  <2>. QED BY <2>1, <2>6
<1>. QED BY <1>1, <1>2

\* What the work of a plan is: its graph, and the identities of all its units.
WorkIs(w) ==
  /\ OneSinkDag(w.graph)
  /\ w.ids \in Seq(w.graph.node) /\ Range(w.ids) = w.graph.node /\ Len(w.ids) >= 1

\* The work graph of a ticket that declares no cycle.
LEMMA WorkGraphIs ==
  ASSUME NEW t \in Tickets, NEW own, NEW ids,
         ids = UnitIds(TicketUnits(t)), own = TicketGraph(TicketUnits(t), ids), Acyclic(own)
  PROVE  WorkIs([ids |-> IF Integrated(own) = own THEN ids
                         ELSE Append(ids, <<"integration">>),
                 graph |-> Integrated(own)])
<1>. DEFINE units == TicketUnits(t)
            I == IdsFor(units)
            L == <<"integration">>
            W == Integrated(own)
            all == IF W = own THEN ids ELSE Append(ids, L)
<1>1. Len(units) \in Nat /\ Len(units) >= 1 /\ DOMAIN units = 1 .. Len(units) /\ L \notin I
  BY TicketUnitsAre
<1>2. ids \in Seq(I) /\ Len(ids) = Len(units)
  BY <1>1, UnitIdsAre
<1>. HIDE DEF units, I, L
<1>3. /\ IsFiniteSet(Range(ids)) /\ Range(ids) \in SUBSET I /\ Len(ids) \in Nat
      /\ DOMAIN ids = 1 .. Len(ids) /\ Len(ids) >= 1
  BY <1>1, <1>2, PlacesFinite
<1>4. own.node = Range(ids) /\ own.edge = DeclaredEdges(units, ids)
  BY DEF TicketGraph, units
<1>5. own.node # {} /\ L \notin own.node /\ IsFiniteSet(own.node)
  BY <1>1, <1>3, <1>4 DEF Range
<1>6. own.edge \subseteq own.node \X own.node
  <2>1. \A i \in DOMAIN units : ids[i] \in own.node
    BY <1>1, <1>2, <1>3, <1>4 DEF Range
  <2>. QED BY <1>4, <2>1 DEF DeclaredEdges
<1>7. OneSinkDag(W) /\ (W = own \/ W.node = own.node \cup {L})
  BY <1>5, <1>6, IntegratedIs DEF L
<1>. HIDE DEF W
<1>8. ids \in Seq(own.node)
  <2>1. \A i \in 1 .. Len(ids) : ids[i] \in own.node
    BY <1>3, <1>4 DEF Range
  <2>. QED BY <1>2, <1>3, <2>1
<1>9. all \in Seq(W.node) /\ Range(all) = W.node /\ Len(all) >= 1
  <2>1. CASE W = own
    BY <1>3, <1>4, <1>8, <2>1
  <2>2. CASE W # own
    <3>1. W.node = own.node \cup {L} /\ all = Append(ids, L)
      BY <1>7, <2>2
    <3>. DEFINE a == Append(ids, L)
    <3>2. a \in Seq(W.node) /\ Len(a) = Len(ids) + 1 /\ DOMAIN a = 1 .. Len(a)
          /\ a[Len(ids) + 1] = L /\ \A i \in 1 .. Len(ids) : a[i] = ids[i]
      <4>1. ids \in Seq(W.node) /\ L \in W.node
        BY <1>8, <3>1
      <4>. QED BY <4>1
    <3>. HIDE DEF a
    <3>3. Range(a) = W.node
      <4>1. ASSUME NEW x \in Range(a) PROVE x \in W.node
        <5>1. PICK i \in 1 .. Len(a) : x = a[i]
          BY <3>2 DEF Range
        <5>. QED BY <3>2, <5>1
      <4>2. ASSUME NEW x \in W.node PROVE x \in Range(a)
        <5>1. CASE x = L
          <6>1. Len(ids) + 1 \in DOMAIN a
            BY <1>3, <3>2
          <6>. QED BY <3>2, <5>1, <6>1 DEF Range
        <5>2. CASE x # L
          <6>1. x \in Range(ids)
            BY <1>4, <3>1, <5>2
          <6>2. PICK i \in 1 .. Len(ids) : x = ids[i]
            BY <1>3, <6>1 DEF Range
          <6>3. i \in DOMAIN a /\ a[i] = x
            BY <1>3, <3>2, <6>2
          <6>. QED BY <6>3 DEF Range
        <5>. QED BY <5>1, <5>2
      <4>. QED BY <4>1, <4>2
    <3>4. Len(a) >= 1
      BY <1>3, <3>2
    <3>. QED BY <3>1, <3>2, <3>3, <3>4 DEF a
  <2>. QED BY <2>1, <2>2
<1>. HIDE DEF all
<1>10. WorkIs([ids |-> all, graph |-> W])
  BY <1>7, <1>9 DEF WorkIs
<1>. QED BY <1>10 DEF all, W, L

------------------------------------------------------------------------------
\* The candidates are the models of the pool that are not routed, each once.
LEMMA CandidatesAre ==
  ASSUME pool \in Pools
  PROVE  /\ Candidates \in Seq(Nat) /\ Len(Candidates) \in Nat
         /\ DOMAIN Candidates = 1 .. Len(Candidates)
         /\ Range(Candidates) = Range(pool) \ Routed /\ IsInjective(Candidates)
         /\ IsFiniteSet(Range(Candidates)) /\ Cardinality(Range(Candidates)) = Len(Candidates)
         /\ Cardinality(Range(pool)) \in Nat /\ Len(Candidates) <= Cardinality(Range(pool))
<1>1. pool \in Seq(Nat)
  BY PlanAssumption
<1>2. /\ Candidates \in Seq(Nat) /\ Len(Candidates) \in Nat
      /\ DOMAIN Candidates = 1 .. Len(Candidates)
      /\ Range(Candidates) = Range(pool) \ Routed /\ IsInjective(Candidates)
      /\ IsFiniteSet(Range(Candidates)) /\ Cardinality(Range(Candidates)) = Len(Candidates)
  BY <1>1, DistinctIs DEF Candidates
<1>3. IsFiniteSet(Range(pool)) /\ Cardinality(Range(pool)) \in Nat
  BY <1>1, PlacesFinite
<1>4. Cardinality(Range(Candidates)) <= Cardinality(Range(pool))
  BY <1>2, <1>3, FS_Subset
<1>. QED BY <1>2, <1>3, <1>4

\* An order of all the nodes has as many places as there are nodes.
LEMMA OrderLength ==
  ASSUME NEW G, IsFiniteSet(G.node), NEW o, InOrder(o, G, G.node)
  PROVE  /\ o \in Seq(G.node) /\ Len(o) \in Nat /\ DOMAIN o = 1 .. Len(o)
         /\ Len(o) = Cardinality(G.node)
<1>1. o \in Seq(G.node) /\ IsInjective(o) /\ Range(o) = G.node
  BY DEF InOrder
<1>2. /\ Len(o) \in Nat /\ DOMAIN o = 1 .. Len(o) /\ o \in [1 .. Len(o) -> G.node]
      /\ Cardinality(Range(o)) <= Len(o)
  BY <1>1, PlacesFinite
<1>3. IsFiniteSet(1 .. Len(o)) /\ Cardinality(1 .. Len(o)) = Len(o)
  BY <1>2, UpTo
<1>4. o \in Injection(1 .. Len(o), G.node)
  BY <1>1, <1>2 DEF Injection
<1>5. Len(o) <= Cardinality(G.node)
  BY <1>3, <1>4, FS_Injection
<1>6. Cardinality(G.node) \in Nat
  BY FS_CardinalityType
<1>. QED BY <1>1, <1>2, <1>5, <1>6

------------------------------------------------------------------------------
\* What a plan is made of, layer by layer.
Shapely(s) == s \in Shapes /\ s.team + s.recovery <= Len(Candidates)

RolesCut(parts, G, heads) ==
  \E order : /\ InOrder(order, G, G.node)
             /\ CutsInto(parts, order, Len(order))
             /\ Len(parts) = Min({heads, Len(order)})

Early == {"ticket", "graph", "designed", "shape"}

LayersInv ==
  /\ ticket \in Tickets /\ pool \in Pools
  /\ pc \in Early => roles = <<>>
  /\ pc \in Early \ {"ticket"} => WorkIs(work)
  /\ pc = "shape" => Shapely(shape)
  /\ pc \in Planned \cup {"roles"} => roles # <<>>
  /\ roles # <<>> => WorkIs(work) /\ Shapely(shape)
                     /\ RolesCut(roles, work.graph, shape.team)
  /\ pc \in Planned => metric \in Metrics

\* A shape of the search space.
LEMMA ShapeIs ==
  ASSUME NEW s \in Shapes
  PROVE  /\ s.team \in 1 .. Min({Len(Candidates), Len(work.ids)})
         /\ s.recovery \in 0 .. Len(Candidates)
<1>. DEFINE A == 1 .. Min({Len(Candidates), Len(work.ids)})
            B == 0 .. Len(Candidates)
<1>1. Shapes = {[team |-> heads, recovery |-> recovery] : heads \in A, recovery \in B}
  BY DEF Shapes
<1>. HIDE DEF A, B
<1>2. \E heads \in A : \E recovery \in B : s = [team |-> heads, recovery |-> recovery]
  BY <1>1
<1>3. s.team \in A /\ s.recovery \in B
  BY <1>2
<1>. QED BY <1>3 DEF A, B

\* The numbers of a shape.
LEMMA ShapeNumbers ==
  ASSUME pool \in Pools, NEW s, Shapely(s), WorkIs(work)
  PROVE  /\ s.team \in Nat /\ s.team >= 1 /\ s.recovery \in Nat
         /\ s.team <= Len(Candidates) /\ s.team <= Len(work.ids)
         /\ s.team + s.recovery <= Len(Candidates)
<1>1. Len(Candidates) \in Nat /\ Len(work.ids) \in Nat
  BY CandidatesAre, PlacesFinite DEF WorkIs
<1>2. /\ s.team \in 1 .. Min({Len(Candidates), Len(work.ids)})
      /\ s.recovery \in 0 .. Len(Candidates)
  BY ShapeIs DEF Shapely
<1>3. Min({Len(Candidates), Len(work.ids)})
        = IF Len(Candidates) <= Len(work.ids) THEN Len(Candidates) ELSE Len(work.ids)
  BY <1>1, MinOfTwo
<1>4. s.team + s.recovery <= Len(Candidates)
  BY DEF Shapely
<1>. QED BY <1>1, <1>2, <1>3, <1>4

\* There are at least one role and no more than the shape allows.
LEMMA RolesNumber ==
  ASSUME LayersInv, roles # <<>>
  PROVE  /\ Len(roles) \in Nat /\ Len(roles) >= 1 /\ Len(roles) <= shape.team
         /\ DOMAIN roles = 1 .. Len(roles)
         /\ shape.recovery \in Nat /\ shape.team \in Nat
         /\ Len(roles) = Min({shape.team, Cardinality(work.graph.node)})
         /\ Len(roles) + shape.recovery <= Len(Candidates)
<1>1. /\ pool \in Pools /\ WorkIs(work) /\ Shapely(shape)
      /\ RolesCut(roles, work.graph, shape.team)
  BY DEF LayersInv
<1>2. /\ shape.team \in Nat /\ shape.team >= 1 /\ shape.recovery \in Nat
      /\ shape.team + shape.recovery <= Len(Candidates)
  BY <1>1, ShapeNumbers
<1>3. PICK order : /\ InOrder(order, work.graph, work.graph.node)
                   /\ CutsInto(roles, order, Len(order))
                   /\ Len(roles) = Min({shape.team, Len(order)})
  BY <1>1 DEF RolesCut
<1>4. /\ Len(order) \in Nat /\ Len(order) = Cardinality(work.graph.node)
  BY <1>1, <1>3, OrderLength DEF WorkIs, OneSinkDag
<1>5. Len(order) # 0
  BY <1>1, <1>4, FS_EmptySet DEF WorkIs, OneSinkDag
<1>6. Len(roles) = IF shape.team <= Len(order) THEN shape.team ELSE Len(order)
  BY <1>2, <1>3, <1>4, MinOfTwo
<1>7. roles \in Seq(Seq(Range(order)))
  BY <1>3 DEF CutsInto, Ends
<1>8. DOMAIN roles = 1 .. Len(roles)
  BY <1>7
<1>9. Len(Candidates) \in Nat
  BY <1>1, CandidatesAre
<1>10. /\ Len(roles) \in Nat /\ Len(roles) >= 1 /\ Len(roles) <= shape.team
       /\ Len(roles) + shape.recovery <= Len(Candidates)
  BY <1>2, <1>4, <1>5, <1>6, <1>9
<1>11. Len(roles) = Min({shape.team, Cardinality(work.graph.node)})
  BY <1>3, <1>4
<1>. QED BY <1>2, <1>8, <1>10, <1>11

\* What does not change for the later layers.
LEMMA SameLayers ==
  ASSUME LayersInv, ticket' = ticket, pool' = pool, work' = work, shape' = shape,
         roles' = roles, pc' \in Early => pc \in Early,
         pc' \in Early \ {"ticket"} => WorkIs(work), pc' = "shape" => Shapely(shape),
         pc' \in Planned \cup {"roles"} => roles # <<>>,
         pc' \in Planned => metric' \in Metrics
  PROVE  LayersInv'
<1>1. \A s : Shapely(s)' <=> Shapely(s)
  BY SamePool DEF Shapely, Shapes
<1>2. Shapely(shape)' <=> Shapely(shape)
  <2>1. Shapely(shape)' <=> Shapely(shape')
    BY SamePool DEF Shapely, Shapes
  <2>. QED BY <2>1
<1>3. WorkIs(work)' <=> WorkIs(work)
  OBVIOUS
<1>4. RolesCut(roles, work.graph, shape.team)' <=> RolesCut(roles, work.graph, shape.team)
  OBVIOUS
<1>. QED BY <1>2, <1>3, <1>4 DEF LayersInv

\* However the orders and the weights, the work is cut into roles.
LEMMA PartitionCuts ==
  ASSUME WorkIs(work), Shapely(shape), pool \in Pools,
         NEW order \in TopologicalOrders(work.graph), NEW weight
  PROVE  /\ RolesCut(Partition(order, shape.team, weight), work.graph, shape.team)
         /\ Partition(order, shape.team, weight) # <<>>
<1>. DEFINE parts == Partition(order, shape.team, weight)
<1>1. IsFiniteSet(work.graph.node) /\ Acyclic(work.graph) /\ work.graph.node # {}
  BY DEF WorkIs, OneSinkDag
<1>2. InOrder(order, work.graph, work.graph.node)
  BY <1>1, OrdersAreInOrder
<1>3. order \in Seq(work.graph.node) /\ Len(order) >= 1
  <2>1. /\ order \in Seq(work.graph.node) /\ Len(order) \in Nat
        /\ Len(order) = Cardinality(work.graph.node)
    BY <1>1, <1>2, OrderLength
  <2>2. Len(order) # 0
    BY <1>1, <2>1, FS_EmptySet
  <2>. QED BY <2>1, <2>2
<1>4. shape.team \in Nat /\ shape.team >= 1
  BY ShapeNumbers
<1>5. CutsInto(parts, order, Len(order)) /\ Len(parts) = Min({shape.team, Len(order)})
  BY <1>3, <1>4, PartitionIs
<1>. HIDE DEF parts
<1>6. RolesCut(parts, work.graph, shape.team)
  BY <1>2, <1>5 DEF RolesCut
<1>7. Len(parts) >= 1
  BY <1>5 DEF CutsInto, Ends
<1>. QED BY <1>6, <1>7 DEF parts

\* Each layer's result is as the layers after it need it.
LEMMA LayersInvHolds == Spec => []LayersInv
<1>1. Init => LayersInv
  BY DEF Init, LayersInv, Early, Planned
<1>2. LayersInv /\ [Next]_vars => LayersInv'
  <2>. SUFFICES ASSUME LayersInv, [Next]_vars PROVE LayersInv'
    OBVIOUS
  <2>1. CASE BuildWorkGraph
    <3>. DEFINE units == TicketUnits(ticket)
                ids == UnitIds(units)
                own == TicketGraph(units, ids)
                made == [ids |-> IF Integrated(own) = own THEN ids
                                 ELSE Append(ids, <<"integration">>),
                         graph |-> Integrated(own)]
    <3>1. /\ pc = "ticket" /\ ticket' = ticket /\ pool' = pool /\ shape' = shape
          /\ roles' = roles /\ roles = <<>>
      BY <2>1 DEF BuildWorkGraph, LayersInv, Early
    <3>2. CASE Acyclic(own)
      <4>1. work' = made /\ pc' = "graph"
        BY <2>1, <3>2 DEF BuildWorkGraph
      <4>2. WorkIs(made)
        BY <3>2, WorkGraphIs DEF LayersInv
      <4>. HIDE DEF made
      <4>3. WorkIs(work)'
        BY <4>1, <4>2
      <4>. QED BY <3>1, <4>1, <4>3 DEF LayersInv, Early, Planned
    <3>3. CASE ~Acyclic(own)
      <4>1. pc' = "refused"
        BY <2>1, <3>3 DEF BuildWorkGraph, Refuse
      <4>. QED BY <3>1, <4>1 DEF LayersInv, Early, Planned
    <3>. QED BY <3>2, <3>3
  <2>2. CASE DesignParameters
    <3>1. /\ pc = "graph" /\ ticket' = ticket /\ pool' = pool /\ work' = work
          /\ shape' = shape /\ roles' = roles /\ pc' \in {"refused", "designed"}
      BY <2>2 DEF DesignParameters, Refuse
    <3>2. WorkIs(work)
      BY <3>1 DEF LayersInv, Early
    <3>. QED BY <3>1, <3>2, SameLayers DEF Early, Planned
  <2>3. CASE OptimizeShape
    <3>1. /\ pc = "designed" /\ ticket' = ticket /\ pool' = pool /\ work' = work
          /\ roles' = roles /\ pc' \in {"refused", "shape"}
          /\ pc' = "shape" => \E s \in Shapes : Allowed(s) /\ shape' = s
      BY <2>3 DEF OptimizeShape, Refuse
    <3>2. WorkIs(work)' /\ roles = <<>>
      BY <3>1 DEF LayersInv, Early
    <3>3. ASSUME pc' = "shape" PROVE Shapely(shape)'
      <4>1. shape' \in Shapes /\ Allowed(shape')
        BY <3>1, <3>3
      <4>2. Len(Candidates) \in Nat /\ Len(work.ids) \in Nat
        BY <3>1, <3>2, CandidatesAre, PlacesFinite DEF WorkIs, LayersInv
      <4>3. /\ shape'.team \in 1 .. Min({Len(Candidates), Len(work.ids)})
            /\ shape'.recovery \in 0 .. Len(Candidates)
        BY <4>1, ShapeIs
      <4>4. Min({Len(Candidates), Len(work.ids)}) \in Int
            /\ Min({Len(Candidates), Len(work.ids)}) <= Len(Candidates)
        BY <4>2, MinOfTwo
      <4>5. shape'.team + shape'.recovery <= Len(Candidates)
        BY <4>1, <4>2, <4>3, <4>4 DEF Allowed
      <4>6. Shapes' = Shapes /\ Candidates' = Candidates
        <5>1. Candidates' = Candidates
          BY <3>1, SamePool
        <5>2. work' = work
          BY <3>1
        <5>. QED BY <5>1, <5>2 DEF Shapes
      <4>. QED BY <4>1, <4>5, <4>6 DEF Shapely
    <3>. QED BY <3>1, <3>2, <3>3 DEF LayersInv, Early, Planned
  <2>4. CASE PartitionRoles
    <3>1. /\ pc = "shape" /\ ticket' = ticket /\ pool' = pool /\ work' = work
          /\ shape' = shape /\ pc' \in {"refused", "roles"}
          /\ pc' = "refused" => roles' = roles
          /\ WorkIs(work) /\ Shapely(shape) /\ pool \in Pools
      BY <2>4 DEF PartitionRoles, Refuse, LayersInv, Early
    <3>2. CASE pc' = "refused"
      BY <3>1, <3>2, SameLayers DEF Early, Planned
    <3>3. CASE pc' = "roles"
      <4>1. PICK order \in TopologicalOrders(work.graph) :
              \E weight \in WeightsOf(work.graph.node) :
                roles' = Partition(order, shape.team, weight)
        BY <2>4, <3>3 DEF PartitionRoles, Refuse
      <4>2. PICK weight \in WeightsOf(work.graph.node) :
              roles' = Partition(order, shape.team, weight)
        BY <4>1
      <4>8. RolesCut(roles', work.graph, shape.team) /\ roles' # <<>>
        BY <3>1, <4>2, PartitionCuts
      <4>10. Shapely(shape)' /\ WorkIs(work)'
        <5>1. Candidates' = Candidates
          BY <3>1, SamePool
        <5>2. Shapes' = Shapes
          BY <3>1, <5>1 DEF Shapes
        <5>. QED BY <3>1, <5>1, <5>2 DEF Shapely
      <4>. QED BY <3>1, <3>3, <4>8, <4>10 DEF LayersInv, Early, Planned
    <3>. QED BY <3>1, <3>2, <3>3
  <2>5. CASE AssignModels
    <3>1. /\ pc = "roles" /\ ticket' = ticket /\ pool' = pool /\ work' = work
          /\ shape' = shape /\ roles' = roles /\ pc' \in {"refused", "plan"}
          /\ pc' = "plan" => metric' \in Metrics
      BY <2>5 DEF AssignModels, Refuse
    <3>2. roles # <<>>
      BY <3>1 DEF LayersInv
    <3>. QED BY <3>1, <3>2, SameLayers DEF Early, Planned
  <2>6. CASE CheckPlan \/ BuildProposal \/ Materialize \/ Validate
    <3>1. /\ pc \in Planned /\ ticket' = ticket /\ pool' = pool /\ work' = work
          /\ shape' = shape /\ roles' = roles /\ pc' \in Planned \cup {"refused"}
          /\ metric' = metric
      BY <2>6 DEF CheckPlan, BuildProposal, Materialize, Validate, Refuse, Planned
    <3>2. roles # <<>> /\ metric \in Metrics
      BY <3>1 DEF LayersInv
    <3>. QED BY <3>1, <3>2, SameLayers DEF Early, Planned
  <2>7. CASE UNCHANGED vars
    <3>1. /\ ticket' = ticket /\ pool' = pool /\ work' = work /\ pc' = pc
          /\ shape' = shape /\ roles' = roles /\ metric' = metric
      BY <2>7 DEF vars
    <3>2. LayersInv' <=> LayersInv
      BY <3>1, SamePool DEF LayersInv, Shapely, Shapes
    <3>. QED BY <3>2
  <2>. QED BY <2>1, <2>2, <2>3, <2>4, <2>5, <2>6, <2>7 DEF Next
<1>. QED BY <1>1, <1>2, PTL DEF Spec

------------------------------------------------------------------------------
\* Whatever the candidates, the roles and the rating: no assignment the solver may
\* choose has a total that outgrows the bound its scale is computed from.
THEOREM ObjectivesFitSafe == Spec => []ObjectivesFit
<1>1. LayersInv => ObjectivesFit
  <2>. SUFFICES ASSUME LayersInv, pc = "plan",
                       NEW a \in Assignments(Candidates, Len(roles), shape.recovery)
                PROVE  TotalsFit(a, Candidates, Len(roles), shape.recovery, metric)
    BY DEF ObjectivesFit
  <2>1. pool \in Pools /\ metric \in Metrics /\ roles # <<>>
    BY DEF LayersInv, Planned
  <2>2. /\ Len(roles) \in Nat /\ Len(roles) >= 1 /\ shape.recovery \in Nat
        /\ Len(roles) + shape.recovery <= Len(Candidates)
    BY <2>1, RolesNumber
  <2>3. /\ Candidates \in Seq(Nat) /\ Len(Candidates) \in Nat
        /\ Range(Candidates) = Range(pool) \ Routed /\ IsFiniteSet(Range(Candidates))
        /\ Cardinality(Range(pool)) \in Nat /\ Len(Candidates) <= Cardinality(Range(pool))
    BY <2>1, CandidatesAre
  <2>4. \A r \in 0 .. Len(roles) : r \in 0 .. Cardinality(Range(pool))
    BY <2>2, <2>3
  <2>5. \A m \in Range(Candidates), r \in 0 .. Len(roles) :
          metric.capability[m][r] \in Nat /\ metric.economy[m][r] \in Nat
    BY <2>1, <2>3, <2>4, PlanAssumption
  <2>6. Len(Candidates) > 0
    BY <2>2, <2>3
  <2>. QED BY <2>2, <2>3, <2>5, <2>6, TotalsAlwaysFit
<1>. QED BY <1>1, LayersInvHolds, PTL

\* For every pool, every metric and every number of roles: the models of an
\* assignment proved optimal are the best by capability first, then by economy,
\* then by the spread over companies.
THEOREM CapabilityFirstHolds == Spec => []CapabilityFirst
BY FirstWhereTotalsFit, ObjectivesFitSafe, PTL

------------------------------------------------------------------------------
\* The i-th unit of the order is in the r-th part.
At(e, r, i) == e[r - 1] < i /\ i <= e[r]

\* The ends of the parts rise.
LEMMA EndsRise ==
  ASSUME NEW e, NEW b, NEW order, NEW n \in Nat, Ends(e, b, order, n)
  PROVE  /\ Len(b) \in Nat /\ Len(b) >= 1 /\ DOMAIN b = 1 .. Len(b)
         /\ \A r \in 0 .. Len(b) : e[r] \in Nat /\ e[r] <= n
         /\ \A r, s \in 0 .. Len(b) : r < s => e[r] < e[s]
<1>. DEFINE N == Len(b)
            K == {s \in 0 .. N : \A r \in 0 .. N : r < s => e[r] < e[s]}
<1>1. /\ b \in Seq(Seq(Range(order))) /\ N >= 1 /\ e \in [0 .. N -> 0 .. n]
      /\ \A r \in 1 .. N : e[r - 1] < e[r]
  BY DEF Ends
<1>2. N \in Nat /\ DOMAIN b = 1 .. N
  BY <1>1
<1>3. \A r \in 0 .. N : e[r] \in Nat /\ e[r] <= n
  <2>1. \A r \in 0 .. N : e[r] \in 0 .. n
    BY <1>1
  <2>. QED BY <2>1
<1>. HIDE DEF N
<1>4. 0 \in K
  <2>1. 0 \in 0 .. N /\ \A r \in 0 .. N : ~(r < 0)
    BY <1>2
  <2>. QED BY <2>1
<1>5. ASSUME NEW s \in 1 .. N, s - 1 \in K PROVE s \in K
  <2>1. s \in 0 .. N /\ s - 1 \in 0 .. N
    BY <1>2
  <2>2. ASSUME NEW r \in 0 .. N, r < s PROVE e[r] < e[s]
    <3>1. e[s - 1] < e[s] /\ e[r] \in Nat /\ e[s] \in Nat /\ e[s - 1] \in Nat
      BY <1>1, <1>3, <2>1
    <3>2. r = s - 1 \/ r < s - 1
      BY <1>2, <2>2
    <3>3. r < s - 1 => e[r] < e[s - 1]
      BY <1>5
    <3>. QED BY <3>1, <3>2, <3>3
  <2>. QED BY <2>1, <2>2
<1>6. \A s \in 0 .. N : s \in K
  <2>. HIDE DEF K
  <2>. QED BY <1>2, <1>4, <1>5, CountUp
<1>7. \A r, s \in 0 .. N : r < s => e[r] < e[s]
  BY <1>6
<1>. QED BY <1>1, <1>2, <1>3, <1>7 DEF N

\* Every unit is in one part.
LEMMA EndsCover ==
  ASSUME NEW e, NEW b, NEW order, NEW n \in Nat, Ends(e, b, order, n)
  PROVE  /\ \A i \in 1 .. n : \E r \in 1 .. Len(b) : At(e, r, i)
         /\ \A i \in 1 .. n : \A r, s \in 1 .. Len(b) : At(e, r, i) /\ At(e, s, i) => r = s
<1>. DEFINE N == Len(b)
<1>1. /\ N \in Nat /\ N >= 1 /\ \A r \in 0 .. N : e[r] \in Nat
      /\ \A r, s \in 0 .. N : r < s => e[r] < e[s]
  BY EndsRise
<1>2. e[0] = 0 /\ e[N] = n
  BY DEF Ends
<1>. HIDE DEF N
<1>3. ASSUME NEW i \in 1 .. n PROVE \E r \in 1 .. N : At(e, r, i)
  <2>. DEFINE T == {r \in 0 .. N : i <= e[r]}
  <2>1. T \in SUBSET Nat /\ N \in T
    BY <1>1, <1>2
  <2>2. PICK r \in T : \A s \in T : r <= s
    <3>. HIDE DEF T
    <3>. QED BY <2>1, LeastOf
  <2>3. r \in 0 .. N /\ i <= e[r]
    OBVIOUS
  <2>4. r # 0
    BY <1>2, <2>3
  <2>5. r \in 1 .. N /\ r - 1 \in 0 .. N /\ ~(r <= r - 1)
    BY <1>1, <2>3, <2>4
  <2>6. e[r - 1] < i
    <3>1. r - 1 \notin T
      <4>. HIDE DEF T
      <4>. QED BY <2>2, <2>5
    <3>2. e[r - 1] \in Nat
      BY <1>1, <2>5
    <3>. QED BY <2>5, <3>1, <3>2
  <2>. QED BY <2>3, <2>5, <2>6 DEF At
<1>4. ASSUME NEW i \in 1 .. n, NEW r \in 1 .. N, NEW s \in 1 .. N, At(e, r, i), At(e, s, i), r < s
      PROVE  FALSE
  <2>1. r \in 0 .. N /\ s - 1 \in 0 .. N /\ (r = s - 1 \/ r < s - 1)
    BY <1>1, <1>4
  <2>2. e[r] <= e[s - 1] /\ e[r] \in Nat /\ e[s - 1] \in Nat
    BY <1>1, <2>1
  <2>. QED BY <1>4, <2>2 DEF At
<1>5. \A i \in 1 .. n : \A r, s \in 1 .. N : At(e, r, i) /\ At(e, s, i) => r = s
  <2>. SUFFICES ASSUME NEW i \in 1 .. n, NEW r \in 1 .. N, NEW s \in 1 .. N,
                       At(e, r, i), At(e, s, i)
                PROVE  r = s
    OBVIOUS
  <2>1. ~(r < s) /\ ~(s < r)
    BY <1>4
  <2>2. r \in Int /\ s \in Int
    BY <1>1
  <2>. QED BY <2>1, <2>2
<1>. QED BY <1>3, <1>5 DEF N

\* Where a part has what.
LEMMA PartHas ==
  ASSUME NEW V, NEW order \in Seq(V), NEW n \in 0 .. Len(order), NEW e, NEW b,
         Ends(e, b, order, n), NEW r \in 1 .. Len(b)
  PROVE  /\ Len(b[r]) = e[r] - e[r - 1] /\ DOMAIN b[r] = 1 .. Len(b[r])
         /\ Len(b[r]) \in Nat /\ Len(b[r]) >= 1
         /\ \A j \in 1 .. Len(b[r]) : b[r][j] = order[e[r - 1] + j]
         /\ e[r - 1] \in Nat /\ e[r] \in Nat /\ e[r - 1] < e[r] /\ e[r] <= n
<1>1. Len(order) \in Nat /\ n \in Nat /\ n <= Len(order) /\ order \in [1 .. Len(order) -> V]
  OBVIOUS
<1>2. /\ Len(b) \in Nat /\ \A s \in 0 .. Len(b) : e[s] \in Nat /\ e[s] <= n
      /\ e[r - 1] < e[r] /\ b[r] = SubSeq(order, e[r - 1] + 1, e[r])
  BY <1>1, EndsRise DEF Ends
<1>3. r \in 0 .. Len(b) /\ r - 1 \in 0 .. Len(b)
  BY <1>2
<1>. DEFINE p == e[r - 1]
            q == e[r]
            s == SubSeq(order, p + 1, q)
<1>4. p \in Nat /\ q \in Nat /\ p < q /\ q <= n
  BY <1>2, <1>3
<1>. HIDE DEF p, q
<1>5. /\ s \in Seq(V) /\ Len(s) = q - p
      /\ \A j \in 1 .. q - p : s[j] = order[p + j]
  <2>1. p + 1 \in 1 .. Len(order) + 1 /\ q \in (p + 1) - 1 .. Len(order)
    BY <1>1, <1>4
  <2>2. /\ s \in Seq(V) /\ Len(s) = IF p + 1 <= q THEN q - (p + 1) + 1 ELSE 0
    BY <1>1, <1>4, <2>1, SubSeqProperties
  <2>3. Len(s) = q - p
    BY <1>4, <2>2
  <2>4. \A j \in 1 .. q - p : s[j] = order[p + j]
    <3>1. \A j \in 1 .. q - p : s[j] = order[(p + 1) + j - 1] /\ (p + 1) + j - 1 = p + j
      BY <1>1, <1>4, <2>1, <2>3, SubSeqProperties
    <3>. QED BY <3>1
  <2>. QED BY <2>2, <2>3, <2>4
<1>. HIDE DEF s
<1>6. b[r] = s
  BY <1>2 DEF s, p, q
<1>7. DOMAIN s = 1 .. Len(s) /\ Len(s) \in Nat /\ Len(s) >= 1
  BY <1>4, <1>5
<1>. QED BY <1>4, <1>5, <1>6, <1>7 DEF p, q

\* A part contains the units between its ends, each once.
LEMMA PartContains ==
  ASSUME NEW V, NEW order \in Seq(V), IsInjective(order), NEW e, NEW b,
         Ends(e, b, order, Len(order)), NEW r \in 1 .. Len(b), NEW i \in 1 .. Len(order)
  PROVE  /\ Contains(b[r], order[i]) <=> At(e, r, i)
         /\ \A j \in DOMAIN b[r] : b[r][j] = order[i] <=> j = i - e[r - 1]
         /\ At(e, r, i) => i - e[r - 1] \in DOMAIN b[r]
<1>0. Len(order) \in 0 .. Len(order)
  OBVIOUS
<1>9. /\ Len(b[r]) = e[r] - e[r - 1] /\ DOMAIN b[r] = 1 .. Len(b[r])
      /\ Len(b[r]) \in Nat /\ Len(b[r]) >= 1
      /\ \A j \in 1 .. Len(b[r]) : b[r][j] = order[e[r - 1] + j]
      /\ e[r - 1] \in Nat /\ e[r] \in Nat /\ e[r - 1] < e[r] /\ e[r] <= Len(order)
  BY <1>0, PartHas
<1>. DEFINE p == e[r - 1]
            q == e[r]
            s == b[r]
            L == Len(order)
<1>1. /\ Len(s) = q - p /\ DOMAIN s = 1 .. Len(s) /\ Len(s) \in Nat
      /\ \A j \in 1 .. Len(s) : s[j] = order[p + j]
      /\ p \in Nat /\ q \in Nat /\ p < q /\ q <= L
  BY <1>9
<1>2. L \in Nat /\ DOMAIN order = 1 .. L
  OBVIOUS
<1>. HIDE DEF p, q, s, L
<1>3. ASSUME NEW j \in 1 .. Len(s) PROVE s[j] = order[i] <=> j = i - p
  <2>1. p + j \in 1 .. L
    BY <1>1, <1>2
  <2>2. s[j] = order[p + j]
    BY <1>1
  <2>3. order[p + j] = order[i] => p + j = i
    BY <1>2, <2>1 DEF IsInjective, L
  <2>4. j = i - p <=> p + j = i
    BY <1>1
  <2>. QED BY <2>2, <2>3, <2>4
<1>4. At(e, r, i) <=> i - p \in 1 .. Len(s)
  <2>1. At(e, r, i) <=> p < i /\ i <= q
    BY DEF At, p, q
  <2>2. i \in Nat
    BY <1>2 DEF L
  <2>3. p < i /\ i <= q <=> i - p \in 1 .. Len(s)
    BY <1>1, <2>2
  <2>. QED BY <2>1, <2>3
<1>5. Contains(s, order[i]) <=> i - p \in 1 .. Len(s)
  BY <1>3 DEF Contains
<1>. QED BY <1>1, <1>3, <1>4, <1>5 DEF p, s

\* The role of a unit is the part it is in.
LEMMA RoleOfIs ==
  ASSUME NEW V, NEW order \in Seq(V), IsInjective(order), NEW e, NEW b,
         Ends(e, b, order, Len(order)), NEW i \in 1 .. Len(order)
  PROVE  RoleOf(b, order[i]) \in 1 .. Len(b) /\ At(e, RoleOf(b, order[i]), i)
<1>1. Len(order) \in Nat
  OBVIOUS
<1>2. DOMAIN b = 1 .. Len(b)
  BY <1>1, EndsRise
<1>3. \E r \in 1 .. Len(b) : At(e, r, i)
  BY <1>1, EndsCover
<1>4. \A r \in 1 .. Len(b) : Contains(b[r], order[i]) <=> At(e, r, i)
  BY PartContains
<1>5. \E r \in DOMAIN b : Contains(b[r], order[i])
  BY <1>2, <1>3, <1>4
<1>6. RoleOf(b, order[i]) \in DOMAIN b /\ Contains(b[RoleOf(b, order[i])], order[i])
  BY <1>5 DEF RoleOf
<1>. QED BY <1>2, <1>4, <1>6

------------------------------------------------------------------------------
\* An edge leads to a unit further on in the order.
Further(order, x, y) ==
  \E i, j \in 1 .. Len(order) : i < j /\ order[i] = x /\ order[j] = y

\* In an order of the nodes, every edge leads further on.
LEMMA EdgesGoFurther ==
  ASSUME NEW G, G.edge \subseteq G.node \X G.node, NEW order, InOrder(order, G, G.node)
  PROVE  \A x, y : <<x, y>> \in G.edge => x \in G.node /\ y \in G.node /\ Further(order, x, y)
<1>. SUFFICES ASSUME NEW x, NEW y, <<x, y>> \in G.edge
              PROVE  x \in G.node /\ y \in G.node /\ Further(order, x, y)
  OBVIOUS
<1>1. x \in G.node /\ y \in G.node
  OBVIOUS
<1>2. order \in Seq(G.node) /\ Len(order) \in Nat /\ DOMAIN order = 1 .. Len(order)
      /\ Range(order) = G.node
  BY PlacesFinite DEF InOrder
<1>3. PICK j \in 1 .. Len(order) : order[j] = y
  BY <1>1, <1>2 DEF Range
<1>4. x \in Predecessors(G, order[j])
  BY <1>1, <1>3 DEF Predecessors
<1>5. PICK i \in 1 .. j - 1 : order[i] = x
  BY <1>4 DEF InOrder
<1>6. i \in 1 .. Len(order) /\ i < j
  BY <1>2
<1>. QED BY <1>1, <1>3, <1>5, <1>6 DEF Further

\* The unit in the last place is the one nothing follows.
LEMMA LastIsLeaf ==
  ASSUME NEW G, OneSinkDag(G), NEW order, InOrder(order, G, G.node)
  PROVE  /\ Len(order) \in Nat /\ Len(order) >= 1
         /\ Leaves(G) = {order[Len(order)]}
<1>1. /\ order \in Seq(G.node) /\ Len(order) \in Nat /\ DOMAIN order = 1 .. Len(order)
      /\ Len(order) = Cardinality(G.node) /\ IsInjective(order)
  BY OrderLength DEF OneSinkDag, InOrder
<1>2. Len(order) # 0
  BY <1>1, FS_EmptySet DEF OneSinkDag
<1>. DEFINE l == Len(order)
<1>3. l \in 1 .. l /\ order[l] \in G.node
  BY <1>1, <1>2
<1>4. ASSUME NEW y, <<order[l], y>> \in G.edge PROVE FALSE
  <2>1. Further(order, order[l], y)
    BY <1>4, EdgesGoFurther DEF OneSinkDag
  <2>2. PICK i \in 1 .. l : \E j \in 1 .. l : i < j /\ order[i] = order[l]
    BY <2>1 DEF Further
  <2>3. i = l
    BY <1>1, <1>3, <2>2 DEF IsInjective
  <2>. QED BY <1>1, <2>2, <2>3
<1>5. order[l] \in Leaves(G)
  BY <1>3, <1>4 DEF Leaves, Successors
<1>6. Leaves(G) = {order[l]}
  BY <1>5 DEF OneSinkDag
<1>. QED BY <1>1, <1>2, <1>6

\* The graph of the roles: edges lead to later roles, and only the last role's
\* result is not handed on.
RoleDag(R, n) ==
  /\ n \in Nat /\ n >= 1 /\ R.node = 1 .. n
  /\ \A x : x \in R.edge => \E p, q \in 1 .. n : x = <<p, q>> /\ p < q
  /\ \A p \in 1 .. n : p # n => \E q \in 1 .. n : <<p, q>> \in R.edge

\* An edge of the work is one between roles, or within one.
Handed(R, parts, x, y) ==
  LET p == RoleOf(parts, x)
      q == RoleOf(parts, y)
  IN p \in DOMAIN parts /\ q \in DOMAIN parts /\ (p = q \/ (p < q /\ <<p, q>> \in R.edge))

\* Every edge of the work is within a role or one between roles.
LEMMA EdgesAreHanded ==
  ASSUME NEW G, G.edge \subseteq G.node \X G.node, NEW order, InOrder(order, G, G.node),
         NEW e, NEW parts, Ends(e, parts, order, Len(order))
  PROVE  \A x, y : <<x, y>> \in G.edge => Handed(RoleGraph(parts, G), parts, x, y)
<1>. DEFINE L == Len(order)
            N == Len(parts)
<1>1. /\ order \in Seq(G.node) /\ L \in Nat /\ DOMAIN order = 1 .. L /\ IsInjective(order)
  BY PlacesFinite DEF InOrder
<1>2. N \in Nat /\ DOMAIN parts = 1 .. N /\ (\A r \in 0 .. N : e[r] \in Nat)
      /\ \A r, s \in 0 .. N : r < s => e[r] < e[s]
  BY <1>1, EndsRise
<1>. SUFFICES ASSUME NEW x, NEW y, <<x, y>> \in G.edge
              PROVE  Handed(RoleGraph(parts, G), parts, x, y)
  OBVIOUS
<1>3. PICK i \in 1 .. L : \E j \in 1 .. L : i < j /\ order[i] = x /\ order[j] = y
  BY EdgesGoFurther DEF Further
<1>4. PICK j \in 1 .. L : i < j /\ order[i] = x /\ order[j] = y
  BY <1>3
<1>. DEFINE p == RoleOf(parts, x)
            q == RoleOf(parts, y)
<1>5. p \in 1 .. N /\ At(e, p, i)
  BY <1>1, <1>4, RoleOfIs
<1>6. q \in 1 .. N /\ At(e, q, j)
  BY <1>1, <1>4, RoleOfIs
<1>7. <<p, q>> \in RoleEdges(parts, G) \/ p = q
  <2>1. <<p, q>> \in {<<RoleOf(parts, z[1]), RoleOf(parts, z[2])>> : z \in G.edge}
    <3>1. <<x, y>>[1] = x /\ <<x, y>>[2] = y
      OBVIOUS
    <3>. QED BY <3>1
  <2>. HIDE DEF p, q
  <2>2. p # q => <<p, q>> \notin {<<r, r>> : r \in DOMAIN parts}
    OBVIOUS
  <2>. QED BY <2>1, <2>2 DEF RoleEdges
<1>. HIDE DEF p, q, L, N
<1>8. p = q \/ p < q
  <2>. SUFFICES ASSUME q < p PROVE FALSE
    BY <1>2, <1>5, <1>6
  <2>1. q \in 0 .. N /\ p - 1 \in 0 .. N /\ (q = p - 1 \/ q < p - 1)
    BY <1>2, <1>5, <1>6
  <2>2. e[q] <= e[p - 1] /\ e[q] \in Nat /\ e[p - 1] \in Nat
    BY <1>2, <2>1
  <2>. QED BY <1>4, <1>5, <1>6, <2>2, <1>1 DEF At
<1>9. RoleGraph(parts, G).edge = RoleEdges(parts, G)
  BY DEF RoleGraph
<1>10. /\ p \in DOMAIN parts /\ q \in DOMAIN parts
       /\ (p = q \/ (p < q /\ <<p, q>> \in RoleGraph(parts, G).edge))
  <2>1. p \in DOMAIN parts /\ q \in DOMAIN parts
    BY <1>2, <1>5, <1>6
  <2>2. p = q \/ (p < q /\ <<p, q>> \in RoleGraph(parts, G).edge)
    BY <1>7, <1>8, <1>9
  <2>. QED BY <2>1, <2>2
<1>. QED BY <1>10 DEF Handed, p, q

\* However an order is cut, the roles make a graph without cycles and with one sink.
LEMMA RoleGraphIs ==
  ASSUME NEW G, OneSinkDag(G), NEW order, InOrder(order, G, G.node),
         NEW parts, CutsInto(parts, order, Len(order))
  PROVE  RoleDag(RoleGraph(parts, G), Len(parts))
<1>. DEFINE L == Len(order)
            N == Len(parts)
            R == RoleGraph(parts, G)
<1>0. G.edge \subseteq G.node \X G.node
  BY DEF OneSinkDag
<1>1. PICK e : Ends(e, parts, order, L)
  BY DEF CutsInto
<1>2. /\ order \in Seq(G.node) /\ L \in Nat /\ L >= 1 /\ DOMAIN order = 1 .. L
      /\ IsInjective(order) /\ Leaves(G) = {order[L]}
  BY PlacesFinite, LastIsLeaf DEF InOrder
<1>3. /\ N \in Nat /\ N >= 1 /\ DOMAIN parts = 1 .. N
      /\ \A r \in 0 .. N : e[r] \in Nat /\ e[r] <= L
      /\ \A r, s \in 0 .. N : r < s => e[r] < e[s]
  BY <1>1, <1>2, EndsRise
<1>4. \A x, y : <<x, y>> \in G.edge => Handed(R, parts, x, y)
  BY <1>0, <1>1, EdgesAreHanded
<1>5. R.node = 1 .. N /\ R.edge = RoleEdges(parts, G)
  BY <1>3 DEF RoleGraph
<1>6. ASSUME NEW x \in R.edge PROVE \E p, q \in 1 .. N : x = <<p, q>> /\ p < q
  <2>1. PICK z \in G.edge : x = <<RoleOf(parts, z[1]), RoleOf(parts, z[2])>>
    BY <1>5 DEF RoleEdges
  <2>. DEFINE p == RoleOf(parts, z[1])
              q == RoleOf(parts, z[2])
  <2>2. Handed(R, parts, z[1], z[2])
    <3>1. z = <<z[1], z[2]>>
      BY <1>0
    <3>. QED BY <1>4, <3>1
  <2>3. p \in 1 .. N /\ q \in 1 .. N /\ (p = q \/ p < q)
    BY <1>3, <2>2 DEF Handed
  <2>4. p # q
    <3>1. x \notin {<<r, r>> : r \in DOMAIN parts}
      BY <1>5 DEF RoleEdges
    <3>2. x = <<p, q>>
      BY <2>1
    <3>. HIDE DEF p, q
    <3>. QED BY <1>3, <2>3, <3>1, <3>2
  <2>5. x = <<p, q>>
    BY <2>1
  <2>. HIDE DEF p, q
  <2>. QED BY <2>3, <2>4, <2>5
<1>7. ASSUME NEW p \in 1 .. N, p # N PROVE \E q \in 1 .. N : <<p, q>> \in R.edge
  <2>. DEFINE i == e[p]
              x == order[i]
  <2>1. /\ p \in 0 .. N /\ N \in 0 .. N /\ p < N /\ p - 1 \in 0 .. N /\ p - 1 < p
    <3>1. N \in Nat /\ N >= 1 /\ p \in 1 .. N /\ p # N
      BY <1>3, <1>7
    <3>. HIDE DEF N
    <3>. QED BY <3>1
  <2>2. e[0] = 0 /\ e[N] = L
    BY <1>1 DEF Ends
  <2>3. i \in 1 .. L /\ i # L /\ e[p - 1] < i
    <3>1. e[p - 1] < e[p] /\ e[p] < e[N] /\ e[p - 1] \in Nat /\ e[p] \in Nat
      BY <1>3, <2>1
    <3>. QED BY <1>2, <2>2, <3>1
  <2>4. x \in G.node /\ x \notin Leaves(G)
    <3>1. x # order[L]
      BY <1>2, <2>3 DEF IsInjective
    <3>. QED BY <1>2, <2>3, <3>1
  <2>5. PICK y \in G.node : <<x, y>> \in G.edge
    BY <2>4 DEF Leaves, Successors
  <2>6. Further(order, x, y)
    BY <1>0, <2>5, EdgesGoFurther
  <2>7. PICK j \in 1 .. L : \E k \in 1 .. L : k < j /\ order[k] = x /\ order[j] = y
    BY <2>6 DEF Further
  <2>8. i < j
    <3>1. PICK k \in 1 .. L : k < j /\ order[k] = x
      BY <2>7
    <3>2. k = i
      BY <1>2, <2>3, <3>1 DEF IsInjective
    <3>. QED BY <3>1, <3>2
  <2>9. RoleOf(parts, x) = p
    <3>1. RoleOf(parts, x) \in 1 .. N /\ At(e, RoleOf(parts, x), i)
      BY <1>1, <1>2, <2>3, RoleOfIs
    <3>2. At(e, p, i)
      <4>1. i <= e[p]
        BY <2>3
      <4>. QED BY <2>3, <4>1 DEF At
    <3>. QED BY <1>1, <1>2, <2>3, <3>1, <3>2, EndsCover
  <2>10. RoleOf(parts, y) # p
    <3>1. At(e, RoleOf(parts, y), j)
      BY <1>1, <1>2, <2>7, RoleOfIs
    <3>2. ~(j <= e[p])
      BY <1>2, <2>3, <2>8
    <3>. QED BY <3>1, <3>2 DEF At
  <2>11. Handed(R, parts, x, y)
    BY <1>4, <2>5
  <2>. HIDE DEF R, x
  <2>. QED BY <1>3, <2>9, <2>10, <2>11 DEF Handed
<1>. QED BY <1>3, <1>5, <1>6, <1>7 DEF RoleDag

\* What such a graph is like; a record that has more than nodes and edges, too.
LEMMA RoleDagIs ==
  ASSUME NEW R, NEW n, RoleDag(R, n)
  PROVE  /\ IsFiniteSet(R.node) /\ R.node # {} /\ Cardinality(R.node) = n
         /\ R.edge \subseteq R.node \X R.node
         /\ \A x \in R.edge : x[1] # x[2]
         /\ Acyclic(R) /\ Leaves(R) = {n}
<1>1. /\ n \in Nat /\ n >= 1 /\ R.node = 1 .. n
      /\ \A x : x \in R.edge => \E p, q \in 1 .. n : x = <<p, q>> /\ p < q
      /\ \A p \in 1 .. n : p # n => \E q \in 1 .. n : <<p, q>> \in R.edge
  BY DEF RoleDag
<1>2. IsFiniteSet(R.node) /\ Cardinality(R.node) = n
  BY <1>1, UpTo
<1>3. n \in R.node
  BY <1>1
<1>4. R.edge \subseteq R.node \X R.node
  BY <1>1
<1>5. \A x \in R.edge : x[1] # x[2]
  <2>. SUFFICES ASSUME NEW x \in R.edge PROVE x[1] # x[2]
    OBVIOUS
  <2>1. PICK p \in 1 .. n : \E q \in 1 .. n : x = <<p, q>> /\ p < q
    BY <1>1
  <2>2. PICK q \in 1 .. n : x = <<p, q>> /\ p < q
    BY <2>1
  <2>. QED BY <2>2
<1>6. \A p, q : <<p, q>> \in R.edge => p < q
  <2>. SUFFICES ASSUME NEW p, NEW q, <<p, q>> \in R.edge PROVE p < q
    OBVIOUS
  <2>1. PICK r \in 1 .. n : \E s \in 1 .. n : <<p, q>> = <<r, s>> /\ r < s
    BY <1>1
  <2>2. PICK s \in 1 .. n : <<p, q>> = <<r, s>> /\ r < s
    BY <2>1
  <2>. QED BY <2>2
<1>7. Acyclic(R)
  <2>. DEFINE rank == [r \in 1 .. n |-> r]
  <2>1. \A x \in R.node : rank[x] \in Nat
    BY <1>1
  <2>2. \A x, y \in R.node : <<x, y>> \in R.edge => rank[x] < rank[y]
    BY <1>1, <1>6
  <2>. HIDE DEF rank
  <2>. QED BY <1>2, <2>1, <2>2, RankedIsAcyclic
<1>8. Leaves(R) = {n}
  <2>1. \A p \in R.node : p # n => p \notin Leaves(R)
    BY <1>1 DEF Leaves, Successors
  <2>2. n \in Leaves(R)
    <3>1. ASSUME NEW y \in R.node, <<n, y>> \in R.edge PROVE FALSE
      <4>1. n < y /\ y <= n /\ y \in Int
        BY <1>1, <1>6, <3>1
      <4>. QED BY <1>1, <4>1
    <3>. QED BY <1>3, <3>1 DEF Leaves, Successors
  <2>3. Leaves(R) \in SUBSET R.node
    BY DEF Leaves
  <2>. QED BY <2>1, <2>2, <2>3
<1>. QED BY <1>2, <1>3, <1>4, <1>5, <1>7, <1>8

------------------------------------------------------------------------------
\* The members of a set that have the least i-th key.
Least(F, key, i) == {m \in F : \A n \in F : key[m][i] <= key[n][i]}

\* Some member has the least i-th key.
LEMMA SomeLeast ==
  ASSUME NEW F, F # {}, NEW key, NEW i, \A m \in F : key[m][i] \in Nat
  PROVE  Least(F, key, i) # {}
<1>. DEFINE T == {key[m][i] : m \in F}
<1>1. T \in SUBSET Nat /\ T # {}
  OBVIOUS
<1>2. PICK x \in T : \A y \in T : x <= y
  <2>. HIDE DEF T
  <2>. QED BY <1>1, LeastOf
<1>3. PICK m \in F : key[m][i] = x
  OBVIOUS
<1>4. m \in Least(F, key, i)
  BY <1>2, <1>3 DEF Least
<1>. QED BY <1>4

\* Of models with different numbers one comes before all others.
LEMMA LeastKey ==
  ASSUME NEW F \in SUBSET Nat, F # {}, NEW key,
         \A m \in F : /\ DOMAIN key[m] = 1 .. 5 /\ key[m][5] = m
                      /\ \A i \in 1 .. 5 : key[m][i] \in Nat
  PROVE  \E m \in F : \A n \in F \ {m} : Before(key[m], key[n])
<1>. DEFINE F1 == Least(F, key, 1)
            F2 == Least(F1, key, 2)
            F3 == Least(F2, key, 3)
            F4 == Least(F3, key, 4)
            F5 == Least(F4, key, 5)
<1>0. \A m \in F : \A i \in 1 .. 5 : key[m][i] \in Nat
  OBVIOUS
<1>1. /\ F1 \in SUBSET F /\ F2 \in SUBSET F1 /\ F3 \in SUBSET F2
      /\ F4 \in SUBSET F3 /\ F5 \in SUBSET F4
  BY DEF Least
<1>2. /\ F1 # {} /\ (F1 # {} => F2 # {}) /\ (F2 # {} => F3 # {})
      /\ (F3 # {} => F4 # {}) /\ (F4 # {} => F5 # {})
  <2>1. 1 \in 1 .. 5 /\ 2 \in 1 .. 5 /\ 3 \in 1 .. 5 /\ 4 \in 1 .. 5 /\ 5 \in 1 .. 5
    OBVIOUS
  <2>2. F1 # {}
    BY <1>0, <2>1, SomeLeast
  <2>. HIDE DEF F1, F2, F3, F4, F5
  <2>3. F1 # {} => F2 # {}
    BY <1>0, <1>1, <2>1, SomeLeast DEF F2
  <2>4. F2 # {} => F3 # {}
    <3>1. F2 \in SUBSET F
      BY <1>1
    <3>. QED BY <1>0, <2>1, <3>1, SomeLeast DEF F3
  <2>5. F3 # {} => F4 # {}
    <3>1. F3 \in SUBSET F
      BY <1>1
    <3>. QED BY <1>0, <2>1, <3>1, SomeLeast DEF F4
  <2>6. F4 # {} => F5 # {}
    <3>1. F4 \in SUBSET F
      BY <1>1
    <3>. QED BY <1>0, <2>1, <3>1, SomeLeast DEF F5
  <2>. QED BY <2>2, <2>3, <2>4, <2>5, <2>6
<1>3. PICK m \in F5 : TRUE
  BY <1>2
<1>4. m \in F /\ m \in F1 /\ m \in F2 /\ m \in F3 /\ m \in F4
  BY <1>1
<1>5. /\ \A n \in F : key[m][1] <= key[n][1] /\ (key[n][1] <= key[m][1] => n \in F1)
      /\ \A n \in F1 : key[m][2] <= key[n][2] /\ (key[n][2] <= key[m][2] => n \in F2)
      /\ \A n \in F2 : key[m][3] <= key[n][3] /\ (key[n][3] <= key[m][3] => n \in F3)
      /\ \A n \in F3 : key[m][4] <= key[n][4] /\ (key[n][4] <= key[m][4] => n \in F4)
      /\ \A n \in F4 : key[m][5] <= key[n][5]
  <2>1. ASSUME NEW G \in SUBSET F, NEW i \in 1 .. 5, m \in Least(G, key, i), NEW n \in G
        PROVE  key[m][i] <= key[n][i] /\ (key[n][i] <= key[m][i] => n \in Least(G, key, i))
    <3>1. \A l \in G : key[m][i] <= key[l][i]
      BY <2>1 DEF Least
    <3>2. ASSUME key[n][i] <= key[m][i], NEW l \in G PROVE key[n][i] <= key[l][i]
      <4>1. key[m][i] \in Nat /\ key[n][i] \in Nat /\ key[l][i] \in Nat
        BY <1>0, <1>4, <2>1
      <4>. QED BY <3>1, <3>2, <4>1
    <3>. QED BY <3>1, <3>2 DEF Least
  <2>2. /\ F \in SUBSET F /\ F1 \in SUBSET F /\ F2 \in SUBSET F /\ F3 \in SUBSET F
        /\ F4 \in SUBSET F
    <3>. HIDE DEF F1, F2, F3, F4, F5
    <3>. QED BY <1>1
  <2>3. m \in F5
    OBVIOUS
  <2>. DEFINE P(G, i) == \A n \in G :
                key[m][i] <= key[n][i] /\ (key[n][i] <= key[m][i] => n \in Least(G, key, i))
  <2>4. P(F, 1)
    BY <1>4, <2>1, <2>2
  <2>5. P(F1, 2)
    BY <1>4, <2>1, <2>2
  <2>6. P(F2, 3)
    BY <1>4, <2>1, <2>2
  <2>7. P(F3, 4)
    BY <1>4, <2>1, <2>2
  <2>8. P(F4, 5)
    BY <1>4, <2>1, <2>2, <2>3
  <2>. QED BY <2>4, <2>5, <2>6, <2>7, <2>8
<1>. HIDE DEF F1, F2, F3, F4, F5
<1>6. ASSUME NEW n \in F, n # m PROVE Before(key[m], key[n])
  <2>1. \A i \in 1 .. 5 : key[m][i] \in Nat /\ key[n][i] \in Nat
    BY <1>0, <1>4
  <2>2. DOMAIN key[m] = 1 .. 5 /\ key[m][5] = m /\ key[n][5] = n
    BY <1>4
  <2>. DEFINE s == key[m]
              t == key[n]
  <2>3. \/ s[1] < t[1]
        \/ s[1] = t[1] /\ s[2] < t[2]
        \/ s[1] = t[1] /\ s[2] = t[2] /\ s[3] < t[3]
        \/ s[1] = t[1] /\ s[2] = t[2] /\ s[3] = t[3] /\ s[4] < t[4]
        \/ s[1] = t[1] /\ s[2] = t[2] /\ s[3] = t[3] /\ s[4] = t[4] /\ s[5] < t[5]
    <3>1. \A i \in 1 .. 5 : s[i] \in Nat /\ t[i] \in Nat
      BY <2>1
    <3>2. s[1] < t[1] \/ (s[1] = t[1] /\ n \in F1)
      BY <1>5, <3>1, 1 \in 1 .. 5
    <3>3. n \in F1 => s[2] < t[2] \/ (s[2] = t[2] /\ n \in F2)
      BY <1>5, <3>1, 2 \in 1 .. 5
    <3>4. n \in F2 => s[3] < t[3] \/ (s[3] = t[3] /\ n \in F3)
      BY <1>5, <3>1, 3 \in 1 .. 5
    <3>5. n \in F3 => s[4] < t[4] \/ (s[4] = t[4] /\ n \in F4)
      BY <1>5, <3>1, 4 \in 1 .. 5
    <3>6. n \in F4 => s[5] < t[5]
      BY <1>5, <1>6, <2>2, <3>1, 5 \in 1 .. 5
    <3>. HIDE DEF s, t
    <3>. QED BY <3>2, <3>3, <3>4, <3>5, <3>6
  <2>4. DOMAIN s = 1 .. 5
    BY <2>2
  <2>. HIDE DEF s, t
  <2>5. /\ 1 \in DOMAIN s /\ 2 \in DOMAIN s /\ 3 \in DOMAIN s /\ 4 \in DOMAIN s /\ 5 \in DOMAIN s
        /\ 1 .. 1 - 1 = {} /\ 1 .. 2 - 1 = {1} /\ 1 .. 3 - 1 = {1, 2} /\ 1 .. 4 - 1 = {1, 2, 3}
        /\ 1 .. 5 - 1 = {1, 2, 3, 4}
    BY <2>4
  <2>6. Before(s, t)
    BY <2>3, <2>5 DEF Before
  <2>. QED BY <2>6 DEF s, t
<1>. QED BY <1>4, <1>6

------------------------------------------------------------------------------
\* The rating of a metric for a set of models, in every position up to n.
Rated(m, C, n) ==
  \A c \in C :
    /\ m.cost[c] \in Nat
    /\ \A r \in 0 .. n : m.capability[c][r] \in Nat /\ m.economy[c][r] \in Nat

\* While a model is free, the best of them is one.
LEMMA BestFreeIs ==
  ASSUME NEW cands, Range(cands) \in SUBSET Nat, NEW n \in Nat, NEW r \in 0 .. n,
         NEW rating, Rated(rating, Range(cands), n), NEW taken, Range(cands) \ taken # {}
  PROVE  BestFree(cands, r, rating, taken) \in Range(cands) \ taken
<1>. DEFINE F == Range(cands) \ taken
            key == [m \in F |-> RankKey(m, r, rating, taken)]
            best(m) == \A l \in Range(cands) \ (taken \cup {m}) :
                         Before(RankKey(m, r, rating, taken), RankKey(l, r, rating, taken))
<1>1. F \in SUBSET Nat /\ F # {}
  OBVIOUS
<1>2. ASSUME NEW m \in F
      PROVE  /\ DOMAIN key[m] = 1 .. 5 /\ key[m][5] = m
             /\ \A i \in 1 .. 5 : key[m][i] \in Nat
  <2>1. /\ rating.capability[m][r] \in Nat /\ rating.economy[m][r] \in Nat
        /\ rating.cost[m] \in Nat /\ m \in Nat
    BY <1>1 DEF Rated
  <2>. DEFINE u == rating.capability[m][r]
              v == rating.economy[m][r]
              w == IF Company[m] \in {Company[t] : t \in taken} THEN 1 ELSE 0
              x == rating.cost[m]
  <2>2. key[m] = <<u, v, w, x, m>>
    BY DEF RankKey
  <2>3. u \in Nat /\ v \in Nat /\ w \in Nat /\ x \in Nat /\ m \in Nat
    BY <2>1
  <2>. HIDE DEF u, v, w, x, key
  <2>4. <<u, v, w, x, m>> \in Seq(Nat) /\ Len(<<u, v, w, x, m>>) = 5
    BY <2>3
  <2>5. DOMAIN key[m] = 1 .. 5 /\ key[m][5] = m
    BY <2>2
  <2>6. \A i \in 1 .. 5 : key[m][i] \in Nat
    BY <2>2, <2>4
  <2>. QED BY <2>5, <2>6
<1>3. PICK m \in F : \A l \in F \ {m} : Before(key[m], key[l])
  <2>. HIDE DEF F, key
  <2>. QED BY <1>1, <1>2, LeastKey
<1>4. best(m)
  <2>. SUFFICES ASSUME NEW l \in Range(cands) \ (taken \cup {m})
                PROVE  Before(RankKey(m, r, rating, taken), RankKey(l, r, rating, taken))
    OBVIOUS
  <2>1. l \in F \ {m} /\ l \in F
    OBVIOUS
  <2>2. key[m] = RankKey(m, r, rating, taken) /\ key[l] = RankKey(l, r, rating, taken)
    BY <2>1
  <2>. HIDE DEF key
  <2>. QED BY <1>3, <2>1, <2>2
<1>5. BestFree(cands, r, rating, taken) = CHOOSE b \in F : best(b)
  BY DEF BestFree
<1>. HIDE DEF best, F
<1>6. (CHOOSE b \in F : best(b)) \in F
  BY <1>4
<1>. QED BY <1>5, <1>6 DEF F

\* Models taken in turn: n of them, no one twice.
Took(s, C, n) == s \in Seq(C) /\ Len(s) = n /\ IsInjective(s)

\* As long as fewer are taken than there are, one is free, and can be taken too.
LEMMA TookOneMore ==
  ASSUME NEW C, IsFiniteSet(C), NEW n \in Nat, n < Cardinality(C), NEW s, Took(s, C, n)
  PROVE  /\ C \ Range(s) # {}
         /\ \A x \in C \ Range(s) : Took(Append(s, x), C, n + 1)
<1>1. /\ s \in Seq(C) /\ Len(s) = n /\ IsInjective(s) /\ DOMAIN s = 1 .. n
  BY DEF Took
<1>2. C \ Range(s) # {}
  <2>. SUFFICES ASSUME C \subseteq Range(s) PROVE FALSE
    OBVIOUS
  <2>1. Cardinality(Range(s)) <= n /\ IsFiniteSet(Range(s)) /\ Cardinality(Range(s)) \in Nat
    BY <1>1, PlacesFinite
  <2>2. Cardinality(C) <= Cardinality(Range(s)) /\ Cardinality(C) \in Nat
    BY <2>1, FS_Subset, FS_CardinalityType
  <2>. QED BY <2>1, <2>2
<1>3. ASSUME NEW x \in C \ Range(s) PROVE Took(Append(s, x), C, n + 1)
  <2>. DEFINE a == Append(s, x)
  <2>1. a \in Seq(C) /\ Len(a) = n + 1 /\ DOMAIN a = 1 .. n + 1 /\ a[n + 1] = x
        /\ \A i \in 1 .. n : a[i] = s[i]
    BY <1>1
  <2>. HIDE DEF a
  <2>2. \A i \in 1 .. n : s[i] # x
    BY <1>1, <1>3 DEF Range
  <2>3. \A i \in 1 .. n + 1 : i = n + 1 \/ i \in 1 .. n
    OBVIOUS
  <2>4. ASSUME NEW i \in 1 .. n + 1, NEW j \in 1 .. n + 1, a[i] = a[j] PROVE i = j
    <3>1. CASE i \in 1 .. n /\ j \in 1 .. n
      BY <1>1, <2>1, <2>4, <3>1 DEF IsInjective
    <3>2. CASE i = n + 1
      BY <2>1, <2>2, <2>3, <2>4, <3>2
    <3>3. CASE j = n + 1
      BY <2>1, <2>2, <2>3, <2>4, <3>3
    <3>. QED BY <2>3, <3>1, <3>2, <3>3
  <2>5. IsInjective(a)
    BY <2>1, <2>4 DEF IsInjective
  <2>. QED BY <2>1, <2>5 DEF Took, a
<1>. QED BY <1>2, <1>3

\* What is taken, divided into the models of the roles and those for recovery.
LEMMA TookIsAssignment ==
  ASSUME NEW cands, NEW n \in Nat, NEW k \in Nat, NEW s, Took(s, Range(cands), n + k)
  PROVE  [role     |-> SubSeq(s, 1, n),
          recovery |-> Range(SubSeq(s, n + 1, n + k))] \in Assignments(cands, n, k)
<1>. DEFINE C == Range(cands)
            u == SubSeq(s, 1, n)
            v == SubSeq(s, n + 1, n + k)
<1>1. s \in Seq(C) /\ Len(s) = n + k /\ IsInjective(s) /\ DOMAIN s = 1 .. n + k
  BY DEF Took
<1>. HIDE DEF C
<1>2. u \in Seq(C) /\ Len(u) = n /\ DOMAIN u = 1 .. n /\ \A i \in 1 .. n : u[i] = s[i]
  <2>1. 1 \in 1 .. Len(s) + 1 /\ n \in 1 - 1 .. Len(s)
    BY <1>1
  <2>2. u \in Seq(C) /\ Len(u) = IF 1 <= n THEN n - 1 + 1 ELSE 0
    BY <1>1, <2>1, SubSeqProperties
  <2>3. Len(u) = n /\ DOMAIN u = 1 .. n
    BY <2>2
  <2>4. \A i \in 1 .. n : u[i] = s[1 + i - 1] /\ 1 + i - 1 = i
    BY <1>1, <2>1, <2>3, SubSeqProperties
  <2>. QED BY <2>2, <2>3, <2>4
<1>3. v \in Seq(C) /\ Len(v) = k /\ DOMAIN v = 1 .. k /\ \A i \in 1 .. k : v[i] = s[n + i]
  <2>1. n + 1 \in 1 .. Len(s) + 1 /\ n + k \in (n + 1) - 1 .. Len(s)
    BY <1>1
  <2>2. v \in Seq(C) /\ Len(v) = IF n + 1 <= n + k THEN (n + k) - (n + 1) + 1 ELSE 0
    BY <1>1, <2>1, SubSeqProperties
  <2>3. Len(v) = k /\ DOMAIN v = 1 .. k
    BY <2>2
  <2>4. \A i \in 1 .. k : v[i] = s[(n + 1) + i - 1] /\ (n + 1) + i - 1 = n + i
    BY <1>1, <2>1, <2>3, SubSeqProperties
  <2>. QED BY <2>2, <2>3, <2>4
<1>. HIDE DEF u, v
<1>4. u \in Injection(1 .. n, C)
  <2>1. \A i \in 1 .. n : i \in 1 .. n + k
    OBVIOUS
  <2>2. IsInjective(u)
    BY <1>1, <1>2, <2>1 DEF IsInjective
  <2>3. u \in [1 .. n -> C]
    BY <1>2
  <2>. QED BY <2>2, <2>3 DEF Injection
<1>5. Range(v) \in kSubset(k, C)
  <2>1. Range(v) \in SUBSET C /\ IsFiniteSet(Range(v)) /\ Cardinality(Range(v)) <= k
        /\ Cardinality(Range(v)) \in Nat
    BY <1>3, PlacesFinite
  <2>2. v \in Injection(1 .. k, Range(v))
    <3>1. \A i \in 1 .. k : n + i \in 1 .. n + k
      OBVIOUS
    <3>2. \A i, j \in 1 .. k : v[i] = v[j] => i = j
      <4>. SUFFICES ASSUME NEW i \in 1 .. k, NEW j \in 1 .. k, v[i] = v[j] PROVE i = j
        OBVIOUS
      <4>0. s[n + i] = s[n + j] /\ n + i \in DOMAIN s /\ n + j \in DOMAIN s
        BY <1>1, <1>3, <3>1
      <4>1. n + i = n + j
        BY <1>1, <4>0 DEF IsInjective
      <4>. QED BY <4>1
    <3>3. v \in [1 .. k -> Range(v)]
      BY <1>3 DEF Range
    <3>. QED BY <1>3, <3>2, <3>3 DEF Injection, IsInjective
  <2>3. Cardinality(1 .. k) <= Cardinality(Range(v)) /\ Cardinality(1 .. k) = k
    BY <2>1, <2>2, FS_Injection, UpTo
  <2>4. Cardinality(Range(v)) = k
    BY <2>1, <2>3
  <2>. QED BY <2>1, <2>4 DEF kSubset
<1>6. Range(u) \cap Range(v) = {}
  <2>. SUFFICES ASSUME NEW x \in Range(u), x \in Range(v) PROVE FALSE
    OBVIOUS
  <2>1. PICK i \in 1 .. n : x = u[i]
    BY <1>2 DEF Range
  <2>2. PICK j \in 1 .. k : x = v[j]
    BY <1>3 DEF Range
  <2>3. i \in 1 .. n + k /\ n + j \in 1 .. n + k /\ s[i] = s[n + j]
    <3>1. i \in 1 .. n + k /\ n + j \in 1 .. n + k
      OBVIOUS
    <3>2. s[i] = u[i] /\ s[n + j] = v[j]
      BY <1>2, <1>3
    <3>. QED BY <2>1, <2>2, <3>1, <3>2
  <2>4. i = n + j
    BY <1>1, <2>3 DEF IsInjective
  <2>. QED BY <2>4
<1>7. [role |-> u, recovery |-> Range(v)] \in Assignments(cands, n, k)
  BY <1>4, <1>5, <1>6 DEF Assignments, C
<1>. QED BY <1>7 DEF u, v

\* One role after another makes an assignment, if there are candidates enough.
LEMMA GreedyIs ==
  ASSUME NEW cands, Range(cands) \in SUBSET Nat, IsFiniteSet(Range(cands)),
         NEW n \in Nat, NEW k \in Nat, n + k <= Cardinality(Range(cands)),
         NEW rating, Rated(rating, Range(cands), n)
  PROVE  Greedy(cands, n, k, rating) \in Assignments(cands, n, k)
<1>. DEFINE C == Range(cands)
            N == n + k
            Best(s, i) == BestFree(cands, IF i > n THEN 0 ELSE i, rating, Range(s))
            Is(f) == f = [i \in 0 .. N |-> IF i = 0 THEN <<>>
                                           ELSE Append(f[i - 1], Best(f[i - 1], i))]
            taken == CHOOSE f : Is(f)
            S == {s \in Seq(C) : IsInjective(s)}
            step == [p \in (1 .. N) \X S |-> IF Len(p[2]) = p[1] - 1
                                             THEN Append(p[2], Best(p[2], p[1])) ELSE <<>>]
<1>1. Greedy(cands, n, k, rating)
        = [role |-> SubSeq(taken[N], 1, n), recovery |-> Range(SubSeq(taken[N], n + 1, n + k))]
  BY DEF Greedy
<1>2. N \in Nat /\ N <= Cardinality(C)
  OBVIOUS
<1>3. ASSUME NEW i \in 1 .. N, NEW s, Took(s, C, i - 1)
      PROVE  Took(Append(s, Best(s, i)), C, i)
  <2>1. i - 1 \in Nat /\ i - 1 < Cardinality(C) /\ (i - 1) + 1 = i
        /\ (IF i > n THEN 0 ELSE i) \in 0 .. n
    <3>1. Cardinality(C) \in Nat
      BY FS_CardinalityType
    <3>. QED BY <1>2, <3>1
  <2>2. C \ Range(s) # {} /\ \A x \in C \ Range(s) : Took(Append(s, x), C, i)
    BY <1>3, <2>1, TookOneMore
  <2>3. Best(s, i) \in C \ Range(s)
    BY <2>1, <2>2, BestFreeIs
  <2>. HIDE DEF Best
  <2>. QED BY <2>2, <2>3
<1>. HIDE DEF C, N, Best
<1>4. \A s \in S : \A i : Len(s) = i => Took(s, C, i)
  BY DEF Took
<1>5. \A s, i : Took(s, C, i) => s \in S
  BY DEF Took
<1>6. <<>> \in S /\ Took(<<>>, C, 0)
  BY DEF IsInjective, Took
<1>7. step \in Steps(S, N)
  <2>1. ASSUME NEW i \in 1 .. N, NEW s \in S
        PROVE  (IF Len(s) = i - 1 THEN Append(s, Best(s, i)) ELSE <<>>) \in S
    <3>. HIDE DEF S
    <3>. QED BY <1>3, <1>4, <1>5, <1>6, <2>1
  <2>. HIDE DEF S
  <2>. QED BY <2>1 DEF Steps
<1>8. PICK h \in [0 .. N -> S] : Unfolds(h, <<>>, N, step)
  <2>. HIDE DEF step, S
  <2>. QED BY <1>2, <1>6, <1>7, RecursionExists
<1>. HIDE DEF S
<1>9. \A i \in 1 .. N : i - 1 \in 0 .. N /\ i \in 0 .. N /\ i # 0
  BY <1>2
<1>10. h[0] = <<>> /\ \A i \in 1 .. N : h[i] = IF Len(h[i - 1]) = i - 1
                                              THEN Append(h[i - 1], Best(h[i - 1], i)) ELSE <<>>
  <2>1. h[0] = <<>> /\ \A i \in 1 .. N : h[i] = step[<<i, h[i - 1]>>] /\ h[i - 1] \in S
    BY <1>8, <1>9 DEF Unfolds
  <2>. QED BY <2>1
<1>. DEFINE K == {i \in 0 .. N : Took(h[i], C, i)}
<1>11. 0 \in K
  <2>1. 0 \in 0 .. N
    BY <1>2
  <2>. QED BY <1>6, <1>10, <2>1
<1>12. ASSUME NEW i \in 1 .. N, i - 1 \in K PROVE i \in K
  <2>1. Took(h[i - 1], C, i - 1) /\ i \in 0 .. N
    BY <1>9, <1>12
  <2>2. h[i] = Append(h[i - 1], Best(h[i - 1], i))
    BY <1>10, <2>1 DEF Took
  <2>. QED BY <1>3, <2>1, <2>2
<1>13. \A i \in 0 .. N : i \in K
  <2>. HIDE DEF K
  <2>. QED BY <1>2, <1>11, <1>12, CountUp
<1>14. \A i \in 0 .. N : Took(h[i], C, i)
  BY <1>13
<1>15. \A i \in 1 .. N : h[i] = Append(h[i - 1], Best(h[i - 1], i))
  BY <1>9, <1>10, <1>14 DEF Took
<1>16. Is(h)
  <2>1. h = [i \in 0 .. N |-> h[i]] /\ \A i \in 0 .. N : i # 0 => i \in 1 .. N
    BY <1>2, <1>8
  <2>. QED BY <1>10, <1>15, <2>1
<1>17. Is(taken)
  <2>. HIDE DEF Is
  <2>. QED BY <1>16
<1>. HIDE DEF taken
<1>18. taken[0] = <<>> /\ \A i \in 1 .. N : taken[i] = Append(taken[i - 1], Best(taken[i - 1], i))
  <2>1. \A i \in 0 .. N : taken[i] = IF i = 0 THEN <<>>
                                     ELSE Append(taken[i - 1], Best(taken[i - 1], i))
    BY <1>17
  <2>2. taken[0] = <<>>
    BY <1>2, <2>1
  <2>. QED BY <1>9, <2>1, <2>2
<1>. DEFINE M == {i \in 0 .. N : Took(taken[i], C, i)}
<1>19. 0 \in M
  <2>1. 0 \in 0 .. N
    BY <1>2
  <2>. QED BY <1>6, <1>18, <2>1
<1>20. ASSUME NEW i \in 1 .. N, i - 1 \in M PROVE i \in M
  <2>1. Took(taken[i - 1], C, i - 1) /\ i \in 0 .. N
    BY <1>9, <1>20
  <2>. QED BY <1>3, <1>18, <2>1
<1>21. \A i \in 0 .. N : i \in M
  <2>. HIDE DEF M
  <2>. QED BY <1>2, <1>19, <1>20, CountUp
<1>22. Took(taken[N], C, N)
  BY <1>2, <1>21
<1>. QED BY <1>1, <1>22, TookIsAssignment DEF C, N

------------------------------------------------------------------------------
\* Where the profiles come from.  The resources of the plan get their values with
\* the roles; its rows, then the nodes, then the recovery rows are made from them.
PlanDesign == [ids    |-> Identities(Range(Resources), "units"),
               target |-> VisibleTarget(ticket.demand, WorkSummary)]
RoleDesign == [ids    |-> Identities(Range(Resources), "roles"),
               target |-> VisibleTarget(ticket.demand, ProposalSummary(proposal))]

Proposed == {"proposed", "materialized", "accepted"}

RowsInv ==
  /\ pc = "roles" =>
       planned.value["output-transport-allowance"] = PlanDesign.target
  /\ pc \in Planned =>
       plan.profile = [ids |-> PlanDesign.ids, target |-> PlanDesign.target, active |-> {}]

NodesInv ==
  /\ pc \in Proposed =>
       /\ proposal.profile.ids = RoleDesign.ids
       /\ proposal.profile.target = RoleDesign.target
       /\ proposal.profile = [ids    |-> proposal.profile.ids,
                              target |-> proposal.profile.target,
                              active |-> proposal.profile.active]
  /\ pc \in {"materialized", "accepted"} =>
       \A r \in DOMAIN graph.node :
         /\ graph.node[r].profile = proposal.profile
         /\ graph.node[r].recovery =
              [m \in plan.recovery |-> RecoveryProfile(plan.profile, proposal.profile)]

\* The value the planned output gets, whatever was resolved before.
LEMMA ExtendedTarget ==
  ASSUME NEW parameters, NEW demand, NEW s
  PROVE  Extended(parameters, demand, s).value["output-transport-allowance"]
           = VisibleTarget(demand, s)
<1>1. "output-transport-allowance" \in Range(Resources)
  BY 3 \in DOMAIN Resources, Resources[3] = "output-transport-allowance"
     DEF Resources, Range
<1>2. /\ DOMAIN ResourceValues(demand, s) = Range(Resources)
      /\ ResourceValues(demand, s)["output-transport-allowance"] = VisibleTarget(demand, s)
  BY <1>1 DEF ResourceValues
<1> QED
  BY <1>1, <1>2 DEF Extended, Over

\* The rows of a plan carry its own design.
LEMMA RowsInvHolds == Spec => []RowsInv
<1>1. Init => RowsInv
  BY DEF Init, RowsInv, Planned
<1>2. RowsInv /\ [Next]_vars => RowsInv'
  <2> SUFFICES ASSUME RowsInv, [Next]_vars PROVE RowsInv'
    OBVIOUS
  <2>1. CASE PartitionRoles
    <3>1. CASE pc' = "roles"
      <4>1. /\ planned' = Extended(planned, ticket.demand, WorkSummary)
            /\ ticket' = ticket /\ work' = work
        BY <2>1, <3>1 DEF PartitionRoles, Refuse
      <4>2. PlanDesign'.target = VisibleTarget(ticket.demand, WorkSummary)
        BY <4>1 DEF PlanDesign, WorkSummary
      <4> QED
        BY <3>1, <4>1, <4>2, ExtendedTarget DEF RowsInv, Planned
    <3>2. CASE pc' # "roles"
      BY <2>1, <3>2 DEF PartitionRoles, Refuse, RowsInv, Planned
    <3> QED
      BY <3>1, <3>2
  <2>2. CASE AssignModels
    <3>1. /\ pc = "roles" /\ ticket' = ticket /\ work' = work
          /\ pc' # "roles"
      BY <2>2 DEF AssignModels, Refuse
    <3>2. PlanDesign' = PlanDesign
      BY <3>1 DEF PlanDesign, WorkSummary
    <3>3. ASSUME pc' \in Planned
          PROVE  plan'.profile = Profile(planned, "units")
      <4>1. \E a : Adopt(a)
        BY <2>2, <3>3 DEF AssignModels, Refuse, Planned
      <4>2. PICK a : Adopt(a)
        BY <4>1
      <4> QED
        BY <4>2 DEF Adopt
    <3> QED
      BY <3>1, <3>2, <3>3 DEF RowsInv, Profile, PlanDesign
  <2>3. CASE CheckPlan \/ BuildProposal \/ Materialize \/ Validate \/ UNCHANGED vars
    <3>1. /\ ticket' = ticket /\ work' = work /\ plan' = plan /\ planned' = planned
      BY <2>3 DEF CheckPlan, BuildProposal, Materialize, Validate, vars
    <3>2. PlanDesign' = PlanDesign
      BY <3>1 DEF PlanDesign, WorkSummary
    <3>3. /\ pc' = "roles" => pc = "roles"
          /\ pc' \in Planned => pc \in Planned
      BY <2>3 DEF CheckPlan, BuildProposal, Materialize, Validate, vars, Refuse, Planned
    <3> QED
      BY <3>1, <3>2, <3>3 DEF RowsInv
  <2>4. CASE BuildWorkGraph \/ DesignParameters \/ OptimizeShape
    BY <2>4 DEF BuildWorkGraph, DesignParameters, OptimizeShape, Refuse, RowsInv, Planned
  <2> QED
    BY <2>1, <2>2, <2>3, <2>4 DEF Next
<1> QED
  BY <1>1, <1>2, PTL DEF Spec

\* The nodes of a proposal carry the design of its graph.
LEMMA NodesInvHolds == Spec => []NodesInv
<1>1. Init => NodesInv
  BY DEF Init, NodesInv, Proposed
<1>2. RowsInv /\ NodesInv /\ [Next]_vars => NodesInv'
  <2> SUFFICES ASSUME RowsInv, NodesInv, [Next]_vars PROVE NodesInv'
    OBVIOUS
  <2>1. CASE BuildProposal
    <3>1. CASE pc' = "proposed"
      <4> DEFINE parameters == ClosureParameters(RoleProposal, ticket.demand)
      <4>1. /\ pc = "checked" /\ ticket' = ticket
            /\ proposal' = [RoleProposal EXCEPT !.profile = ClosedProfile(@, parameters)]
        BY <2>1, <3>1 DEF BuildProposal, Refuse
      <4>2. RoleProposal.profile = plan.profile
        BY DEF RoleProposal
      <4>3. plan.profile = [ids |-> PlanDesign.ids, target |-> PlanDesign.target,
                            active |-> {}]
        BY <4>1 DEF RowsInv, Planned
      <4>4. /\ proposal'.profile = ClosedProfile(plan.profile, parameters)
            /\ GraphOf(proposal') = GraphOf(RoleProposal)
            /\ proposal'.node = RoleProposal.node
        BY <4>1, <4>2 DEF GraphOf, RoleProposal
      <4>5. ProposalSummary(proposal') = ProposalSummary(RoleProposal)
        BY <4>4 DEF ProposalSummary
      <4>6. Profile(parameters, "roles").target
              = VisibleTarget(ticket.demand, ProposalSummary(RoleProposal))
        <5>1. LET resources == Extended(NoParameters, ticket.demand,
                                        ProposalSummary(RoleProposal))
              IN parameters.value["output-transport-allowance"]
                   = resources.value["output-transport-allowance"]
          <6>1. "output-transport-allowance" \in
                   DOMAIN ResourceValues(ticket.demand, ProposalSummary(RoleProposal))
            BY 3 \in DOMAIN Resources, Resources[3] = "output-transport-allowance"
               DEF Resources, Range, ResourceValues
          <6> QED
            BY <6>1 DEF ClosureParameters, Extended, Over
        <5> QED
          BY <5>1, ExtendedTarget DEF Profile
      <4>7. /\ RoleDesign'.ids = Identities(Range(Resources), "roles")
            /\ RoleDesign'.target = VisibleTarget(ticket.demand, ProposalSummary(RoleProposal))
        BY <4>1, <4>5 DEF RoleDesign
      <4>8. /\ proposal'.profile.ids = RoleDesign'.ids
            /\ proposal'.profile.target = RoleDesign'.target
            /\ proposal'.profile = [ids    |-> proposal'.profile.ids,
                                    target |-> proposal'.profile.target,
                                    active |-> proposal'.profile.active]
        <5> HIDE DEF parameters
        <5> QED
          BY <4>3, <4>4, <4>6, <4>7 DEF ClosedProfile, Profile
      <4> QED
        BY <3>1, <4>8 DEF NodesInv, Proposed
    <3>2. CASE pc' # "proposed"
      BY <2>1, <3>2 DEF BuildProposal, Refuse, NodesInv, Proposed
    <3> QED
      BY <3>1, <3>2
  <2>2. CASE Materialize
    <3>1. /\ pc = "proposed" /\ pc' = "materialized" /\ graph' = MaterializedGraph
          /\ ticket' = ticket /\ plan' = plan /\ proposal' = proposal
      BY <2>2 DEF Materialize
    <3>2. RoleDesign' = RoleDesign
      BY <3>1 DEF RoleDesign
    <3>3. \A r \in DOMAIN graph'.node :
            /\ graph'.node[r].profile = proposal.profile
            /\ graph'.node[r].recovery =
                 [m \in plan.recovery |-> RecoveryProfile(plan.profile, proposal.profile)]
      BY <3>1 DEF MaterializedGraph
    <3> QED
      BY <3>1, <3>2, <3>3 DEF NodesInv, Proposed
  <2>3. CASE Validate \/ UNCHANGED vars
    <3>1. /\ ticket' = ticket /\ plan' = plan /\ proposal' = proposal /\ graph' = graph
      BY <2>3 DEF Validate, vars
    <3>2. RoleDesign' = RoleDesign
      BY <3>1 DEF RoleDesign
    <3>3. /\ pc' \in Proposed => pc \in Proposed
          /\ pc' \in {"materialized", "accepted"} => pc \in {"materialized", "accepted"}
      BY <2>3 DEF Validate, vars, Refuse, Proposed
    <3> QED
      BY <3>1, <3>2, <3>3 DEF NodesInv
  <2>4. CASE BuildWorkGraph \/ DesignParameters \/ OptimizeShape \/ PartitionRoles
               \/ AssignModels \/ CheckPlan
    BY <2>4 DEF BuildWorkGraph, DesignParameters, OptimizeShape, PartitionRoles,
                AssignModels, CheckPlan, Refuse, NodesInv, Proposed
  <2> QED
    BY <2>1, <2>2, <2>3, <2>4 DEF Next
<1> QED
  BY <1>1, <1>2, RowsInvHolds, PTL DEF Spec

\* Whatever the tickets, the pools and the shapes the optimizers choose: the
\* identities and the planned output with which any model answers for a role come
\* from one and the same design, of the plan or of the proposal.
THEOREM ProfilesOfOneDesignHolds == Spec => []ProfilesOfOneDesign
<1>1. RowsInv /\ NodesInv => ProfilesOfOneDesign
  <2> SUFFICES ASSUME RowsInv, NodesInv, pc = "accepted",
                      NEW r \in DOMAIN graph.node, NEW m \in Answering(r)
               PROVE  OfOneDesign(AnswersWith(r, m))
    BY DEF ProfilesOfOneDesign
  <2>1. /\ graph.node[r].profile = proposal.profile
        /\ graph.node[r].recovery =
             [n \in plan.recovery |-> RecoveryProfile(plan.profile, proposal.profile)]
        /\ proposal.profile.ids = RoleDesign.ids
        /\ proposal.profile.target = RoleDesign.target
        /\ proposal.profile = [ids    |-> proposal.profile.ids,
                               target |-> proposal.profile.target,
                               active |-> proposal.profile.active]
    BY DEF NodesInv, Proposed
  <2>2. /\ plan.profile.ids = PlanDesign.ids
        /\ plan.profile.target = PlanDesign.target
    BY DEF RowsInv, Planned
  <2>3. CASE m \in plan.recovery
    <3>1. AnswersWith(r, m) = RecoveryProfile(plan.profile, proposal.profile)
      BY <2>1, <2>3 DEF AnswersWith
    <3>2. /\ AnswersWith(r, m).ids = PlanDesign.ids
          /\ AnswersWith(r, m).target = PlanDesign.target
      BY <2>1, <2>2, <3>1 DEF RecoveryProfile
    <3> QED
      BY <3>2 DEF OfOneDesign, PlanDesign
  <2>4. CASE m \notin plan.recovery
    <3>1. AnswersWith(r, m) = proposal.profile
      BY <2>1, <2>4 DEF AnswersWith
    <3> QED
      BY <2>1, <3>1 DEF OfOneDesign, RoleDesign
  <2> QED
    BY <2>3, <2>4
<1> QED
  BY <1>1, RowsInvHolds, NodesInvHolds, PTL

------------------------------------------------------------------------------
\* What the last layers make: the plan is an assignment and the models left, the
\* proposal has the graph of the roles, and the execution graph is made of both.
Drawn == {"materialized", "accepted"}

PlanInv ==
  /\ pc \in Planned =>
       /\ Chosen \in Assignments(Candidates, Len(roles), shape.recovery)
       /\ plan.standby = Range(Candidates) \ Assigned(Chosen)
  /\ pc \in Proposed =>
       /\ proposal.node = RoleGraph(roles, work.graph).node
       /\ proposal.edge = RoleGraph(roles, work.graph).edge
       /\ proposal.final = Leaves(RoleGraph(roles, work.graph))
  /\ pc \in Drawn => graph = MaterializedGraph

\* The roles make a graph without cycles.
LEMMA RolesAreDag ==
  ASSUME LayersInv, roles # <<>>
  PROVE  RoleDag(RoleGraph(roles, work.graph), Len(roles))
<1>1. WorkIs(work) /\ RolesCut(roles, work.graph, shape.team)
  BY DEF LayersInv
<1>2. PICK order : /\ InOrder(order, work.graph, work.graph.node)
                   /\ CutsInto(roles, order, Len(order))
  BY <1>1 DEF RolesCut
<1>. QED BY <1>1, <1>2, RoleGraphIs DEF WorkIs

\* The execution graph is made of the proposal and the plan alone.
LEMMA SameGraph ==
  ASSUME proposal' = proposal, plan' = plan, metric' = metric
  PROVE  MaterializedGraph' = MaterializedGraph
BY DEF MaterializedGraph, MapThenSumSet, MapThenFoldSet

\* Any assignment that is adopted is one of the candidates.
LEMMA AdoptedIs ==
  ASSUME NEW n, NEW k, NEW a \in Assignments(Candidates, n, k), Adopt(a), pool' = pool
  PROVE  /\ Chosen' \in Assignments(Candidates, n, k)
         /\ plan'.standby = Range(Candidates') \ Assigned(Chosen')
<1>1. a = [role |-> a.role, recovery |-> a.recovery]
  BY AssignmentIs
<1>2. Chosen' = [role |-> a.role, recovery |-> a.recovery]
  BY DEF Adopt, Chosen
<1>3. plan'.standby = Range(Candidates) \ Assigned(a)
  BY DEF Adopt
<1>. QED BY <1>1, <1>2, <1>3, SamePool

\* The last layers make what PlanInv says.
LEMMA PlanInvHolds == Spec => []PlanInv
<1>1. Init => PlanInv
  BY DEF Init, PlanInv, Planned, Proposed, Drawn
<1>2. LayersInv /\ PlanInv /\ [Next]_vars => PlanInv'
  <2>. SUFFICES ASSUME LayersInv, PlanInv, [Next]_vars PROVE PlanInv'
    OBVIOUS
  <2>1. CASE AssignModels
    <3>. DEFINE n == Len(roles)
                k == shape.recovery
    <3>1. /\ pc = "roles" /\ pool' = pool /\ roles' = roles /\ shape' = shape
          /\ pc' \in {"refused", "plan"}
      BY <2>1 DEF AssignModels, Refuse
    <3>2. ASSUME pc' = "plan" PROVE \E a \in Assignments(Candidates, n, k) : Adopt(a)
      <4>1. /\ metric' \in Metrics
            /\ \/ \E a \in Optimal(Candidates, n, k, metric') : Adopt(a)
               \/ \E a \in Assignments(Candidates, n, k) : Adopt(a)
               \/ Adopt(Greedy(Candidates, n, k, metric'))
        BY <2>1, <3>2 DEF AssignModels, Refuse
      <4>2. Greedy(Candidates, n, k, metric') \in Assignments(Candidates, n, k)
        <5>1. roles # <<>> /\ pool \in Pools
          BY <3>1 DEF LayersInv
        <5>2. n \in Nat /\ k \in Nat /\ n + k <= Len(Candidates)
          BY <5>1, RolesNumber
        <5>0. pool \in Pools
          BY <5>1
        <5>3. /\ Candidates \in Seq(Nat) /\ Len(Candidates) \in Nat
              /\ Range(Candidates) = Range(pool) \ Routed /\ IsFiniteSet(Range(Candidates))
              /\ Cardinality(Range(Candidates)) = Len(Candidates)
              /\ Cardinality(Range(pool)) \in Nat /\ Len(Candidates) <= Cardinality(Range(pool))
          BY <5>0, CandidatesAre
        <5>4. Range(Candidates) \in SUBSET Nat
          BY <5>3, PlacesFinite
        <5>5. Rated(metric', Range(Candidates), n)
          <6>1. \A r \in 0 .. n : r \in 0 .. Cardinality(Range(pool))
            BY <5>2, <5>3
          <6>2. \A m \in Range(pool) :
                  /\ metric'.cost[m] \in Nat
                  /\ \A r \in 0 .. Cardinality(Range(pool)) :
                       metric'.capability[m][r] \in Nat /\ metric'.economy[m][r] \in Nat
            BY <4>1, <5>1, PlanAssumption
          <6>. HIDE DEF n
          <6>. QED BY <5>3, <6>1, <6>2 DEF Rated
        <5>. QED BY <5>2, <5>3, <5>4, <5>5, GreedyIs
      <4>. HIDE DEF n, k
      <4>. QED BY <4>1, <4>2 DEF Optimal
    <3>3. ASSUME pc' = "plan"
          PROVE  /\ (Chosen \in Assignments(Candidates, Len(roles), shape.recovery))'
                 /\ (plan.standby = Range(Candidates) \ Assigned(Chosen))'
      <4>1. PICK a \in Assignments(Candidates, n, k) : Adopt(a)
        BY <3>2, <3>3
      <4>2. /\ Chosen' \in Assignments(Candidates, n, k)
            /\ plan'.standby = Range(Candidates') \ Assigned(Chosen')
        BY <3>1, <4>1, AdoptedIs
      <4>. QED BY <3>1, <4>2, SamePool
    <3>. QED BY <3>1, <3>3 DEF PlanInv, Planned, Proposed, Drawn
  <2>2. CASE CheckPlan \/ BuildProposal \/ Materialize \/ Validate \/ UNCHANGED vars
    <3>1. /\ pool' = pool /\ roles' = roles /\ shape' = shape /\ work' = work /\ plan' = plan
          /\ metric' = metric
      BY <2>2 DEF CheckPlan, BuildProposal, Materialize, Validate, vars
    <3>2. pc' \in Planned => pc \in Planned
      BY <2>2 DEF CheckPlan, BuildProposal, Materialize, Validate, vars, Refuse, Planned
    <3>3. Candidates' = Candidates /\ Chosen' = Chosen
      BY <3>1, SamePool DEF Chosen
    <3>4. (pc \in Planned =>
             /\ Chosen \in Assignments(Candidates, Len(roles), shape.recovery)
             /\ plan.standby = Range(Candidates) \ Assigned(Chosen))'
      BY <3>1, <3>2, <3>3 DEF PlanInv
    <3>5. CASE BuildProposal
      <4>1. pc' \in {"refused", "proposed"} /\ (pc' = "proposed" =>
              \E c : proposal' = [RoleProposal EXCEPT !.profile = c])
        BY <3>5 DEF BuildProposal, Refuse
      <4>2. ASSUME pc' = "proposed"
            PROVE  /\ proposal'.node = RoleGraph(roles, work.graph).node
                   /\ proposal'.edge = RoleGraph(roles, work.graph).edge
                   /\ proposal'.final = Leaves(RoleGraph(roles, work.graph))
        <5>1. PICK c : proposal' = [RoleProposal EXCEPT !.profile = c]
          BY <4>1, <4>2
        <5>. QED BY <5>1 DEF RoleProposal
      <4>. QED BY <3>1, <3>4, <4>1, <4>2 DEF PlanInv, Proposed, Drawn
    <3>6. CASE Materialize
      <4>1. pc = "proposed" /\ pc' = "materialized" /\ graph' = MaterializedGraph
            /\ proposal' = proposal
        BY <3>6 DEF Materialize
      <4>2. MaterializedGraph' = MaterializedGraph
        BY <3>1, <4>1, SameGraph
      <4>. QED BY <3>1, <3>4, <4>1, <4>2 DEF PlanInv, Proposed, Drawn
    <3>7. CASE CheckPlan
      <4>1. pc' \in {"refused", "checked"}
        BY <3>7 DEF CheckPlan, Refuse
      <4>. QED BY <3>4, <4>1 DEF PlanInv, Proposed, Drawn
    <3>8. CASE Validate \/ UNCHANGED vars
      <4>1. proposal' = proposal /\ graph' = graph
            /\ (pc' \in Proposed => pc \in Proposed) /\ (pc' \in Drawn => pc \in Drawn)
        BY <3>8 DEF Validate, vars, Refuse, Proposed, Drawn
      <4>2. MaterializedGraph' = MaterializedGraph
        BY <3>1, <4>1, SameGraph
      <4>. QED BY <3>1, <3>4, <4>1, <4>2 DEF PlanInv
    <3>. QED BY <2>2, <3>5, <3>6, <3>7, <3>8
  <2>3. CASE BuildWorkGraph \/ DesignParameters \/ OptimizeShape \/ PartitionRoles
    <3>1. pc' \notin Planned /\ pc' \notin Proposed /\ pc' \notin Drawn
      BY <2>3 DEF BuildWorkGraph, DesignParameters, OptimizeShape, PartitionRoles, Refuse,
                  Planned, Proposed, Drawn
    <3>. QED BY <3>1 DEF PlanInv
  <2>. QED BY <2>1, <2>2, <2>3 DEF Next
<1>. QED BY <1>1, <1>2, LayersInvHolds, PTL DEF Spec

------------------------------------------------------------------------------
\* The surfaces a plan may have, each after those it is made from.
SurfaceRank(d) ==
  IF d \in {"parallel-structure-signal", "dependency-coupling-signal"} THEN 0
  ELSE IF d = "work-dag-partitioning" THEN 1
  ELSE IF d \in {"role-model-objective-balance", "role-reasoning-effort",
                 "initial-recovery-allocation"} THEN 2 ELSE 3

Surfaces ==
  {"work-dag-partitioning", "candidate-role-binding", "role-model-objective-balance",
   "role-reasoning-effort", "parallel-structure-signal", "dependency-coupling-signal",
   "initial-recovery-allocation", "runtime-standby-replanning"}

\* There are finitely many surfaces.
LEMMA SurfacesFinite == IsFiniteSet(Surfaces)
<1>. DEFINE f == [i \in 1 .. 8 |-> <<"work-dag-partitioning", "candidate-role-binding",
                    "role-model-objective-balance", "role-reasoning-effort",
                    "parallel-structure-signal", "dependency-coupling-signal",
                    "initial-recovery-allocation", "runtime-standby-replanning">>[i]]
<1>1. f = [i \in 1 .. 8 |-> f[i]] /\ IsFiniteSet(1 .. 8)
  BY UpTo
<1>2. Surfaces \in SUBSET Range(f)
  <2>1. /\ f[1] = "work-dag-partitioning" /\ f[2] = "candidate-role-binding"
        /\ f[3] = "role-model-objective-balance" /\ f[4] = "role-reasoning-effort"
        /\ f[5] = "parallel-structure-signal" /\ f[6] = "dependency-coupling-signal"
        /\ f[7] = "initial-recovery-allocation" /\ f[8] = "runtime-standby-replanning"
    OBVIOUS
  <2>2. DOMAIN f = 1 .. 8 /\ 1 \in 1 .. 8 /\ 2 \in 1 .. 8 /\ 3 \in 1 .. 8 /\ 4 \in 1 .. 8
        /\ 5 \in 1 .. 8 /\ 6 \in 1 .. 8 /\ 7 \in 1 .. 8 /\ 8 \in 1 .. 8
    OBVIOUS
  <2>. HIDE DEF f
  <2>. QED BY <2>1, <2>2 DEF Surfaces, Range
<1>. HIDE DEF f
<1>3. IsFiniteSet(Range(f))
  BY <1>1, ImageIsFinite
<1>. QED BY <1>2, <1>3, FS_Subset

\* The designs of a plan have no problem, whatever the graph and the candidates.
LEMMA DesignsWithoutProblem ==
  ASSUME NEW s, NEW cands
  PROVE  DesignProblems(Designs(s, cands)) = {}
<1>. DEFINE active == Decisions(s, cands)
            designs == Designs(s, cands)
            edges == UNION {{<<p, d>> : p \in designs[d].parents} : d \in DOMAIN designs}
            G == [node |-> active, edge |-> edges]
            rank == [d \in active |-> SurfaceRank(d)]
<1>1. active \in SUBSET Surfaces
  BY DEF Decisions, GraphDecisions, RecoveryDecisions, Surfaces
<1>2. DOMAIN designs = active /\ \A d \in active : designs[d].parents = Dataflow(d) \cap active
  BY DEF Designs, DesignedParents
<1>. HIDE DEF active, designs
<1>3. \A p, d : <<p, d>> \in edges => d \in active /\ p \in active /\ p \in Dataflow(d)
  BY <1>2
<1>4. \A e \in edges : e[1] \in active
  BY <1>2
<1>5. \A d \in Surfaces : \A p \in Dataflow(d) : SurfaceRank(p) < SurfaceRank(d)
  BY DEF Surfaces, Dataflow, SurfaceRank
<1>6. Acyclic(G)
  <2>1. IsFiniteSet(G.node)
    BY <1>1, SurfacesFinite, FS_Subset
  <2>2. \A x \in G.node : rank[x] \in Nat
    BY DEF SurfaceRank
  <2>3. \A x, y \in G.node : <<x, y>> \in G.edge => rank[x] < rank[y]
    <3>. SUFFICES ASSUME NEW x \in active, NEW y \in active, <<x, y>> \in edges
                  PROVE  rank[x] < rank[y]
      OBVIOUS
    <3>1. SurfaceRank(x) < SurfaceRank(y)
      <4>1. x \in Dataflow(y) /\ y \in Surfaces
        BY <1>1, <1>3
      <4>. QED BY <1>5, <4>1
    <3>. QED BY <3>1
  <2>. HIDE DEF G, rank
  <2>. QED BY <2>1, <2>2, <2>3, RankedIsAcyclic
<1>7. \A e \in UNION {{<<p, d>> : p \in designs[d].parents} : d \in DOMAIN designs} :
        e[1] \in DOMAIN designs
  BY <1>2, <1>4
<1>8. Acyclic([node |-> DOMAIN designs,
               edge |-> UNION {{<<p, d>> : p \in designs[d].parents} : d \in DOMAIN designs}])
  BY <1>2, <1>6
<1>9. DesignProblems(designs) = {}
  BY <1>7, <1>8 DEF DesignProblems
<1>. QED BY <1>9 DEF designs

\* What is resolved covers what is designed.
LEMMA ResolvedCovers ==
  ASSUME NEW designs, NEW s, NEW sh
  PROVE  CoverageProblems(designs, Resolved(designs, s, sh)) = {}
<1>1. DOMAIN Resolved(designs, s, sh) = DOMAIN designs
  BY DEF Resolved, Restrict
<1>. QED BY <1>1 DEF CoverageProblems

\* A plan has experts, each a model of its own, none of them set aside.
LEMMA PlanWithoutProblem ==
  ASSUME LayersInv, PlanInv, pc \in Planned, NEW advisory
  PROVE  PlanProblems(plan, advisory) \subseteq {"advisory"}
<1>1. /\ roles # <<>> /\ Chosen \in Assignments(Candidates, Len(roles), shape.recovery)
  BY DEF LayersInv, PlanInv
<1>2. Len(roles) \in Nat /\ Len(roles) >= 1
  BY <1>1, RolesNumber
<1>3. /\ plan.selected \in [1 .. Len(roles) -> Range(Candidates)] /\ IsInjective(plan.selected)
      /\ Range(plan.selected) \cap plan.recovery = {}
  BY <1>1, AssignmentIs DEF Chosen
<1>4. plan.selected # <<>>
  <2>1. 1 \in DOMAIN plan.selected
    BY <1>2, <1>3
  <2>. QED BY <2>1
<1>5. "no expert" \notin PlanProblems(plan, advisory)
  BY <1>4 DEF PlanProblems
<1>6. "duplicate model" \notin PlanProblems(plan, advisory)
  BY <1>3 DEF PlanProblems
<1>7. PlanProblems(plan, advisory) \subseteq {"advisory", "no expert", "duplicate model"}
  BY DEF PlanProblems
<1>. QED BY <1>5, <1>6, <1>7

\* The closure of a proposal has no problem either.
LEMMA ClosureWithoutProblem ==
  ASSUME LayersInv, pc \in Planned
  PROVE  ClosureProblems(RoleProposal) = {}
<1>. DEFINE R == RoleGraph(roles, work.graph)
            P == RoleProposal
<1>1. roles # <<>>
  BY DEF LayersInv
<1>2. RoleDag(R, Len(roles))
  BY <1>1, RolesAreDag
<1>3. P.node = R.node /\ P.edge = R.edge
  BY DEF RoleProposal
<1>. HIDE DEF P
<1>4. GraphOf(P).node = R.node /\ GraphOf(P).edge = R.edge
  BY <1>3 DEF GraphOf
<1>. HIDE DEF R
<1>5. RoleDag(GraphOf(P), Len(roles))
  BY <1>2, <1>4 DEF RoleDag
<1>6. Acyclic(GraphOf(P)) /\ R.node # {} /\ R.edge \subseteq R.node \X R.node
  BY <1>2, <1>5, RoleDagIs
<1>7. \A e \in P.edge : {e[1], e[2]} \ P.node = {}
  BY <1>3, <1>6
<1>8. ClosureProblems(P) = {}
  BY <1>3, <1>6, <1>7 DEF ClosureProblems
<1>. QED BY <1>8 DEF P

------------------------------------------------------------------------------
\* The execution graph: a node for every role, with its model and its work.
GraphIs(g, n) ==
  /\ DOMAIN g.node = 1 .. n
  /\ RoleDag([node |-> DOMAIN g.node, edge |-> g.edge], n)
  /\ g.edge = RoleGraph(roles, work.graph).edge
  /\ g.stages = Generations(proposal) /\ RoleDag(proposal, n) /\ proposal.edge = g.edge
  /\ g.entry = (1 .. n) \ {e[2] : e \in g.edge} /\ g.final = {n} /\ g.required = 1 .. n
  /\ \A r \in 1 .. n : g.node[r].model = plan.selected[r] /\ g.node[r].work = {r}
  /\ g.calls = Max({1, n + Cardinality(plan.recovery) + Cardinality(plan.standby)})

\* What is materialized is a graph of the roles.
LEMMA DrawnIs ==
  ASSUME LayersInv, PlanInv, pc \in Drawn
  PROVE  GraphIs(graph, Len(roles))
<1>. DEFINE R == RoleGraph(roles, work.graph)
            n == Len(roles)
<1>1. /\ roles # <<>> /\ graph = MaterializedGraph
      /\ proposal.node = R.node /\ proposal.edge = R.edge /\ proposal.final = Leaves(R)
  BY DEF LayersInv, PlanInv, Drawn, Planned, Proposed
<1>2. RoleDag(R, n)
  BY <1>1, RolesAreDag
<1>3. R.node = 1 .. n /\ Leaves(R) = {n} /\ Cardinality(R.node) = n
  BY <1>2, RoleDagIs DEF RoleDag
<1>. HIDE DEF R, n
<1>4. /\ DOMAIN graph.node = proposal.node /\ graph.edge = proposal.edge
      /\ graph.stages = Generations(proposal)
      /\ graph.entry = proposal.node \ {e[2] : e \in proposal.edge}
      /\ graph.final = proposal.final /\ graph.required = proposal.node
      /\ graph.calls = Max({1, Cardinality(proposal.node) + Cardinality(plan.recovery)
                                 + Cardinality(plan.standby)})
  BY <1>1 DEF MaterializedGraph
<1>5. \A r \in proposal.node : graph.node[r].model = plan.selected[r] /\ graph.node[r].work = {r}
  BY <1>1 DEF MaterializedGraph
<1>6. RoleDag(proposal, n)
  BY <1>1, <1>2 DEF RoleDag
<1>7. RoleDag([node |-> DOMAIN graph.node, edge |-> graph.edge], n)
  BY <1>1, <1>2, <1>4 DEF RoleDag
<1>8. GraphIs(graph, n)
  BY <1>1, <1>3, <1>4, <1>5, <1>6, <1>7 DEF GraphIs, R
<1>. QED BY <1>8 DEF n

\* Its stages hold every role once, and whoever is handed a result works later.
LEMMA StagesFollow ==
  ASSUME NEW g, NEW n, GraphIs(g, n)
  PROVE  /\ StageIssues(g) = {}
         /\ \A p, q : <<p, q>> \in g.edge => StageOf(g, p) < StageOf(g, q)
<1>. DEFINE gens == Generations(proposal)
<1>1. /\ IsFiniteSet(proposal.node) /\ Acyclic(proposal) /\ proposal.node = 1 .. n
      /\ g.stages = gens /\ proposal.edge = g.edge /\ DOMAIN g.node = 1 .. n
      /\ g.edge \subseteq (1 .. n) \X (1 .. n)
  BY RoleDagIs DEF GraphIs, RoleDag
<1>2. /\ DOMAIN gens = 1 .. Len(gens) /\ gens \in Seq(SUBSET proposal.node)
      /\ \A x \in proposal.node : \E i \in DOMAIN gens : x \in gens[i]
      /\ \A i, j \in DOMAIN gens : i # j => gens[i] \cap gens[j] = {}
      /\ \A x, y \in proposal.node, i, j \in DOMAIN gens :
           <<x, y>> \in proposal.edge /\ x \in gens[i] /\ y \in gens[j] => i < j
  BY <1>1, GenerationsDivide
<1>3. "duplicate_stage_node" \notin StageIssues(g)
  BY <1>1, <1>2 DEF StageIssues
<1>4. Staged(g) = DOMAIN g.node
  <2>1. \A i \in DOMAIN gens : gens[i] \subseteq 1 .. n
    BY <1>1, <1>2
  <2>2. \A x \in 1 .. n : \E i \in DOMAIN gens : x \in gens[i]
    BY <1>1, <1>2
  <2>. HIDE DEF gens
  <2>3. UNION Range(gens) = 1 .. n
    BY <2>1, <2>2 DEF Range
  <2>. QED BY <1>1, <2>3 DEF Staged
<1>5. \A x \in 1 .. n : StageOf(g, x) \in DOMAIN gens /\ x \in gens[StageOf(g, x)]
  BY <1>1, <1>2 DEF StageOf
<1>6. \A p, q : <<p, q>> \in g.edge => StageOf(g, p) < StageOf(g, q)
  <2>. SUFFICES ASSUME NEW p, NEW q, <<p, q>> \in g.edge PROVE StageOf(g, p) < StageOf(g, q)
    OBVIOUS
  <2>1. p \in 1 .. n /\ q \in 1 .. n
    BY <1>1
  <2>. HIDE DEF gens
  <2>. QED BY <1>1, <1>2, <1>5, <2>1
<1>7. ASSUME NEW e \in g.edge PROVE ~(StageOf(g, e[2]) <= StageOf(g, e[1]))
  <2>1. e[1] \in 1 .. n /\ e[2] \in 1 .. n /\ e = <<e[1], e[2]>>
    BY <1>1
  <2>2. StageOf(g, e[1]) < StageOf(g, e[2])
    BY <1>6, <2>1
  <2>3. StageOf(g, e[1]) \in Int /\ StageOf(g, e[2]) \in Int
    BY <1>2, <1>5, <2>1
  <2>. QED BY <2>2, <2>3
<1>8. "stage_coverage" \notin StageIssues(g)
  BY <1>4 DEF StageIssues
<1>9. "stage_order" \notin StageIssues(g)
  BY <1>7 DEF StageIssues
<1>10. StageIssues(g) \subseteq {"duplicate_stage_node", "stage_coverage", "stage_order"}
  BY DEF StageIssues
<1>. QED BY <1>3, <1>6, <1>8, <1>9, <1>10

\* The engine finds nothing wrong with it but the rounded cost.
LEMMA GraphWithoutProblem ==
  ASSUME LayersInv, PlanInv, pc \in Drawn
  PROVE  Issues(graph) \subseteq {"cost_reconciliation"}
<1>. DEFINE n == Len(roles)
            g == graph
            Q == [node |-> DOMAIN g.node, edge |-> g.edge]
<1>1. GraphIs(g, n)
  BY DrawnIs
<1>2. /\ roles # <<>> /\ pool \in Pools
      /\ Chosen \in Assignments(Candidates, n, shape.recovery)
  BY DEF LayersInv, PlanInv, Drawn, Planned
<1>3. /\ plan.selected \in [1 .. n -> Range(Candidates)] /\ IsInjective(plan.selected)
  BY <1>2, AssignmentIs DEF Chosen
<1>4. \A r \in 1 .. n : plan.selected[r] \notin Routed
  <2>1. Range(Candidates) = Range(pool) \ Routed
    BY <1>2, CandidatesAre
  <2>. QED BY <1>3, <2>1
<1>5. n \in Nat /\ n >= 1
  BY <1>2, RolesNumber
<1>6. /\ DOMAIN g.node = 1 .. n /\ g.edge \subseteq (1 .. n) \X (1 .. n)
      /\ Acyclic(Q) /\ Leaves(Q) = {n} /\ \A e \in g.edge : e[1] # e[2]
  <2>1. RoleDag(Q, n) /\ DOMAIN g.node = 1 .. n /\ Q.node = DOMAIN g.node /\ Q.edge = g.edge
    BY <1>1 DEF GraphIs
  <2>. HIDE DEF Q
  <2>. QED BY <2>1, RoleDagIs
<1>. HIDE DEF n, g
<1>7. ShapeIssues(g) = {}
  <2>1. 1 \in DOMAIN g.node
    BY <1>5, <1>6
  <2>2. \A r \in DOMAIN g.node : g.node[r].work = {r} /\ g.node[r].model = plan.selected[r]
    BY <1>1, <1>6 DEF GraphIs
  <2>3. \A r, s \in DOMAIN g.node : r # s => g.node[r].model # g.node[s].model
    <3>1. DOMAIN plan.selected = DOMAIN g.node
      BY <1>3, <1>6
    <3>2. \A r, s \in DOMAIN g.node : r # s => plan.selected[r] # plan.selected[s]
      BY <1>3, <3>1 DEF IsInjective
    <3>. QED BY <2>2, <3>2
  <2>4. g.required \subseteq UNION {g.node[r].work : r \in DOMAIN g.node}
    BY <1>1, <1>6, <2>2 DEF GraphIs
  <2>5. \A r \in DOMAIN g.node : g.node[r].work # {} /\ g.node[r].model \notin Routed
    BY <1>4, <1>6, <2>2
  <2>. QED BY <2>1, <2>3, <2>4, <2>5 DEF ShapeIssues
<1>8. EdgeIssues(g) = {}
  <2>1. \A e \in g.edge : {e[1], e[2]} \ DOMAIN g.node = {}
    BY <1>6
  <2>. QED BY <1>6, <2>1 DEF EdgeIssues
<1>9. StageIssues(g) = {}
  BY <1>1, StagesFollow
<1>10. TerminalIssues(g) = {}
  <2>1. g.final = Leaves(Q)
    BY <1>1, <1>6 DEF GraphIs
  <2>2. g.entry = Roots(Q)
    <3>1. g.entry = (1 .. n) \ {e[2] : e \in g.edge} /\ Q.node = 1 .. n /\ Q.edge = g.edge
      BY <1>1, <1>6 DEF GraphIs
    <3>. HIDE DEF Q
    <3>2. \A x : x \in Roots(Q) <=> x \in 1 .. n /\ \A y \in 1 .. n : <<y, x>> \notin g.edge
      BY <3>1 DEF Roots, Predecessors
    <3>3. \A x \in 1 .. n : x \in {e[2] : e \in g.edge} <=> \E y \in 1 .. n : <<y, x>> \in g.edge
      <4>. SUFFICES ASSUME NEW x \in 1 .. n
                    PROVE  x \in {e[2] : e \in g.edge} <=> \E y \in 1 .. n : <<y, x>> \in g.edge
        OBVIOUS
      <4>1. ASSUME NEW e \in g.edge, x = e[2] PROVE \E y \in 1 .. n : <<y, x>> \in g.edge
        <5>1. e = <<e[1], e[2]>> /\ e[1] \in 1 .. n
          BY <1>6
        <5>2. <<e[1], x>> \in g.edge
          BY <4>1, <5>1
        <5>. QED BY <5>1, <5>2
      <4>2. ASSUME NEW y \in 1 .. n, <<y, x>> \in g.edge PROVE x \in {e[2] : e \in g.edge}
        <5>1. <<y, x>>[2] = x
          OBVIOUS
        <5>. QED BY <4>2, <5>1
      <4>. QED BY <4>1, <4>2
    <3>4. \A x : x \in g.entry <=> x \in Roots(Q)
      BY <3>1, <3>2, <3>3
    <3>. QED BY <3>4
  <2>. QED BY <2>1, <2>2 DEF TerminalIssues
<1>11. CostIssues(g) \subseteq {"cost_reconciliation"}
  BY DEF CostIssues
<1>12. Issues(g) \subseteq {"cost_reconciliation"}
  BY <1>7, <1>8, <1>9, <1>10, <1>11 DEF Issues
<1>. QED BY <1>12 DEF g

------------------------------------------------------------------------------
\* A run that is refused is refused for what its ticket or its pool says, or for
\* the rounded cost: each layer accepts what the layers before it make.  From
\* LayersInv and PlanInv, layer by layer.
THEOREM OnlyInputsRefusedSafe == Spec => []OnlyInputsRefused
<1>1. Init => OnlyInputsRefused
  BY DEF Init, OnlyInputsRefused
<1>2. LayersInv /\ PlanInv /\ OnlyInputsRefused /\ [Next]_vars => OnlyInputsRefused'
  <2>. SUFFICES ASSUME LayersInv, PlanInv, OnlyInputsRefused, [Next]_vars
                PROVE  OnlyInputsRefused'
    OBVIOUS
  <2>1. CASE BuildWorkGraph
    BY <2>1 DEF BuildWorkGraph, Refuse, OnlyInputsRefused
  <2>2. CASE DesignParameters
    <3>1. DesignProblems(Designs(WorkSummary, Candidates)) = {}
      BY DesignsWithoutProblem
    <3>. QED BY <2>2, <3>1 DEF DesignParameters, Refuse, OnlyInputsRefused
  <2>3. CASE OptimizeShape
    <3>1. \A s : CoverageProblems(planned.design, Resolved(planned.design, WorkSummary, s)) = {}
      BY ResolvedCovers
    <3>2. UNCHANGED refusal
      BY <2>3, <3>1 DEF OptimizeShape
    <3>. QED BY <3>2 DEF OnlyInputsRefused
  <2>4. CASE PartitionRoles
    <3>1. WorkIs(work) /\ Shapely(shape) /\ pool \in Pools
      BY <2>4 DEF PartitionRoles, LayersInv, Early
    <3>2. ASSUME NEW order \in TopologicalOrders(work.graph), NEW weight
          PROVE  Acyclic(RoleGraph(Partition(order, shape.team, weight), work.graph))
      <4>. DEFINE parts == Partition(order, shape.team, weight)
                  R == RoleGraph(parts, work.graph)
      <4>1. RolesCut(parts, work.graph, shape.team)
        BY <3>1, <3>2, PartitionCuts
      <4>. HIDE DEF parts
      <4>2. PICK o : InOrder(o, work.graph, work.graph.node) /\ CutsInto(parts, o, Len(o))
        BY <4>1 DEF RolesCut
      <4>3. RoleDag(R, Len(parts))
        BY <3>1, <4>2, RoleGraphIs DEF WorkIs
      <4>. HIDE DEF R
      <4>4. Acyclic(R)
        BY <4>3, RoleDagIs
      <4>. QED BY <4>4 DEF R, parts
    <3>3. UNCHANGED refusal
      <4>1. PICK order \in TopologicalOrders(work.graph) :
              \E weight \in WeightsOf(work.graph.node) :
                Acyclic(RoleGraph(Partition(order, shape.team, weight), work.graph))
                  => UNCHANGED refusal
        BY <2>4 DEF PartitionRoles
      <4>. QED BY <3>2, <4>1
    <3>. QED BY <3>3 DEF OnlyInputsRefused
  <2>5. CASE AssignModels
    <3>1. pc = "roles" /\ roles # <<>>
      BY <2>5 DEF AssignModels, LayersInv
    <3>2. Len(roles) + shape.recovery <= Len(Candidates) /\ Len(roles) + shape.recovery \in Nat
      BY <3>1, RolesNumber
    <3>3. Len(Candidates) \in Nat
      BY CandidatesAre DEF LayersInv
    <3>4. ~TooFewCandidates
      BY <3>2, <3>3 DEF TooFewCandidates
    <3>. QED BY <2>5, <3>4 DEF AssignModels, OnlyInputsRefused
  <2>6. CASE CheckPlan
    <3>1. pc \in Planned
      BY <2>6 DEF CheckPlan, Planned
    <3>2. \A advisory : PlanProblems(plan, advisory) \subseteq {"advisory"}
      BY <3>1, PlanWithoutProblem
    <3>3. UNCHANGED refusal \/ \E advisory : refusal' = PlanProblems(plan, advisory)
      BY <2>6 DEF CheckPlan, Refuse
    <3>. QED BY <3>2, <3>3 DEF OnlyInputsRefused
  <2>7. CASE BuildProposal
    <3>1. pc \in Planned
      BY <2>7 DEF BuildProposal, Planned
    <3>2. ClosureProblems(RoleProposal) = {}
      BY <3>1, ClosureWithoutProblem
    <3>. QED BY <2>7, <3>2 DEF BuildProposal, OnlyInputsRefused
  <2>8. CASE Materialize
    BY <2>8 DEF Materialize, OnlyInputsRefused
  <2>9. CASE Validate
    <3>1. pc \in Drawn
      BY <2>9 DEF Validate, Drawn
    <3>2. Issues(graph) \subseteq {"cost_reconciliation"}
      BY <3>1, GraphWithoutProblem
    <3>3. UNCHANGED refusal \/ refusal' = Issues(graph)
      BY <2>9 DEF Validate, Refuse
    <3>. QED BY <3>2, <3>3 DEF OnlyInputsRefused
  <2>10. CASE UNCHANGED vars
    BY <2>10 DEF vars, OnlyInputsRefused
  <2>. QED BY <2>1, <2>2, <2>3, <2>4, <2>5, <2>6, <2>7, <2>8, <2>9, <2>10 DEF Next
<1>. QED BY <1>1, <1>2, LayersInvHolds, PlanInvHolds, PTL DEF Spec

------------------------------------------------------------------------------
\* A unit of the order is in one part, once.
LEMMA UnitsOnce ==
  ASSUME NEW V, NEW order \in Seq(V), IsInjective(order), NEW e, NEW b,
         Ends(e, b, order, Len(order)), NEW i \in 1 .. Len(order)
  PROVE  \E r \in DOMAIN b :
           /\ Cardinality({j \in DOMAIN b[r] : b[r][j] = order[i]}) = 1
           /\ \A q \in DOMAIN b \ {r} : ~Contains(b[q], order[i])
<1>1. Len(order) \in Nat /\ DOMAIN b = 1 .. Len(b)
  BY EndsRise
<1>2. PICK r \in 1 .. Len(b) : At(e, r, i)
  BY <1>1, EndsCover
<1>3. {j \in DOMAIN b[r] : b[r][j] = order[i]} = {i - e[r - 1]}
  BY <1>2, PartContains
<1>4. Cardinality({j \in DOMAIN b[r] : b[r][j] = order[i]}) = 1
  BY <1>3, FS_Singleton
<1>5. ASSUME NEW q \in 1 .. Len(b), q # r PROVE ~Contains(b[q], order[i])
  <2>1. ~At(e, q, i)
    BY <1>1, <1>2, <1>5, EndsCover
  <2>. QED BY <2>1, PartContains
<1>. QED BY <1>1, <1>4, <1>5

\* The roles share out the units.
LEMMA RolesKept ==
  ASSUME LayersInv, roles # <<>>
  PROVE  /\ \A u \in work.graph.node :
              \E r \in DOMAIN roles :
                /\ Cardinality({i \in DOMAIN roles[r] : roles[r][i] = u}) = 1
                /\ \A q \in DOMAIN roles \ {r} : ~Contains(roles[q], u)
         /\ \A r \in DOMAIN roles : roles[r] # <<>>
         /\ Len(roles) = Min({shape.team, Cardinality(work.graph.node)})
<1>1. PICK order : /\ InOrder(order, work.graph, work.graph.node)
                   /\ CutsInto(roles, order, Len(order))
  BY DEF LayersInv, RolesCut
<1>2. PICK e : Ends(e, roles, order, Len(order))
  BY <1>1 DEF CutsInto
<1>3. /\ order \in Seq(work.graph.node) /\ IsInjective(order)
      /\ Range(order) = work.graph.node
  BY <1>1 DEF InOrder
<1>4. Len(order) \in Nat /\ DOMAIN order = 1 .. Len(order) /\ DOMAIN roles = 1 .. Len(roles)
  BY <1>3, RolesNumber
<1>5. ASSUME NEW u \in work.graph.node
      PROVE  \E r \in DOMAIN roles :
               /\ Cardinality({i \in DOMAIN roles[r] : roles[r][i] = u}) = 1
               /\ \A q \in DOMAIN roles \ {r} : ~Contains(roles[q], u)
  <2>1. PICK i \in 1 .. Len(order) : order[i] = u
    BY <1>3, <1>4 DEF Range
  <2>2. \E r \in DOMAIN roles :
          /\ Cardinality({j \in DOMAIN roles[r] : roles[r][j] = order[i]}) = 1
          /\ \A q \in DOMAIN roles \ {r} : ~Contains(roles[q], order[i])
    BY <1>2, <1>3, UnitsOnce
  <2>. QED BY <2>1, <2>2
<1>6. ASSUME NEW r \in DOMAIN roles PROVE roles[r] # <<>>
  <2>1. Len(order) \in 0 .. Len(order) /\ r \in 1 .. Len(roles)
    BY <1>4
  <2>2. Len(roles[r]) >= 1
    BY <1>2, <1>3, <2>1, PartHas
  <2>. QED BY <2>2
<1>7. Len(roles) = Min({shape.team, Cardinality(work.graph.node)})
  BY RolesNumber
<1>. QED BY <1>5, <1>6, <1>7

\* The plan shares out the candidates.
LEMMA PlanKept ==
  ASSUME LayersInv, PlanInv, pc \in Planned
  PROVE  /\ Len(plan.selected) = Len(roles) /\ IsInjective(plan.selected)
         /\ Cardinality(plan.recovery) = shape.recovery
         /\ Range(plan.selected) \cup plan.recovery \cup plan.standby = Range(Candidates)
         /\ Capacity(plan) = Len(Candidates)
<1>. DEFINE n == Len(roles)
            C == Range(Candidates)
            S == Range(plan.selected)
            R == plan.recovery
            B == plan.standby
<1>1. /\ roles # <<>> /\ pool \in Pools
      /\ Chosen \in Assignments(Candidates, n, shape.recovery)
      /\ B = C \ Assigned(Chosen)
  BY DEF LayersInv, PlanInv
<1>2. n \in Nat /\ shape.recovery \in Nat
  BY <1>1, RolesNumber
<1>3. IsFiniteSet(C) /\ Cardinality(C) = Len(Candidates) /\ Len(Candidates) \in Nat
  BY <1>1, CandidatesAre
<1>4. /\ plan.selected \in [1 .. n -> C] /\ IsInjective(plan.selected)
      /\ R \in SUBSET C /\ Cardinality(R) = shape.recovery /\ S \cap R = {}
      /\ Assigned(Chosen) = S \cup R
  BY <1>1, AssignmentIs DEF Chosen, Assigned
<1>5. Len(plan.selected) = n
  <2>1. plan.selected \in Seq(C)
    BY <1>2, <1>4, SeqDef
  <2>2. DOMAIN plan.selected = 1 .. Len(plan.selected) /\ DOMAIN plan.selected = 1 .. n
        /\ Len(plan.selected) \in Nat
    BY <1>4, <2>1, LenProperties
  <2>. HIDE DEF n
  <2>. QED BY <1>2, <2>2
<1>. HIDE DEF n
<1>6. S \in SUBSET C
  BY <1>4 DEF Range
<1>7. IsFiniteSet(S) /\ Cardinality(S) = n
  <2>1. IsFiniteSet(1 .. n) /\ Cardinality(1 .. n) = n
    BY <1>2, UpTo
  <2>2. plan.selected \in Surjection(1 .. n, S)
    BY <1>4 DEF Surjection, Range
  <2>3. plan.selected \in Injection(1 .. n, S)
    BY <1>4 DEF Injection, IsInjective, Range
  <2>. HIDE DEF S
  <2>. QED BY <2>1, <2>2, <2>3, FS_Surjection
<1>. HIDE DEF C, S, R, B
<1>8. IsFiniteSet(R) /\ IsFiniteSet(B) /\ B \in SUBSET C
  BY <1>1, <1>3, <1>4, FS_Subset
<1>9. IsFiniteSet(S \cup R) /\ Cardinality(S \cup R) = n + shape.recovery
  <2>1. /\ IsFiniteSet(S \cup R)
        /\ Cardinality(S \cup R) = Cardinality(S) + Cardinality(R) - Cardinality(S \cap R)
    BY <1>7, <1>8, FS_Union
  <2>2. Cardinality(S \cap R) = 0
    BY <1>4, FS_EmptySet
  <2>. QED BY <1>2, <1>4, <1>7, <2>1, <2>2
<1>10. (S \cup R) \cup B = C /\ (S \cup R) \cap B = {}
  BY <1>1, <1>4, <1>6
<1>11. Cardinality(C) = Cardinality(S \cup R) + Cardinality(B)
  <2>1. Cardinality((S \cup R) \cup B)
          = Cardinality(S \cup R) + Cardinality(B) - Cardinality((S \cup R) \cap B)
    BY <1>8, <1>9, FS_Union
  <2>2. Cardinality(S \cup R) \in Nat /\ Cardinality(B) \in Nat
    BY <1>8, <1>9, FS_CardinalityType
  <2>3. Cardinality((S \cup R) \cap B) = 0
    BY <1>10, FS_EmptySet
  <2>4. Cardinality(C) = Cardinality((S \cup R) \cup B)
    BY <1>10
  <2>. QED BY <2>1, <2>2, <2>3, <2>4
<1>12. n + Cardinality(R) + Cardinality(B) = Len(Candidates)
  BY <1>3, <1>4, <1>9, <1>11
<1>13. Capacity(plan) = Len(Candidates)
  BY <1>5, <1>12 DEF Capacity, R, B
<1>. QED BY <1>4, <1>5, <1>10, <1>13 DEF C, S, R, B, n

\* In one role, a unit comes before those that depend on it.
LEMMA EarlierInRole ==
  ASSUME NEW V, NEW order \in Seq(V), IsInjective(order), NEW e, NEW b,
         Ends(e, b, order, Len(order)), NEW x, NEW y, Further(order, x, y),
         RoleOf(b, x) = RoleOf(b, y)
  PROVE  (CHOOSE i \in DOMAIN b[RoleOf(b, x)] : b[RoleOf(b, x)][i] = x)
           < (CHOOSE i \in DOMAIN b[RoleOf(b, x)] : b[RoleOf(b, x)][i] = y)
<1>. DEFINE r == RoleOf(b, x)
            at(u) == CHOOSE i \in DOMAIN b[r] : b[r][i] = u
<1>1. PICK i \in 1 .. Len(order) : \E j \in 1 .. Len(order) :
        i < j /\ order[i] = x /\ order[j] = y
  BY DEF Further
<1>2. PICK j \in 1 .. Len(order) : i < j /\ order[i] = x /\ order[j] = y
  BY <1>1
<1>3. r \in 1 .. Len(b) /\ At(e, r, i)
  BY <1>2, RoleOfIs
<1>4. At(e, r, j)
  BY <1>2, RoleOfIs
<1>. HIDE DEF r
<1>5. /\ \A k \in DOMAIN b[r] : b[r][k] = x <=> k = i - e[r - 1]
      /\ i - e[r - 1] \in DOMAIN b[r]
  BY <1>2, <1>3, PartContains
<1>6. /\ \A k \in DOMAIN b[r] : b[r][k] = y <=> k = j - e[r - 1]
      /\ j - e[r - 1] \in DOMAIN b[r]
  BY <1>2, <1>3, <1>4, PartContains
<1>7. at(x) = i - e[r - 1] /\ at(y) = j - e[r - 1]
  BY <1>5, <1>6
<1>8. e[r - 1] \in Nat
  <2>1. Len(order) \in 0 .. Len(order)
    OBVIOUS
  <2>. QED BY <1>3, <2>1, PartHas
<1>. HIDE DEF at
<1>9. at(x) < at(y)
  BY <1>2, <1>7, <1>8
<1>. QED BY <1>9 DEF at, r

\* What a unit depends on is done before it, and every result but the last one is
\* handed on.
LEMMA GraphKept ==
  ASSUME LayersInv, PlanInv, pc = "accepted"
  PROVE  /\ graph.calls = Capacity(plan)
         /\ \A e \in work.graph.edge :
              LET p == RoleOf(roles, e[1])
                  q == RoleOf(roles, e[2])
                  at(u) == CHOOSE i \in DOMAIN roles[p] : roles[p][i] = u
              IN IF p = q THEN at(e[1]) < at(e[2])
                 ELSE <<p, q>> \in graph.edge /\ StageOf(graph, p) < StageOf(graph, q)
         /\ \E f \in DOMAIN graph.node :
              /\ graph.final = {f}
              /\ \A r \in DOMAIN graph.node \ {f} : \E e \in graph.edge : e[1] = r
<1>. DEFINE n == Len(roles)
            G == work.graph
            R == RoleGraph(roles, G)
<1>1. pc \in Drawn /\ pc \in Planned /\ roles # <<>> /\ WorkIs(work)
  BY DEF Drawn, Planned, LayersInv
<1>2. GraphIs(graph, n)
  BY <1>1, DrawnIs
<1>3. n \in Nat /\ n >= 1
  BY <1>1, RolesNumber
<1>4. graph.calls = Capacity(plan)
  <2>1. Len(plan.selected) = n /\ Capacity(plan) = Len(Candidates) /\ Len(Candidates) \in Nat
    BY <1>1, PlanKept, CandidatesAre DEF LayersInv
  <2>2. Len(roles) + shape.recovery <= Len(Candidates) /\ shape.recovery \in Nat
    BY <1>1, RolesNumber
  <2>3. graph.calls = Max({1, n + Cardinality(plan.recovery) + Cardinality(plan.standby)})
    BY <1>2 DEF GraphIs
  <2>4. graph.calls = Max({1, Capacity(plan)})
    BY <2>1, <2>3 DEF Capacity
  <2>5. Capacity(plan) \in Nat /\ Capacity(plan) >= 1
    BY <1>3, <2>1, <2>2
  <2>. HIDE DEF n
  <2>6. {1, Capacity(plan)} \in SUBSET Int /\ IsFiniteSet({1, Capacity(plan)})
    <3>1. IsFiniteSet({1}) /\ IsFiniteSet({1} \cup {Capacity(plan)})
      BY FS_Singleton, FS_AddElement
    <3>2. {1, Capacity(plan)} = {1} \cup {Capacity(plan)}
      OBVIOUS
    <3>. QED BY <2>5, <3>1, <3>2
  <2>7. Max({1, Capacity(plan)}) \in {1, Capacity(plan)}
        /\ \A y \in {1, Capacity(plan)} : Max({1, Capacity(plan)}) >= y
    BY <2>6, GreatestOf
  <2>. QED BY <2>4, <2>5, <2>7
<1>5. PICK order : InOrder(order, G, G.node) /\ CutsInto(roles, order, Len(order))
  BY <1>1 DEF LayersInv, RolesCut
<1>6. PICK ends : Ends(ends, roles, order, Len(order))
  BY <1>5 DEF CutsInto
<1>7. /\ order \in Seq(G.node) /\ IsInjective(order) /\ G.edge \subseteq G.node \X G.node
  BY <1>1, <1>5 DEF InOrder, WorkIs, OneSinkDag
<1>8. \A x, y : <<x, y>> \in G.edge => Handed(R, roles, x, y) /\ Further(order, x, y)
  BY <1>5, <1>6, <1>7, EdgesAreHanded, EdgesGoFurther
<1>9. /\ graph.edge = R.edge /\ graph.final = {n} /\ DOMAIN graph.node = 1 .. n
      /\ \A p \in 1 .. n : p # n => \E q \in 1 .. n : <<p, q>> \in graph.edge
      /\ \A p, q : <<p, q>> \in graph.edge => StageOf(graph, p) < StageOf(graph, q)
  BY <1>2, StagesFollow DEF GraphIs, RoleDag
<1>10. ASSUME NEW x, NEW y, <<x, y>> \in G.edge, RoleOf(roles, x) # RoleOf(roles, y)
       PROVE  /\ <<RoleOf(roles, x), RoleOf(roles, y)>> \in graph.edge
              /\ StageOf(graph, RoleOf(roles, x)) < StageOf(graph, RoleOf(roles, y))
  <2>1. Handed(R, roles, x, y)
    BY <1>8, <1>10
  <2>. HIDE DEF R
  <2>2. <<RoleOf(roles, x), RoleOf(roles, y)>> \in graph.edge
    BY <1>9, <1>10, <2>1 DEF Handed
  <2>. QED BY <1>9, <2>2
<1>11. ASSUME NEW x, NEW y, <<x, y>> \in G.edge, RoleOf(roles, x) = RoleOf(roles, y)
       PROVE  (CHOOSE i \in DOMAIN roles[RoleOf(roles, x)] : roles[RoleOf(roles, x)][i] = x)
                < (CHOOSE i \in DOMAIN roles[RoleOf(roles, x)] : roles[RoleOf(roles, x)][i] = y)
  BY <1>6, <1>7, <1>8, <1>11, EarlierInRole
<1>12. \A e \in work.graph.edge :
         LET p == RoleOf(roles, e[1])
             q == RoleOf(roles, e[2])
             at(u) == CHOOSE i \in DOMAIN roles[p] : roles[p][i] = u
         IN IF p = q THEN at(e[1]) < at(e[2])
            ELSE <<p, q>> \in graph.edge /\ StageOf(graph, p) < StageOf(graph, q)
  <2>. SUFFICES ASSUME NEW e \in G.edge
                PROVE  LET p == RoleOf(roles, e[1])
                           q == RoleOf(roles, e[2])
                           at(u) == CHOOSE i \in DOMAIN roles[p] : roles[p][i] = u
                       IN IF p = q THEN at(e[1]) < at(e[2])
                          ELSE <<p, q>> \in graph.edge /\ StageOf(graph, p) < StageOf(graph, q)
    OBVIOUS
  <2>1. <<e[1], e[2]>> \in G.edge
    BY <1>7
  <2>. QED BY <1>10, <1>11, <2>1
<1>13. \E f \in DOMAIN graph.node :
         /\ graph.final = {f}
         /\ \A r \in DOMAIN graph.node \ {f} : \E e \in graph.edge : e[1] = r
  <2>1. n \in DOMAIN graph.node
    BY <1>3, <1>9
  <2>2. ASSUME NEW r \in DOMAIN graph.node \ {n} PROVE \E e \in graph.edge : e[1] = r
    <3>1. PICK q \in 1 .. n : <<r, q>> \in graph.edge
      BY <1>9, <2>2
    <3>2. <<r, q>>[1] = r
      OBVIOUS
    <3>. QED BY <3>1, <3>2
  <2>. HIDE DEF n
  <2>. QED BY <1>9, <2>1, <2>2
<1>. QED BY <1>4, <1>12, <1>13

\* The identities of the work are those its ticket's units get, and one more if
\* they are brought together.
NamesInv ==
  /\ ticket \in Tickets
  /\ work.ids # <<>> =>
       \/ work.ids = UnitIds(TicketUnits(ticket))
       \/ work.ids = Append(UnitIds(TicketUnits(ticket)), <<"integration">>)

LEMMA NamesInvHolds == Spec => []NamesInv
<1>1. Init => NamesInv
  BY DEF Init, NamesInv
<1>2. NamesInv /\ [Next]_vars => NamesInv'
  <2>. SUFFICES ASSUME NamesInv, [Next]_vars PROVE NamesInv'
    OBVIOUS
  <2>1. CASE BuildWorkGraph
    <3>. DEFINE own == TicketGraph(TicketUnits(ticket), UnitIds(TicketUnits(ticket)))
    <3>1. CASE Acyclic(own)
      BY <2>1, <3>1 DEF BuildWorkGraph, NamesInv
    <3>2. CASE ~Acyclic(own)
      BY <2>1, <3>2 DEF BuildWorkGraph, NamesInv
    <3>. QED BY <3>1, <3>2
  <2>2. CASE ~BuildWorkGraph
    <3>1. ticket' = ticket /\ work' = work
      BY <2>2 DEF Next, DesignParameters, OptimizeShape, PartitionRoles, AssignModels,
                  CheckPlan, BuildProposal, Materialize, Validate, vars
    <3>. QED BY <3>1 DEF NamesInv
  <2>. QED BY <2>1, <2>2
<1>. QED BY <1>1, <1>2, PTL DEF Spec

\* Two units share an identity only if the later one was given it with its
\* position and the earlier one was listed with it; so no third one shares it.
LEMMA UnitsAreKept == ASSUME NamesInv PROVE UnitsKept
<1>. DEFINE units == TicketUnits(ticket)
            base == UnitIds(units)
            N == Len(units)
            L == <<"integration">>
<1>1. /\ N \in Nat /\ DOMAIN units = 1 .. N /\ L \notin IdsFor(units)
      /\ \A i \in 1 .. N : IsName(units[i].id)
  BY TicketUnitsAre DEF NamesInv
<1>2. /\ base \in Seq(IdsFor(units)) /\ Len(base) = N
      /\ \A i \in 1 .. N : NamedIn(units, base, i)
  BY <1>1, UnitIdsAre
<1>. HIDE DEF units, base, N
<1>3. /\ \A i \in 1 .. N : work.ids # <<>> => work.ids[i] = base[i]
      /\ \/ work.ids = <<>>
         \/ Len(work.ids) = N
         \/ Len(work.ids) = N + 1 /\ work.ids[N + 1] = L
      /\ DOMAIN work.ids = 1 .. Len(work.ids)
  <2>1. CASE work.ids = <<>>
    BY <2>1
  <2>2. CASE work.ids = base
    BY <1>1, <1>2, <2>2
  <2>3. CASE work.ids = Append(base, L)
    BY <1>1, <1>2, <2>3
  <2>. QED BY <2>1, <2>2, <2>3 DEF NamesInv, base, units
<1>4. \A i \in 1 .. N : base[i] \in IdsFor(units) /\ base[i] # L
  BY <1>1, <1>2
<1>5. ASSUME NEW i \in DOMAIN work.ids, NEW j \in DOMAIN work.ids, i < j,
             work.ids[i] = work.ids[j]
      PROVE  /\ i \in 1 .. N /\ j \in i + 1 .. N
             /\ units[i].id = Append(units[j].id, j) /\ work.ids[i] = Append(units[j].id, j)
             /\ \E k \in 1 .. j - 1 : work.ids[k] = units[j].id
  <2>0. Len(work.ids) \in Nat /\ i \in 1 .. Len(work.ids) /\ j \in 1 .. Len(work.ids)
    BY <1>1, <1>3, <1>5
  <2>a. work.ids # <<>>
    BY <2>0
  <2>b. i \in 1 .. j - 1 /\ i \in Nat /\ j \in Nat
    BY <1>5, <2>0
  <2>c. ASSUME Len(work.ids) = N PROVE i \in 1 .. N /\ j \in 1 .. N
    BY <2>0, <2>c
  <2>d. ASSUME Len(work.ids) = N + 1, work.ids[N + 1] = L PROVE i \in 1 .. N /\ j \in 1 .. N
    <3>1. i \in 1 .. N
      BY <1>1, <2>0, <2>b, <2>d
    <3>2. work.ids[i] # L
      BY <1>3, <1>4, <2>a, <3>1
    <3>3. j # N + 1
      BY <1>5, <2>d, <3>2
    <3>. QED BY <1>1, <2>0, <2>b, <2>d, <3>1, <3>3
  <2>1. i \in 1 .. N /\ j \in 1 .. N /\ i \in 1 .. j - 1
    BY <1>3, <2>a, <2>b, <2>c, <2>d
  <2>2. /\ base[i] = base[j] /\ NamedIn(units, base, i) /\ NamedIn(units, base, j)
        /\ \A k \in 1 .. N : work.ids[k] = base[k]
    BY <1>2, <1>3, <1>5, <2>1
  <2>3. IsName(units[i].id) /\ IsName(units[j].id)
    BY <1>1, <2>1
  <2>4. ~(base[j] = units[j].id /\ \A k \in 1 .. j - 1 : base[k] # units[j].id)
    BY <2>1, <2>2
  <2>5. base[j] = Append(units[j].id, j) /\ \E k \in 1 .. j - 1 : base[k] = units[j].id
    BY <2>2, <2>4 DEF NamedIn
  <2>6. base[i] # Append(units[i].id, i)
    <3>1. base[i] = Append(units[i].id, i) => i = j
      BY <2>2, <2>3, <2>5, NameWithPosition
    <3>. QED BY <1>5, <2>b, <3>1
  <2>7. base[i] = units[i].id
    BY <2>2, <2>6 DEF NamedIn
  <2>8. j \in i + 1 .. N /\ \A k \in 1 .. j - 1 : k \in 1 .. N
    BY <1>1, <1>5, <2>1
  <2>. QED BY <2>1, <2>2, <2>5, <2>7, <2>8
<1>6. SUFFICES ASSUME NEW i \in DOMAIN work.ids \ Known(work.ids)
               PROVE  \E j \in i + 1 .. N :
                        /\ Bearers(work.ids, work.ids[i]) = {i, j}
                        /\ units[i].id = Append(units[j].id, j)
                        /\ \E k \in 1 .. j - 1 : work.ids[k] = units[j].id
  BY DEF UnitsKept, units, N
<1>7. PICK j \in Bearers(work.ids, work.ids[i]) : ~(j <= i)
  BY DEF Known
<1>8. DOMAIN work.ids \in SUBSET Nat
  BY <1>1, <1>3
<1>9. j \in DOMAIN work.ids /\ i < j /\ work.ids[i] = work.ids[j]
  BY <1>7, <1>8 DEF Bearers
<1>10. ASSUME NEW b \in Bearers(work.ids, work.ids[i]) PROVE b \in {i, j}
  <2>1. b \in DOMAIN work.ids /\ work.ids[b] = work.ids[i]
    BY DEF Bearers
  <2>2. IsName(units[j].id) /\ work.ids[i] = Append(units[j].id, j)
    BY <1>1, <1>5, <1>9
  <2>3. CASE b < i
    <3>1. work.ids[b] = Append(units[i].id, i) /\ IsName(units[i].id)
      BY <1>1, <1>5, <2>1, <2>3
    <3>2. i = j
      BY <2>1, <2>2, <3>1, NameWithPosition
    <3>. QED BY <1>8, <1>9, <3>2
  <2>4. CASE i < b
    <3>1. work.ids[i] = Append(units[b].id, b) /\ IsName(units[b].id)
      BY <1>1, <1>5, <2>1, <2>4
    <3>. QED BY <2>2, <3>1, NameWithPosition
  <2>. QED BY <1>8, <2>1, <2>3, <2>4
<1>11. Bearers(work.ids, work.ids[i]) = {i, j}
  BY <1>7, <1>9, <1>10 DEF Bearers
<1>. QED BY <1>5, <1>9, <1>11

\* No unit's own work is lost unless another was given its identity, and nothing
\* is lost or used twice on the way from the work graph to the graph the engine
\* runs, whatever the ticket, the pool, the order, the cut and the solver.
THEOREM WorkKeptSafe == Spec => []WorkKept
<1>1. LayersInv /\ PlanInv /\ NamesInv => WorkKept
  <2>. SUFFICES ASSUME LayersInv, PlanInv, NamesInv PROVE WorkKept
    OBVIOUS
  <2>. QED BY UnitsAreKept, RolesKept, PlanKept, GraphKept DEF WorkKept
<1>. QED BY <1>1, LayersInvHolds, PlanInvHolds, NamesInvHolds, PTL

------------------------------------------------------------------------------
\* The greater of two numbers.
LEMMA MaxOfTwo ==
  ASSUME NEW a \in Int, NEW b \in Int
  PROVE  Max({a, b}) = IF a <= b THEN b ELSE a
<1>1. {a, b} = {a} \cup {b} /\ IsFiniteSet({a}) /\ IsFiniteSet({a} \cup {b})
  BY FS_Singleton, FS_AddElement
<1>2. {a, b} \in SUBSET Int /\ {a, b} # {} /\ IsFiniteSet({a, b})
  BY <1>1
<1>3. Max({a, b}) \in {a, b} /\ \A y \in {a, b} : Max({a, b}) >= y
  BY <1>2, GreatestOf
<1>. QED BY <1>3

\* A ratio that is at most one is at most a hundred percent.
LEMMA PercentIs ==
  ASSUME NEW a \in Nat, NEW b \in Nat
  PROVE  Percent(Ratio(a, b)) \in 0 .. 100
<1>1. CASE b = 0
  <2>1. Ratio(a, b) = <<0, 1>>
    BY <1>1 DEF Ratio
  <2>2. Percent(<<0, 1>>) = 0
    BY DEF Percent
  <2>. QED BY <2>1, <2>2
<1>2. CASE b > 0
  <2>. DEFINE c == Min({a, b})
              up == (200 * c + b) \div (2 * b)
  <2>1. c \in Nat /\ c <= b
    <3>1. c = IF a <= b THEN a ELSE b
      BY MinOfTwo
    <3>. HIDE DEF c
    <3>. QED BY <3>1
  <2>2. Ratio(a, b) = <<c, b>>
    BY <1>2 DEF Ratio
  <2>. HIDE DEF c
  <2>3. up \in 0 .. 100
    BY <1>2, <2>1, Z3
  <2>4. Percent(<<c, b>>) = up \/ (up % 2 = 1 /\ Percent(<<c, b>>) = up - 1)
    BY DEF Percent
  <2>. HIDE DEF up
  <2>5. Percent(<<c, b>>) \in 0 .. 100
    BY <2>3, <2>4
  <2>. QED BY <2>2, <2>5
<1>. QED BY <1>1, <1>2

\* The root, rounded up, grows with what it is the root of.
LEMMA CeilRootIs ==
  ASSUME NEW x \in Nat
  PROVE  /\ CeilRoot(x) \in Nat /\ CeilRoot(x) * CeilRoot(x) >= x
         /\ \A q \in 0 .. CeilRoot(x) - 1 : q * q < x
<1>. DEFINE T == {r \in Nat : r * r >= x}
<1>1. x \in T
  <2>1. x * x >= x
    BY SMT
  <2>. QED BY <2>1
<1>2. PICK r \in T : \A s \in T : r <= s
  <2>1. T \in SUBSET Nat /\ T # {}
    BY <1>1
  <2>. HIDE DEF T
  <2>. QED BY <2>1, LeastOf
<1>3. r \in Nat /\ r * r >= x /\ r <= x
  BY <1>1, <1>2
<1>4. \A q \in 0 .. r - 1 : q * q < x
  <2>. SUFFICES ASSUME NEW q \in 0 .. r - 1 PROVE q * q < x
    OBVIOUS
  <2>1. q \in Nat /\ q < r
    BY <1>3
  <2>2. q \notin T
    <3>. HIDE DEF T
    <3>. QED BY <1>2, <1>3, <2>1
  <2>3. q * q \in Nat
    BY <2>1
  <2>. QED BY <2>1, <2>2, <2>3
<1>5. r \in 0 .. x
  BY <1>3
<1>6. \E t \in 0 .. x : t * t >= x /\ \A q \in 0 .. t - 1 : q * q < x
  BY <1>3, <1>4, <1>5
<1>7. CeilRoot(x) \in 0 .. x /\ CeilRoot(x) * CeilRoot(x) >= x
      /\ \A q \in 0 .. CeilRoot(x) - 1 : q * q < x
  BY <1>6 DEF CeilRoot
<1>. QED BY <1>7

\* A larger number has no smaller root.
LEMMA CeilRootGrows ==
  ASSUME NEW x \in Nat, NEW y \in Nat, x <= y
  PROVE  CeilRoot(x) <= CeilRoot(y)
<1>. DEFINE a == CeilRoot(x)
            b == CeilRoot(y)
<1>1. a \in Nat /\ \A q \in 0 .. a - 1 : q * q < x
  BY CeilRootIs
<1>2. b \in Nat /\ b * b >= y
  BY CeilRootIs
<1>. HIDE DEF a, b
<1>3. ASSUME b < a PROVE FALSE
  <2>1. b * b < x /\ b * b \in Nat
    BY <1>1, <1>2, <1>3
  <2>. QED BY <1>2, <2>1
<1>4. a <= b
  BY <1>1, <1>2, <1>3
<1>. QED BY <1>4 DEF a, b

\* The output planned once the items and the root are known.
LEMMA TargetIs ==
  ASSUME NEW demand, demand \in [task : Nat, evidence : Nat, rules : Nat, delivery : Nat],
         NEW s, s.sinks \in Nat, s.units \in Nat
  PROVE  /\ Completion(demand, s) \in Nat
         /\ Max({1, demand.delivery}) \in Nat /\ Max({1, s.units}) \in Nat
         /\ Max({1, demand.task}) \in Nat
<1>1. demand.task \in Nat /\ demand.evidence \in Nat /\ demand.delivery \in Nat
  OBVIOUS
<1>. DEFINE T == {1, demand.delivery, s.sinks}
<1>2. T \in SUBSET Int /\ T # {} /\ IsFiniteSet(T) /\ \A x \in T : x \in Nat
  <2>1. IsFiniteSet({1})
    BY FS_Singleton
  <2>2. IsFiniteSet({1} \cup {demand.delivery})
    BY <2>1, FS_AddElement
  <2>3. IsFiniteSet(({1} \cup {demand.delivery}) \cup {s.sinks})
    BY <2>2, FS_AddElement
  <2>4. T = ({1} \cup {demand.delivery}) \cup {s.sinks}
    OBVIOUS
  <2>5. T \in SUBSET Int /\ T # {} /\ \A x \in T : x \in Nat
    BY <1>1
  <2>. HIDE DEF T
  <2>. QED BY <2>3, <2>4, <2>5
<1>3. Max(T) \in Nat
  <2>. HIDE DEF T
  <2>. QED BY <1>2, GreatestOf
<1>4. Characters(demand) \in Nat
  <2>1. Max({1, demand.task + demand.evidence})
          = IF 1 <= demand.task + demand.evidence THEN demand.task + demand.evidence ELSE 1
    BY <1>1, MaxOfTwo
  <2>. QED BY <1>1, <2>1 DEF Characters
<1>5. CeilRoot(Characters(demand) + 1) \in Nat
  BY <1>4, CeilRootIs
<1>6. Completion(demand, s) \in Nat
  <2>1. Completion(demand, s) = CeilRoot(Characters(demand) + 1) * Max(T)
    BY DEF Completion
  <2>. HIDE DEF T
  <2>. QED BY <1>3, <1>5, <2>1
<1>7. /\ Max({1, demand.delivery}) = IF 1 <= demand.delivery THEN demand.delivery ELSE 1
      /\ Max({1, s.units}) = IF 1 <= s.units THEN s.units ELSE 1
      /\ Max({1, demand.task}) = IF 1 <= demand.task THEN demand.task ELSE 1
  BY <1>1, MaxOfTwo
<1>. QED BY <1>1, <1>6, <1>7

\* More units, no less output planned.
LEMMA TargetGrows ==
  ASSUME NEW demand, demand \in [task : Nat, evidence : Nat, rules : Nat, delivery : Nat],
         NEW s, NEW t, s.sinks = t.sinks, s.sinks \in Nat, s.units \in Nat, t.units \in Nat,
         s.units <= t.units
  PROVE  VisibleTarget(demand, t) >= VisibleTarget(demand, s) /\ VisibleTarget(demand, s) \in Int
<1>. DEFINE c == Completion(demand, s)
            d == Max({1, demand.delivery})
            i == d + Max({1, s.units})
            j == d + Max({1, t.units})
            k == Max({1, demand.task}) + 1
<1>1. c \in Nat /\ d \in Nat /\ i \in Nat /\ j \in Nat /\ k \in Nat /\ Completion(demand, t) = c
  <2>1. /\ Completion(demand, s) \in Nat /\ Max({1, demand.delivery}) \in Nat
        /\ Max({1, s.units}) \in Nat /\ Max({1, demand.task}) \in Nat
    BY TargetIs
  <2>2. t.sinks \in Nat
    OBVIOUS
  <2>3. Max({1, t.units}) \in Nat
    BY <2>2, TargetIs
  <2>4. Completion(demand, t) = Completion(demand, s)
    BY DEF Completion
  <2>. QED BY <2>1, <2>3, <2>4
<1>2. i <= j
  <2>1. /\ Max({1, s.units}) = IF 1 <= s.units THEN s.units ELSE 1
        /\ Max({1, t.units}) = IF 1 <= t.units THEN t.units ELSE 1
    BY MaxOfTwo
  <2>. QED BY <1>1, <2>1
<1>3. /\ VisibleTarget(demand, s) = Max({c, CeilRoot(k * i * i)})
      /\ VisibleTarget(demand, t) = Max({c, CeilRoot(k * j * j)})
  BY <1>1 DEF VisibleTarget
<1>. HIDE DEF c, d, i, j, k
<1>4. k * i * i \in Nat /\ k * j * j \in Nat /\ k * i * i <= k * j * j
  <2>. DEFINE p == k * i
              q == k * j
  <2>1. p \in Nat /\ q \in Nat
    BY <1>1
  <2>2. i * k <= j * k
    BY <1>1, <1>2, TimesMonotone
  <2>3. p <= q
    BY <1>1, <2>2
  <2>. HIDE DEF p, q
  <2>4. p * i <= q * i /\ i * q <= j * q
    BY <1>1, <1>2, <2>1, <2>3, TimesMonotone
  <2>5. p * i \in Nat /\ q * j \in Nat /\ p * i <= q * j
    BY <1>1, <2>1, <2>4
  <2>. QED BY <2>5 DEF p, q
<1>. DEFINE x == k * i * i
            y == k * j * j
<1>5. x \in Nat /\ y \in Nat /\ x <= y
  BY <1>4
<1>. HIDE DEF x, y
<1>6. CeilRoot(x) \in Nat /\ CeilRoot(y) \in Nat /\ CeilRoot(x) <= CeilRoot(y)
  BY <1>5, CeilRootIs, CeilRootGrows
<1>7. /\ Max({c, CeilRoot(x)}) = IF c <= CeilRoot(x) THEN CeilRoot(x) ELSE c
      /\ Max({c, CeilRoot(y)}) = IF c <= CeilRoot(y) THEN CeilRoot(y) ELSE c
  BY <1>1, <1>6, MaxOfTwo
<1>8. Max({c, CeilRoot(y)}) >= Max({c, CeilRoot(x)}) /\ Max({c, CeilRoot(x)}) \in Int
  BY <1>1, <1>6, <1>7
<1>. QED BY <1>3, <1>8 DEF x, y

------------------------------------------------------------------------------
\* What the planner reads of the work graph are numbers, and it has one sink.
LEMMA SummaryIs ==
  ASSUME NEW G, OneSinkDag(G), NEW n \in Nat
  PROVE  /\ Summary(G, n).units = n /\ Summary(G, n).edges \in Nat
         /\ Summary(G, n).width \in Nat /\ Summary(G, n).sinks = 1
<1>1. /\ IsFiniteSet(G.node) /\ Acyclic(G) /\ G.edge \in SUBSET (G.node \X G.node)
      /\ \E u : Leaves(G) = {u}
  BY DEF OneSinkDag
<1>2. IsFiniteSet(G.node \X G.node)
  BY <1>1, FS_Product
<1>3. Cardinality(G.edge) \in Nat
  BY <1>1, <1>2, FS_Subset, FS_CardinalityType
<1>4. Cardinality(Leaves(G)) = 1
  BY <1>1, FS_Singleton
<1>. DEFINE gens == Generations(G)
            R == Range(gens)
            f == [g \in R |-> Cardinality(g)]
            T == {Cardinality(g) : g \in R}
<1>5. gens \in Seq(SUBSET G.node)
  BY <1>1, GenerationsDivide
<1>6. IsFiniteSet(R) /\ R \in SUBSET (SUBSET G.node)
  <2>. HIDE DEF gens
  <2>. QED BY <1>5, PlacesFinite
<1>. HIDE DEF gens, R
<1>7. \A g \in R : Cardinality(g) \in Nat
  <2>. SUFFICES ASSUME NEW g \in R PROVE Cardinality(g) \in Nat
    OBVIOUS
  <2>1. g \in SUBSET G.node
    BY <1>6
  <2>2. IsFiniteSet(g)
    BY <1>1, <2>1, FS_Subset
  <2>. QED BY <2>2, FS_CardinalityType
<1>8. IsFiniteSet(T) /\ T \in SUBSET Nat
  <2>1. f = [g \in R |-> f[g]] /\ Range(f) = T
    BY DEF Range
  <2>2. IsFiniteSet(Range(f))
    <3>. HIDE DEF f, T
    <3>. QED BY <1>6, <2>1, ImageIsFinite
  <2>3. T \in SUBSET Nat
    BY <1>7
  <2>. HIDE DEF f, T
  <2>. QED BY <2>1, <2>2, <2>3
<1>. HIDE DEF T
<1>9. Max({1} \cup T) \in Nat
  <2>1. IsFiniteSet({1})
    BY FS_Singleton
  <2>2. IsFiniteSet({1} \cup T)
    BY <1>8, <2>1, FS_Union
  <2>3. {1} \cup T \in SUBSET Int /\ {1} \cup T # {} /\ \A x \in {1} \cup T : x \in Nat
    BY <1>8
  <2>. QED BY <2>2, <2>3, GreatestOf
<1>10. Summary(G, n).width = Max({1} \cup T)
  BY DEF Summary, T, R, gens
<1>. QED BY <1>3, <1>4, <1>9, <1>10 DEF Summary

\* The most edges there can be are a number.
LEMMA MostEdgesIs ==
  ASSUME NEW s, s.units \in Nat
  PROVE  MostEdges(s) \in Nat
<1>. DEFINE m == (s.units * (s.units - 1)) \div 2
<1>1. m \in Int
  OBVIOUS
<1>2. MostEdges(s) = Max({1, m})
  BY DEF MostEdges
<1>. HIDE DEF m
<1>3. Max({1, m}) = IF 1 <= m THEN m ELSE 1
  BY <1>1, MaxOfTwo
<1>. QED BY <1>1, <1>2, <1>3

\* Whatever shape is chosen, each value lies in the domain designed for it.
LEMMA ValuesFit ==
  ASSUME LayersInv, WorkIs(work), planned.design = Designs(WorkSummary, Candidates),
         NEW s \in Shapes, Allowed(s),
         NEW d \in DOMAIN Resolved(planned.design, WorkSummary, s)
  PROVE  Resolved(planned.design, WorkSummary, s)[d] \in planned.design[d].domain
<1>. DEFINE C == Len(Candidates)
            I == Len(work.ids)
            M == Min({C, I})
<1>1. pool \in Pools
  BY DEF LayersInv
<1>2. C \in Nat /\ I \in Nat /\ I >= 1
  BY <1>1, CandidatesAre, PlacesFinite DEF WorkIs
<1>3. /\ WorkSummary.units = I /\ WorkSummary.edges \in Nat /\ WorkSummary.width \in Nat
  BY <1>2, SummaryIs DEF WorkIs, WorkSummary
<1>4. s.team \in 1 .. M /\ s.recovery \in 0 .. C
  BY ShapeIs
<1>5. M \in Nat
  <2>1. M = IF C <= I THEN C ELSE I
    BY <1>2, MinOfTwo
  <2>. HIDE DEF M, C, I
  <2>. QED BY <1>2, <2>1
<1>6. /\ d \in Decisions(WorkSummary, Candidates) /\ d \in Surfaces
      /\ Resolved(planned.design, WorkSummary, s)[d] = SurfaceValues(WorkSummary, s)[d]
      /\ planned.design[d].domain = Domain(d, WorkSummary, Candidates)
  <2>1. d \in Decisions(WorkSummary, Candidates)
    BY DEF Resolved, Restrict, Designs
  <2>2. d \in Surfaces
    BY <2>1 DEF Decisions, GraphDecisions, RecoveryDecisions, Surfaces
  <2>3. d \in DOMAIN planned.design
    BY <2>1 DEF Designs
  <2>. QED BY <2>1, <2>2, <2>3 DEF Resolved, Restrict, Designs
<1>7. CASE d = "work-dag-partitioning"
  <2>1. SurfaceValues(WorkSummary, s)[d] = s.team
    BY <1>7 DEF SurfaceValues
  <2>2. Max({1, I}) = I
    <3>1. Max({1, I}) = IF 1 <= I THEN I ELSE 1
      BY <1>2, MaxOfTwo
    <3>. QED BY <1>2, <3>1
  <2>3. Domain(d, WorkSummary, Candidates) = 1 .. Max({1, M})
    BY <1>3, <1>7, <2>2 DEF Domain
  <2>. HIDE DEF M
  <2>4. Max({1, M}) = IF 1 <= M THEN M ELSE 1
    BY <1>5, MaxOfTwo
  <2>. QED BY <1>4, <1>5, <1>6, <2>1, <2>3, <2>4
<1>8. CASE d = "initial-recovery-allocation"
  <2>1. SurfaceValues(WorkSummary, s)[d] = s.recovery
    BY <1>8 DEF SurfaceValues
  <2>2. Domain(d, WorkSummary, Candidates) = 0 .. Max({0, C - 1})
    BY <1>8 DEF Domain
  <2>3. "initial-recovery-allocation" \in DOMAIN planned.design
    BY <1>6, <1>8 DEF Designs
  <2>4. s.team + s.recovery <= C
    BY <2>3 DEF Allowed
  <2>5. Max({0, C - 1}) = IF 0 <= C - 1 THEN C - 1 ELSE 0
    BY <1>2, MaxOfTwo
  <2>. HIDE DEF M, C
  <2>. QED BY <1>2, <1>4, <1>5, <1>6, <2>1, <2>2, <2>4, <2>5
<1>9. CASE d \in {"parallel-structure-signal", "dependency-coupling-signal"}
  <2>1. SurfaceValues(WorkSummary, s)[d]
          \in {Percent(Ratio(WorkSummary.width, WorkSummary.units)),
               Percent(Ratio(WorkSummary.edges, MostEdges(WorkSummary)))}
    BY <1>9 DEF SurfaceValues
  <2>2. Domain(d, WorkSummary, Candidates) = 0 .. 100
    BY <1>9 DEF Domain
  <2>3. WorkSummary.units \in Nat
    BY <1>2, <1>3
  <2>4. MostEdges(WorkSummary) \in Nat
    BY <2>3, MostEdgesIs
  <2>5. /\ Percent(Ratio(WorkSummary.width, WorkSummary.units)) \in 0 .. 100
        /\ Percent(Ratio(WorkSummary.edges, MostEdges(WorkSummary))) \in 0 .. 100
    BY <1>3, <2>3, <2>4, PercentIs
  <2>. QED BY <1>6, <2>1, <2>2, <2>5
<1>10. CASE d \in {"candidate-role-binding", "role-model-objective-balance",
                   "role-reasoning-effort", "runtime-standby-replanning"}
  <2>1. SurfaceValues(WorkSummary, s)[d] = Policy
    BY <1>10 DEF SurfaceValues
  <2>2. Domain(d, WorkSummary, Candidates) = {Policy}
    BY <1>10 DEF Domain
  <2>. QED BY <1>6, <2>1, <2>2
<1>. QED BY <1>6, <1>7, <1>8, <1>9, <1>10 DEF Surfaces

\* The designs are those of the graph and the candidates until a shape is chosen.
ValuesInv ==
  /\ pc = "designed" =>
       planned = [design |-> Designs(WorkSummary, Candidates), value |-> <<>>]
  /\ DOMAIN planned.value \subseteq DOMAIN planned.design
  /\ ValuesInDomain

\* Designs and values fit in every state.
LEMMA ValuesInvHolds == Spec => []ValuesInv
<1>1. Init => ValuesInv
  BY DEF Init, ValuesInv, ValuesInDomain, NoParameters
<1>2. LayersInv /\ ValuesInv /\ [Next]_vars => ValuesInv'
  <2>. SUFFICES ASSUME LayersInv, ValuesInv, [Next]_vars PROVE ValuesInv'
    OBVIOUS
  <2>1. CASE DesignParameters
    <3>1. CASE pc' = "designed"
      <4>1. /\ planned' = [design |-> Designs(WorkSummary, Candidates), value |-> <<>>]
            /\ work' = work /\ pool' = pool
        BY <2>1, <3>1 DEF DesignParameters, Refuse
      <4>2. WorkSummary' = WorkSummary /\ Candidates' = Candidates
        BY <4>1, SamePool DEF WorkSummary
      <4>3. planned'.value = <<>>
        BY <4>1
      <4>. QED BY <4>1, <4>2, <4>3 DEF ValuesInv, ValuesInDomain
    <3>2. CASE pc' # "designed"
      <4>1. planned' = planned
        BY <2>1, <3>2 DEF DesignParameters
      <4>. QED BY <3>2, <4>1 DEF ValuesInv, ValuesInDomain
    <3>. QED BY <3>1, <3>2
  <2>2. CASE OptimizeShape
    <3>1. pc = "designed" /\ pc' \in {"refused", "shape"}
      BY <2>2 DEF OptimizeShape, Refuse
    <3>2. planned = [design |-> Designs(WorkSummary, Candidates), value |-> <<>>]
          /\ WorkIs(work)
      BY <3>1 DEF ValuesInv, LayersInv, Early
    <3>3. planned' = planned
          \/ \E s \in Shapes : Allowed(s)
               /\ planned' = [planned EXCEPT !.value = Resolved(planned.design, WorkSummary, s)]
      BY <2>2 DEF OptimizeShape
    <3>4. ASSUME NEW s \in Shapes, Allowed(s),
                 planned' = [planned EXCEPT !.value = Resolved(planned.design, WorkSummary, s)]
          PROVE  ValuesInDomain' /\ DOMAIN planned'.value \subseteq DOMAIN planned'.design
      <4>. DEFINE values == Resolved(planned.design, WorkSummary, s)
      <4>1. planned.design = Designs(WorkSummary, Candidates)
        BY <3>2
      <4>2. /\ \A d \in DOMAIN values : values[d] \in planned.design[d].domain
            /\ DOMAIN values = DOMAIN planned.design
        BY <3>2, <3>4, <4>1, ValuesFit DEF Resolved, Restrict
      <4>. HIDE DEF values
      <4>3. planned' = [planned EXCEPT !.value = values]
        BY <3>4 DEF values
      <4>4. planned'.value = values /\ planned'.design = planned.design
        BY <3>2, <4>3
      <4>. QED BY <4>2, <4>4 DEF ValuesInDomain
    <3>5. ValuesInDomain' /\ DOMAIN planned'.value \subseteq DOMAIN planned'.design
      BY <3>3, <3>4 DEF ValuesInv, ValuesInDomain
    <3>. QED BY <3>1, <3>5 DEF ValuesInv
  <2>3. CASE PartitionRoles
    <3>1. pc' \in {"refused", "roles"}
          /\ (planned' = planned \/ planned' = Extended(planned, ticket.demand, WorkSummary))
      BY <2>3 DEF PartitionRoles, Refuse
    <3>2. ASSUME planned' = Extended(planned, ticket.demand, WorkSummary)
          PROVE  ValuesInDomain' /\ DOMAIN planned'.value \subseteq DOMAIN planned'.design
      <4>1. DOMAIN ResourceDesigns = Range(Resources)
            /\ DOMAIN ResourceValues(ticket.demand, WorkSummary) = Range(Resources)
        BY DEF ResourceDesigns, ResourceValues
      <4>2. /\ planned'.value = Over(ResourceValues(ticket.demand, WorkSummary), planned.value)
            /\ planned'.design = Over(ResourceDesigns, planned.design)
        BY <3>2 DEF Extended
      <4>3. DOMAIN planned.value \subseteq DOMAIN planned.design
        BY DEF ValuesInv
      <4>4. DOMAIN planned'.value \subseteq DOMAIN planned'.design
        BY <4>1, <4>2, <4>3 DEF Over
      <4>5. ASSUME NEW d \in DOMAIN planned'.value \ Range(Resources)
            PROVE  planned'.value[d] \in planned'.design[d].domain
        <5>1. d \in DOMAIN planned.value /\ planned'.value[d] = planned.value[d]
          BY <4>1, <4>2, <4>5 DEF Over
        <5>2. planned.value[d] \in planned.design[d].domain
          BY <4>5, <5>1 DEF ValuesInv, ValuesInDomain
        <5>3. planned'.design[d] = planned.design[d]
          BY <4>1, <4>2, <4>3, <4>5, <5>1 DEF Over
        <5>. QED BY <5>1, <5>2, <5>3
      <4>. QED BY <4>4, <4>5 DEF ValuesInDomain
    <3>. QED BY <3>1, <3>2 DEF ValuesInv, ValuesInDomain
  <2>4. CASE BuildWorkGraph \/ AssignModels \/ CheckPlan \/ BuildProposal \/ Materialize
               \/ Validate
    <3>1. planned' = planned /\ pc' # "designed"
      BY <2>4 DEF BuildWorkGraph, AssignModels, CheckPlan, BuildProposal, Materialize,
                  Validate, Refuse
    <3>. QED BY <3>1 DEF ValuesInv, ValuesInDomain
  <2>5. CASE UNCHANGED vars
    <3>1. planned' = planned /\ pc' = pc /\ work' = work /\ pool' = pool
      BY <2>5 DEF vars
    <3>2. WorkSummary' = WorkSummary /\ Candidates' = Candidates
      BY <3>1, SamePool DEF WorkSummary
    <3>. QED BY <3>1, <3>2 DEF ValuesInv, ValuesInDomain
  <2>. QED BY <2>1, <2>2, <2>3, <2>4, <2>5 DEF Next
<1>. QED BY <1>1, <1>2, LayersInvHolds, PTL DEF Spec

------------------------------------------------------------------------------
\* The graph of the roles has no more units than the work, and both one sink: so
\* no less output is planned for the one than for the other.
LEMMA PlanTargetIsMore ==
  ASSUME LayersInv, PlanInv, pc = "accepted"
  PROVE  PlanDesign.target >= RoleDesign.target /\ RoleDesign.target \in Int
<1>. DEFINE n == Len(roles)
            s == ProposalSummary(proposal)
<1>1. /\ pc \in Drawn /\ pc \in Proposed /\ pc \in Planned
      /\ roles # <<>> /\ WorkIs(work) /\ ticket \in Tickets
  BY DEF Drawn, Proposed, Planned, LayersInv
<1>2. ticket.demand \in [task : Nat, evidence : Nat, rules : Nat, delivery : Nat]
  BY <1>1, PlanAssumption
<1>3. /\ Len(work.ids) \in Nat /\ Cardinality(work.graph.node) \in Nat
      /\ Cardinality(work.graph.node) <= Len(work.ids)
  BY <1>1, PlacesFinite DEF WorkIs
<1>4. n \in Nat /\ n <= Cardinality(work.graph.node)
  <2>1. n \in Nat /\ shape.team \in Nat /\ n = Min({shape.team, Cardinality(work.graph.node)})
    BY <1>1, RolesNumber
  <2>2. n = IF shape.team <= Cardinality(work.graph.node) THEN shape.team
            ELSE Cardinality(work.graph.node)
    BY <1>3, <2>1, MinOfTwo
  <2>. HIDE DEF n
  <2>3. \A k, t \in Nat : (IF t <= k THEN t ELSE k) <= k
    OBVIOUS
  <2>4. n <= Cardinality(work.graph.node)
    BY <1>3, <2>1, <2>2, <2>3
  <2>. QED BY <2>1, <2>4
<1>5. WorkSummary.units = Len(work.ids) /\ WorkSummary.sinks = 1
  BY <1>1, <1>3, SummaryIs DEF WorkSummary, WorkIs
<1>6. GraphIs(graph, n)
  BY <1>1, DrawnIs
<1>. HIDE DEF n
<1>7. s.units = n /\ s.sinks = 1
  <2>. DEFINE G == GraphOf(proposal)
  <2>1. RoleDag(proposal, n)
    BY <1>6 DEF GraphIs
  <2>2. G.node = proposal.node /\ G.edge = proposal.edge
    BY DEF GraphOf
  <2>3. s = Summary(G, Cardinality(proposal.node)) /\ Cardinality(proposal.node) = n
    BY <2>1, RoleDagIs DEF ProposalSummary
  <2>. HIDE DEF G
  <2>4. RoleDag(G, n)
    BY <2>1, <2>2 DEF RoleDag
  <2>5. Cardinality(Leaves(G)) = 1
    BY <2>4, RoleDagIs, FS_Singleton
  <2>. QED BY <2>3, <2>5 DEF Summary
<1>. HIDE DEF s
<1>8. /\ s.sinks = WorkSummary.sinks /\ s.sinks \in Nat /\ s.units \in Nat
      /\ WorkSummary.units \in Nat /\ s.units <= WorkSummary.units
  BY <1>3, <1>4, <1>5, <1>7
<1>9. VisibleTarget(ticket.demand, WorkSummary) >= VisibleTarget(ticket.demand, s)
  BY <1>2, <1>8, TargetGrows
<1>10. VisibleTarget(ticket.demand, s) \in Int
  BY <1>2, <1>8, TargetGrows
<1>. QED BY <1>9, <1>10 DEF PlanDesign, RoleDesign, s

\* Each value lies in the domain designed for it, each profile is of one design,
\* and no model that steps in plans for less output than the node's own.
THEOREM ParametersBoundSafe == Spec => []ParametersBound
<1>1. LayersInv /\ PlanInv /\ ValuesInv /\ RowsInv /\ NodesInv /\ ProfilesOfOneDesign
        => ParametersBound
  <2>. SUFFICES ASSUME LayersInv, PlanInv, ValuesInv, RowsInv, NodesInv, ProfilesOfOneDesign
                PROVE  ParametersBound
    OBVIOUS
  <2>1. ASSUME pc = "accepted", NEW r \in DOMAIN graph.node, NEW m \in Answering(r)
        PROVE  AnswersWith(r, m).target >= graph.node[r].profile.target
    <3>1. /\ graph.node[r].profile = proposal.profile
          /\ graph.node[r].recovery =
               [k \in plan.recovery |-> RecoveryProfile(plan.profile, proposal.profile)]
          /\ proposal.profile.target = RoleDesign.target
          /\ proposal.profile = [ids    |-> proposal.profile.ids,
                                 target |-> proposal.profile.target,
                                 active |-> proposal.profile.active]
      BY <2>1 DEF NodesInv, Proposed
    <3>2. plan.profile.target = PlanDesign.target
      BY <2>1 DEF RowsInv, Planned
    <3>3. PlanDesign.target >= RoleDesign.target /\ RoleDesign.target >= RoleDesign.target
      BY <2>1, PlanTargetIsMore
    <3>4. AnswersWith(r, m).target \in {PlanDesign.target, RoleDesign.target}
      <4>1. CASE m \in plan.recovery
        <5>1. AnswersWith(r, m) = RecoveryProfile(plan.profile, proposal.profile)
          BY <3>1, <4>1 DEF AnswersWith
        <5>2. RecoveryProfile(plan.profile, proposal.profile).target = plan.profile.target
          BY <3>1 DEF RecoveryProfile
        <5>. QED BY <3>2, <5>1, <5>2
      <4>2. CASE m \notin plan.recovery
        <5>1. AnswersWith(r, m) = graph.node[r].profile
          BY <3>1, <4>2 DEF AnswersWith
        <5>. QED BY <3>1, <5>1
      <4>. QED BY <4>1, <4>2
    <3>. QED BY <3>1, <3>3, <3>4
  <2>. QED BY <2>1 DEF ParametersBound, ValuesInv
<1>. QED BY <1>1, LayersInvHolds, PlanInvHolds, ValuesInvHolds, RowsInvHolds, NodesInvHolds,
            ProfilesOfOneDesignHolds, PTL
==============================================================================
