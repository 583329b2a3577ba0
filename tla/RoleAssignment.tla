--------------------------- MODULE RoleAssignment ---------------------------
(* Which model takes which role (v5_cost_effectiveness_role_assignment.py).  *)
(*                                                                            *)
(* An assignment gives every role a model of its own and sets some other      *)
(* models aside for recovery.  The solver minimizes one weighted sum; when it *)
(* has no solution in time, or refuses the model, the roles are filled one    *)
(* after another.  A metric gives every model, for every role and for         *)
(* recovery (position 0), a capability and an economy rank score, lower is    *)
(* better, and a cost.                                                        *)
EXTENDS WorkGraph

CONSTANT Company            \* Company[m]: who makes model m; models are numbers

\* What is assigned: the candidates in their order, the number of roles and the
\* number of recovery models.
Assignments(cands, roles, recovery) ==
  {a \in [role: Injection(1..roles, Range(cands)),
          recovery: kSubset(recovery, Range(cands))] :
     Range(a.role) \cap a.recovery = {}}

Positions(roles, recovery) == roles + recovery
Assigned(a) == Range(a.role) \cup a.recovery

\* The sum of a score over the positions of an assignment.
Total(score, a) ==
  SumFunction([r \in DOMAIN a.role |-> score[a.role[r]][r]])
  + SumFunction([m \in a.recovery |-> score[m][0]])

\* The order of the candidates decides between equals.
TieScore(cands, roles) ==
  [m \in Range(cands) |->
     LET i == CHOOSE i \in DOMAIN cands : cands[i] = m
     IN [r \in 0..roles |-> IF r = 0 THEN Len(cands) * roles + i - 1
                            ELSE (i - 1) * roles + r - 1]]

\* How many positions are held by a company that holds another one.
RepeatedCompanies(a) ==
  Cardinality(Assigned(a)) - Cardinality({Company[m] : m \in Assigned(a)})

------------------------------------------------------------------------------
\* The scales that are meant to make the weighted sum lexicographic.
MaxTie(cands, roles, recovery) ==
  LET perPosition == Len(cands) * (roles + 1) + roles + 1
  IN Positions(roles, recovery) * perPosition

DiversityScale(tie) == tie + 1
EconomyScale(positions, tie) == positions * DiversityScale(tie) + tie + 1

\* Mutant: the capability scale leaves the largest economy out.
CapabilityScaleFlat(economy, positions, tie) ==
  EconomyScale(positions, tie) + positions * DiversityScale(tie) + tie + 1

CapabilityScale(economy, positions, tie) ==
  economy * EconomyScale(positions, tie) + positions * DiversityScale(tie) + tie + 1

Weighted(capability, economy, repeated, tie, maxEconomy, positions, maxTie) ==
  capability * CapabilityScale(maxEconomy, positions, maxTie)
  + economy * EconomyScale(positions, maxTie)
  + repeated * DiversityScale(maxTie)
  + tie

\* The largest score of a candidate in any position.
Largest(score, models, roles) == Max({score[m][r] : m \in models, r \in 0..roles})

\* Mutant: the economy of one position stands for that of all.
MaxEconomyOne(cands, roles, recovery, metric) ==
  Max({1, Largest(metric.economy, Range(cands), roles)})

MaxEconomy(cands, roles, recovery, metric) ==
  Max({1, Positions(roles, recovery) * Largest(metric.economy, Range(cands), roles)})

Objective(a, cands, roles, recovery, metric) ==
  Weighted(Total(metric.capability, a), Total(metric.economy, a),
           RepeatedCompanies(a), Total(TieScore(cands, roles), a),
           MaxEconomy(cands, roles, recovery, metric),
           Positions(roles, recovery), MaxTie(cands, roles, recovery))

\* No total of the assignment exceeds the bound its scale is computed from.
TotalsFit(a, cands, roles, recovery, metric) ==
  /\ {MaxEconomy(cands, roles, recovery, metric), Positions(roles, recovery),
      MaxTie(cands, roles, recovery), Total(metric.capability, a)} \subseteq Nat
  /\ Total(metric.economy, a) \in 0..MaxEconomy(cands, roles, recovery, metric)
  /\ RepeatedCompanies(a) \in 0..Positions(roles, recovery)
  /\ Total(TieScore(cands, roles), a) \in 0..MaxTie(cands, roles, recovery)

Optimal(cands, roles, recovery, metric) ==
  {a \in Assignments(cands, roles, recovery) :
     \A b \in Assignments(cands, roles, recovery) :
        Objective(a, cands, roles, recovery, metric)
          <= Objective(b, cands, roles, recovery, metric)}

------------------------------------------------------------------------------
\* Without a solution: role after role, then recovery after recovery, the best
\* of the models still free.
RankKey(m, r, metric, taken) ==
  <<metric.capability[m][r], metric.economy[m][r],
    IF Company[m] \in {Company[t] : t \in taken} THEN 1 ELSE 0,
    metric.cost[m], m>>

BestFree(cands, r, metric, taken) ==
  CHOOSE m \in Range(cands) \ taken :
    \A n \in Range(cands) \ (taken \cup {m}) :
      Before(RankKey(m, r, metric, taken), RankKey(n, r, metric, taken))

\* The models taken in turn: one per role, then the recovery models.
Greedy(cands, roles, recovery, metric) ==
  LET taken[n \in 0..roles + recovery] ==
        IF n = 0 THEN <<>>
        ELSE Append(taken[n-1],
                    BestFree(cands, IF n > roles THEN 0 ELSE n, metric,
                             Range(taken[n-1])))
      all == taken[roles + recovery]
  IN [role     |-> SubSeq(all, 1, roles),
      recovery |-> Range(SubSeq(all, roles + 1, roles + recovery))]
==============================================================================
