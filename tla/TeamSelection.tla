--------------------------- MODULE TeamSelection ---------------------------
(* How the candidates of a task are scored for its roles, and the team that   *)
(* follows from the scores.                                                   *)
(*                                                                            *)
(* Two schemes score a candidate.  The task scheme (v5_task_adaptive_scoring) *)
(* weighs fixed kinds of roles by the pressures of the task, and one sum of   *)
(* scores is minimized; the role scheme (v5_runtime_role_scoring) weighs each *)
(* role by its own structure, and capability comes before company diversity   *)
(* and economy, or before economy and diversity.  Tokens, characters and      *)
(* micro-dollars are integers; a rate is in dollars per million tokens.       *)
EXTENDS RoleAssignment, ParameterDesign

CONSTANT Queries  \* [optimizer, packet, summary, pool, roles, reserves]

Optimizer == {"task", "diverse", "economical"}

\* What a packet and a graph count, and what the catalog gives of a model, are
\* numbers.  A pool without a model is refused before, and so is a plan without
\* a role.
ASSUME QueriesAssumption ==
  \A q \in Queries :
    /\ q.optimizer \in Optimizer
    /\ q.packet \in [task : Nat, evidence : Nat, requirements : Nat, acceptance : Nat,
                     delivery : Nat, rows : Nat, extra : Nat, floor : Nat]
    /\ q.summary \in [units : Nat, edges : Nat, depth : Nat, width : Nat, sinks : Nat]
    /\ IsFiniteSet(DOMAIN q.pool) /\ DOMAIN q.pool # {}
    /\ DOMAIN q.pool = 1 .. Cardinality(DOMAIN q.pool)
    /\ \A m \in DOMAIN q.pool :
         q.pool[m] \in [prompt : Nat, completion : Nat, fee : Nat, context : Nat,
                       output : Nat, intelligence : Nat, popularity : Nat]
    /\ q.reserves \in Nat
    /\ q.optimizer # "task" =>
         /\ q.roles # <<>>
         /\ q.roles \in Seq([units : Nat, edges : Nat, functions : Nat, final : BOOLEAN])

Unknown == 0      \* a capacity or a rank the catalog does not give
Unranked == 1000000
Part == 1000      \* ratios and signals are held to a thousandth

VARIABLES
  query, phase,
  need,      \* [roles, recovery]: what each position asks of a model
  scores,    \* the metric of RoleAssignment, with the sum of both as score
  team,      \* [role, recovery]
  how        \* "none", "proven", "feasible", "greedy" or "refused"

teamVars == <<query, phase, need, scores, team, how>>

CeilDiv(i, j) == (i + j - 1) \div j
AtLeast(low, n) == Max({low, n})
Clamp(n) == Max({0, Min({100, n})})
Rounded(n, d) ==
  LET up == (2 * n + d) \div (2 * d)
  IN  IF (2 * n + d) % (2 * d) = 0 /\ up % 2 = 1 THEN up - 1 ELSE up

\* The square root, rounded down.
FloorRoot(n) == CHOOSE r \in 0 .. n : r * r <= n /\ n < (r + 1) * (r + 1)

(***************************************************************************)
(* The task scheme                                                         *)
(***************************************************************************)
\* build_task_demand_profile
TaskDemand(p) ==
  LET length      == p.task + p.evidence
      input       == Clamp(Rounded(length, 160))
      constraints == Clamp(10 * (p.requirements + p.acceptance))
      sources     == Clamp(10 * p.rows + p.evidence \div 500)
      delivery    == Clamp(12 * p.delivery + 4 * p.extra)
      overall     == Clamp(Rounded(30 * input + 30 * constraints
                                   + 20 * sources + 20 * delivery, 100))
      listed      == p.requirements + p.acceptance + p.delivery
      structural  == 1 + listed + p.rows + CeilDiv(length, 4000) + CeilDiv(overall, 15)
  IN  [input |-> input, constraints |-> constraints, evidence |-> sources,
       delivery |-> delivery, overall |-> overall, floor |-> p.floor,
       listed |-> listed, rows |-> p.rows, structural |-> structural,
       reserve |-> Max({256, CeilDiv(p.floor, 8), 64 * (1 + listed)}),
       prompt |-> Max({64, CeilDiv(p.floor, 32), CeilDiv(length, 2)}),
       completion |->
         Max({128, CeilDiv(p.floor, 16),
              CeilDiv(p.task, 10) + 96 * p.requirements + 72 * p.acceptance
                + 96 * p.delivery + 32 * AtLeast(1, p.rows)}),
       fanIn |-> CeilRoot(structural)]

Tokens(d, kind) ==
  LET inputs == CASE kind = "review" -> AtLeast(1, d.fanIn - 1)
                  [] kind \in {"synthesis", "recovery"} -> d.fanIn
                  [] OTHER -> 0
      completion ==
        CASE kind = "review" -> CeilDiv(d.completion * (1050 + d.overall), 1000)
          [] kind \in {"synthesis", "recovery"} ->
               CeilDiv(d.completion * (1150 + 2 * d.overall), 1000)
          [] OTHER -> d.completion
      prompt == d.prompt + inputs * d.completion
  IN  [prompt |-> prompt, completion |-> completion,
       context |-> d.floor + d.reserve + prompt + completion]

\* dynamic_role_weights
TaskWeights(d, kind) ==
  LET downstream == CASE kind = "review" -> 15
                      [] kind = "synthesis" -> 28
                      [] kind = "recovery" -> 10
                      [] OTHER -> 0
  IN  [cost |-> AtLeast(5, 70 - Rounded(45 * d.overall, 100) - downstream \div 3),
       intelligence |-> AtLeast(5, 12 + Rounded(35 * d.overall, 100)
                                      + Rounded(12 * d.constraints, 100) + downstream),
       popularity |-> AtLeast(3, 8 + Rounded(8 * d.evidence, 100) - downstream \div 6),
       capacity |-> AtLeast(5, 8 + Rounded(18 * d.input, 100)
                                 + Rounded(10 * d.delivery, 100) + downstream \div 2),
       marginal |-> AtLeast(5, 38 - Rounded(20 * d.overall, 100)
                                  + IF kind = "recovery" THEN 8 ELSE 0)]

\* _dynamic_team_shape: a root of the task's structure, then a share of it for
\* recovery, between a tenth and nine tenths.
TeamShape(d, candidates) ==
  LET breadth  == Min({100, 5 * d.listed + 3 * d.rows})
      primary  == Min({candidates, AtLeast(1, CeilRoot(d.structural))})
      share    == CeilDiv(primary * Min({198, AtLeast(22, d.overall + breadth + 20)}), 220)
  IN  IF candidates = 0 THEN [primary |-> 0, recovery |-> 0]
      ELSE [primary |-> primary, recovery |-> Min({candidates - primary, share})]

\* _role_plan: two kinds of independent experts by turns, a review from three
\* experts on, and a synthesis.
RolePlan(d, primary) ==
  LET first  == IF d.evidence + d.constraints >= d.delivery + d.constraints
                THEN "evidence" ELSE "options"
      second == IF first = "evidence" THEN "options" ELSE "evidence"
  IN  CASE primary <= 1 -> <<"synthesis">>
        [] primary = 2 -> <<first, "synthesis">>
        [] OTHER -> [i \in 1 .. primary - 2 |-> IF i % 2 = 1 THEN first ELSE second]
                    \o <<"review", "synthesis">>

TaskNeed(d, kind) ==
  [tokens |-> Tokens(d, kind), weights |-> TaskWeights(d, kind),
   unknown |-> [context |-> 5 * (Part \div 4), output |-> Part]]

(***************************************************************************)
(* The role scheme                                                         *)
(***************************************************************************)
Average(signals) == SumFunction(signals) \div Len(signals)

\* _normalized_integer_weights
Normalized(strengths, candidates) ==
  LET total == SumFunction(strengths)
      scale == AtLeast(1, candidates * Cardinality(DOMAIN strengths))
  IN  [k \in DOMAIN strengths |->
         AtLeast(1, IF total = 0 THEN candidates ELSE Rounded(strengths[k] * scale, total))]

\* The profile of the task that the roles are measured against, its pressures
\* in percent.
RoleDemand(p, summary) ==
  LET demand == [task |-> p.task, evidence |-> p.evidence,
                 rules |-> p.requirements + p.acceptance, delivery |-> p.delivery]
      signal == Pressure(demand, summary)
      length == Characters(demand)
      prompt == Max({p.floor, length})
      completion == AtLeast(1, CeilRoot(length + 1) * Max({1, p.delivery, summary.sinks}))
  IN  [input |-> signal[1], constraints |-> signal[2], evidence |-> signal[3],
       delivery |-> signal[4], overall |-> signal[6], floor |-> p.floor,
       prompt |-> prompt, completion |-> completion,
       reserve |-> AtLeast(1, CeilRoot(prompt * completion)), units |-> summary.units]

\* role_structural_profile of a role [units, edges, functions, final].
RoleNeed(d, role, candidates) ==
  LET units      == AtLeast(1, role.units)
      structural == units + role.edges + AtLeast(1, role.functions)
                    + IF role.final THEN 1 ELSE 0
      ratio      == (structural * Part) \div (structural + AtLeast(1, d.units))
      coupling   == (role.edges * Part) \div (units + role.edges)
      signal     == [k \in {"input", "constraints", "evidence", "delivery", "overall"} |->
                       Clamp(d[k]) * (Part \div 100)]
      reserve    == CeilRoot(d.reserve * d.reserve * structural)
      prompt     == d.prompt + role.edges * d.completion + (units - 1) * reserve
      pressure   == Average(<<signal.overall, signal.constraints, signal.delivery, ratio>>)
      completion == CeilDiv(d.completion * (Part + pressure), Part)
      quality    == Average(<<signal.overall, ratio, signal.constraints>>)
      economy    == AtLeast(0, Part - quality)
  IN  [tokens |-> [prompt |-> prompt, completion |-> completion,
                   context |-> d.floor + reserve + prompt + completion],
       weights |->
         Normalized([cost |-> economy, intelligence |-> quality,
                     popularity |-> Average(<<Part - signal.evidence, signal.delivery>>),
                     capacity |-> Average(<<signal.input, signal.delivery, ratio, coupling>>),
                     marginal |-> FloorRoot(economy * quality)], candidates),
       unknown |-> [context |-> 0, output |-> 0]]

\* build_runtime_recovery_metrics: the role with the largest context, then with
\* the largest output, the last of those.
Heaviest(needs) ==
  LET weight(i) == <<needs[i].tokens.context, needs[i].tokens.completion, i>>
  IN  needs[CHOOSE i \in DOMAIN needs :
              \A j \in DOMAIN needs \ {i} : Before(weight(j), weight(i))]

(***************************************************************************)
(* The scores                                                              *)
(***************************************************************************)
Cost(row, tokens) ==
  row.prompt * tokens.prompt + row.completion * tokens.completion + row.fee

\* _capacity: how much of a model's context and of its output a role takes.
Load(row, n) ==
  [context |-> IF row.context = Unknown THEN n.unknown.context
               ELSE (n.tokens.context * Part) \div row.context,
   output |-> IF row.output = Unknown THEN n.unknown.output
              ELSE (n.tokens.completion * Part) \div row.output]

Shortfall(load) == AtLeast(0, load.context - Part) + AtLeast(0, load.output - Part)

RankOf(row, k) == IF row[k] = Unknown THEN Unranked ELSE row[k]

\* _rank_map: the place of a model; models are numbered in the order of their
\* names, which decides between equals.
Place(models, less(_, _), m) ==
  Cardinality({n \in models : n = m \/ less(n, m) \/ (~less(m, n) /\ n < m)})
PlaceBy(key, m) == Place(DOMAIN key, LAMBDA i, j : key[i] < key[j], m)

\* The penalty of a shortfall grows with the pressure of the task: in whole
\* fiftieths in the task scheme, by a share of it in the role scheme.
Penalty(optimizer, short, n, overall, candidates) ==
  LET scale == SumFunction(n.weights) * candidates
  IN  IF optimizer = "task"
      THEN Rounded(short * AtLeast(1, (scale * (1 + overall)) \div 50), Part)
      ELSE Rounded(short * AtLeast(1, scale) * (100 + overall), Part * 100)

\* build_role_metrics: five places, weighed, and what the capacity lacks.
Scored(optimizer, pool, n, overall) ==
  LET models  == DOMAIN pool
      cost    == [m \in models |-> Cost(pool[m], n.tokens)]
      load    == [m \in models |-> Load(pool[m], n)]
      risk    == [m \in models |-> load[m].context + load[m].output]
      rank(k) == [m \in models |-> RankOf(pool[m], k)]
      smart   == [m \in models |-> PlaceBy(rank("intelligence"), m)]
      utility == [m \in models |-> AtLeast(1, Cardinality(models) + 1 - smart[m])]
      cheaper(i, j) == cost[i] * utility[j] < cost[j] * utility[i]
  IN  [m \in models |->
         [capability |-> n.weights.intelligence * smart[m]
                         + n.weights.popularity * PlaceBy(rank("popularity"), m)
                         + n.weights.capacity * PlaceBy(risk, m)
                         + Penalty(optimizer, Shortfall(load[m]), n, overall,
                                   Cardinality(models)),
          economy |-> n.weights.cost * PlaceBy(cost, m)
                      + n.weights.marginal * Place(models, cheaper, m),
          cost |-> cost[m]]]

(***************************************************************************)
(* The team                                                                *)
(***************************************************************************)
Names(pool) == [i \in 1 .. Cardinality(DOMAIN pool) |-> i]

\* Position 0 is recovery, as in RoleAssignment.
Metric(optimizer, pool, needs, overall) ==
  LET at(r) == Scored(optimizer, pool, IF r = 0 THEN needs.recovery ELSE needs.roles[r], overall)
      all   == [r \in 0 .. Len(needs.roles) |-> at(r)]
      of(k) == [m \in DOMAIN pool |-> [r \in DOMAIN all |-> all[r][m][k]]]
  IN  [capability |-> of("capability"), economy |-> of("economy"), cost |-> of("cost")]

SumAt(metric, m, r) == metric.capability[m][r] + metric.economy[m][r]
SumOf(metric, a) == Total(metric.capability, a) + Total(metric.economy, a)

\* The task scheme's tie-break: the candidate's place in the pool, then the role.
TaskTie(candidates, a) ==
  Total([m \in 1 .. candidates |->
           [r \in 0 .. Len(a.role) |->
              IF r = 0 THEN m - 1 ELSE (m - 1) * Len(a.role) + r - 1]], a)

TieBase(candidates, a) == AtLeast(2, candidates * AtLeast(1, Len(a.role)) + 1)

\* Mutant: the tie-break weighs as much as the score.
TaskObjectiveFlat(metric, candidates, a) == SumOf(metric, a) + TaskTie(candidates, a)

TaskObjective(metric, candidates, a) ==
  SumOf(metric, a) * TieBase(candidates, a) + TaskTie(candidates, a)

\* v5_runtime_role_assignment: company diversity comes before economy.
DiverseObjective(metric, cands, roles, recovery, a) ==
  LET tie      == Positions(roles, recovery) * (Len(cands) * (roles + 1) + roles + 1)
      economy  == MaxEconomy(cands, roles, recovery, metric)
      byTie    == tie + 1
      byRepeat == economy * byTie + tie + 1
      byBest   == byRepeat * (Positions(roles, recovery) + 1)
  IN  Total(metric.capability, a) * byBest + RepeatedCompanies(a) * byRepeat
      + Total(metric.economy, a) * byTie + Total(TieScore(cands, roles), a)

Goal(optimizer, metric, cands, a) ==
  LET roles == Len(a.role)
      recovery == Cardinality(a.recovery)
  IN  CASE optimizer = "task" -> TaskObjective(metric, Len(cands), a)
        [] optimizer = "diverse" -> DiverseObjective(metric, cands, roles, recovery, a)
        [] OTHER -> Objective(a, cands, roles, recovery, metric)

\* What the free models are ordered by when there is no solution in time.
GreedyKey(optimizer, metric, m, r, taken) ==
  LET repeated == IF Company[m] \in {Company[t] : t \in taken} THEN 1 ELSE 0
  IN  CASE optimizer = "task" -> <<SumAt(metric, m, r), metric.cost[m][r], m>>
        [] optimizer = "diverse" ->
             <<metric.capability[m][r], repeated, metric.economy[m][r], metric.cost[m][r], m>>
        [] OTHER ->
             <<metric.capability[m][r], metric.economy[m][r], repeated, metric.cost[m][r], m>>

\* The best of the models that are not taken, by that key.
BestLeft(optimizer, metric, cands, r, taken) ==
  CHOOSE m \in Range(cands) \ Range(taken) :
    \A n \in Range(cands) \ (Range(taken) \cup {m}) :
      Before(GreedyKey(optimizer, metric, m, r, Range(taken)),
             GreedyKey(optimizer, metric, n, r, Range(taken)))

\* Role after role, then recovery after recovery; the key knows the companies of
\* all that are taken.
GreedyTeam(optimizer, metric, cands, roles, recovery) ==
  LET taken[n \in 0 .. roles + recovery] ==
        IF n = 0 THEN <<>>
        ELSE Append(taken[n - 1],
                    BestLeft(optimizer, metric, cands, IF n > roles THEN 0 ELSE n,
                             taken[n - 1]))
      all == taken[roles + recovery]
  IN  [role |-> SubSeq(all, 1, roles),
       recovery |-> Range(SubSeq(all, roles + 1, roles + recovery))]

(***************************************************************************)
(* One selection                                                           *)
(***************************************************************************)
NoTeam == [role |-> <<>>, recovery |-> {}]

TeamInit ==
  /\ query \in Queries
  /\ phase = "query"
  /\ need = [roles |-> <<>>, recovery |-> <<>>]
  /\ scores = [capability |-> <<>>, economy |-> <<>>, cost |-> <<>>]
  /\ team = NoTeam
  /\ how = "none"

\* The task scheme makes its own roles, the role scheme is given them.
MeasureTask ==
  /\ phase = "query" /\ query.optimizer = "task"
  /\ LET d     == TaskDemand(query.packet)
         size  == TeamShape(d, Cardinality(DOMAIN query.pool))
         kinds == RolePlan(d, size.primary)
     IN  need' = [roles |-> [i \in DOMAIN kinds |-> TaskNeed(d, kinds[i])],
                  recovery |-> TaskNeed(d, "recovery"),
                  size |-> size, overall |-> d.overall]
  /\ phase' = "measured"
  /\ UNCHANGED <<query, scores, team, how>>

MeasureRoles ==
  /\ phase = "query" /\ query.optimizer # "task"
  /\ LET d == RoleDemand(query.packet, query.summary)
         n == Cardinality(DOMAIN query.pool)
         needs == [i \in DOMAIN query.roles |-> RoleNeed(d, query.roles[i], n)]
     IN  IF n < Len(query.roles) + query.reserves
         THEN /\ phase' = "done" /\ how' = "refused"
              /\ UNCHANGED need
         ELSE /\ need' = [roles |-> needs, recovery |-> Heaviest(needs),
                          size |-> [primary |-> Len(needs), recovery |-> query.reserves],
                          overall |-> Clamp(d.overall)]
              /\ phase' = "measured" /\ UNCHANGED how
  /\ UNCHANGED <<query, scores, team>>

Score ==
  /\ phase = "measured"
  /\ scores' = Metric(query.optimizer, query.pool, need, need.overall)
  /\ phase' = "scored"
  /\ UNCHANGED <<query, need, team, how>>

\* The solver proves its team to be the best, or stops in time with one that
\* may be any; it may also stop without one.
SolveFor(optimizer) ==
  /\ phase = "scored" /\ query.optimizer = optimizer
  /\ LET cands == Names(query.pool)
         all   == Assignments(cands, need.size.primary, need.size.recovery)
         goal  == [a \in all |-> Goal(optimizer, scores, cands, a)]
     IN  \/ /\ how' = "proven"
            /\ team' \in {a \in all : \A b \in all : goal[a] <= goal[b]}
         \/ /\ how' = "feasible"
            /\ team' \in all
         \/ /\ how' = "greedy"
            /\ team' = GreedyTeam(optimizer, scores, cands,
                                  need.size.primary, need.size.recovery)
  /\ phase' = "done"
  /\ UNCHANGED <<query, need, scores>>

\* _solve, and solve_runtime_roles of the two role schemes.
SolveTask == SolveFor("task")
SolveDiverse == SolveFor("diverse")
SolveEconomical == SolveFor("economical")

NextTeam ==
  MeasureTask \/ MeasureRoles \/ Score \/ SolveTask \/ SolveDiverse \/ SolveEconomical

TeamSpec == TeamInit /\ [][NextTeam]_teamVars

(***************************************************************************)
(* Properties                                                              *)
(***************************************************************************)
\* m is better than n for a position in everything the catalog tells of them.
Better(m, n, position) ==
  LET pool == query.pool
  IN  /\ Cost(pool[m], position.tokens) < Cost(pool[n], position.tokens)
      /\ \A k \in {"intelligence", "popularity"} :
           RankOf(pool[m], k) < RankOf(pool[n], k)
      /\ \A k \in {"context", "output"} :
           Load(pool[m], position)[k] < Load(pool[n], position)[k]

\* No model stands by while one that it betters in every respect has a place:
\* with any of the three optimizers, and without a solution as well.
BetterModelNotLeftOut ==
  how \in {"proven", "greedy"} =>
    \A m \in DOMAIN query.pool \ Assigned(team) :
      /\ \A r \in DOMAIN team.role : ~Better(m, team.role[r], need.roles[r])
      /\ \A n \in team.recovery : ~Better(m, n, need.recovery)

\* The task scheme's tie-breaks add up over the positions and can outweigh a
\* point of the score, but never as many points as there are positions.
NearlyLeast ==
  how = "proven" /\ query.optimizer = "task" =>
    \A a \in Assignments(Names(query.pool), need.size.primary, need.size.recovery) :
      SumOf(scores, team) < SumOf(scores, a) + Cardinality(Assigned(team))

\* In the task scheme a recovery model is sized for every role it may take
\* over; in the role scheme for the context of each, not for its output.
RecoverySizedForAll ==
  phase \in {"measured", "scored"} =>
    \A r \in DOMAIN need.roles :
      /\ need.roles[r].tokens.context <= need.recovery.tokens.context
      /\ query.optimizer = "task" =>
           /\ need.roles[r].tokens.prompt <= need.recovery.tokens.prompt
           /\ need.roles[r].tokens.completion <= need.recovery.tokens.completion

\* The team is the one the scores call for: no model is left out for one it
\* betters, and no other team has a score smaller by as much as the tie-breaks
\* may weigh.
TeamWellChosen ==
  /\ BetterModelNotLeftOut
  /\ NearlyLeast
  /\ RecoverySizedForAll
==============================================================================
