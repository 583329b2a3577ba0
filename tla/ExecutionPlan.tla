---------------------------- MODULE ExecutionPlan ----------------------------
(* From a ticket to the graph the engine runs.                                *)
(*                                                                            *)
(* The ticket's work graph decides which parameters a plan has; it is cut     *)
(* into roles, each role gets a model of the pool, the plan becomes a         *)
(* proposal of nodes and edges, and the proposal an execution graph, which    *)
(* the engine validates before its first call.  Every layer checks what the   *)
(* one before it made: a plan that one of them refuses never reaches a model. *)
EXTENDS RoleAssignment, ParameterDesign

CONSTANTS
  Tickets,         \* [units, evidence, demand]
  Pools,           \* the candidates of a governance plan, in their order
  Routed,          \* the models that only a forbidden route reaches
  Weights,         \* the weight of a unit: the square root of its text's length
  IntegrationWeight,
  Metrics,         \* the scores the candidates may have
  Advisories,      \* the cost advisory of the ticket, or NoAdvisory
  NoAdvisory

\* Models are numbers; scores are ranks and costs, for every role there can be.
\* A demand counts characters, rules and items.
\* An identity is a name and numbers, and no listed unit has the one of the last
\* unit, which is a digest of others.
IsIdentity(id) ==
  /\ Tail(id) \in Seq(Nat) /\ id = <<Head(id)>> \o Tail(id)
  /\ id # <<"integration">>

ASSUME PlanAssumption ==
  /\ \A t \in Tickets :
       /\ t.units \in Seq(Range(t.units)) /\ t.evidence \in Seq(Range(t.evidence))
       /\ \A i \in DOMAIN t.units : t.units[i].id # NoId => IsIdentity(t.units[i].id)
       /\ t.demand \in [task : Nat, evidence : Nat, rules : Nat, delivery : Nat]
  /\ Pools \subseteq Seq(Nat)
  /\ \A p \in Pools : \A m \in Range(p) : \A s \in Metrics :
       /\ s.cost[m] \in Nat
       /\ \A r \in 0..Cardinality(Range(p)) :
            s.capability[m][r] \in Nat /\ s.economy[m][r] \in Nat

VARIABLES
  pc,
  ticket, pool,
  work,            \* the ids of the units in order, and their graph
  planned,         \* the parameters of the plan: their designs and values
  shape,           \* how many roles and how many recovery models
  roles,           \* what each role is assigned: units, in order
  plan,            \* the models: selected, recovery, standby
  optimal,         \* the solver proved its assignment optimal
  metric,
  proposal,        \* nodes, edges, final nodes, efforts, profiles
  graph,           \* the execution graph
  refusal          \* why there is none

vars == <<pc, ticket, pool, work, planned, shape, roles, plan, optimal, metric,
          proposal, graph, refusal>>

NoPlan == [selected |-> <<>>, recovery |-> {}, standby |-> {}, profile |-> NoProfile]
NoMetric == [capability |-> <<>>, economy |-> <<>>, cost |-> <<>>]
NoProposal == [node |-> {}, edge |-> {}, final |-> {}, effort |-> <<>>,
               profile |-> NoProfile]
NoGraph == [node |-> <<>>, edge |-> {}, stages |-> <<>>, entry |-> {},
            final |-> {}, required |-> {}, cost |-> 0, calls |-> 0]

Init ==
  /\ pc = "ticket"
  /\ ticket \in Tickets
  /\ pool \in Pools
  /\ work = [ids |-> <<>>, graph |-> [node |-> {}, edge |-> {}]]
  /\ planned = NoParameters
  /\ shape = [team |-> 0, recovery |-> 0]
  /\ roles = <<>>
  /\ plan = NoPlan
  /\ optimal = FALSE
  /\ metric = NoMetric
  /\ proposal = NoProposal
  /\ graph = NoGraph
  /\ refusal = {}

Refuse(why) ==
  /\ pc' = "refused"
  /\ refusal' = why

------------------------------------------------------------------------------
\* The work graph.  Only what the ticket itself declares can be cyclic.
BuildWorkGraph ==
  LET units == TicketUnits(ticket)
      ids   == UnitIds(units)
      own   == TicketGraph(units, ids)
      whole == Integrated(own)
  IN /\ pc = "ticket"
     /\ IF ~Acyclic(own)
        THEN Refuse({"cyclic"}) /\ UNCHANGED work
        ELSE /\ work' = [ids |-> IF whole = own THEN ids
                                 ELSE Append(ids, <<"integration">>),
                         graph |-> whole]
             /\ pc' = "graph"
             /\ UNCHANGED refusal
     /\ UNCHANGED <<ticket, pool, planned, shape, roles, plan, optimal, metric,
                    proposal, graph>>

\* The candidates: only models a request may name, and each once, where the pool
\* has it first.
FirstPlaces(seq, excluded) ==
  {i \in DOMAIN seq : seq[i] \notin excluded /\ \A j \in 1..i-1 : seq[j] # seq[i]}

Distinct(seq, excluded) ==
  LET places == FirstPlaces(seq, excluded)
  IN [n \in 1..Cardinality(places) |->
        seq[CHOOSE i \in places : Cardinality({j \in places : j < i}) = n - 1]]

\* Mutant: the routed models are kept.
CandidatesRouted == Distinct(pool, {})

Candidates == Distinct(pool, Routed)

WorkSummary == Summary(work.graph, Len(work.ids))

\* The parameters the plan needs, designed before any has a value.
DesignParameters ==
  LET designs  == Designs(WorkSummary, Candidates)
      problems == IF Candidates = <<>> THEN {"no candidate"}
                  ELSE DesignProblems(designs)
  IN /\ pc = "graph"
     /\ IF problems # {}
        THEN Refuse(problems) /\ UNCHANGED planned
        ELSE /\ planned' = [design |-> designs, value |-> <<>>]
             /\ pc' = "designed"
             /\ UNCHANGED refusal
     /\ UNCHANGED <<ticket, pool, work, shape, roles, plan, optimal, metric,
                    proposal, graph>>

\* The optimizer may return any shape of its search space: a role for each
\* candidate and unit at most, and recovery models among the candidates left, if
\* that is a parameter of the plan.  The other values follow from the graph.
Shapes ==
  {[team |-> team, recovery |-> recovery] :
     team \in 1..Min({Len(Candidates), Len(work.ids)}),
     recovery \in 0..Len(Candidates)}

Allowed(s) ==
  IF "initial-recovery-allocation" \in DOMAIN planned.design
  THEN s.team + s.recovery <= Len(Candidates) ELSE s.recovery = 0

OptimizeShape ==
  /\ pc = "designed"
  /\ \E s \in {s \in Shapes : Allowed(s)} :
       LET values == Resolved(planned.design, WorkSummary, s)
       IN IF CoverageProblems(planned.design, values) # {}
          THEN /\ Refuse(CoverageProblems(planned.design, values))
               /\ UNCHANGED <<shape, planned>>
          ELSE /\ shape' = s
               /\ planned' = [planned EXCEPT !.value = values]
               /\ pc' = "shape"
               /\ UNCHANGED refusal
  /\ UNCHANGED <<ticket, pool, work, roles, plan, optimal, metric, proposal, graph>>

------------------------------------------------------------------------------
\* The roles: the topological order is cut where the weight of a role is
\* reached, as long as enough units are left for the roles to come.
Sum(weight, units) == MapThenSumSet(LAMBDA i : weight[units[i]], DOMAIN units)

\* The n-th unit begins a new role.
Begins(b, n, order, team, weight) ==
  LET full == Sum(weight, Last(b)) + weight[order[n]]
  IN /\ Len(b) < team
     /\ Last(b) # <<>>
     /\ full * team > Sum(weight, order)
     /\ Len(order) - (n - 1) > team - Len(b)

Packed(b, n, order, team, weight) ==
  IF Begins(b, n, order, team, weight) THEN Append(b, <<order[n]>>)
  ELSE ReplaceAt(b, Len(b), Append(Last(b), order[n]))

Buckets(order, team, weight) ==
  LET cut[n \in 0..Len(order)] ==
        IF n = 0 THEN << <<>> >> ELSE Packed(cut[n-1], n, order, team, weight)
  IN cut[Len(order)]

\* Too few roles: the longest one, the first of them, is cut in half.
IsLongest(k, b) ==
  /\ \A j \in DOMAIN b : Len(b[j]) <= Len(b[k])
  /\ \A j \in 1..k-1 : Len(b[j]) < Len(b[k])

SplitLargest(b) ==
  LET k    == CHOOSE k \in DOMAIN b : IsLongest(k, b)
      half == (Len(b[k]) + 1) \div 2
  IN IF Len(b[k]) <= 1 THEN b
     ELSE SubSeq(b, 1, k - 1)
          \o <<SubSeq(b[k], 1, half), SubSeq(b[k], half + 1, Len(b[k]))>>
          \o SubSeq(b, k + 1, Len(b))

FilledUp(b, team) ==
  LET split[n \in 0..team] ==
        IF n = 0 THEN b
        ELSE IF Len(split[n-1]) < team THEN SplitLargest(split[n-1]) ELSE split[n-1]
  IN split[team]

Partition(order, team, weight) ==
  LET size == Min({team, Len(order)})
  IN FilledUp(Buckets(order, size, weight), size)

RoleOf(parts, unit) == CHOOSE r \in DOMAIN parts : Contains(parts[r], unit)

\* Mutant: a role depends on the one before it only.
RoleEdgesAdjacent(parts, G) ==
  {<<RoleOf(parts, e[1]), RoleOf(parts, e[2])>> : e \in G.edge}
    \cap {<<r, r + 1>> : r \in DOMAIN parts}

\* The roles a role depends on: those of the units its units depend on.
RoleEdges(parts, G) ==
  {<<RoleOf(parts, e[1]), RoleOf(parts, e[2])>> : e \in G.edge}
    \ {<<r, r>> : r \in DOMAIN parts}

RoleGraph(parts, G) == [node |-> DOMAIN parts, edge |-> RoleEdges(parts, G)]

WeightsOf(units) ==
  {w \in [units -> Weights \cup {IntegrationWeight}] :
     \A u \in units : IF u = <<"integration">> THEN w[u] = IntegrationWeight
                      ELSE w[u] \in Weights}

PartitionRoles ==
  /\ pc = "shape"
  /\ \E order \in TopologicalOrders(work.graph) :
       \E weight \in WeightsOf(work.graph.node) :
         LET parts == Partition(order, shape.team, weight)
         IN IF Acyclic(RoleGraph(parts, work.graph))
            THEN /\ roles' = parts
                 /\ planned' = Extended(planned, ticket.demand, WorkSummary)
                 /\ pc' = "roles"
                 /\ UNCHANGED refusal
            ELSE Refuse({"role cycle"}) /\ UNCHANGED <<roles, planned>>
  /\ UNCHANGED <<ticket, pool, work, shape, plan, optimal, metric, proposal, graph>>

------------------------------------------------------------------------------

\* The models.  The solver returns an optimal assignment, any assignment when
\* its time is over, or none; who is left stands by.  The rows of the selected and
\* of the recovery models carry the profile of the plan's resources.
Adopt(a) ==
  plan' = [selected |-> a.role, recovery |-> a.recovery,
           standby |-> Range(Candidates) \ Assigned(a),
           profile |-> Profile(planned, "units")]

TooFewCandidates == Len(Candidates) < Len(roles) + shape.recovery

AssignModels ==
  LET n == Len(roles)
      k == shape.recovery
  IN /\ pc = "roles"
     /\ IF TooFewCandidates
        THEN Refuse({"too few candidates"}) /\ UNCHANGED <<plan, optimal, metric>>
        ELSE /\ metric' \in Metrics
             /\ \/ \E a \in Optimal(Candidates, n, k, metric') :
                     Adopt(a) /\ optimal' = TRUE
                \/ \E a \in Assignments(Candidates, n, k) :
                     Adopt(a) /\ optimal' = FALSE
                \/ Adopt(Greedy(Candidates, n, k, metric')) /\ optimal' = FALSE
             /\ pc' = "plan"
             /\ UNCHANGED refusal
     /\ UNCHANGED <<ticket, pool, work, planned, shape, roles, proposal, graph>>

\* The pipeline starts: the plan is checked again and its capacity, a call for
\* every model in it, derived.
Capacity(p) == Len(p.selected) + Cardinality(p.recovery) + Cardinality(p.standby)

PlanProblems(p, advisory) ==
  {c \in {"advisory", "no expert", "duplicate model"} :
     CASE c = "advisory"        -> advisory # NoAdvisory /\ advisory <= 0
       [] c = "no expert"       -> p.selected = <<>>
       [] c = "duplicate model" -> \/ ~IsInjective(p.selected)
                                   \/ Range(p.selected) \cap p.recovery # {}}

CheckPlan ==
  /\ pc = "plan"
  /\ \E advisory \in Advisories :
       IF PlanProblems(plan, advisory) # {}
       THEN Refuse(PlanProblems(plan, advisory))
       ELSE pc' = "checked" /\ UNCHANGED refusal
  /\ UNCHANGED <<ticket, pool, work, planned, shape, roles, plan, optimal, metric,
                 proposal, graph>>

------------------------------------------------------------------------------
\* How much reasoning a role may use: the task's pressure decides for all, what
\* a role carries moves it one step up or down.  A signal above one is read as a
\* percentage, one percent as the whole.
Hundredths(p) == IF p > 1 THEN p ELSE 100 * p

GlobalEffort(signals) ==
  LET sum == MapThenSumSet(LAMBDA i : Hundredths(signals[i]), DOMAIN signals)
  IN Min({3, 1 + (sum * 3) \div (100 * Len(signals))})

Demand(G, r) == 1 + InDegree(G, r) + OutDegree(G, r)

Efforts(G, signals) ==
  LET demands  == {Demand(G, r) : r \in G.node}
      relative(r) == IF Cardinality(demands) = 1 THEN 0
                     ELSE IF Demand(G, r) = Max(demands) THEN 1
                     ELSE IF Demand(G, r) = Min(demands) THEN -1 ELSE 0
  IN [r \in G.node |-> Max({1, Min({3, GlobalEffort(signals) + relative(r)})})]

\* The proposal: a node and a piece of work for every role, and its parameters
\* closed.
RoleProposal ==
  LET G == RoleGraph(roles, work.graph)
  IN [node |-> G.node, edge |-> G.edge, final |-> Leaves(G),
      effort |-> Efforts(G, Pressure(ticket.demand, Summary(G, Cardinality(G.node)))),
      profile |-> plan.profile]

BuildProposal ==
  /\ pc = "checked"
  /\ IF ClosureProblems(RoleProposal) # {}
     THEN Refuse(ClosureProblems(RoleProposal)) /\ UNCHANGED proposal
     ELSE /\ proposal' = [RoleProposal EXCEPT !.profile =
                            ClosedProfile(@, ClosureParameters(RoleProposal, ticket.demand))]
          /\ pc' = "proposed"
          /\ UNCHANGED refusal
  /\ UNCHANGED <<ticket, pool, work, planned, shape, roles, plan, optimal, metric,
                 graph>>

\* Costs are billionths of a dollar; the total is kept to eight decimals.
EightDecimals(cost) == 10 * ((cost + 5) \div 10)

\* The stages: whatever has all it depends on in the earlier ones.
MaterializedGraph ==
  [node     |-> [r \in proposal.node |->
                   [model    |-> plan.selected[r],
                    work     |-> {r},
                    cost     |-> metric.cost[plan.selected[r]],
                    profile  |-> proposal.profile,
                    recovery |-> [m \in plan.recovery |->
                                    RecoveryProfile(plan.profile, proposal.profile)]]],
   edge     |-> proposal.edge,
   stages   |-> Generations(proposal),
   entry    |-> proposal.node \ {e[2] : e \in proposal.edge},
   final    |-> proposal.final,
   required |-> proposal.node,
   cost     |-> EightDecimals(MapThenSumSet(
                  LAMBDA r : metric.cost[plan.selected[r]], proposal.node)),
   calls    |-> Max({1, Cardinality(proposal.node) + Cardinality(plan.recovery)
                          + Cardinality(plan.standby)})]

Materialize ==
  /\ pc = "proposed"
  /\ graph' = MaterializedGraph
  /\ pc' = "materialized"
  /\ UNCHANGED <<ticket, pool, work, planned, shape, roles, plan, optimal, metric,
                 proposal, refusal>>

------------------------------------------------------------------------------
\* The engine's validation, code by code; the codes of a limit are ignored.
NodeCost(g) == MapThenSumSet(LAMBDA r : g.node[r].cost, DOMAIN g.node)
Tolerance(cost) == Max({1, cost \div 1000000})
Staged(g) == UNION Range(g.stages)
StageOf(g, r) == CHOOSE s \in DOMAIN g.stages : r \in g.stages[s]
Distance(a, b) == IF a > b THEN a - b ELSE b - a

ShapeIssues(g) ==
  {c \in {"empty_graph", "unassigned_node", "router_model", "model_identity_reuse",
          "work_coverage"} :
     CASE c = "empty_graph"          -> DOMAIN g.node = {}
       [] c = "unassigned_node"      -> \E r \in DOMAIN g.node : g.node[r].work = {}
       [] c = "router_model"         -> \E r \in DOMAIN g.node : g.node[r].model \in Routed
       [] c = "model_identity_reuse" -> \E r, s \in DOMAIN g.node :
                                          r # s /\ g.node[r].model = g.node[s].model
       [] c = "work_coverage"        ->
            ~(g.required \subseteq UNION {g.node[r].work : r \in DOMAIN g.node})}

EdgeIssues(g) ==
  {c \in {"unknown_edge_node", "self_edge", "cycle"} :
     CASE c = "unknown_edge_node" -> \E e \in g.edge : {e[1], e[2]} \ DOMAIN g.node # {}
       [] c = "self_edge"         -> \E e \in g.edge : e[1] = e[2]
       [] c = "cycle"             -> ~Acyclic([node |-> DOMAIN g.node, edge |-> g.edge])}

StageIssues(g) ==
  {c \in {"duplicate_stage_node", "stage_coverage", "stage_order"} :
     CASE c = "duplicate_stage_node" -> \E s, t \in DOMAIN g.stages :
                                          s # t /\ g.stages[s] \cap g.stages[t] # {}
       [] c = "stage_coverage"       -> Staged(g) # DOMAIN g.node
       [] c = "stage_order"          -> \E e \in g.edge :
                                          /\ {e[1], e[2]} \subseteq Staged(g)
                                          /\ StageOf(g, e[2]) <= StageOf(g, e[1])}

TerminalIssues(g) ==
  LET G == [node |-> DOMAIN g.node, edge |-> g.edge]
  IN {c \in {"entry_nodes", "final_nodes"} :
        CASE c = "entry_nodes" -> g.entry # Roots(G)
          [] c = "final_nodes" -> g.final # Leaves(G)}

CostIssues(g) ==
  IF Distance(NodeCost(g), g.cost) > Tolerance(NodeCost(g))
  THEN {"cost_reconciliation"} ELSE {}

Issues(g) ==
  ShapeIssues(g) \cup EdgeIssues(g) \cup StageIssues(g) \cup TerminalIssues(g)
    \cup CostIssues(g)

Validate ==
  /\ pc = "materialized"
  /\ IF Issues(graph) # {} THEN Refuse(Issues(graph))
     ELSE pc' = "accepted" /\ UNCHANGED refusal
  /\ UNCHANGED <<ticket, pool, work, planned, shape, roles, plan, optimal, metric,
                 proposal, graph>>

Next ==
  \/ BuildWorkGraph
  \/ DesignParameters
  \/ OptimizeShape
  \/ PartitionRoles
  \/ AssignModels
  \/ CheckPlan
  \/ BuildProposal
  \/ Materialize
  \/ Validate

Spec == Init /\ [][Next]_vars

------------------------------------------------------------------------------
\* The planner never makes a plan that a later layer refuses: a run ends before
\* its first call only for what its ticket or its pool says - a cycle, no
\* candidate, an advisory of zero - or because the rounded total cost of cheap
\* models differs from the sum of their costs.
OnlyInputsRefused ==
  refusal \subseteq {"cyclic", "no candidate", "advisory", "cost_reconciliation"}

\* Nothing is used twice on the way to the plan, and what is lost is what the
\* naming of the units loses.  A unit has no node of its own in one case only: a
\* later unit, whose identity was taken, got just this one's with its position
\* appended ("a-3", "a", "a": the third becomes "a-3" and the work of the first is
\* forgotten); no identity is ever shared by more than these two.  Every node is
\* the work of exactly one role, no role is empty, and there are as many as the
\* optimizer chose, or as many as nodes if units were lost.  The plan divides the
\* executable candidates into one per role, the recovery models and those that
\* stand by, so the run may make one call each.
\* And a unit is worked on after all it depends on: earlier in the same role, or
\* by a role of an earlier stage that hands its result over an edge.  However
\* the work is cut, exactly one expert is final, and every other expert's result
\* reaches it: no expert is paid for a result nobody reads.
Planned == {"plan", "checked", "proposed", "materialized", "accepted"}

UnitsKept ==
  LET units == TicketUnits(ticket)
  IN \A i \in DOMAIN work.ids \ Known(work.ids) :
       \E j \in i+1..Len(units) :
         /\ Bearers(work.ids, work.ids[i]) = {i, j}
         /\ units[i].id = Append(units[j].id, j)
         /\ \E k \in 1..j-1 : work.ids[k] = units[j].id

WorkKept ==
  /\ UnitsKept
  /\ roles # <<>> =>
       /\ \A u \in work.graph.node :
            \E r \in DOMAIN roles :
              /\ Cardinality({i \in DOMAIN roles[r] : roles[r][i] = u}) = 1
              /\ \A q \in DOMAIN roles \ {r} : ~Contains(roles[q], u)
       /\ \A r \in DOMAIN roles : roles[r] # <<>>
       /\ Len(roles) = Min({shape.team, Cardinality(work.graph.node)})
  /\ pc \in Planned =>
       /\ Len(plan.selected) = Len(roles) /\ IsInjective(plan.selected)
       /\ Cardinality(plan.recovery) = shape.recovery
       /\ Range(plan.selected) \cup plan.recovery \cup plan.standby = Range(Candidates)
       /\ Capacity(plan) = Len(Candidates)
  /\ pc = "accepted" =>
       /\ graph.calls = Capacity(plan)
       /\ \A e \in work.graph.edge :
            LET p == RoleOf(roles, e[1])
                q == RoleOf(roles, e[2])
                at(u) == CHOOSE i \in DOMAIN roles[p] : roles[p][i] = u
            IN IF p = q THEN at(e[1]) < at(e[2])
               ELSE <<p, q>> \in graph.edge /\ StageOf(graph, p) < StageOf(graph, q)
       /\ \E f \in DOMAIN graph.node :
            /\ graph.final = {f}
            /\ \A r \in DOMAIN graph.node \ {f} : \E e \in graph.edge : e[1] = r

\* The profile with which a model answers for a role: a recovery model's own, the
\* node's for its model and for a model promoted from the standby.
AnswersWith(r, m) ==
  IF m \in DOMAIN graph.node[r].recovery THEN graph.node[r].recovery[m]
  ELSE graph.node[r].profile

\* Parameters are designed, get their values and are designed again in layers
\* that never look at each other.  Every value a plan resolves lies in the domain
\* designed for it; and whichever model answers for a role, the identities of its
\* resources and the output planned for it come from the same design - a recovery
\* model's from the plan's, the others' from the proposal's - so that a model that
\* steps in never plans for less output than the one it replaces.
ValuesInDomain ==
  \A d \in DOMAIN planned.value \ Range(Resources) :
    planned.value[d] \in planned.design[d].domain

OfOneDesign(profile) ==
  \E of \in {"units", "roles"} :
    /\ profile.ids = Identities(Range(Resources), of)
    /\ profile.target = IF of = "units" THEN VisibleTarget(ticket.demand, WorkSummary)
                        ELSE VisibleTarget(ticket.demand, ProposalSummary(proposal))

Answering(r) == {graph.node[r].model} \cup plan.recovery \cup plan.standby

ProfilesOfOneDesign ==
  pc = "accepted" =>
    \A r \in DOMAIN graph.node : \A m \in Answering(r) : OfOneDesign(AnswersWith(r, m))

ParametersBound ==
  /\ ValuesInDomain
  /\ ProfilesOfOneDesign
  /\ pc = "accepted" =>
       \A r \in DOMAIN graph.node : \A m \in Answering(r) :
         AnswersWith(r, m).target >= graph.node[r].profile.target

\* An assignment the solver proved optimal is the best by capability first, by
\* economy among those, and by the spread over companies among those: no amount
\* of a later objective buys a loss in an earlier one.
CapabilityFirst ==
  pc = "plan" /\ optimal =>
    LET goal(a) == <<Total(metric.capability, a), Total(metric.economy, a),
                     RepeatedCompanies(a)>>
        chosen  == [role |-> plan.selected, recovery |-> plan.recovery]
    IN \A b \in Assignments(Candidates, Len(roles), shape.recovery) :
         ~Before(goal(b), goal(chosen))

\* The bounds the scales are computed from hold for every assignment the solver
\* may choose: economy, companies and order never outgrow their scale.
ObjectivesFit ==
  pc = "plan" =>
    \A a \in Assignments(Candidates, Len(roles), shape.recovery) :
      TotalsFit(a, Candidates, Len(roles), shape.recovery, metric)
==============================================================================
