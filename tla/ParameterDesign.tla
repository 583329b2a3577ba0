--------------------------- MODULE ParameterDesign ---------------------------
(* What a plan has to decide, and the values it decides on.                   *)
(*                                                                            *)
(* A decision is known by its control surface.  Which surfaces are active     *)
(* follows from the graph and the candidates; each gets a design - a domain   *)
(* and the parameters it depends on - before it gets a value, and the four    *)
(* resources of a request are designed last.  A parameter's identity is a     *)
(* digest that covers the graph it was designed for: <<surface, graph>>.      *)
(*                                                                            *)
(* The demand of a ticket: the characters of its task and of its evidence,    *)
(* its requirements and acceptance rules, and the items it has to deliver.    *)
EXTENDS WorkGraph

------------------------------------------------------------------------------
\* The pressure signals.  A ratio is a pair of a numerator and a denominator.
Ratio(a, b) == IF b <= 0 THEN <<0, 1>> ELSE <<Min({a, b}), b>>

Mean(ratios) ==
  LET sum[i \in 0..Len(ratios)] ==
        IF i = 0 THEN <<0, 1>>
        ELSE LET p == sum[i - 1]
                 q == ratios[i]
             IN <<p[1] * q[2] + q[1] * p[2], p[2] * q[2]>>
      all == sum[Len(ratios)]
  IN <<all[1], all[2] * Len(ratios)>>

\* A ratio in percent, a half rounded to the even neighbour.
Percent(r) ==
  LET up   == (200 * r[1] + r[2]) \div (2 * r[2])
      half == (200 * r[1] + r[2]) % (2 * r[2]) = 0
  IN IF half /\ up % 2 = 1 THEN up - 1 ELSE up

\* What the planner reads of a graph of n units.
Summary(G, n) ==
  [units |-> n,
   edges |-> Cardinality(G.edge),
   depth |-> Len(Generations(G)),
   width |-> Max({1} \cup {Cardinality(g) : g \in Range(Generations(G))}),
   sinks |-> Cardinality(Leaves(G))]

Characters(demand) == Max({1, demand.task + demand.evidence})
MostEdges(s) == Max({1, (s.units * (s.units - 1)) \div 2})

Pressure(demand, s) ==
  LET input      == Ratio(demand.task, Characters(demand))
      evidence   == Ratio(demand.evidence, Characters(demand))
      constraint == Ratio(demand.rules, s.units)
      delivery   == Ratio(demand.delivery, s.units)
      structure  == Mean(<<Ratio(s.depth, s.units), Ratio(s.width, s.units),
                           Ratio(s.edges, MostEdges(s))>>)
      overall    == Mean(<<input, evidence, constraint, delivery, structure>>)
  IN [i \in 1..6 |-> Percent(<<input, constraint, evidence, delivery, structure,
                              overall>>[i])]

------------------------------------------------------------------------------
\* The decisions of a plan: what its graph asks for, and what more than one
\* candidate asks for.  Then what each is made from.
GraphDecisions(s) ==
  (IF s.units > 0 THEN {"work-dag-partitioning", "candidate-role-binding",
                        "role-model-objective-balance", "role-reasoning-effort"}
   ELSE {})
  \cup (IF s.width > 1 THEN {"parallel-structure-signal"} ELSE {})
  \cup (IF s.edges > 0 THEN {"dependency-coupling-signal"} ELSE {})

RecoveryDecisions(candidates) ==
  IF Len(candidates) > 1
  THEN {"initial-recovery-allocation", "runtime-standby-replanning"} ELSE {}

Decisions(s, candidates) == GraphDecisions(s) \cup RecoveryDecisions(candidates)

Dataflow(surface) ==
  CASE surface = "work-dag-partitioning" ->
         {"parallel-structure-signal", "dependency-coupling-signal"}
    [] surface \in {"role-model-objective-balance", "role-reasoning-effort",
                    "initial-recovery-allocation"} -> {"work-dag-partitioning"}
    [] surface = "candidate-role-binding" ->
         {"work-dag-partitioning", "role-model-objective-balance"}
    [] surface = "runtime-standby-replanning" -> {"initial-recovery-allocation"}
    [] OTHER -> {}

DesignedParents(surface, active) == Dataflow(surface) \cap active

\* The values a parameter may take: counts, percentages, or a policy that the
\* run itself follows later.
Policy == "policy"

Domain(surface, s, candidates) ==
  CASE surface = "work-dag-partitioning" ->
         1..Max({1, Min({Len(candidates), Max({1, s.units})})})
    [] surface = "initial-recovery-allocation" -> 0..Max({0, Len(candidates) - 1})
    [] surface \in {"parallel-structure-signal", "dependency-coupling-signal"} -> 0..100
    [] OTHER -> {Policy}

Designs(s, candidates) ==
  LET active == Decisions(s, candidates)
  IN [d \in active |-> [domain  |-> Domain(d, s, candidates),
                        parents |-> DesignedParents(d, active)]]

\* The parameters are made in an order in which each follows its parents.
DesignProblems(designs) ==
  LET edges == UNION {{<<p, d>> : p \in designs[d].parents} : d \in DOMAIN designs}
  IN IF \E e \in edges : e[1] \notin DOMAIN designs THEN {"inactive parent"}
     ELSE IF ~Acyclic([node |-> DOMAIN designs, edge |-> edges])
          THEN {"cyclic parameters"}
     ELSE {}

\* The values, once the optimizer has chosen a shape.
SurfaceValues(s, shape) ==
  [d \in {"work-dag-partitioning", "candidate-role-binding",
          "role-model-objective-balance", "role-reasoning-effort",
          "parallel-structure-signal", "dependency-coupling-signal",
          "initial-recovery-allocation", "runtime-standby-replanning"} |->
     CASE d = "work-dag-partitioning"       -> shape.team
       [] d = "initial-recovery-allocation" -> shape.recovery
       [] d = "parallel-structure-signal"   -> Percent(Ratio(s.width, s.units))
       [] d = "dependency-coupling-signal"  -> Percent(Ratio(s.edges, MostEdges(s)))
       [] OTHER                             -> Policy]

Resolved(designs, s, shape) == Restrict(SurfaceValues(s, shape), DOMAIN designs)

CoverageProblems(designs, values) ==
  IF DOMAIN designs = DOMAIN values THEN {} ELSE {"coverage"}

------------------------------------------------------------------------------
\* The resources of a request, in the order in which they are designed.
Resources ==
  <<"prompt-shape-budgeting", "resource-efficiency-balance",
    "output-transport-allowance", "model-timeout-effective">>

ResourceParents(surface) ==
  CASE surface = "output-transport-allowance" ->
         {"prompt-shape-budgeting", "resource-efficiency-balance"}
    [] surface = "model-timeout-effective" -> {"output-transport-allowance"}
    [] OTHER -> {}

\* The least whole number whose square is at least x.
CeilRoot(x) == CHOOSE r \in 0..x : r * r >= x /\ \A q \in 0..r - 1 : q * q < x

\* How much visible output is planned for a request, before the request is made.
Completion(demand, s) ==
  CeilRoot(Characters(demand) + 1) * Max({1, demand.delivery, s.sinks})

VisibleTarget(demand, s) ==
  LET items == Max({1, demand.delivery}) + Max({1, s.units})
  IN Max({Completion(demand, s), CeilRoot((Max({1, demand.task}) + 1) * items * items)})

ResourceDesigns ==
  [d \in Range(Resources) |-> [domain |-> {}, parents |-> ResourceParents(d)]]

ResourceValues(demand, s) ==
  [d \in Range(Resources) |->
     CASE d = "output-transport-allowance"  -> VisibleTarget(demand, s)
       [] d = "resource-efficiency-balance" -> Pressure(demand, s)[6]
       [] d = "prompt-shape-budgeting"      -> Characters(demand)
       [] OTHER                             -> Policy]

NoParameters == [design |-> <<>>, value |-> <<>>]

\* Two functions as one: where both have a value, the first one's.
Over(f, g) ==
  [x \in DOMAIN f \cup DOMAIN g |-> IF x \in DOMAIN f THEN f[x] ELSE g[x]]

\* The parameters of a plan, the resources added.
Extended(parameters, demand, s) ==
  [design |-> Over(ResourceDesigns, parameters.design),
   value  |-> Over(ResourceValues(demand, s), parameters.value)]

Identities(surfaces, of) == {<<d, of>> : d \in surfaces}

\* What a row of the plan carries: the identities of the resources, as designed
\* for one graph, and the visible output planned.
Profile(parameters, of) ==
  [ids    |-> Identities(Range(Resources), of),
   target |-> parameters.value["output-transport-allowance"],
   active |-> {}]

NoProfile == [ids |-> {}, target |-> 0, active |-> {}]

------------------------------------------------------------------------------
\* The closure of a proposal: its resources and the effort of its roles are
\* designed again, for the graph of the roles.
GraphOf(proposal) == [node |-> proposal.node, edge |-> proposal.edge]

ClosureProblems(proposal) ==
  IF proposal.node = {} THEN {"no nodes"}
  ELSE IF \E e \in proposal.edge : {e[1], e[2]} \ proposal.node # {}
       THEN {"unknown node"}
  ELSE IF ~Acyclic(GraphOf(proposal)) THEN {"cyclic proposal"}
  ELSE {}

ProposalSummary(proposal) == Summary(GraphOf(proposal), Cardinality(proposal.node))

ClosureParameters(proposal, demand) ==
  LET resources == Extended(NoParameters, demand, ProposalSummary(proposal))
      added(x)  == [d \in {"role-reasoning-effort"} |-> x]
  IN [design |-> Over(resources.design, added([domain |-> 1..3, parents |-> {}])),
      value  |-> Over(resources.value, added(proposal.effort))]

\* Mutant: the node gets the new identities and keeps the value it had.
ClosedProfileIdsOnly(profile, parameters) ==
  [profile EXCEPT
     !.ids    = Profile(parameters, "roles").ids,
     !.active = Identities(DOMAIN parameters.design, "roles")]

ClosedProfile(profile, parameters) ==
  [profile EXCEPT
     !.ids    = Profile(parameters, "roles").ids,
     !.target = Profile(parameters, "roles").target,
     !.active = Identities(DOMAIN parameters.design, "roles")]

\* A recovery model takes over the node's profile; what its own row carries
\* stays on top.
RecoveryProfile(own, node) == [node EXCEPT !.ids = own.ids, !.target = own.target]
==============================================================================
