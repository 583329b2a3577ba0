--------------------------- MODULE MCExecutionPlan ---------------------------
(* Three executable candidates of two companies and a routed one; tickets of  *)
(* up to four listed units, and of evidence.  The run has a second way to      *)
(* start: a pool whose candidates are scored and chosen for a team.           *)
EXTENDS ExecutionPlan, MCTeamSelection

Unit(id, deps) == [id |-> id, deps |-> deps]
Listed(units, demand) == [units |-> units, evidence |-> <<>>, demand |-> demand]
Evidence(rows, demand) == [units |-> <<>>, evidence |-> rows, demand |-> demand]

\* A short task with nothing more, one with rules and several items to deliver,
\* and one that is mostly evidence.
Plain   == [task |-> 5, evidence |-> 0, rules |-> 0, delivery |-> 0]
Heavy   == [task |-> 8, evidence |-> 2, rules |-> 6, delivery |-> 4]
Sourced == [task |-> 1, evidence |-> 9, rules |-> 1, delivery |-> 0]

a == <<"a">>
b == <<"b">>
c == <<"c">>
d == <<"d">>

\* Every dependency relation over three units, cyclic ones included.
Triples ==
  {Listed(<<Unit(a, p), Unit(b, q), Unit(c, r)>>,
          IF p = {} THEN Plain ELSE Heavy) :
     p \in SUBSET {b, c}, q \in SUBSET {a, c}, r \in SUBSET {a, b}}

\* A chain, a fan-out, two chains, units without or with equal identities, and
\* units that are given an identity another one has.
Others ==
  {Listed(units, demand) : demand \in {Plain, Heavy}, units \in
     {<<Unit(a, {}), Unit(b, {a}), Unit(c, {b}), Unit(d, {c})>>,
      <<Unit(a, {}), Unit(b, {a}), Unit(c, {a}), Unit(d, {a, b})>>,
      <<Unit(a, {}), Unit(b, {a}), Unit(c, {}), Unit(d, {c})>>,
      <<Unit(NoId, {}), Unit(a, {<<"work", 1>>}), Unit(a, {a})>>,
      <<Unit(a, {}), Unit(a, {a}), Unit(a, {<<"a", 2>>})>>,
      <<Unit(<<"a", 3>>, {}), Unit(a, {}), Unit(a, {a})>>,
      <<Unit(<<"a", 4>>, {b}), Unit(a, {}), Unit(b, {a}), Unit(a, {<<"a", 4>>})>>,
      <<Unit(<<"work", 3, 3>>, {}), Unit(<<"work", 3>>, {}), Unit(NoId, {})>>}}

x == 1 :> 1
y == 1 :> 2
Evidences ==
  {Evidence(e, IF e = <<>> THEN Plain ELSE Sourced) :
     e \in {<<>>, <<x, y>>, <<x, x, y, y>>, <<x, x, y, y, <<>>, 1 :> 3>>,
            <<x @@ 2 :> 1, x @@ 2 :> 2, y @@ 2 :> 3, y @@ 2 :> 3>>,
            <<x, x, x>>, <<x, x, y>>}}

MCTickets == Triples \cup Others \cup Evidences
MCPools == {<<3, 1, 2>>, <<1, 4, 1, 2>>, <<4>>}
MCCompany == 1 :> "p" @@ 2 :> "p" @@ 3 :> "q" @@ 4 :> "q"

Scores(f(_, _)) == [m \in 1..4 |-> [r \in 0..3 |-> f(m, r)]]
MCMetrics ==
  {[capability |-> Scores(LAMBDA m, r : IF m = 1 THEN 2 ELSE 1 + (r % 2)),
    economy    |-> Scores(LAMBDA m, r : m),
    cost       |-> <<0, 3, 20, 20>>],
   [capability |-> Scores(LAMBDA m, r : IF m = 1 THEN 1 ELSE 2),
    economy    |-> Scores(LAMBDA m, r : IF m = 1 THEN 9 ELSE IF r = 1 THEN m ELSE 4 - m),
    cost       |-> <<7000000, 30, 4, 1>>],
   [capability |-> Scores(LAMBDA m, r : m + r),
    economy    |-> Scores(LAMBDA m, r : 1),
    cost       |-> <<10, 10, 10, 10>>]}

PlanIdle ==
  /\ pc = "idle"
  /\ ticket = (CHOOSE t \in Tickets : TRUE) /\ pool = <<>>
  /\ work = [ids |-> <<>>, graph |-> [node |-> {}, edge |-> {}]]
  /\ planned = NoParameters /\ shape = [team |-> 0, recovery |-> 0] /\ roles = <<>>
  /\ plan = NoPlan /\ optimal = FALSE /\ metric = NoMetric
  /\ proposal = NoProposal /\ graph = NoGraph /\ refusal = {}

MCInit == (Init /\ TeamIdle) \/ (TeamInit /\ PlanIdle)
MCNext == (Next /\ UNCHANGED teamVars) \/ (NextTeam /\ UNCHANGED vars)
MCSpec == MCInit /\ [][MCNext]_<<vars, teamVars>>
==============================================================================
