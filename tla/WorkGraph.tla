------------------------------ MODULE WorkGraph ------------------------------
(* The work graph of a ticket (v5_task_work_graph.py): the units of work a    *)
(* task is split into, and what must be done before what.                     *)
(*                                                                            *)
(* A ticket either lists its units, each with an identity of its own or none, *)
(* or brings rows of evidence, which are clustered into branches.  An identity *)
(* is a sequence, a name and numbers: <<"x">> for "x", <<"x", 3>> for "x-3",   *)
(* whether the ticket lists it or a unit gets it.                              *)
EXTENDS Integers, Sequences, FiniteSets, SequencesExt, Graphs

CONSTANTS
  NoId,             \* a listed unit without an identity
  EvidenceScale     \* how many rows, each of a group of its own, still make branches

ASSUME EvidenceScaleAssumption == EvidenceScale \in Nat \ {0, 1}

------------------------------------------------------------------------------
\* Evidence.  A row has a value for some of the keys; keys are numbers, so that
\* the last tie-break, the larger name, can be decided.
RowsWith(rows, k) == {i \in DOMAIN rows : k \in DOMAIN rows[i]}
Group(rows, k, v) == {i \in RowsWith(rows, k) : rows[i][k] = v}
Groups(rows, k) == {Group(rows, k, rows[i][k]) : i \in RowsWith(rows, k)}

\* The rows whose group has more than one row.
Repeated(rows, k) == UNION {g \in Groups(rows, k) : Cardinality(g) > 1}

\* A key may name the branches when it tells at least two of them apart, and
\* some value repeats or the rows are few.
Anchors(rows) ==
  {k \in UNION {DOMAIN rows[i] : i \in DOMAIN rows} :
     /\ Len(rows) >= 2
     /\ Cardinality(Groups(rows, k)) >= 2
     /\ Repeated(rows, k) # {} \/ Len(rows) <= EvidenceScale}

\* What the choice of the key maximizes, most important first.
AnchorScore(rows, k) ==
  LET distinct == Cardinality(Groups(rows, k))
      coverage == Cardinality(RowsWith(rows, k))
      support  == IF Repeated(rows, k) = {} THEN coverage
                  ELSE Cardinality(Repeated(rows, k))
  IN <<support * distinct, coverage, distinct, k>>

\* s comes before t in the order of tuples.
Before(s, t) ==
  \E i \in DOMAIN s : s[i] < t[i] /\ \A j \in 1..i-1 : s[j] = t[j]

\* The branches the evidence is split into and the rows every branch is given.
EvidenceBranches(rows) ==
  LET all  == [branches |-> {DOMAIN rows}, shared |-> {}]
      best == CHOOSE k \in Anchors(rows) :
                \A l \in Anchors(rows) \ {k} :
                  Before(AnchorScore(rows, l), AnchorScore(rows, k))
      kept == IF Repeated(rows, best) = {} THEN Groups(rows, best)
              ELSE {g \in Groups(rows, best) : Cardinality(g) > 1}
  IN IF Anchors(rows) = {} \/ Cardinality(kept) < 2 THEN all
     ELSE [branches |-> kept, shared |-> DOMAIN rows \ UNION kept]

------------------------------------------------------------------------------
\* The units of a ticket, before their identities are made distinct.
ListedUnits(units) ==
  [i \in DOMAIN units |->
     [id   |-> IF units[i].id = NoId THEN <<"work", i>> ELSE units[i].id,
      deps |-> units[i].deps]]

AnalysisUnits(n) == [i \in 1..n |-> [id |-> <<"analysis", i>>, deps |-> {}]]

TicketUnits(ticket) ==
  IF ticket.units # <<>> THEN ListedUnits(ticket.units)
  ELSE AnalysisUnits(Cardinality(EvidenceBranches(ticket.evidence).branches))

\* An identity met before gets its position appended.  The new identity is not
\* looked up again: an earlier unit may bear it.
UnitIds(units) ==
  LET ids[n \in 0..Len(units)] ==
        IF n = 0 THEN <<>>
        ELSE LET own == units[n].id
             IN Append(ids[n-1],
                       IF Contains(ids[n-1], own) THEN Append(own, n) ELSE own)
  IN ids[Len(units)]

\* The units whose own work a node of the graph stands for: of those that share
\* an identity, the last one.
Bearers(ids, x) == {i \in DOMAIN ids : ids[i] = x}
Known(ids) == {i \in DOMAIN ids : \A j \in Bearers(ids, ids[i]) : j <= i}

\* What the units declare, kept only between two different known identities.
DeclaredEdges(units, ids) ==
  UNION {{<<d, ids[i]>> : d \in (units[i].deps \cap Range(ids)) \ {ids[i]}} :
           i \in DOMAIN units}

------------------------------------------------------------------------------
\* The generations of a graph: what has all its predecessors in the earlier
\* ones.  A node on a cycle, or behind one, is in none.
Ready(G, earlier) == {x \in G.node : Predecessors(G, x) \subseteq earlier}

Settled(G) ==
  LET settled[n \in 0..Cardinality(G.node)] ==
        IF n = 0 THEN {} ELSE Ready(G, settled[n-1])
  IN settled

Generations(G) ==
  LET settled == Settled(G)
      depth   == Cardinality({settled[n] : n \in DOMAIN settled}) - 1
  IN [n \in 1..depth |-> settled[n] \ settled[n-1]]

Acyclic(G) == Settled(G)[Cardinality(G.node)] = G.node

\* Several units nothing depends on get a last unit that brings them together.
Integrated(G) ==
  LET last == <<"integration">>
  IN IF Cardinality(Leaves(G)) > 1
     THEN [node |-> G.node \cup {last},
           edge |-> G.edge \cup {<<x, last>> : x \in Leaves(G)}]
     ELSE G

TicketGraph(units, ids) ==
  [node |-> Range(ids), edge |-> DeclaredEdges(units, ids)]

\* The orders a topological sort may return: generation after generation, each
\* in any order of its own.
Followed(orders, generation) ==
  {o \o g : o \in orders, g \in SetToSeqs(generation)}

TopologicalOrders(G) ==
  LET gens == Generations(G)
      orders[n \in 0..Len(gens)] ==
        IF n = 0 THEN {<<>>} ELSE Followed(orders[n-1], gens[n])
  IN orders[Len(gens)]
==============================================================================
