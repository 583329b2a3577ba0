--------------------------- MODULE MCTeamSelection ---------------------------
(* Four candidates of two companies: dear and cheap, large, small and of       *)
(* unknown capacity, ranked and not; a light and a heavy task.                *)
EXTENDS TeamSelection, TLC

Row(p, c, f, context, output, i, w) ==
  [prompt |-> p, completion |-> c, fee |-> f, context |-> context, output |-> output,
   intelligence |-> i, popularity |-> w]
MCRows ==
  <<Row(1, 2, 0, 700, 130, 5, 3), Row(5, 15, 0, 9000, 300, 1, 2),
    Row(0, 0, 0, Unknown, Unknown, Unknown, 9), Row(2, 2, 500, 150, 20, 3, Unknown),
    Row(1, 1, 0, 12000, 900, 2, 1)>>
MCCatalogs ==
  {[i \in DOMAIN c |-> MCRows[c[i]]] :
     c \in [1 .. 2 -> DOMAIN MCRows] \cup Injection(1 .. 4, DOMAIN MCRows)}

Packet(t, e, q, r, x, d, f) ==
  [task |-> t, evidence |-> e, requirements |-> q, rows |-> r, extra |-> x,
   acceptance |-> q \div 2, delivery |-> d, floor |-> f]
MCPackets == {Packet(30, 0, 0, 0, 0, 0, 0), Packet(20, 15, 2, 2, 1, 1, 200)}
MCTaskPackets == MCPackets \cup {Packet(6000, 2500, 4, 3, 0, 2, 1000)}
MCSummaries == [units |-> 3, edges |-> 2, depth |-> 2, width |-> 2, sinks |-> 1]

R(u, e, k, f) == [units |-> u, edges |-> e, functions |-> k, final |-> f]
MCRoles == {<<R(1, 0, 4, FALSE), R(1, 1, 1, TRUE)>>, <<R(2, 0, 1, FALSE)>>,
            <<R(1, 0, 1, FALSE), R(1, 1, 1, FALSE), R(1, 2, 1, TRUE)>>}

Query(o, p, pool, roles, n) ==
  [optimizer |-> o, packet |-> p, summary |-> MCSummaries, pool |-> pool,
   roles |-> roles, reserves |-> n]
MCQueries ==
  {Query("task", p, pool, <<>>, 0) : p \in MCTaskPackets, pool \in MCCatalogs}
  \cup {Query(o, p, pool, roles, 1) :
          o \in {"diverse", "economical"}, p \in MCPackets, pool \in MCCatalogs,
          roles \in MCRoles}

TeamIdle ==
  /\ query = (CHOOSE q \in Queries : TRUE) /\ phase = "idle"
  /\ need = [roles |-> <<>>, recovery |-> <<>>]
  /\ scores = [capability |-> <<>>, economy |-> <<>>, cost |-> <<>>]
  /\ team = NoTeam /\ how = "none"
==============================================================================
