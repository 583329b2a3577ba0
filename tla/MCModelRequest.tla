--------------------------- MODULE MCModelRequest ---------------------------
(* One request_json call with one retry, as for a catalog or policy probe, or *)
(* the calls of a node that follow a probe answered at once, or the requests  *)
(* of a catalog, each of which ends as one such call: three ways to start,    *)
(* explored in one run.                                                       *)
EXTENDS ModelRequest, NodeRequests, MCCatalog

MCSelected == [model |-> "s", rank |-> 3, visible |-> 8]
MCRows == {[model |-> "a", rank |-> 1, visible |-> 6], [model |-> "b", rank |-> 6, visible |-> 9]}

ProbeOnly == Init /\ turn = "idle" /\ Unasked /\ CatalogIdle

ProbeAnswered ==
  /\ pc = "returned" /\ verdict = "answer"
  /\ attempt = 0 /\ clock = 0 /\ reads = 0 /\ abandoned = {}
  /\ worker = [k \in Try |-> IF k = 0 THEN "exited" ELSE "idle"]
  /\ box = [k \in Try |-> IF k = 0 THEN "ok" ELSE NoResponse]
  /\ quiet = [k \in Try |-> 0]

MCInit ==
  \/ ProbeOnly
  \/ ProbeAnswered /\ RequestsInit /\ CatalogIdle
  \/ ProbeAnswered /\ turn = "idle" /\ Unasked /\ CatalogInit

MCNext ==
  \/ Next /\ UNCHANGED <<requestVars, catalogVars>>
  \/ NextRequest /\ UNCHANGED <<vars, catalogVars>>
  \/ (NextCatalog \/ CatalogOver) /\ UNCHANGED <<vars, requestVars>>

MCSpec == MCInit /\ [][MCNext]_<<vars, requestVars, catalogVars>> /\ Scheduling
==============================================================================
