--------------------------- MODULE MCRecoveryOrder ---------------------------
(* Two nodes that search, one early and one last in the graph; one pool row    *)
(* and two standby models, where quality, reliability, cost and company      *)
(* disagree; some are free, some without estimates.                            *)
EXTENDS RecoveryOrder

MCSearcher == {"early", "last"}
MCSpot ==
  [n \in MCSearcher |->
     IF n = "early"
     THEN [model |-> 11, degree |-> 1, stage |-> 1, final |-> FALSE, company |-> "x", resource |-> 40]
     ELSE [model |-> 12, degree |-> 2, stage |-> 2, final |-> TRUE, company |-> "y", resource |-> Absent]]

R(company, quality, failure, task, price, cost, isFree, policy) ==
  [company |-> company, quality |-> quality, failure |-> failure, task |-> task,
   price |-> price, cost |-> cost, free |-> isFree, policy |-> policy]
MCRow ==
  <<R("x", 60, Absent, 4, 7, Absent, FALSE, Absent),
    R("y", 70, 10, Absent, 2, Absent, TRUE, Absent),
    R("x", 90, 50, Absent, Absent, 1, TRUE, "permits")>>
MCPool == {1}
MCStandby == <<2, 3>>
MCPermitted == {3}
MCEnds == {"passed", "obligation", "privacy404", "credit402", "suppressed"}
===============================================================================
