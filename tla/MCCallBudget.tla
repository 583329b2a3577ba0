---------------------------- MODULE MCCallBudget ----------------------------
(* CallBudget on three node threads, two endpoints and two recovery calls; or *)
(* the order in which two searches find their models: two ways to start,      *)
(* explored in one run.                                                       *)
EXTENDS CallBudget, MCRecoveryOrder, TLC

Symmetry == Permutations(Node) \cup Permutations(Endpoint)

SearchesOver == ~OrderIdle /\ \A n \in Searcher : at[n] = "done"

MCInit == Init /\ (OrderIdle \/ OrderInit)

MCNext ==
  \/ Next /\ OrderIdle /\ UNCHANGED orderVars
  \/ NextSearch /\ UNCHANGED vars
  \/ SearchesOver /\ UNCHANGED <<vars, orderVars>>

MCSpec == MCInit /\ [][MCNext]_<<vars, orderVars>>
=============================================================================
