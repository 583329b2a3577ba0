SPECIFICATION FairSpec
CONSTANTS
  na = na
  nb = nb
  nc = nc
  sa = sa
  sb = sb
  sc = sc
  r1 = r1
  t1 = t1
  t2 = t2
  Node <- TwoNodes
  Model = {sa, sb, r1, t1}
  Selected <- Selection
  Recovery = {r1}
  Standby = {t1}
  Free = {r1, t1}
  Stages <- OneStage
  Workers = 2
  Outcomes = {"passed", "invalid", "credit402", "privacy404"}
  Contract = {}
  NoReason = NoReason
  NoCall = NoCall
INVARIANTS
  AccountCircuitHeld
  StandbyUsedByOneNode
PROPERTIES
  PaidCallNeedsZeroCostWindow
  RunTerminates
  ImplementsBudget
