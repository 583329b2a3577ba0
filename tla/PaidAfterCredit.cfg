SPECIFICATION Spec
CONSTANTS
  na = na
  nb = nb
  nc = nc
  sa = sa
  sb = sb
  sc = sc
  r1 = r1
  t1 = t1
  t2 = t2
  Node <- TwoNodes
  Model = {sa, sb, r1}
  Selected <- Selection
  Recovery = {r1}
  Standby = {}
  Free = {r1}
  Stages <- OneStage
  Workers = 2
  Outcomes = {"passed", "credit402"}
  Contract = {}
  NoReason = NoReason
  NoCall = NoCall
PROPERTIES
  NoPaidCallAfter402
