SPECIFICATION Spec
CONSTANTS
  na = na
  nb = nb
  nc = nc
  sa = sa
  sb = sb
  sc = sc
  r1 = r1
  t1 = t1
  t2 = t2
  Node <- ThreeNodes
  Model = {sa, sb, sc, t1, t2}
  Selected <- Selection3
  Recovery = {}
  Standby = {t1, t2}
  Free = {}
  Stages <- FanIn
  Workers = 2
  Outcomes = {"passed", "truncated", "quality", "contract"}
  Contract = {"obligation"}
  NoReason = NoReason
  NoCall = NoCall
SYMMETRY Symmetry
INVARIANTS
  NoNodeSkipped
  SameModelOnlyToRepairTruncation
  OutcomeFollowsAnswers
  LateClaimsBounded
