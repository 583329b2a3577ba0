SPECIFICATION Spec
CONSTANTS
  na = na
  nb = nb
  nf = nf
  wa = wa
  wb = wb
  wf = wf
  Node = {na, nb, nf}
  Work = {wa, wb, wf}
  Assigned <- Assignment
  Final = {nf}
  Optional = {}
  NonDegradable = {}
  MinCoverage = 0
  MinContentNodes = 0
  AuditProblems = {"none", "request"}
CHECK_DEADLOCK FALSE
INVARIANTS
  PartialDeliveryKept
