SPECIFICATION FairSpec
CONSTANTS
  r1 = r1
  r2 = r2
  Run = {r1, r2}
  Issue = 2
  Assignments <- SameOrOneEach
  Chunks <- ChunkCounts
  Parcels <- ChunkComments
  PageSize = 1
  MaxPages = 2
CHECK_DEADLOCK FALSE
INVARIANTS
  OneTerminal
  CompletedIsClaimed
  AcceptedOnWholePool
PROPERTIES
  TerminalIssuesClosed
