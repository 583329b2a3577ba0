SPECIFICATION MCSpec
CONSTANTS
  Node = {n1, n2, n3}
  Endpoint = {e1, e2}
  RecoveryLimit = 2
  MaxProviderFailures = 1
  NoCall = NoCall
  Searcher <- MCSearcher
  Primaries = 3
  StageCount = 2
  Spot <- MCSpot
  Row <- MCRow
  Pool <- MCPool
  Standby <- MCStandby
  Permitted <- MCPermitted
  Ends <- MCEnds
  Absent = Absent
SYMMETRY Symmetry
INVARIANTS
  LedgerSound
  DenialsJustified
  EndpointOvershootBounded
  PriorityKept
  SearchNeitherEarlyNorLong
