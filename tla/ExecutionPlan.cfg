SPECIFICATION MCSpec
CONSTANTS
  NoId = NoId
  NoAdvisory = NoAdvisory
  EvidenceScale = 4
  Company <- MCCompany
  Tickets <- MCTickets
  Pools <- MCPools
  Routed = {4}
  Weights = {1, 12}
  IntegrationWeight = 9
  Metrics <- MCMetrics
  Queries <- MCQueries
  Advisories = {NoAdvisory, 0, 5}
CHECK_DEADLOCK FALSE
INVARIANTS
  OnlyInputsRefused
  WorkKept
  ParametersBound
  CapabilityFirst
  ObjectivesFit
  TeamWellChosen
