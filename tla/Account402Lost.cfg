SPECIFICATION MCSpec
CONSTANTS
  MaxRetries = 0
  Deadline = 2
  BodyReads = 2
  NoResponse = NoResponse
  Selected <- MCSelected
  Rows = {}
  Precision = 10000
  Cap = 60
  MinimumTimeout = 5
  PromptTokens = 20
  Sorts <- MCSorts
  Official = "popular"
  Listings <- MCListings
  Routed <- MCRouted
  Governed <- MCGoverned
  Ceiling = 4
  ContextFloor = 4
  CompletionFloor = 2
  Inventories <- MCInventories
  PrivateLists <- MCPrivateLists
  Fetchers = 2
  Pool <- MCPool
  Plans <- MCPlans
  Governing <- MCGoverning
  Direct <- MCDirect
  PerCompany = 2
  Protocol <- MCProtocol
  GovernFloor = 2
  Unranked = 99
  Tenth = 2
  Million = 100
  Unstated = Unstated
  Lost = Lost
INVARIANTS
  Account402Reported
