SPECIFICATION MCSpec
CHECK_DEADLOCK FALSE
CONSTANTS
  NoHeading = "-"
  Heading <- MCHeading
  Required <- MCRequired
  OneEdit <- MCOneEdit
  Claim <- MCClaim
  NoClaim = "blank"
  Supported <- MCSupported
  Derived <- MCDerived
  Normative <- MCNormative
  Inferential <- MCInferential
  Parts <- MCParts
  Introducing <- MCIntroducing
  Worked <- MCWorked
  WrongSum <- MCWrongSum
  Marks <- MCMarks
  Misdirected <- MCMisdirected
  Obligation <- MCObligation
  Window <- MCWindow
  Tasks <- MCTasks
  Nodes <- MCNodes
  Answers <- MCAnswers
  Text <- MCText
  Identifier <- MCIdentifier
  Verbal <- MCVerbal
  Control <- MCControl
  Outputs <- MCOutputs
  Tickets <- MCTickets
  Word <- MCWord
  Brief <- MCBrief
  Marker <- MCMarker
  Place <- MCPlace
  Quantity <- MCQuantity
  Standard <- MCStandard
  Near <- MCNear
  Close <- MCClose
  Matters <- MCMatters
  Claims <- MCClaims
INVARIANTS
  PassedIsDeliverable
  ContentKept
  RepairLosesLittle
  ContractOfTheTicket
  FollowedIsAccepted
  WorkReachesNodes
  QuotationsHold
