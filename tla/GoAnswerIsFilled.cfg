CONSTANTS
  IdBits <- MCIdBits
  bucketSize = 2
  thisNodeId <- MCThisNodeId
  Addresses <- MCAddresses
  Offered <- MCOffered
  NoEntry = NoEntry
  a1 = a1
  a2 = a2
SPECIFICATION Spec
INVARIANT
  AnswerIsFilled
