CONSTANTS
  IdBits <- MCIdBits
  bucketSize = 1
  thisNodeId <- MCThisNodeId
  Addresses <- MCAddresses
  NoEntry = NoEntry
  MaxCalls = 2
  Callers = 2
  TransactionIds = {t1, t2}
  NoCall = NoCall
  NoId = NoId
  Nothing = Nothing
  Timeout = Timeout
  WriteError = WriteError
  Strays <- MCStrays
  NodeAt <- MCNodeAt
  NoAddress = NoAddress
  Invalid = Invalid
  KrpcErrorProtocol = KrpcErrorProtocol
  KrpcErrorUnknownMethod = KrpcErrorUnknownMethod
  Queries <- MCQueries
  MaxReplies = 1
  b1 = b1
  b2 = b2
  t1 = t1
  t2 = t2
SPECIFICATION Spec
\* The number of calls is bounded.
CHECK_DEADLOCK FALSE
INVARIANTS
  OnlyRespondersAreStored
  WrongAddressNeedsAForeignResponse
  AnsweredIsKnownOrCrowdedOut
PROPERTIES
  ComponentsAreUsedAsSpecified
  EveryPingReturns
