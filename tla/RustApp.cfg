CONSTANTS
  IdLength = 2
  my_node_id <- MCMyId
  GoNodeId <- MCGoId
  GoAddress = go
  Addresses <- MCAddresses
  TransactionIds <- MCTransactionIds
  Foreign <- MCForeign
  Undecodable = Undecodable
  NoRequest = NoRequest
  MaxCommands = 2
  MaxReceived = 2
  go = go
  nobody = nobody
SPECIFICATION Spec
\* The program ends with its main thread.
CHECK_DEADLOCK FALSE
INVARIANTS
  TypeOK
  CommandsAreAnnouncedInOrder
  LinesTellWhatWasSent
  AnswersFollowTheirQuery
PROPERTIES
  EveryLineIsShown
  EveryCommandIsAnnounced
