CONSTANTS
  MaxCalls = 3
  Callers = 2
  TransactionIds = {t1, t2}
  Contents = {pong}
  Strays = {pong}
  NoCall = NoCall
  NoId = NoId
  Nothing = Nothing
  Timeout = Timeout
  WriteError = WriteError
SPECIFICATION Spec
\* The number of calls is bounded.
CHECK_DEADLOCK FALSE
INVARIANTS
  TypeOK
  ReceiverNeverBlocks
  DuplicatesAreDropped
  OnlyFailedWritesLeak
  ForeignAnswersShareTheId
PROPERTIES
  EveryCallReturns
