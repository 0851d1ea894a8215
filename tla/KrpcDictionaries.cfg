CONSTANTS
  IdLength = 2
  ThisId <- MCThisId
  Entries <- MCEntries
SPECIFICATION Spec
\* A dictionary with all the keys is a last state.
CHECK_DEADLOCK FALSE
INVARIANTS
  AnswersMeanTheSame
  QueriesGetTheirAnswer
