CONSTANTS
  Digits <- MCDigits
  Bytes <- MCBytes
  IntBits = 5
  Pieces <- MCPieces
  MaxPieces = 6
  MaxLength = 15
SPECIFICATION Spec
\* Datagrams are of bounded length.
CHECK_DEADLOCK FALSE
INVARIANTS
  DecodersAgree
  OnlyWrappedLengthsPanic
  DecodedValuesCanBeSentOn
