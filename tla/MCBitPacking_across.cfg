SPECIFICATION PackSpec
CONSTANTS
  ByteCount = 2
  Fields <- MCFields
  Packed <- MCPacked
  MaxFields = 3
INVARIANTS
  RoundTripAcross
CHECK_DEADLOCK FALSE
