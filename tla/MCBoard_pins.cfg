SPECIFICATION BoardSpec
CONSTANTS
  Colours <- MCColours
  Speeds <- MCSpeeds
INVARIANTS
  KeysAreInputs
CHECK_DEADLOCK FALSE
