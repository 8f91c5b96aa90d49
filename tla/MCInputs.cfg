SPECIFICATION InputsSpec
CONSTANTS
  Keys <- MCKeyNames
  Divider = 3
  LongCount = 4
  Buttons <- MCKeyNames
  ByteBits = 2
  Retries = 20
  Wait = 8
  Stall = 2
  Delay = {4, 8}
  Response = {16}
  Low = {10}
  High <- MCHigh
  Answers <- MCAnswers
INVARIANTS
  KeyAlive
  InStep
PROPERTIES
  CallbacksEarned
  OncePerPress
  PatternSettles
  CallbacksOnce
  LeftAloneRests
  ReadingRight
CHECK_DEADLOCK FALSE
