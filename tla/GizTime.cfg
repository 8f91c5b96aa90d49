SPECIFICATION TimeSpec
CONSTANTS
  Wrap = 30
  Milli = 4
  MaxSince = 20
PROPERTY IntervalAsDocumented
CHECK_DEADLOCK FALSE
