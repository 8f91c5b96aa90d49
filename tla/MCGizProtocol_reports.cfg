SPECIFICATION Spec
CONSTANTS
  ControlMessages <- OneCommand
  Payloads <- NoPayloads
  NoData = NoData
  Statuses <- NoStatuses
  Garbage <- Stack
  InfraredReadings <- DarkOrNot
  ClimateReadings <- ChangingClimate
  MaxBurst = 1
  EVENT_TYPE_MAX = 21
  GizQueueLen = 1
  UserQueueLen = 2
  TIM_REP_TIMOUT = 3
  INF_TIMEOUT = 1
  TH_TIMEOUT = 0
  MaxReboots = 1
  REPORT_TIME_MAX = 3
  TickMod = 5
INVARIANTS
  ChangePending
  CloudFaithful
PROPERTIES
  PacedSpacing
