SPECIFICATION FairSpec
CONSTANTS
  ControlMessages <- Speeds
  Payloads = {d1}
  NoData = NoData
  Statuses <- OneLink
  Garbage <- Stack
  InfraredReadings <- DarkOrNot
  ClimateReadings <- SteadyClimate
  MaxBurst = 2
  EVENT_TYPE_MAX = 2
  GizQueueLen = 1
  UserQueueLen = 1
  TIM_REP_TIMOUT = 0
  INF_TIMEOUT = 0
  TH_TIMEOUT = 0
  MaxReboots = 1
  REPORT_TIME_MAX = 1
  TickMod = 2
PROPERTIES
  CommandReachesCloud
  CloudCatchesUp
\* The model stops when the event list has overrun.
CHECK_DEADLOCK FALSE
