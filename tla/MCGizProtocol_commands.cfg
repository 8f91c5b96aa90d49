SPECIFICATION Spec
CONSTANTS
  ControlMessages <- Commands
  Payloads = {d1}
  NoData = NoData
  Statuses <- Links
  Garbage <- Stack
  InfraredReadings <- Dark
  ClimateReadings <- SteadyClimate
  MaxBurst = 3
  EVENT_TYPE_MAX = 8
  GizQueueLen = 2
  UserQueueLen = 1
  TIM_REP_TIMOUT = 0
  INF_TIMEOUT = 0
  TH_TIMEOUT = 0
  MaxReboots = 0
  REPORT_TIME_MAX = 1
  TickMod = 2
INVARIANTS
  TypeOK
  EventsSignalled
  PassthroughSignalled
  CommandAccounted
  ToldMatches
\* The model stops when the event list has overrun.
CHECK_DEADLOCK FALSE
