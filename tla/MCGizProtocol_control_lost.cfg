SPECIFICATION Spec
CONSTANTS
  ControlMessages <- OneCommand
  Payloads = {d1}
  NoData = NoData
  Statuses <- NoStatuses
  Garbage <- Stack
  InfraredReadings <- Dark
  ClimateReadings <- SteadyClimate
  MaxBurst = 3
  EVENT_TYPE_MAX = 21
  GizQueueLen = 3
  UserQueueLen = 1
  TIM_REP_TIMOUT = 0
  INF_TIMEOUT = 0
  TH_TIMEOUT = 0
  MaxReboots = 0
  REPORT_TIME_MAX = 1
  TickMod = 2
INVARIANTS
  CurrentStateTracked
