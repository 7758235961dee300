SPECIFICATION ClockSpec
CHECK_DEADLOCK FALSE
CONSTANTS
  ALT_NIRQ = 2
  Isrs = {a, b}
  NoIsr = NoIsr
  Nesting = TRUE
  NestedCalls = FALSE
  Glitches = TRUE
  MaxRaises = 2
  MaxCalls = 3
  MaxTraps = 1
  MaxFrames = 4
  Alarms = {"a1", "a2", "a3"}
  alt_alarm_list = "head"
  AlarmW = 3
  Rate = 1
  Delays = {0, 1}
  Returns = {0, 1, 2}
  P = 4
  H = 2
  CycleW = 4
  Freq = 1
  Span = 6
  TodW = 32
  ALT_US = 6
  tod_rate = 3
  Uptime = 15
  Seconds = {0, 40}
  Zones = {"utc"}
  SleepW = 64
  ALT_CPU_FREQ = 8
  cycles_per_loop = 3
  US = 1
INVARIANTS
  InterruptsTransparent
  CriticalSections
  PriorityNesting
  AlarmsOnTime
  TimesExact
  SleepsWithinATurn
PROPERTIES
  HandlersEnd
