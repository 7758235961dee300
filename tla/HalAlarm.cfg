SPECIFICATION FairSpec
CHECK_DEADLOCK FALSE
CONSTANTS
  Alarms = {"a1", "a2"}
  alt_alarm_list = "head"
  W = 4
  Rate = 1
  Delays = {0, 1}
  Returns = {0, 1}
  CallbackUses = {"stop next"}
PROPERTIES
  TickEnds
