CONSTANTS
  Intervals    = {3, 4}
  MaxInterval  = 4
  Warmup       = 2
  TestAlarm    = 2
  Disturbances = {"jump"}
SPECIFICATION Spec
INVARIANTS TypeOK Armed LastAlarm
PROPERTIES NoStandbyOnUsb LogsForever SleepHonoured PowerupHonoured DarkEnds
