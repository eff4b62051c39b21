CONSTANTS
  Intervals    = {2}
  MaxInterval  = 2
  Warmup       = 1
  TestAlarm    = 1
  Disturbances = {"jump", "race", "battery", "pulse", "clock", "keyval"}
SPECIFICATION Spec
PROPERTIES WakesOnlyBySwitch
