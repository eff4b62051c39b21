CONSTANTS
  Intervals    = {2}
  MaxInterval  = 2
  Warmup       = 1
  TestAlarm    = 1
  Disturbances = {"pulse"}
SPECIFICATION Spec
PROPERTIES AlarmWakesInTheDark
