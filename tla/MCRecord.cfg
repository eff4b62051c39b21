CONSTANTS
  Rates = {0, 1, 2}
  MaxPulses = 2
SPECIFICATION Spec
INVARIANTS TypeOK EveryPulseOnce NoPulseTwice RecordSound ExtremesCover
CHECK_DEADLOCK FALSE
