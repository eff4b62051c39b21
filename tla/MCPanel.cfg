CONSTANTS
  Screens = {0, 1, 2, 5, 6, 7, 8, 12, 16, 17, 25, 27}
  Scenes = {
    {"HOME", "DOWN", "SELECT", "HELP"},
    {"HELP", "full", "transfer", "time", "hurry"},
    {"DOWN", "full", "hurry"},
    {"DOWN", "warning", "time", "hurry"},
    {"SELECT", "switch", "transfer", "hurry"},
    {"SELECT", "BACK", "switch", "time"},
    {"HOME", "UP", "warning", "hurry"}}
  Grips = {{}, {"HOME"}, {"BACK"}, {"SELECT"}, {"DOWN"}, {"UP"}, {"HELP"}, {"SELECT", "BACK"}}
  KeysMax = 3
  RepeatDelay = 1
  WaitTime = 1
  Levels = {2, 4}
  FirstStored = {0, 2}
SPECIFICATION Spec
INVARIANTS TypeOK LabelTrue KeysInOrder WakeTouchInert FrozenByDialog
PROPERTIES OneGripOneToggle
