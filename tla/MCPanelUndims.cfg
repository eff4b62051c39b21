CONSTANTS
  Screens = {0, 1, 5, 6, 7, 8, 17}
  Scenes = {
    {"HOME", "DOWN", "SELECT", "HELP", "time"}}
  Grips = {{}, {"HOME"}, {"SELECT"}, {"DOWN"}, {"HELP"}}
  KeysMax = 2
  RepeatDelay = 1
  WaitTime = 1
  Levels = {2, 4}
  FirstStored = {2}
SPECIFICATION Spec
PROPERTIES Undims
