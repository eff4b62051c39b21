CONSTANTS
  Screens = {0, 1, 5, 6, 7, 8, 12, 16, 17}
  Scenes = {
    {"HOME", "DOWN", "SELECT", "HELP", "time"},
    {"HOME", "UP", "SELECT", "warning", "time"},
    {"DOWN", "full", "hurry"},
    {"DOWN", "time", "hurry"},
    {"UP", "transfer"},
    {"DOWN", "SELECT", "BACK", "time"}}
  Grips = {{}, {"HOME"}, {"BACK"}, {"SELECT"}, {"DOWN"}, {"UP"}, {"HELP"}, {"SELECT", "BACK"},
           {"DOWN", "SELECT", "BACK"}}
  KeysMax = 3
  RepeatDelay = 1
  WaitTime = 1
  Levels = {2, 4}
  FirstStored = {0}
SPECIFICATION Spec
PROPERTIES  RepeatEnds
