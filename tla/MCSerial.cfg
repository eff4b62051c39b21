CONSTANTS
  Keys = {"DEVICETAG", "DEBUG", "OTHER"}
  OwnKeys = {"DEVICETAG", "DEBUG"}
  DeviceTag = "DEVICETAG"
  Values = {"long", "cut"}
  NoValue = "none"
  Torn = "torn"
  Stored <- Cut49
  WholeSlots = 1
  RxSize = 2
  LineSize = 2
  LogSizes = {0, 1, 3}
SPECIFICATION Spec
INVARIANTS TypeOK LinesArrive PauseOwned WholeDocument FindsEveryKey
PROPERTIES LinesAnswered ImplementsStore
