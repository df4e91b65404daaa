\* Presets that name host controls.
CONSTANTS
  Parts = {"presets"}
  Editors = {e1, e2}
  Parameters = {p1}
  DawParameters = {p1}
  StoreParameters = {"gain", "wave", "bpm", "pointer"}
  NonStateful = {"pointer"}
  HostParameters = {"bpm"}
  Blobs = {"wave", "pointer"}
  Inputs = {"wave", "bpm"}
  Values = {"v0", "v1"}
  Default = "v0"
  NoValue = "none"
  Missing = Missing
  NoText = NoText
  Objects = {"o1", "o2", "o3"}
  Locals = {"a", "b"}
  nullptr = "nullptr"
  Views = {"v1", "v2"}
  Pins = {"p1", "p2"}
  First = "p1"
  Contents = {"c1", "c2"}
  Nothing = "nothing"
  QueueBound = 2
  outputPins = {"left", "right"}
  Levels = {0, 1}
  Quiet = 0
  historyCount = 3
  SliceLengths = {1}
  Absent = Absent
  Modules <- SomeModules
  note = note
  blob = blob
  Message = {note, blob}
  Length <- MCLength
  NoMessage = NoMessage
  Garbage = Garbage
  TotalSpace = 7
  HeaderLength = 1
  MultipartPayload = 1
  SafetyZone = 2
  MultipartSafetyZone = 3
  ResetMidMessage = TRUE
SPECIFICATION MCSpec
PROPERTY HostValuesAreNotStale
