\* Three clients; a message is two bytes, or nine and too big for the fifo.
\* Blocks of two frames: every second call ends a GUI frame of three.
CONSTANTS
  Clients = {c1, c2, c3}
  NoClient = NoClient
  Payloads = {1, 8}
  SampleFrames = {2}
  TotalSpace = 9
  HeaderLength = 1
  MultipartPayload = 1
  SafetyZone = 2
  MultipartSafetyZone = 3
  SampleFramesPerCycle = 3
  FirstFramesPerClient = 2
  FewestClients = 2
SPECIFICATION Spec
SYMMETRY ClientSymmetry
INVARIANTS
  ListIsSound
  NeverOverfills
PROPERTIES
  ImplementsWaiterQueue
  OversizeNotOverwritten
