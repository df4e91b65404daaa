\* An oversize message under fairness of both threads.
CONSTANTS
  Clients = {c1, c2}
  NoClient = NoClient
  Payloads = {1, 8}
  SampleFrames = {4}
  TotalSpace = 9
  HeaderLength = 1
  MultipartPayload = 1
  SafetyZone = 2
  MultipartSafetyZone = 3
  SampleFramesPerCycle = 3
  FirstFramesPerClient = 2
  FewestClients = 2
SPECIFICATION FairSpec
PROPERTY MultipartFinishes
