\* A parameter the user and the processor both set.
CONSTANTS
  knob = knob
  scope = scope
  patch = patch
  Parameters = {knob}
  DawParameters = {}
  Automated = {}
  Blobs = {}
  Inputs = {}
  Outputs = {knob}
  Edited = {knob}
  SetByController = {}
  Editors = {e1}
  Values = {0, 1}
  Default = 0
  NoValue = NoValue
  QueueLength = 2
  EditsUnderWay = 2
SPECIFICATION Spec
INVARIANT StoresAgreeAtRest
