\* A ring of four cells, pushes of one to three bytes.  A knob the DAW carries, a
\* scope the processor sends, a patch the plugin's controller sets.
CONSTANTS
  Byte = {b0, b1}
  QueSize = 4
  knob = knob
  scope = scope
  patch = patch
  Parameters = {knob, scope, patch}
  DawParameters = {knob}
  Automated = {knob}
  Blobs = {scope, patch}
  Inputs = {knob, patch}
  Outputs = {scope}
  Edited = {knob}
  SetByController = {patch}
  Editors = {e1}
  Values = {0, 1}
  Default = 0
  NoValue = NoValue
  QueueLength = 2
  EditsUnderWay = 1
SPECIFICATION MCSpec
INVARIANTS
  PointersInOrder
  SnapshotsAreConservative
  NoOverwrite
  StoresAgreeAtRest
  NewestIsOnItsWay
  PinsFollowStore
  EditorsShowController
PROPERTIES
  PushNeverMeetsRead
  ImplementsByteChannel
