\* Resets only between the sender's oversize messages.
CONSTANTS
  note = note
  blob = blob
  text = text
  Message = {note, blob, text}
  Length <- MCLength
  NoMessage = NoMessage
  Garbage = Garbage
  TotalSpace = 11
  HeaderLength = 2
  MultipartPayload = 1
  SafetyZone = 3
  MultipartSafetyZone = 4
  ResetMidMessage = FALSE
SPECIFICATION FairSpec
INVARIANTS
  MessagesComeWhole
  FramesFit
PROPERTIES
  ImplementsMessageChannel
  EveryMessageArrives
