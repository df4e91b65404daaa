\* Blocks of one or two frames with up to two events; four fingers and three keys.
CONSTANTS
  in = in
  out = out
  knob = knob
  midi = midi
  filter = filter
  AudioIns = {in}
  AudioOuts = {out}
  ControlIns = {knob}
  MidiIns = {midi}
  Nothing = Nothing
  SubProcesses = {Nothing, filter}
  PreSleep = PreSleep
  BlockSize = 2
  MaxEvents = 2
  UsesSetSleep = TRUE
  LastKey = 2
  NoId = NoId
  LastChannel = 3
  Players = {1, 2}
  Notes = {0, 1}
  ZoneSizes = {0, 1, 2}
  MidNoteSettings = FALSE
  NoKey = NoKey
  Senders = {0, 1}
  Data = {0, 6}
  NoMessage = NoMessage
  Values = {0, 1, 2, 3}
  Steps = 2
  Silent = Silent
SPECIFICATION MCFairSpec
INVARIANTS
  QueueIsSound
  FramesInOrder
  EventsAreAtomic
  SilenceIsWatched
  NotesFollowTheirChannel
  ZonesAreApart
  ReceiverFollows
PROPERTIES
  SleepsOnClearBuffers
  SilentPluginIsPutToSleep
  FingersHaveKeys
  OffsMatchOns
  DataGoesWhereAsked
