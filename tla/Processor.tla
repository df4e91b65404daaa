----------------------------- MODULE Processor -----------------------------
(***************************************************************************)
(* The plugin's base class gmpi::Processor on the audio thread: process()  *)
(* cuts a block at the times of its events, delivers the events of one     *)
(* time together, and puts the plugin to sleep once it is silent.          *)
(*                                                                         *)
(* The plugin built on it is external: in its handlers and sub-processes   *)
(* it may call setSubProcess, setSleep and setStreaming of its outputs,    *)
(* one call in each.  A sub-process fills the frames it is called for; its *)
(* call comes after them, which is the latest that one can come.           *)
(*                                                                         *)
(* m holds the members that decide about sleep, since a step makes several *)
(* calls in a row: each method is an operator from m to m.                 *)
(***************************************************************************)
EXTENDS EventQue, SequencesExt

CONSTANTS
  AudioIns, AudioOuts, ControlIns, MidiIns,  \* the plugin's pins
  SubProcesses,   \* its processing functions
  Nothing,        \* subProcessNothing
  PreSleep,       \* subProcessPreSleep
  BlockSize,      \* host->getBlockSize()
  MaxEvents,      \* the events the host queues for one block, at most
  UsesSetSleep    \* whether the plugin calls setSleep

ASSUME ProcessorAssumption ==
  /\ IsFiniteSet(AudioIns \cup AudioOuts \cup ControlIns)
  /\ AudioIns \cap AudioOuts = {}
  /\ Nothing \in SubProcesses /\ PreSleep \notin SubProcesses
  /\ {BlockSize, MaxEvents} \subseteq Nat \ {0}
  /\ UsesSetSleep \in BOOLEAN

VARIABLES
  events,          \* EventQue: the events from next_event on
  m,               \* curSubProcess_, saveSubProcess_, sleepCount_, streamingPinCount_,
                   \* canSleepManualOverride_ and the pins' isStreaming_; clean is for the
                   \* properties: the frames filled since an output pin was last set
  fresh,           \* the pins with freshValue_
  blockPos,
  eventsComplete,
  count,           \* process(): the frames of the block
  remain,          \* process(): those not yet cut off
  pc,              \* which loop of process() or subProcessPreSleep is next
  left,            \* the frames of the slice yet to be filled
  sliceStart,      \* saveBlockPos
  handled,         \* the events of this time whose handlers were called
  processed,       \* for the properties: the frames of this block that were filled
  asleep           \* host->sleep() was called in this block

blockVars == <<blockPos, eventsComplete, count, remain, sliceStart>>
vars == <<events, m, fresh, blockVars, pc, left, handled, processed, asleep>>

-----------------------------------------------------------------------------
(* Sleep *)

Min2(a, b) == IF a < b THEN a ELSE b

\* Mutant of onPinStreamingChange: a plugin that has become silent goes on.
keepSubProcess(s, on) ==
  LET n == IF on THEN s.streamingPinCount + 1 ELSE s.streamingPinCount - 1
  IN  [s EXCEPT !.streamingPinCount = n, !.curSubProcess = s.saveSubProcess]

onPinStreamingChange(s, on) ==
  LET n == IF on THEN s.streamingPinCount + 1 ELSE s.streamingPinCount - 1
  IN  [s EXCEPT !.streamingPinCount = n,
                !.curSubProcess = IF n = 0 \/ s.canSleepManualOverride = "SLEEP_ENABLE"
                                    THEN PreSleep
                                    ELSE s.saveSubProcess]

\* "note if streaming has changed (not just repeated one-offs)".
changeStreaming(s, pin, on) ==
  IF on = (pin \in s.isStreaming)
    THEN s
    ELSE onPinStreamingChange([s EXCEPT !.isStreaming = IF on THEN @ \cup {pin} ELSE @ \ {pin}], on)

resetSleepCounter(s) == [s EXCEPT !.sleepCount = BlockSize]
nudgeSleepCounter(s) == [s EXCEPT !.sleepCount = IF @ > 1 THEN @ ELSE 1]

\* AudioOutPin::setStreaming, and setUpdated with on = FALSE.
setStreaming(s, pin, on) ==
  LET changed == [changeStreaming(s, pin, on) EXCEPT !.clean = 0]
  IN  IF on THEN changed ELSE resetSleepCounter(changed)

\* Mutant of setSubProcess: it does not look whether the plugin is silent.
setBothSubProcesses(s, f) == [s EXCEPT !.curSubProcess = f, !.saveSubProcess = f]

setSubProcess(s, f) ==
  IF s.curSubProcess = s.saveSubProcess
    THEN [s EXCEPT !.curSubProcess = f, !.saveSubProcess = f]
    ELSE [s EXCEPT !.saveSubProcess = f]

setSleep(s, isOkToSleep) ==
  IF isOkToSleep
    THEN [s EXCEPT !.canSleepManualOverride = "SLEEP_ENABLE", !.curSubProcess = PreSleep]
    ELSE [s EXCEPT !.canSleepManualOverride = "SLEEP_DISABLE"]

\* What m may be after one of the plugin's methods was called.
afterPlugin(s) ==
  {s}
    \cup { setSubProcess(s, f) : f \in SubProcesses }
    \cup { setStreaming(s, pin, on) : pin \in AudioOuts, on \in BOOLEAN }
    \cup (IF UsesSetSleep THEN { setSleep(s, ok) : ok \in BOOLEAN } ELSE {})

canSleep ==
  IF m.canSleepManualOverride = "SLEEP_AUTO"
    THEN m.streamingPinCount = 0
    ELSE m.canSleepManualOverride = "SLEEP_ENABLE"

-----------------------------------------------------------------------------
(* Events *)

Event(time, type, pin) == [timeDelta |-> time, eventType |-> type, pinIdx |-> pin]

EventsAt(times) ==
  { Event(t, "PinSet", p) : t \in times, p \in ControlIns }
    \cup { Event(t, "PinStreamingStart", p) : t \in times, p \in AudioIns }
    \cup { Event(t, "PinStreamingStop", p) : t \in times, p \in AudioIns }
    \cup { Event(t, "Midi", p) : t \in times, p \in MidiIns }

isStreamingEvent(e) == e.eventType \in {"PinStreamingStart", "PinStreamingStop"}
setsPin(e) == e.eventType = "PinSet" \/ isStreamingEvent(e)

\* Mutant of batch: the events are delivered one by one.
firstOnly == SubSeq(events, 1, 1)

\* The events of this time: the first and those after it that are due as well.
batch ==
  LET due == { n \in 1..Len(events) : \A i \in 2..n : events[i].timeDelta = blockPos }
  IN  SubSeq(events, 1, CHOOSE n \in due : \A k \in due : k <= n)

BatchPins == { batch[i].pinIdx : i \in { j \in 1..Len(batch) : setsPin(batch[j]) } }

\* AudioInPin::preProcessEvent; the other pins only take their value.
preProcessEvent(s, e) ==
  IF ~isStreamingEvent(e)
    THEN s
    ELSE LET changed == changeStreaming(s, e.pinIdx, e.eventType = "PinStreamingStart")
         IN  IF e.eventType = "PinStreamingStart" THEN changed ELSE nudgeSleepCounter(changed)

\* onGraphStart sends every output pin; the events before it have been
\* preprocessed by then.
onGraphStart(s) == MapThenFoldSet(LAMBDA pin, t : setStreaming(t, pin, TRUE), s,
                                  LAMBDA pin : pin, LAMBDA T : CHOOSE pin \in T : TRUE, AudioOuts)

-----------------------------------------------------------------------------
\* start_processor queues GraphStart, a start for every audio input and a value
\* for every control.
firstEvents ==
  LET forEach(pins, type) == LET inOrder == SetToSeq(pins)
                             IN  [i \in 1..Len(inOrder) |-> Event(0, type, inOrder[i])]
  IN  <<Event(0, "GraphStart", Nothing)>>
        \o forEach(AudioIns, "PinStreamingStart") \o forEach(ControlIns, "PinSet")

Init ==
  /\ events = firstEvents
  /\ m = [curSubProcess |-> PreSleep, saveSubProcess |-> Nothing, sleepCount |-> 0,
          streamingPinCount |-> 0, canSleepManualOverride |-> "SLEEP_AUTO",
          isStreaming |-> {}, clean |-> BlockSize]
  /\ fresh = AudioIns
  /\ blockPos = 0
  /\ eventsComplete = TRUE
  /\ count = 0
  /\ remain = 0
  /\ pc = "idle"
  /\ left = 0
  /\ sliceStart = 0
  /\ handled = 0
  /\ processed = 0
  /\ asleep = FALSE

\* The host queues an event for the next block.
Push(e) ==
  /\ pc = "idle"
  /\ Len(events) < MaxEvents
  /\ events' = push(events, e)
  /\ UNCHANGED <<m, fresh, blockVars, pc, left, handled, processed, asleep>>

\* process() is called for n frames, with events that happen among them.
process(n) ==
  /\ pc = "idle"
  /\ \A i \in 1..Len(events) : events[i].timeDelta < n
  /\ blockPos' = 0
  /\ count' = n
  /\ remain' = n
  /\ pc' = "loop"
  /\ processed' = 0
  /\ asleep' = FALSE
  /\ UNCHANGED <<events, m, fresh, eventsComplete, sliceStart, left, handled>>

\* The frames before the next event, or the rest of the block, are cut off and
\* the current sub-process is called for them.
Slice ==
  /\ pc = "loop"
  /\ events # <<>> => Head(events).timeDelta > blockPos
  /\ LET n == IF events = <<>> THEN remain ELSE Head(events).timeDelta - blockPos
     IN  left' = n /\ remain' = remain - n
  /\ eventsComplete' = (events = <<>>)
  /\ sliceStart' = blockPos
  /\ pc' = IF m.curSubProcess = PreSleep THEN "presleep" ELSE "subprocess"
  /\ UNCHANGED <<events, m, fresh, blockPos, count, handled, processed, asleep>>

\* A sub-process fills n frames from blockPos on, with m = s before.
Fill(n, s) ==
  /\ processed' = processed + n
  /\ m' \in afterPlugin([s EXCEPT !.clean = Min2(BlockSize, @ + n)])

SubProcess ==
  /\ pc = "subprocess"
  /\ Fill(left, m)
  /\ left' = 0
  /\ pc' = "sliced"
  /\ UNCHANGED <<events, fresh, blockVars, handled, asleep>>

\* subProcessPreSleep: "if sleep mode no longer appropriate, perform normal
\* processing and exit".
StayAwake ==
  /\ pc = "presleep"
  /\ ~canSleep
  /\ LET awake == [m EXCEPT !.curSubProcess = m.saveSubProcess]
     IN  IF left > 0 THEN Fill(left, awake) ELSE m' = awake /\ UNCHANGED processed
  /\ left' = 0
  /\ blockPos' = sliceStart
  /\ pc' = "sliced"
  /\ UNCHANGED <<events, fresh, eventsComplete, count, remain, sliceStart, handled, asleep>>

\* "Flag indicates all events have been dealt with".
maySleep == m.sleepCount <= 0 /\ eventsComplete

FallAsleep ==
  /\ pc = "presleep"
  /\ canSleep
  /\ maySleep
  /\ asleep' = TRUE
  /\ blockPos' = sliceStart
  /\ pc' = "sliced"
  /\ UNCHANGED <<events, m, fresh, eventsComplete, count, remain, sliceStart, left, handled, processed>>

\* "we have to process more than expected, at least till the next event".
countdown == IF m.sleepCount <= 0 THEN left ELSE m.sleepCount

\* Mutant of ReturnAwake: the position is not restored, so process() adds the
\* slice once more.
ReturnFromHere ==
  /\ pc = "presleep"
  /\ canSleep
  /\ ~maySleep
  /\ left = 0
  /\ m' = [m EXCEPT !.sleepCount = countdown]
  /\ pc' = "sliced"
  /\ UNCHANGED <<events, fresh, blockVars, left, handled, processed, asleep>>

ReturnAwake ==
  /\ pc = "presleep"
  /\ canSleep
  /\ ~maySleep
  /\ left = 0
  /\ m' = [m EXCEPT !.sleepCount = countdown]
  /\ blockPos' = sliceStart
  /\ pc' = "sliced"
  /\ UNCHANGED <<events, fresh, eventsComplete, count, remain, sliceStart, left, handled, processed, asleep>>

\* Mutant of CountDown: the frames are counted after the sub-process.
CountDownAfter ==
  /\ pc = "presleep"
  /\ canSleep
  /\ ~maySleep
  /\ left > 0
  /\ LET toDo == Min2(left, countdown)
     IN  /\ processed' = processed + toDo
         /\ m' \in { [s EXCEPT !.sleepCount = @ - toDo] :
                     s \in afterPlugin([m EXCEPT !.sleepCount = countdown,
                                               !.clean = Min2(BlockSize, @ + toDo)]) }
         /\ left' = left - toDo
         /\ blockPos' = blockPos + toDo
  /\ UNCHANGED <<events, fresh, eventsComplete, count, remain, sliceStart, pc, handled, asleep>>

\* "only process minimum samples"; the count goes down before the sub-process,
\* in case that resets it.
CountDown ==
  /\ pc = "presleep"
  /\ canSleep
  /\ ~maySleep
  /\ left > 0
  /\ LET toDo == Min2(left, countdown)
     IN  /\ Fill(toDo, [m EXCEPT !.sleepCount = countdown - toDo])
         /\ left' = left - toDo
         /\ blockPos' = blockPos + toDo
  /\ UNCHANGED <<events, fresh, eventsComplete, count, remain, sliceStart, pc, handled, asleep>>

\* Back in process(): the block is over, or its position moves on to the event.
Sliced ==
  /\ pc = "sliced"
  /\ IF events = <<>>
       THEN pc' = "idle" /\ UNCHANGED <<blockPos, eventsComplete>>
       ELSE /\ pc' = "loop"
            /\ blockPos' = blockPos + (Head(events).timeDelta - sliceStart)
            /\ eventsComplete' = TRUE
  /\ left' = 0
  /\ UNCHANGED <<events, m, fresh, count, remain, sliceStart, handled, processed, asleep>>

\* "PRE-PROCESS EVENT": all the pins take their values.
PreProcess ==
  /\ pc = "loop"
  /\ events # <<>> /\ Head(events).timeDelta <= blockPos
  /\ m' = FoldLeft(preProcessEvent, m, batch)
  /\ fresh' = fresh \cup BatchPins
  /\ handled' = 0
  /\ pc' = "handlers"
  /\ UNCHANGED <<events, blockVars, left, processed, asleep>>

\* "PROCESS EVENT": a handler is called.
ProcessEvent ==
  /\ pc = "handlers"
  /\ handled < Len(batch)
  /\ m' \in IF batch[handled + 1].eventType = "GraphStart" THEN {onGraphStart(m)} ELSE afterPlugin(m)
  /\ handled' = handled + 1
  /\ UNCHANGED <<events, fresh, blockVars, pc, left, processed, asleep>>

\* onSetPins is called if a pin was set; "POST-PROCESS EVENT".
PostProcess ==
  /\ pc = "handlers"
  /\ handled = Len(batch)
  /\ m' \in IF BatchPins = {} THEN {m} ELSE afterPlugin(m)
  /\ fresh' = fresh \ BatchPins
  /\ events' = SubSeq(events, Len(batch) + 1, Len(events))
  /\ handled' = 0
  /\ pc' = "loop"
  /\ UNCHANGED <<blockVars, left, processed, asleep>>

-----------------------------------------------------------------------------
ProcessSteps ==
  \/ \E n \in 1..BlockSize : process(n)
  \/ Slice
  \/ SubProcess
  \/ StayAwake
  \/ FallAsleep
  \/ ReturnAwake
  \/ CountDown
  \/ Sliced
  \/ PreProcess
  \/ ProcessEvent
  \/ PostProcess

Next ==
  \/ \E e \in EventsAt(0..BlockSize-1) : Push(e)
  \/ ProcessSteps

Spec == Init /\ [][Next]_vars

\* The host calls process() again and again, and it returns.
FairSpec == Spec /\ WF_vars(ProcessSteps)

-----------------------------------------------------------------------------
(* Properties *)

AudioPins == AudioIns \cup AudioOuts
Pins == AudioPins \cup ControlIns \cup MidiIns
EventTypes == {"PinSet", "PinStreamingStart", "PinStreamingStop", "Midi", "GraphStart"}

\* Every variable has its type.
TypeOK ==
  /\ events \in Seq([timeDelta : 0..BlockSize-1, eventType : EventTypes, pinIdx : Pins \cup {Nothing}])
  /\ m \in [curSubProcess : SubProcesses \cup {PreSleep}, saveSubProcess : SubProcesses,
            sleepCount : 0..BlockSize, streamingPinCount : 0..Cardinality(AudioPins),
            canSleepManualOverride : {"SLEEP_AUTO", "SLEEP_DISABLE", "SLEEP_ENABLE"},
            isStreaming : SUBSET AudioPins, clean : 0..BlockSize]
  /\ fresh \subseteq Pins
  /\ {blockPos, count, remain, left, sliceStart, processed} \subseteq 0..BlockSize
  /\ {eventsComplete, asleep} \subseteq BOOLEAN
  /\ pc \in {"idle", "loop", "subprocess", "presleep", "sliced", "handlers"}
  /\ handled \in Nat

\* The host's list is in order whatever order the events were pushed in.
QueueIsSound == TypeOK /\ Sorted(events) /\ OneValueAtATime(events)

\* The slices add up to the block: a sub-process fills the frames that follow
\* the ones filled before, an event finds all the frames before it filled, and
\* process() leaves none unfilled but those the plugin sleeps through.
FramesInOrder ==
  /\ pc \in {"loop", "subprocess", "presleep", "handlers"} => blockPos = processed
  /\ pc = "handlers" => Head(events).timeDelta = blockPos
  /\ pc # "idle" => processed + left + remain = count
  /\ pc = "idle" => processed = count \/ asleep

\* The events of one time are delivered together: when a handler runs exactly
\* the pins set at this time are fresh, those of the events to come included.
EventsAreAtomic ==
  /\ pc = "handlers" => fresh = BatchPins
  /\ pc = "handlers" =>
       \A i \in 1..Len(events) : events[i].timeDelta = blockPos => i <= Len(batch)

\* A plugin that has become silent is watched by subProcessPreSleep, whatever
\* sub-process it has chosen and whatever it called on the way.
SilenceIsWatched ==
  /\ m.streamingPinCount = Cardinality(m.isStreaming)
  /\ m.curSubProcess \in {m.saveSubProcess, PreSleep}
  /\ m.streamingPinCount = 0 /\ m.canSleepManualOverride # "SLEEP_DISABLE" => m.curSubProcess = PreSleep

\* "module is OK to sleep, but first needs to output enough samples to clear
\* the output buffers": a plugin does not fall asleep before the last event,
\* and by itself not before it has filled as many frames as the buffers have
\* since it last set an output pin.
SleepsOnClearBuffers ==
  [][asleep' /\ ~asleep =>
       /\ events = <<>>
       /\ m.canSleepManualOverride = "SLEEP_AUTO" => m.isStreaming = {} /\ m.clean = BlockSize]_vars

\* "Once all input and output pins are silent, the SDK will automatically
\* sleep the module", unless it goes on to set its output pins.
SilentPluginSleeps ==
  <>[](m.isStreaming = {} /\ m.canSleepManualOverride # "SLEEP_DISABLE")
    => []<>asleep \/ []<>(m.clean = 0)

=============================================================================
