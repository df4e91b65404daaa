-------------------------- MODULE ProcessorProofs --------------------------
(***************************************************************************)
(* The plugin's base class for any pins, block size and events: the event  *)
(* queue is sound, the slices add up to the block, the events of one time  *)
(* are delivered together, and silence is watched for until the output     *)
(* buffers are clear.                                                      *)
(***************************************************************************)
EXTENDS Processor, SequenceLemmas

-----------------------------------------------------------------------------
(* The queue *)

HostEvents == EventsAt(0..BlockSize-1) \cup {Event(0, "GraphStart", Nothing)}

QueueIInv == events \in Seq(HostEvents) /\ Sorted(events) /\ OneValueAtATime(events)

\* Both set the pin, at the same time.
SameValue(a, b) ==
  /\ a.eventType = "PinSet" /\ b.eventType = "PinSet"
  /\ a.timeDelta = b.timeDelta
  /\ a.pinIdx = b.pinIdx

\* What an event of the host is.
LEMMA HostEventsAre ==
  ASSUME NEW e \in HostEvents
  PROVE  /\ e.timeDelta \in 0..BlockSize-1 /\ e.timeDelta \in Nat
         /\ isStreamingEvent(e) => e.pinIdx \in AudioIns
         /\ setsPin(e) => e.pinIdx \in Pins
         /\ e \in [timeDelta : 0..BlockSize-1, eventType : EventTypes, pinIdx : Pins \cup {Nothing}]
BY ProcessorAssumption
   DEF HostEvents, EventsAt, Event, isStreamingEvent, setsPin, Pins, AudioPins, EventTypes,
       ProcessorAssumption

\* One value at a time, in terms of the places.
LEMMA OneValueByPlace ==
  ASSUME NEW que
  PROVE  OneValueAtATime(que)
           <=> \A i, j \in 1..Len(que) : SameValue(que[j], que[i]) => i = j
BY DEF OneValueAtATime, supersededBy, SameValue

\* The events that are due no later than time are the first of the queue.
LEMMA UpperBound ==
  ASSUME NEW que \in Seq(HostEvents), Sorted(que), NEW time \in Nat
  PROVE  /\ upper_bound(que, time) \in 0..Len(que)
         /\ \A i \in 1..Len(que) : que[i].timeDelta <= time <=> i <= upper_bound(que, time)
<1> DEFINE due == { i \in 1..Len(que) : que[i].timeDelta <= time }
<1>1. Len(que) \in Nat /\ \A i \in 1..Len(que) : que[i].timeDelta \in Nat
  BY HostEventsAre
<1>2. \E k \in 0..Len(que) : due = 1..k
  <2>1. CASE due = {}
    BY <1>1, <2>1
  <2>2. CASE due # {}
    <3>1. due \in SUBSET (0..Len(que))
      BY <1>1
    <3>2. PICK k \in due : \A i \in due : i <= k
      <4> HIDE DEF due
      <4> QED
        BY <1>1, <2>2, <3>1, GreatestNumber
    <3>3. \A i \in 1..k : i \in 1..Len(que) /\ que[i].timeDelta <= que[k].timeDelta
      BY <1>1, <3>2 DEF Sorted
    <3>4. due = 1..k
      BY <1>1, <3>2, <3>3
    <3>5. QED
      BY <1>1, <3>2, <3>4
  <2>3. QED
    BY <2>1, <2>2
<1>3. PICK k \in 0..Len(que) : due = 1..k
  BY <1>2
<1>4. Cardinality(1..k) = k
  BY <1>1, <1>3, FS_Interval
<1>5. upper_bound(que, time) = k
  BY <1>3, <1>4 DEF upper_bound
<1>6. QED
  BY <1>1, <1>3, <1>5

Pushed(que, e, longer) == longer = push(que, e)

\* What is pushed keeps the queue in order, with one value at a time, and
\* supersedes nothing but an older value.
LEMMA PushIsSound ==
  ASSUME NEW que \in Seq(HostEvents), Sorted(que), OneValueAtATime(que),
         NEW e \in HostEvents, NEW longer, Pushed(que, e, longer)
  PROVE  /\ longer \in Seq(HostEvents) /\ Sorted(longer) /\ OneValueAtATime(longer)
         /\ \A i \in 1..Len(que) :
              que[i].eventType # "PinSet" => \E j \in 1..Len(longer) : longer[j] = que[i]
<1>0. longer = push(que, e)
  BY DEF Pushed
<1> DEFINE older == supersededBy(e, que)
           k == upper_bound(que, e.timeDelta)
<1>1. /\ Len(que) \in Nat /\ \A i \in 1..Len(que) : que[i] \in HostEvents /\ que[i].timeDelta \in Nat
      /\ e.timeDelta \in Nat
  BY HostEventsAre
<1>2. older = { i \in 1..Len(que) : SameValue(que[i], e) }
  BY DEF supersededBy, SameValue
<1>3. \A i, j \in 1..Len(que) : SameValue(que[j], que[i]) => i = j
  BY OneValueByPlace
<1>4. CASE older # {}
  <2>1. \E x \in older : \A y \in older : y <= x
    <3>1. older \in SUBSET (0..Len(que))
      BY <1>1, <1>2
    <3> HIDE DEF older
    <3>2. QED
      BY <1>1, <1>4, <3>1, GreatestNumber
  <2>2. PICK x \in older : longer = [que EXCEPT ![x] = e]
    <3>1. (CHOOSE x \in older : \A y \in older : y <= x) \in older
      <4> HIDE DEF older
      <4> QED
        BY <2>1
    <3>2. longer = [que EXCEPT ![CHOOSE x \in older : \A y \in older : y <= x] = e]
      BY <1>0, <1>4 DEF push
    <3>3. QED
      BY <3>1, <3>2
  <2>3. x \in 1..Len(que) /\ SameValue(que[x], e)
    BY <1>2
  <2> HIDE DEF older, k
  <2>4. /\ longer \in Seq(HostEvents) /\ Len(longer) = Len(que)
        /\ \A i \in 1..Len(que) : longer[i] = IF i = x THEN e ELSE que[i]
    BY <2>2, <2>3
  <2>5. \A i \in 1..Len(que) : longer[i].timeDelta = que[i].timeDelta
    BY <2>3, <2>4 DEF SameValue
  <2>6. Sorted(longer)
    BY <2>4, <2>5 DEF Sorted
  <2>7. \A i, j \in 1..Len(longer) : SameValue(longer[j], longer[i]) => i = j
    BY <1>3, <2>3, <2>4 DEF SameValue
  <2>8. ASSUME NEW i \in 1..Len(que), que[i].eventType # "PinSet"
        PROVE  \E j \in 1..Len(longer) : longer[j] = que[i]
    <3>1. i # x
      BY <2>3, <2>8 DEF SameValue
    <3>2. QED
      BY <2>4, <3>1
  <2>9. QED
    BY <2>4, <2>6, <2>7, <2>8, OneValueByPlace
<1>5. CASE older = {}
  <2>1. WithOneMore(que, k, e, longer)
    BY <1>0, <1>5 DEF push, WithOneMore
  <2>2. \A i \in 1..Len(que) : ~SameValue(que[i], e) /\ ~SameValue(e, que[i])
    BY <1>2, <1>5 DEF SameValue
  <2>3. /\ k \in 0..Len(que)
        /\ \A i \in 1..Len(que) : que[i].timeDelta <= e.timeDelta <=> i <= k
    BY <1>1, UpperBound, Zenon
  <2> HIDE DEF older, k
  <2>10. k \in Nat
    BY <1>1, <2>3
  <2>4. /\ longer \in Seq(HostEvents) /\ Len(longer) = Len(que) + 1
        /\ \A i \in 1..k : longer[i] = que[i]
        /\ longer[k + 1] = e
        /\ \A i \in k + 2..Len(que) + 1 : longer[i] = que[i - 1]
    BY <2>1, <2>3, Inserted
  <2> DEFINE from(i) == IF i <= k THEN i ELSE i - 1
  <2>5. ASSUME NEW i \in 1..Len(que) + 1, i # k + 1
        PROVE  from(i) \in 1..Len(que) /\ longer[i] = que[from(i)]
    BY <1>1, <2>3, <2>10, <2>4, <2>5
  <2>6. Sorted(longer)
    <3>1. ASSUME NEW i \in 1..Len(que) + 1, NEW j \in 1..Len(que) + 1, i < j
          PROVE  longer[i].timeDelta <= longer[j].timeDelta
      <4>1. CASE i # k + 1 /\ j # k + 1
        <5>1. from(i) < from(j)
          BY <1>1, <2>3, <2>10, <3>1, <4>1
        <5>2. QED
          BY <2>5, <4>1, <5>1 DEF Sorted
      <4>2. CASE i = k + 1
        <5>1. from(j) > k /\ j # k + 1
          BY <1>1, <2>3, <2>10, <3>1, <4>2
        <5>2. PICK f \in 1..Len(que) : f = from(j) /\ longer[j] = que[f]
          BY <2>5, <5>1
        <5>3. ~(que[f].timeDelta <= e.timeDelta)
          BY <1>1, <2>3, <2>10, <5>1, <5>2
        <5>4. QED
          BY <1>1, <2>4, <4>2, <5>2, <5>3
      <4>3. CASE j = k + 1
        <5>1. i <= k /\ i \in 1..Len(que)
          BY <1>1, <2>3, <2>10, <3>1, <4>3
        <5>2. QED
          BY <2>3, <2>10, <2>4, <4>3, <5>1
      <4>4. QED
        BY <4>1, <4>2, <4>3
    <3>2. QED
      BY <2>4, <3>1 DEF Sorted
  <2>7. ASSUME NEW i \in 1..Len(longer), NEW j \in 1..Len(longer), SameValue(longer[j], longer[i])
        PROVE  i = j
    <3>1. i \in 1..Len(que) + 1 /\ j \in 1..Len(que) + 1
      BY <2>4
    <3>2. CASE i # k + 1 /\ j # k + 1
      <4>1. from(i) = from(j)
        BY <1>3, <2>5, <2>7, <3>1, <3>2
      <4>2. QED
        BY <1>1, <2>3, <2>10, <3>1, <3>2, <4>1
    <3>3. CASE i = k + 1 /\ j # k + 1
      BY <2>2, <2>4, <2>5, <2>7, <3>1, <3>3
    <3>4. CASE i # k + 1 /\ j = k + 1
      BY <2>2, <2>4, <2>5, <2>7, <3>1, <3>4
    <3>5. QED
      BY <3>2, <3>3, <3>4
  <2>8. ASSUME NEW i \in 1..Len(que) PROVE \E j \in 1..Len(longer) : longer[j] = que[i]
    <3>1. CASE i <= k
      BY <1>1, <2>3, <2>10, <2>4, <3>1
    <3>2. CASE ~(i <= k)
      <4>1. i + 1 \in k + 2..Len(que) + 1 /\ (i + 1) - 1 = i /\ i + 1 \in 1..Len(longer)
        BY <1>1, <2>3, <2>10, <2>4, <3>2
      <4>2. longer[i + 1] = que[i]
        BY <2>4, <4>1
      <4>3. QED
        BY <4>1, <4>2
    <3>3. QED
      BY <3>1, <3>2
  <2>9. QED
    BY <2>4, <2>6, <2>7, <2>8, OneValueByPlace
<1>6. QED
  BY <1>4, <1>5

\* A sequence of the elements of a finite set, each of them once.
LEMMA InOrder ==
  ASSUME NEW S, IsFiniteSet(S)
  PROVE  /\ SetToSeq(S) \in Seq(S) /\ Len(SetToSeq(S)) \in Nat
         /\ \A i, j \in 1..Len(SetToSeq(S)) : SetToSeq(S)[i] = SetToSeq(S)[j] => i = j
         /\ \A x \in S : \E i \in 1..Len(SetToSeq(S)) : SetToSeq(S)[i] = x
<1> DEFINE n == Cardinality(S)
           f == SetToSeq(S)
<1>1. \E g \in [1..n -> S] : IsInjective(g)
  BY Enumerated DEF IsInjective
<1>2. f \in [1..n -> S] /\ IsInjective(f)
  BY <1>1 DEF SetToSeq
<1>3. n \in Nat /\ \A x \in S : \E i \in DOMAIN f : f[i] = x
  BY <1>2, Enumerated DEF IsInjective
<1> HIDE DEF n, f
<1>4. f \in Seq(S) /\ Len(f) = n /\ DOMAIN f = 1..n
  BY <1>2, <1>3
<1>5. QED
  BY <1>2, <1>3, <1>4 DEF f, IsInjective

\* start_processor's events: a start for every audio input, and one value for
\* every control.
LEMMA FirstEventsAreSound ==
  /\ firstEvents \in Seq(HostEvents) /\ Len(firstEvents) >= 1
  /\ \A i \in 1..Len(firstEvents) : firstEvents[i].timeDelta = 0
  /\ Sorted(firstEvents) /\ OneValueAtATime(firstEvents)
  /\ \A p \in AudioIns : \E i \in 1..Len(firstEvents) :
       firstEvents[i] = Event(0, "PinStreamingStart", p)
<1> DEFINE ins == SetToSeq(AudioIns)
           controls == SetToSeq(ControlIns)
<1>1. IsFiniteSet(AudioIns) /\ IsFiniteSet(ControlIns)
  BY ProcessorAssumption, FS_Subset DEF ProcessorAssumption
<1>2. /\ ins \in Seq(AudioIns) /\ Len(ins) \in Nat
      /\ \A x \in AudioIns : \E i \in 1..Len(ins) : ins[i] = x
  BY <1>1, InOrder
<1>3. /\ controls \in Seq(ControlIns) /\ Len(controls) \in Nat
      /\ \A i, j \in 1..Len(controls) : controls[i] = controls[j] => i = j
  BY <1>1, InOrder
<1> DEFINE first == <<Event(0, "GraphStart", Nothing)>>
           starts == [i \in 1..Len(ins) |-> Event(0, "PinStreamingStart", ins[i])]
           values == [i \in 1..Len(controls) |-> Event(0, "PinSet", controls[i])]
<1>4. OneAfterTheOther(first \o starts, values, firstEvents)
  BY DEF firstEvents, OneAfterTheOther
<1>5. 0 \in 0..BlockSize - 1
  BY ProcessorAssumption DEF ProcessorAssumption
<1> HIDE DEF ins, controls
<1>6. /\ first \in Seq(HostEvents) /\ Len(first) = 1 /\ first[1] = Event(0, "GraphStart", Nothing)
  BY DEF HostEvents
<1>7. starts \in Seq(HostEvents) /\ Len(starts) = Len(ins)
  <2>1. ASSUME NEW i \in 1..Len(ins) PROVE Event(0, "PinStreamingStart", ins[i]) \in HostEvents
    BY <1>2, <1>5 DEF HostEvents, EventsAt
  <2>2. starts \in [1..Len(ins) -> HostEvents]
    BY <2>1
  <2>3. Len(ins) \in Nat
    BY <1>2
  <2> HIDE DEF starts
  <2>4. QED
    BY <2>2, <2>3
<1>8. values \in Seq(HostEvents) /\ Len(values) = Len(controls)
  <2>1. ASSUME NEW i \in 1..Len(controls) PROVE Event(0, "PinSet", controls[i]) \in HostEvents
    BY <1>3, <1>5 DEF HostEvents, EventsAt
  <2>2. values \in [1..Len(controls) -> HostEvents]
    BY <2>1
  <2> HIDE DEF values
  <2>3. QED
    BY <1>3, <2>2
<1>9. PICK both \in Seq(HostEvents) : OneAfterTheOther(first, starts, both)
  <2> HIDE DEF first, starts
  <2>1. first \o starts \in Seq(HostEvents)
    BY <1>6, <1>7
  <2>2. QED
    BY <2>1 DEF OneAfterTheOther
<1>10. OneAfterTheOther(both, values, firstEvents)
  BY <1>4, <1>9, Zenon DEF OneAfterTheOther
<1> HIDE DEF first
<1>11. /\ Len(both) = Len(ins) + 1
       /\ both[1] = Event(0, "GraphStart", Nothing)
       /\ \A i \in 1..Len(ins) : both[i + 1] = Event(0, "PinStreamingStart", ins[i])
  <2>1. /\ Len(both) = Len(first) + Len(starts)
        /\ \A i \in 1..Len(first) : both[i] = first[i]
        /\ \A i \in 1..Len(starts) : both[Len(first) + i] = starts[i]
    <3> HIDE DEF starts
    <3>1. QED
      <4>1. /\ first \in Seq(HostEvents) /\ starts \in Seq(HostEvents) /\ both \in Seq(HostEvents)
            /\ OneAfterTheOther(first, starts, both)
        BY <1>6, <1>7, <1>9
      <4>2. QED
        BY <4>1, Concatenated
  <2>2. 1 \in 1..Len(first) /\ \A i \in 1..Len(ins) : 1 + i = i + 1
    BY <1>2, <1>6
  <2>3. QED
    BY <1>2, <1>6, <1>7, <2>1, <2>2
<1>12. /\ firstEvents \in Seq(HostEvents) /\ Len(firstEvents) = Len(both) + Len(controls)
       /\ \A i \in 1..Len(both) : firstEvents[i] = both[i]
       /\ \A i \in 1..Len(controls) : firstEvents[Len(both) + i] = Event(0, "PinSet", controls[i])
  <2>1. /\ firstEvents \in Seq(HostEvents) /\ Len(firstEvents) = Len(both) + Len(values)
        /\ \A i \in 1..Len(both) : firstEvents[i] = both[i]
        /\ \A i \in 1..Len(values) : firstEvents[Len(both) + i] = values[i]
    <3> HIDE DEF values
    <3> QED
      BY <1>8, <1>9, <1>10, Concatenated
  <2>2. QED
    BY <1>8, <2>1
<1> HIDE DEF starts, values
<1>13. ASSUME NEW i \in 1..Len(firstEvents)
       PROVE  \/ i = 1 /\ firstEvents[i] = Event(0, "GraphStart", Nothing)
              \/ \E k \in 1..Len(ins) : firstEvents[i] = Event(0, "PinStreamingStart", ins[k])
              \/ \E k \in 1..Len(controls) :
                   i = Len(both) + k /\ firstEvents[i] = Event(0, "PinSet", controls[k])
  <2>1. CASE i = 1
    BY <1>2, <1>11, <1>12, <2>1
  <2>2. CASE i # 1 /\ i <= Len(both)
    <3>1. i - 1 \in 1..Len(ins) /\ (i - 1) + 1 = i /\ i \in 1..Len(both)
      BY <1>2, <1>11, <2>2
    <3>2. firstEvents[i] = Event(0, "PinStreamingStart", ins[i - 1])
      BY <1>11, <1>12, <3>1
    <3>3. QED
      BY <3>1, <3>2
  <2>3. CASE i > Len(both)
    <3>1. PICK k \in 1..Len(controls) : i = Len(both) + k
      <4>1. i - Len(both) \in 1..Len(controls) /\ i = Len(both) + (i - Len(both))
        BY <1>2, <1>3, <1>11, <1>12, <2>3
      <4>2. QED
        BY <4>1
    <3>2. QED
      BY <1>12, <3>1
  <2>4. QED
    BY <1>2, <1>11, <2>1, <2>2, <2>3
<1>14. \A i \in 1..Len(firstEvents) : firstEvents[i].timeDelta = 0
  <2>1. \A i \in 1..Len(firstEvents) : \E type, pin : firstEvents[i] = Event(0, type, pin)
    BY <1>13
  <2>2. \A type, pin : Event(0, type, pin).timeDelta = 0
    BY DEF Event
  <2>3. QED
    BY <2>1, <2>2
<1>15. ASSUME NEW i \in 1..Len(firstEvents), NEW j \in 1..Len(firstEvents),
              SameValue(firstEvents[j], firstEvents[i])
       PROVE  i = j
  <2>0. /\ \A type, pin : Event(0, type, pin).eventType = type
        /\ firstEvents[i].eventType = "PinSet" /\ firstEvents[j].eventType = "PinSet"
    BY <1>15 DEF Event, SameValue
  <2>1. PICK k \in 1..Len(controls) : i = Len(both) + k /\ firstEvents[i] = Event(0, "PinSet", controls[k])
    BY <1>13, <2>0
  <2>2. PICK l \in 1..Len(controls) : j = Len(both) + l /\ firstEvents[j] = Event(0, "PinSet", controls[l])
    BY <1>13, <2>0
  <2>3. controls[k] = controls[l]
    BY <1>15, <2>1, <2>2 DEF SameValue, Event
  <2>4. QED
    BY <1>3, <2>1, <2>2, <2>3
<1>16. ASSUME NEW p \in AudioIns
       PROVE  \E i \in 1..Len(firstEvents) : firstEvents[i] = Event(0, "PinStreamingStart", p)
  <2>1. PICK k \in 1..Len(ins) : ins[k] = p
    BY <1>2
  <2>2. k + 1 \in 1..Len(both) /\ k + 1 \in 1..Len(firstEvents)
    BY <1>2, <1>3, <1>11, <1>12
  <2>3. firstEvents[k + 1] = Event(0, "PinStreamingStart", p)
    BY <1>11, <1>12, <2>1, <2>2
  <2>4. QED
    BY <2>2, <2>3
<1>17. Sorted(firstEvents)
  BY <1>14 DEF Sorted
<1>18. Len(firstEvents) >= 1
  BY <1>2, <1>3, <1>11, <1>12
<1>19. OneValueAtATime(firstEvents)
  BY <1>15, OneValueByPlace
<1>20. QED
  BY <1>12, <1>14, <1>16, <1>17, <1>18, <1>19

-----------------------------------------------------------------------------
(* Sleep *)

Members ==
  [curSubProcess : SubProcesses \cup {PreSleep}, saveSubProcess : SubProcesses,
   sleepCount : 0..BlockSize, streamingPinCount : 0..Cardinality(AudioPins),
   canSleepManualOverride : {"SLEEP_AUTO", "SLEEP_DISABLE", "SLEEP_ENABLE"},
   isStreaming : SUBSET AudioPins, clean : 0..BlockSize]

\* SilenceIsWatched, for any m.
Watched(s) ==
  /\ s.streamingPinCount = Cardinality(s.isStreaming)
  /\ s.curSubProcess \in {s.saveSubProcess, PreSleep}
  /\ s.streamingPinCount = 0 /\ s.canSleepManualOverride # "SLEEP_DISABLE"
       => s.curSubProcess = PreSleep

\* As long as the plugin leaves it to the SDK: the frames filled since an
\* output was last set, and those yet to be filled, are enough for the buffers.
ClearsBuffers(s) ==
  s.canSleepManualOverride = "SLEEP_AUTO" /\ s.isStreaming \cap AudioOuts = {}
    => s.clean + s.sleepCount >= BlockSize

Good == { s \in Members : Watched(s) /\ ClearsBuffers(s) }

\* What the assumption says of the pins and the blocks.
LEMMA PinsAre ==
  /\ BlockSize \in Nat \ {0} /\ Nothing \in SubProcesses /\ PreSleep \notin SubProcesses
  /\ AudioIns \subseteq AudioPins /\ AudioOuts \subseteq AudioPins /\ AudioIns \cap AudioOuts = {}
  /\ IsFiniteSet(AudioPins) /\ Cardinality(AudioPins) \in Nat
  /\ IsFiniteSet(AudioOuts)
<1>1. IsFiniteSet(AudioPins) /\ IsFiniteSet(AudioOuts)
  BY ProcessorAssumption, FS_Subset DEF ProcessorAssumption, AudioPins
<1>2. Cardinality(AudioPins) \in Nat
  BY <1>1, FS_CardinalityType
<1>3. QED
  BY <1>1, <1>2, ProcessorAssumption DEF ProcessorAssumption, AudioPins

\* A pin that starts or stops streaming is counted, and silence is watched for.
LEMMA StreamingIsCounted ==
  ASSUME NEW s \in Members, Watched(s), NEW pin \in AudioPins, NEW on \in BOOLEAN
  PROVE  \E after \in Members :
           /\ after = changeStreaming(s, pin, on)
           /\ Watched(after)
           /\ on => after.isStreaming = s.isStreaming \cup {pin}
           /\ ~on => after.isStreaming = s.isStreaming \ {pin}
           /\ after.sleepCount = s.sleepCount /\ after.clean = s.clean
           /\ after.canSleepManualOverride = s.canSleepManualOverride
<1>0. PICK after : after = changeStreaming(s, pin, on)
  OBVIOUS
<1>1. CASE on = (pin \in s.isStreaming)
  <2>1. after = s
    BY <1>0, <1>1 DEF changeStreaming
  <2>2. s.isStreaming = IF on THEN s.isStreaming \cup {pin} ELSE s.isStreaming \ {pin}
    BY <1>1
  <2>3. QED
    BY <1>0, <2>1, <2>2
<1>2. CASE on # (pin \in s.isStreaming)
  <2> DEFINE streaming == IF on THEN s.isStreaming \cup {pin} ELSE s.isStreaming \ {pin}
             n == IF on THEN s.streamingPinCount + 1 ELSE s.streamingPinCount - 1
  <2>1. after = [s EXCEPT !.isStreaming = streaming, !.streamingPinCount = n,
                          !.curSubProcess = IF n = 0 \/ s.canSleepManualOverride = "SLEEP_ENABLE"
                                              THEN PreSleep ELSE s.saveSubProcess]
    BY <1>0, <1>2 DEF changeStreaming, onPinStreamingChange, Members
  <2>2. streaming \in SUBSET AudioPins
    BY DEF Members
  <2>3. IsFiniteSet(s.isStreaming) /\ s.streamingPinCount = Cardinality(s.isStreaming)
    BY PinsAre, FS_Subset DEF Members, Watched
  <2>4. n = Cardinality(streaming)
    <3>1. CASE on
      <4>1. pin \notin s.isStreaming
        BY <1>2, <3>1
      <4>2. Cardinality(s.isStreaming \cup {pin}) = Cardinality(s.isStreaming) + 1
        BY <2>3, <4>1, FS_AddElement
      <4>3. QED
        BY <2>3, <3>1, <4>2
    <3>2. CASE ~on
      <4>1. pin \in s.isStreaming
        BY <1>2, <3>2
      <4>2. Cardinality(s.isStreaming \ {pin}) = Cardinality(s.isStreaming) - 1
        BY <2>3, <4>1, FS_RemoveElement
      <4>3. QED
        BY <2>3, <3>2, <4>2
    <3>3. QED
      BY <3>1, <3>2
  <2>5. n \in 0..Cardinality(AudioPins)
    <3>1. IsFiniteSet(streaming) /\ Cardinality(streaming) <= Cardinality(AudioPins)
      BY <2>2, PinsAre, FS_Subset
    <3>2. Cardinality(streaming) \in Nat
      BY <3>1, FS_CardinalityType
    <3> HIDE DEF streaming, n
    <3>3. QED
      BY <2>4, <3>1, <3>2, PinsAre
  <2> HIDE DEF streaming, n
  <2>6. after \in Members
    BY <2>1, <2>2, <2>5 DEF Members
  <2>7. after.isStreaming = streaming /\ after.streamingPinCount = n
    BY <2>1 DEF Members
  <2>8. Watched(after)
    BY <2>1, <2>4, <2>7 DEF Members, Watched
  <2>9. /\ after.sleepCount = s.sleepCount /\ after.clean = s.clean
        /\ after.canSleepManualOverride = s.canSleepManualOverride
    BY <2>1 DEF Members
  <2>10. QED
    BY <1>0, <2>6, <2>7, <2>8, <2>9 DEF streaming
<1>3. QED
  BY <1>1, <1>2

\* An output pin that is set, streaming or not, has its buffer to clear again.
LEMMA SetStreamingIsGood ==
  ASSUME NEW s \in Good, NEW pin \in AudioOuts, NEW on \in BOOLEAN
  PROVE  setStreaming(s, pin, on) \in Good
<1>1. PICK changed \in Members :
        /\ changed = changeStreaming(s, pin, on)
        /\ Watched(changed)
        /\ on => changed.isStreaming = s.isStreaming \cup {pin}
  <2>1. pin \in AudioPins /\ s \in Members /\ Watched(s)
    BY PinsAre DEF Good
  <2>2. QED
    BY <2>1, StreamingIsCounted
<1>2. setStreaming(s, pin, on)
        = IF on THEN [changed EXCEPT !.clean = 0]
          ELSE [changed EXCEPT !.clean = 0, !.sleepCount = BlockSize]
  BY <1>1 DEF setStreaming, resetSleepCounter, Members
<1>3. 0 \in 0..BlockSize /\ BlockSize \in 0..BlockSize
  BY PinsAre
<1>4. CASE on
  <2>1. pin \in changed.isStreaming \cap AudioOuts
    BY <1>1, <1>4
  <2>2. PICK after : after = [changed EXCEPT !.clean = 0]
    OBVIOUS
  <2>3. /\ after \in Members
        /\ \A f \in {"curSubProcess", "saveSubProcess", "streamingPinCount", "canSleepManualOverride",
                     "isStreaming"} : after[f] = changed[f]
    BY <1>1, <1>3, <2>2 DEF Members
  <2>4. Watched(after)
    BY <1>1, <2>3 DEF Watched
  <2>5. ClearsBuffers(after)
    BY <2>1, <2>3 DEF ClearsBuffers
  <2>6. QED
    BY <1>2, <1>4, <2>2, <2>3, <2>4, <2>5 DEF Good
<1>5. CASE ~on
  <2>1. PICK after : after = [changed EXCEPT !.clean = 0, !.sleepCount = BlockSize]
    OBVIOUS
  <2>2. after \in Members /\ after.clean + after.sleepCount >= BlockSize
    <3>1. after \in Members /\ after.clean = 0 /\ after.sleepCount = BlockSize
      BY <1>3, <2>1 DEF Members
    <3>2. BlockSize \in Nat
      BY PinsAre
    <3>3. QED
      BY <3>1, <3>2
  <2>3. Watched(after)
    BY <1>1, <2>1 DEF Members, Watched
  <2>4. QED
    BY <1>2, <1>5, <2>1, <2>2, <2>3 DEF Good, ClearsBuffers
<1>6. QED
  BY <1>4, <1>5

\* Whatever the plugin calls.
LEMMA PluginIsGood ==
  ASSUME NEW s \in Good
  PROVE  afterPlugin(s) \subseteq Good
<1>1. ASSUME NEW f \in SubProcesses PROVE setSubProcess(s, f) \in Good
  BY PinsAre DEF setSubProcess, Good, Members, Watched, ClearsBuffers
<1>2. ASSUME NEW ok \in BOOLEAN PROVE setSleep(s, ok) \in Good
  BY PinsAre DEF setSleep, Good, Members, Watched, ClearsBuffers
<1>3. QED
  BY <1>1, <1>2, SetStreamingIsGood DEF afterPlugin

\* An event of the host.
LEMMA PreProcessEventIsGood ==
  ASSUME NEW s \in Good, NEW e \in HostEvents
  PROVE  preProcessEvent(s, e) \in Good
<1>1. CASE ~isStreamingEvent(e)
  BY <1>1 DEF preProcessEvent
<1>2. CASE isStreamingEvent(e)
  <2> DEFINE on == e.eventType = "PinStreamingStart"
  <2>1. e.pinIdx \in AudioIns /\ e.pinIdx \in AudioPins /\ e.pinIdx \notin AudioOuts
    BY <1>2, HostEventsAre, PinsAre
  <2>2. on \in BOOLEAN
    OBVIOUS
  <2>3. PICK changed \in Members :
          /\ changed = changeStreaming(s, e.pinIdx, on)
          /\ Watched(changed)
          /\ on => changed.isStreaming = s.isStreaming \cup {e.pinIdx}
          /\ ~on => changed.isStreaming = s.isStreaming \ {e.pinIdx}
          /\ changed.sleepCount = s.sleepCount /\ changed.clean = s.clean
          /\ changed.canSleepManualOverride = s.canSleepManualOverride
    <3> HIDE DEF on
    <3> QED
      BY <2>1, <2>2, StreamingIsCounted DEF Good
  <2>4. preProcessEvent(s, e) = IF on THEN changed ELSE nudgeSleepCounter(changed)
    BY <1>2, <2>3 DEF preProcessEvent
  <2>5. changed.isStreaming \cap AudioOuts = s.isStreaming \cap AudioOuts
    BY <2>1, <2>3
  <2>6. changed \in Good
    BY <2>3, <2>5 DEF Good, ClearsBuffers
  <2>7. nudgeSleepCounter(changed) \in Good
    <3>1. changed.sleepCount \in 0..BlockSize /\ changed.clean \in 0..BlockSize /\ 1 \in 0..BlockSize
      BY <2>3, PinsAre DEF Members
    <3>2. PICK c \in 0..BlockSize : c = (IF changed.sleepCount > 1 THEN changed.sleepCount ELSE 1)
                                    /\ c >= changed.sleepCount
      BY <3>1
    <3>3. nudgeSleepCounter(changed) = [changed EXCEPT !.sleepCount = c]
      BY <3>2 DEF nudgeSleepCounter
    <3>4. QED
      BY <2>6, <3>1, <3>2, <3>3, PinsAre DEF Good, Members, Watched, ClearsBuffers
  <2>8. QED
    BY <2>4, <2>6, <2>7
<1>3. QED
  BY <1>1, <1>2

\* All output pins are set, one after the other.
LEMMA OnGraphStartIsGood ==
  ASSUME NEW s \in Good
  PROVE  onGraphStart(s) \in Good
<1> DEFINE next(T) == CHOOSE pin \in T : TRUE
           value(g, T) == IF T = {} THEN s ELSE setStreaming(g[T \ {next(T)}], next(T), TRUE)
           fold == CHOOSE g : g = [T \in SUBSET AudioOuts |-> value(g, T)]
<1>1. onGraphStart(s) = fold[AudioOuts]
  BY DEF onGraphStart, MapThenFoldSet
<1>2. IsFiniteSet(AudioOuts)
  BY PinsAre
<1>3. \E g : g = [T \in SUBSET AudioOuts |-> value(g, T)]
  <2> DEFINE step == [pin \in AudioOuts |-> [t \in Good |-> setStreaming(t, pin, TRUE)]]
             pick == [T \in (SUBSET AudioOuts) \ {{}} |-> next(T)]
  <2>1. \A pin \in AudioOuts, t \in Good : setStreaming(t, pin, TRUE) \in Good
    BY SetStreamingIsGood
  <2>2. step \in [AudioOuts -> [Good -> Good]]
    BY <2>1
  <2>3. /\ pick \in [(SUBSET AudioOuts) \ {{}} -> AudioOuts]
        /\ \A T \in (SUBSET AudioOuts) \ {{}} : pick[T] \in T
    OBVIOUS
  <2>4. PICK g \in [SUBSET AudioOuts -> Good] : \A T \in SUBSET AudioOuts :
          g[T] = IF T = {} THEN s ELSE step[pick[T]][g[T \ {pick[T]}]]
    <3> HIDE DEF step, pick
    <3>1. MayFold(AudioOuts, Good, s, step, pick)
      BY <1>2, <2>2, <2>3 DEF MayFold
    <3>2. \E g \in [SUBSET AudioOuts -> Good] : IsFold(AudioOuts, s, step, pick, g)
      BY <3>1, FoldExists
    <3>3. QED
      BY <3>2 DEF IsFold
  <2>5. ASSUME NEW T \in SUBSET AudioOuts PROVE g[T] = value(g, T)
    <3>1. CASE T = {}
      BY <2>4, <3>1
    <3>2. CASE T # {}
      <4>1. pick[T] = next(T) /\ next(T) \in AudioOuts /\ T \ {next(T)} \in SUBSET AudioOuts
        BY <2>3, <3>2
      <4>2. g[T] = step[next(T)][g[T \ {next(T)}]]
        <5> HIDE DEF pick, next, step
        <5> QED
          BY <2>4, <3>2, <4>1
      <4>3. step[next(T)][g[T \ {next(T)}]] = setStreaming(g[T \ {next(T)}], next(T), TRUE)
        <5> HIDE DEF next
        <5> QED
          BY <4>1
      <4>4. QED
        BY <3>2, <4>2, <4>3
    <3>3. QED
      BY <3>1, <3>2
  <2> HIDE DEF value
  <2>6. g = [T \in SUBSET AudioOuts |-> value(g, T)]
    BY <2>5
  <2>7. QED
    BY <2>6
<1>4. fold = [T \in SUBSET AudioOuts |-> value(fold, T)]
  <2> HIDE DEF value
  <2> QED
    BY <1>3
<1>5. ASSUME NEW T \in SUBSET AudioOuts, T # {}
      PROVE  \E x \in T : fold[T \ {x}] \in Good => fold[T] \in Good
  <2>1. next(T) \in T /\ next(T) \in AudioOuts /\ T \ {next(T)} \in SUBSET AudioOuts
    BY <1>5
  <2> HIDE DEF fold, next
  <2>2. fold[T] = setStreaming(fold[T \ {next(T)}], next(T), TRUE)
    BY <1>4, <1>5
  <2>3. QED
    BY <2>1, <2>2, SetStreamingIsGood
<1> DEFINE good == { T \in SUBSET AudioOuts : fold[T] \in Good }
<1>6. fold[{}] = s
  <2> HIDE DEF fold, next
  <2> QED
    BY <1>4
<1>7. good = SUBSET AudioOuts
  <2> HIDE DEF fold
  <2>1. good \in SUBSET SUBSET AudioOuts /\ {} \in good
    BY <1>6
  <2>2. \A T \in SUBSET AudioOuts : T # {} => \E x \in T : T \ {x} \in good => T \in good
    BY <1>5
  <2> HIDE DEF good
  <2>3. QED
    BY <1>2, <2>1, <2>2, EverySubset
<1>8. QED
  BY <1>1, <1>7

\* The events that are due are preprocessed, one after the other.
LEMMA PreProcessIsGood ==
  ASSUME NEW s \in Good, NEW que \in Seq(HostEvents), batch = que
  PROVE  FoldLeft(preProcessEvent, s, batch) \in Good
<1> DEFINE D == 1..Len(que)
           value(g, T) == IF T = {} THEN s ELSE preProcessEvent(g[T \ {Max(T)}], batch[Max(T)])
           fold == CHOOSE g : g = [T \in SUBSET DOMAIN batch |-> value(g, T)]
<1>1. FoldLeft(preProcessEvent, s, batch) = fold[DOMAIN batch]
  BY DEF FoldLeft, MapThenFoldSet
<1>2. DOMAIN batch = D /\ Len(que) \in Nat
  OBVIOUS
<1>3. IsFiniteSet(D)
  <2> HIDE DEF D
  <2> QED
    BY <1>2, FS_Interval DEF D
<1>4. ASSUME NEW T \in SUBSET D, T # {}
      PROVE  Max(T) \in T /\ Max(T) \in D /\ T \ {Max(T)} \in SUBSET D
  <2>1. T \in SUBSET (0..Len(que))
    BY <1>2
  <2>2. PICK x \in T : \A y \in T : y <= x
    <3> HIDE DEF D
    <3> QED
      BY <1>2, <1>4, <2>1, GreatestNumber
  <2>3. \A y \in T : x >= y
    BY <1>2, <2>2
  <2>4. Max(T) \in T
    BY <2>3 DEF Max
  <2>5. QED
    BY <2>4
<1>5. \A i \in D, t \in Good : preProcessEvent(t, batch[i]) \in Good
  BY PreProcessEventIsGood
<1> HIDE DEF D
<1>6. \E g : g = [T \in SUBSET DOMAIN batch |-> value(g, T)]
  <2> DEFINE step == [i \in D |-> [t \in Good |-> preProcessEvent(t, batch[i])]]
             pick == [T \in (SUBSET D) \ {{}} |-> Max(T)]
  <2>2. step \in [D -> [Good -> Good]]
    BY <1>5
  <2>3. pick \in [(SUBSET D) \ {{}} -> D] /\ \A T \in (SUBSET D) \ {{}} : pick[T] \in T
    BY <1>4
  <2>4. PICK g \in [SUBSET D -> Good] : \A T \in SUBSET D :
          g[T] = IF T = {} THEN s ELSE step[pick[T]][g[T \ {pick[T]}]]
    <3> HIDE DEF step, pick
    <3>1. MayFold(D, Good, s, step, pick)
      BY <1>3, <2>2, <2>3 DEF MayFold
    <3>2. \E g \in [SUBSET D -> Good] : IsFold(D, s, step, pick, g)
      BY <3>1, FoldExists
    <3>3. QED
      BY <3>2 DEF IsFold
  <2>5. ASSUME NEW T \in SUBSET D PROVE g[T] = value(g, T)
    <3>1. CASE T = {}
      BY <2>4, <3>1
    <3>2. CASE T # {}
      <4>1. pick[T] = Max(T) /\ Max(T) \in D /\ T \ {Max(T)} \in SUBSET D
        BY <1>4, <3>2
      <4>2. g[T] = step[Max(T)][g[T \ {Max(T)}]]
        <5> HIDE DEF pick, step
        <5> QED
          BY <2>4, <3>2, <4>1
      <4>3. step[Max(T)][g[T \ {Max(T)}]] = preProcessEvent(g[T \ {Max(T)}], batch[Max(T)])
        BY <4>1
      <4>4. QED
        BY <3>2, <4>2, <4>3
    <3>3. QED
      BY <3>1, <3>2
  <2> HIDE DEF value
  <2>6. g = [T \in SUBSET DOMAIN batch |-> value(g, T)]
    BY <1>2, <2>5
  <2>7. QED
    BY <2>6
<1>7. fold = [T \in SUBSET D |-> value(fold, T)]
  <2> HIDE DEF value
  <2> QED
    BY <1>2, <1>6
<1>8. ASSUME NEW T \in SUBSET D, T # {}
      PROVE  \E x \in T : fold[T \ {x}] \in Good => fold[T] \in Good
  <2> HIDE DEF fold
  <2>1. fold[T] = preProcessEvent(fold[T \ {Max(T)}], batch[Max(T)])
    BY <1>7, <1>8
  <2>2. QED
    BY <1>4, <1>5, <1>8, <2>1
<1> DEFINE good == { T \in SUBSET D : fold[T] \in Good }
<1>9. fold[{}] = s
  <2> HIDE DEF fold
  <2> QED
    BY <1>7
<1>10. good = SUBSET D
  <2> HIDE DEF fold
  <2>1. good \in SUBSET SUBSET D /\ {} \in good
    BY <1>9
  <2>2. \A T \in SUBSET D : T # {} => \E x \in T : T \ {x} \in good => T \in good
    BY <1>8
  <2> HIDE DEF good
  <2>3. QED
    BY <1>3, <2>1, <2>2, EverySubset
<1>11. QED
  BY <1>1, <1>2, <1>10

-----------------------------------------------------------------------------
(* The inductive invariant *)

\* The values of the variables but for the queue and m.
NumbersIInv ==
  /\ blockPos \in 0..BlockSize /\ count \in 0..BlockSize /\ remain \in 0..BlockSize
  /\ left \in 0..BlockSize /\ sliceStart \in 0..BlockSize /\ processed \in 0..BlockSize
  /\ eventsComplete \in BOOLEAN /\ asleep \in BOOLEAN
  /\ pc \in {"idle", "loop", "subprocess", "presleep", "sliced", "handlers"}
  /\ handled \in Nat

\* What is filled, cut off and left of the block: the position is where the
\* frames filled end, and a slice ends where the next event is.
SlicesIInv ==
  /\ pc = "idle" => left = 0 /\ (processed = count \/ asleep)
  /\ pc # "idle" => /\ processed + left + remain = count
                    /\ \A i \in 1..Len(events) : events[i].timeDelta < count
  /\ pc \in {"loop", "subprocess", "presleep", "handlers"} => blockPos = processed
  /\ pc \in {"loop", "handlers"} =>
       left = 0 /\ \A i \in 1..Len(events) : events[i].timeDelta >= blockPos
  /\ pc \in {"subprocess", "presleep", "sliced"} =>
       IF events = <<>> THEN remain = 0 ELSE processed + left = events[1].timeDelta
  /\ pc = "subprocess" => blockPos = sliceStart
  /\ pc = "sliced" => blockPos = sliceStart /\ (asleep \/ left = 0)

\* The plugin sleeps at the end of a block, and only if no event is to come.
SleepIInv ==
  /\ asleep => pc \in {"sliced", "idle"}
  /\ asleep /\ pc = "sliced" => events = <<>>
  /\ pc = "presleep" => eventsComplete = (events = <<>>)

\* Before the first block the audio inputs are fresh, and a start of each is
\* among the events at time 0; else only the pins of the events being handled.
FreshIInv ==
  /\ pc = "handlers" => events # <<>> /\ events[1].timeDelta = blockPos /\ fresh = BatchPins
  /\ pc # "handlers" /\ fresh # {} =>
       /\ fresh = AudioIns
       /\ pc = "idle" \/ (pc = "loop" /\ blockPos = 0)
       /\ \A p \in AudioIns : \E i \in 1..Len(events) : events[i] = Event(0, "PinStreamingStart", p)

IInv == QueueIInv /\ m \in Good /\ NumbersIInv /\ SlicesIInv /\ SleepIInv /\ FreshIInv

-----------------------------------------------------------------------------
(* The steps *)

\* What the queue is a step later, if that changes nothing about it.
LEMMA QueueStays ==
  ASSUME QueueIInv, events' = events
  PROVE  QueueIInv'
BY DEF QueueIInv, Sorted, OneValueAtATime, supersededBy

\* The batch is the events of this time, which come first.
LEMMA BatchIs ==
  ASSUME QueueIInv, events # <<>>, blockPos \in Nat, events[1].timeDelta = blockPos,
         \A i \in 1..Len(events) : events[i].timeDelta >= blockPos
  PROVE  \E n \in 1..Len(events) :
           /\ batch = SubSeq(events, 1, n)
           /\ \A i \in 1..Len(events) : events[i].timeDelta = blockPos <=> i <= n
<1> DEFINE due == { n \in 1..Len(events) : \A i \in 2..n : events[i].timeDelta = blockPos }
<1>1. events \in Seq(HostEvents) /\ Len(events) \in Nat \ {0}
  BY DEF QueueIInv
<1>2. \A i \in 1..Len(events) : events[i].timeDelta \in Nat
  BY <1>1, HostEventsAre
<1>3. 1 \in due /\ due \in SUBSET (0..Len(events))
  BY <1>1
<1>4. \E n \in due : \A k \in due : k <= n
  <2> HIDE DEF due
  <2> QED
    BY <1>1, <1>3, GreatestNumber
<1>5. PICK n : n = CHOOSE last \in due : \A k \in due : k <= last
  OBVIOUS
<1>6. n \in due /\ \A k \in due : k <= n
  <2> HIDE DEF due
  <2> QED
    BY <1>4, <1>5
<1>7. ASSUME NEW i \in 1..n PROVE events[i].timeDelta = blockPos
  BY <1>6, <1>7
<1>8. ASSUME NEW i \in 1..Len(events), n < i, events[i].timeDelta = blockPos PROVE FALSE
  <2>1. n + 1 \in 1..Len(events) /\ n + 1 <= i /\ n \in 1..Len(events)
    BY <1>1, <1>6, <1>8
  <2>2. events[n + 1].timeDelta <= events[i].timeDelta
    <3>1. CASE n + 1 = i
      BY <3>1, <1>2
    <3>2. CASE n + 1 # i
      BY <2>1, <3>2 DEF QueueIInv, Sorted
    <3>3. QED
      BY <3>1, <3>2
  <2>3. events[n + 1].timeDelta = blockPos
    BY <1>2, <1>8, <2>1, <2>2
  <2>4. \A k \in 2..n + 1 : k \in 1..n \/ k = n + 1
    BY <2>1
  <2>5. n + 1 \in due
    BY <1>7, <2>1, <2>3, <2>4
  <2>6. QED
    BY <1>6, <2>1, <2>5
<1>9. batch = SubSeq(events, 1, n)
  BY <1>5 DEF batch
<1>10. ASSUME NEW i \in 1..Len(events) PROVE events[i].timeDelta = blockPos <=> i <= n
  <2>1. n \in 1..Len(events)
    BY <1>6
  <2>2. i <= n => i \in 1..n
    BY <2>1
  <2>3. QED
    BY <1>7, <1>8, <2>1, <2>2
<1>11. QED
  BY <1>6, <1>9, <1>10

\* The start of a run.
LEMMA InitIsGood == Init => IInv
<1> SUFFICES ASSUME Init PROVE IInv
  OBVIOUS
<1>1. QueueIInv
  BY FirstEventsAreSound DEF Init, QueueIInv
<1>2. m \in Good
  <2>1. Cardinality({}) = 0
    BY FS_EmptySet
  <2>2. 0 \in 0..BlockSize /\ BlockSize \in 0..BlockSize /\ 0 \in 0..Cardinality(AudioPins)
        /\ BlockSize + 0 >= BlockSize
    BY PinsAre
  <2>3. QED
    BY <2>1, <2>2, PinsAre DEF Init, Good, Members, Watched, ClearsBuffers
<1>3. NumbersIInv
  <2>1. 0 \in 0..BlockSize /\ 0 \in Nat
    BY PinsAre
  <2>2. QED
    BY <2>1 DEF Init, NumbersIInv
<1>4. SlicesIInv /\ SleepIInv
  BY DEF Init, SlicesIInv, SleepIInv
<1>5. FreshIInv
  BY FirstEventsAreSound DEF Init, FreshIInv
<1>6. QED
  BY <1>1, <1>2, <1>3, <1>4, <1>5 DEF IInv

\* An event of the host keeps the invariant: the starts of the inputs stay.
LEMMA PushKeeps ==
  ASSUME IInv, NEW e \in EventsAt(0..BlockSize-1), Push(e)
  PROVE  IInv'
<1> USE DEF IInv
<1>1. e \in HostEvents /\ events \in Seq(HostEvents) /\ Sorted(events) /\ OneValueAtATime(events)
  BY DEF HostEvents, QueueIInv
<1>2. PICK longer : Pushed(events, e, longer)
  BY DEF Pushed
<1>3. /\ longer \in Seq(HostEvents) /\ Sorted(longer) /\ OneValueAtATime(longer)
      /\ \A i \in 1..Len(events) :
           events[i].eventType # "PinSet" => \E j \in 1..Len(longer) : longer[j] = events[i]
  BY <1>1, <1>2, PushIsSound
<1>4. events' = longer
  BY <1>2 DEF Push, Pushed
<1>5. QueueIInv'
  BY <1>3, <1>4 DEF QueueIInv, Sorted, OneValueAtATime, supersededBy
<1>6. (m \in Good)' /\ NumbersIInv' /\ SlicesIInv' /\ SleepIInv'
  BY DEF Push, blockVars, NumbersIInv, SlicesIInv, SleepIInv
<1>7. FreshIInv'
  <2>1. ASSUME NEW p \in AudioIns, NEW i \in 1..Len(events), events[i] = Event(0, "PinStreamingStart", p)
        PROVE  \E j \in 1..Len(longer) : longer[j] = Event(0, "PinStreamingStart", p)
    BY <1>3, <2>1 DEF Event
  <2>2. QED
    BY <1>4, <2>1 DEF Push, blockVars, FreshIInv
<1>8. QED
  BY <1>5, <1>6, <1>7

\* The start of a block.
LEMMA ProcessKeeps ==
  ASSUME IInv, NEW n \in 1..BlockSize, process(n)
  PROVE  IInv'
<1> USE DEF IInv
<1>1. events \in Seq(HostEvents) /\ Len(events) \in Nat
  BY DEF QueueIInv
<1>2. \A i \in 1..Len(events) : events[i].timeDelta >= 0
  BY <1>1, HostEventsAre
<1>3. QueueIInv' /\ (m \in Good)'
  BY QueueStays DEF process
<1>4. NumbersIInv' /\ SleepIInv'
  <2>1. 0 \in 0..BlockSize /\ n \in 0..BlockSize
    BY PinsAre
  <2>2. QED
    BY <2>1 DEF process, NumbersIInv, SleepIInv
<1>5. SlicesIInv'
  BY <1>2, PinsAre DEF process, SlicesIInv
<1>6. FreshIInv'
  BY DEF process, FreshIInv
<1>7. QED
  BY <1>3, <1>4, <1>5, <1>6

\* A slice is cut off.
LEMMA SliceKeeps ==
  ASSUME IInv, Slice
  PROVE  IInv'
<1> USE DEF IInv
<1>1. events \in Seq(HostEvents) /\ Len(events) \in Nat /\ (events = <<>> <=> Len(events) = 0)
  BY DEF QueueIInv
<1>2. events # <<>> => /\ events[1].timeDelta \in Nat /\ Head(events) = events[1]
                       /\ events[1].timeDelta > blockPos /\ events[1].timeDelta < count
  BY <1>1, HostEventsAre DEF Slice, SlicesIInv
<1>3. QueueIInv' /\ (m \in Good)'
  BY QueueStays DEF Slice
<1>4. /\ blockPos = processed /\ left = 0 /\ processed + remain = count
      /\ blockPos \in Nat /\ remain \in Nat /\ count \in 0..BlockSize
  BY PinsAre DEF Slice, NumbersIInv, SlicesIInv
<1>5. PICK n : n = IF events = <<>> THEN remain ELSE events[1].timeDelta - blockPos
  OBVIOUS
<1>6. left' = n /\ remain' = remain - n
  BY <1>2, <1>5 DEF Slice
<1>7. /\ n \in 0..BlockSize /\ remain - n \in 0..BlockSize /\ processed + n + (remain - n) = count
      /\ events = <<>> => remain - n = 0
      /\ events # <<>> => processed + n = events[1].timeDelta
  <2>1. CASE events = <<>>
    <3>1. n = remain
      BY <1>5, <2>1
    <3>2. QED
      BY <1>4, <2>1, <3>1, PinsAre
  <2>2. CASE events # <<>>
    <3>1. n = events[1].timeDelta - blockPos
      BY <1>5, <2>2
    <3>2. PICK t \in Nat : t = events[1].timeDelta /\ t > blockPos /\ t < count
      BY <1>2, <2>2
    <3>3. BlockSize \in Nat /\ remain \in Nat /\ processed \in Nat /\ count \in 0..BlockSize
          /\ processed + remain = count /\ t > processed /\ n = t - processed
      BY <1>4, <3>1, <3>2, PinsAre
    <3>4. n \in 0..BlockSize /\ remain - n \in 0..BlockSize
          /\ processed + n + (remain - n) = count /\ processed + n = t
      BY <3>2, <3>3
    <3>5. QED
      BY <2>2, <3>2, <3>4
  <2>3. QED
    BY <2>1, <2>2
<1>8. NumbersIInv'
  BY <1>6, <1>7 DEF Slice, NumbersIInv
<1>9. SlicesIInv'
  BY <1>6, <1>7 DEF Slice, SlicesIInv
<1>10. SleepIInv'
  BY DEF Slice, SleepIInv
<1>11. FreshIInv'
  <2>1. fresh = {}
    <3>1. SUFFICES ASSUME fresh # {} PROVE FALSE
      OBVIOUS
    <3>2. PICK p \in AudioIns, i \in 1..Len(events) : events[i] = Event(0, "PinStreamingStart", p)
      BY <3>1 DEF Slice, FreshIInv
    <3>3. events # <<>> /\ blockPos = 0
      BY <1>1, <3>1, <3>2 DEF Slice, FreshIInv
    <3>4. events[1].timeDelta <= events[i].timeDelta
      BY <1>1, <1>2, <3>2, <3>3 DEF QueueIInv, Sorted
    <3>5. QED
      BY <1>2, <3>2, <3>3, <3>4 DEF Event
  <2>2. QED
    BY <2>1 DEF Slice, FreshIInv
<1>12. QED
  BY <1>3, <1>8, <1>9, <1>10, <1>11

Filled(s, n, c, t) == t = [s EXCEPT !.sleepCount = c, !.clean = Min2(BlockSize, s.clean + n)]

\* Frames that are filled count for the buffers, as many as come off the
\* countdown at most.
LEMMA FilledIsGood ==
  ASSUME NEW s \in Good, NEW n \in 0..BlockSize, NEW c \in 0..BlockSize, c + n >= s.sleepCount,
         NEW t, Filled(s, n, c, t)
  PROVE  t \in Good
<1>1. s \in Members /\ s.clean \in 0..BlockSize /\ s.sleepCount \in 0..BlockSize /\ BlockSize \in Nat
  BY PinsAre DEF Good, Members
<1>2. PICK d \in 0..BlockSize : /\ d = Min2(BlockSize, s.clean + n)
                                /\ s.clean + s.sleepCount >= BlockSize => d + c >= BlockSize
  BY <1>1 DEF Min2
<1>3. t = [s EXCEPT !.sleepCount = c, !.clean = d]
  BY <1>2 DEF Filled
<1>4. t \in Members /\ t.clean = d /\ t.sleepCount = c
  BY <1>1, <1>3 DEF Members
<1>5. Watched(t)
  BY <1>1, <1>3 DEF Good, Members, Watched
<1>6. ClearsBuffers(t)
  <2>1. t.canSleepManualOverride = s.canSleepManualOverride /\ t.isStreaming = s.isStreaming
    BY <1>1, <1>3 DEF Members
  <2>2. QED
    BY <1>2, <1>4, <2>1 DEF Good, ClearsBuffers
<1>7. QED
  BY <1>4, <1>5, <1>6 DEF Good

\* A sub-process.
LEMMA SubProcessKeeps ==
  ASSUME IInv, SubProcess
  PROVE  IInv'
<1> USE DEF IInv
<1>1. QueueIInv'
  BY QueueStays DEF SubProcess
<1>2. m' \in Good
  <2>1. PICK t : Filled(m, left, m.sleepCount, t)
    BY DEF Filled
  <2>2. left \in 0..BlockSize /\ m.sleepCount \in 0..BlockSize /\ left + m.sleepCount >= m.sleepCount
    BY DEF NumbersIInv, Good, Members
  <2>3. t \in Good
    BY <2>1, <2>2, FilledIsGood
  <2>4. t = [m EXCEPT !.clean = Min2(BlockSize, m.clean + left)]
    BY <2>1 DEF Filled, Good, Members
  <2>5. m' \in afterPlugin(t)
    BY <2>4 DEF SubProcess, Fill
  <2>6. QED
    BY <2>3, <2>5, PluginIsGood
<1>3. processed' = processed + left /\ left' = 0
  BY DEF SubProcess, Fill
<1>4. processed + left + remain = count /\ processed + left \in 0..BlockSize /\ 0 \in 0..BlockSize
  BY PinsAre DEF SubProcess, SlicesIInv, NumbersIInv
<1>5. NumbersIInv'
  BY <1>3, <1>4 DEF SubProcess, blockVars, NumbersIInv
<1>6. SlicesIInv'
  BY <1>3, <1>4 DEF SubProcess, blockVars, SlicesIInv, NumbersIInv
<1>7. SleepIInv' /\ FreshIInv'
  BY DEF SubProcess, blockVars, SleepIInv, FreshIInv
<1>8. QED
  BY <1>1, <1>2, <1>5, <1>6, <1>7

\* The rest of the slice is filled by the plugin's own sub-process.
LEMMA StayAwakeKeeps ==
  ASSUME IInv, StayAwake
  PROVE  IInv'
<1> USE DEF IInv
<1>1. QueueIInv'
  BY QueueStays DEF StayAwake
<1>2. PICK awake : awake = [m EXCEPT !.curSubProcess = m.saveSubProcess]
  OBVIOUS
<1>3. awake \in Good /\ awake.sleepCount = m.sleepCount /\ awake.clean = m.clean
      /\ m.sleepCount \in 0..BlockSize
  <2>1. m.streamingPinCount = 0 => m.canSleepManualOverride = "SLEEP_DISABLE"
    BY DEF StayAwake, canSleep, Good, Members
  <2>2. awake \in Members
    BY <1>2 DEF Good, Members
  <2>3. QED
    BY <1>2, <2>1, <2>2 DEF Good, Members, Watched, ClearsBuffers
<1>4. left \in Nat /\ left \in 0..BlockSize
  BY PinsAre DEF NumbersIInv
<1>5. m' \in Good
  <2>1. CASE left > 0
    <3>1. PICK t : Filled(awake, left, awake.sleepCount, t)
      BY DEF Filled
    <3>2. left + awake.sleepCount >= awake.sleepCount
      BY <1>3, <1>4
    <3>3. t \in Good
      BY <1>3, <1>4, <3>1, <3>2, FilledIsGood
    <3>4. t = [awake EXCEPT !.clean = Min2(BlockSize, awake.clean + left)]
      BY <1>3, <3>1 DEF Filled, Good, Members
    <3>5. m' \in afterPlugin(t)
      BY <1>2, <2>1, <3>4 DEF StayAwake, Fill
    <3>6. QED
      BY <3>3, <3>5, PluginIsGood
  <2>2. CASE ~(left > 0)
    BY <1>2, <1>3, <2>2 DEF StayAwake
  <2>3. QED
    BY <2>1, <2>2
<1>6. processed' = processed + left /\ left' = 0
  BY <1>4 DEF StayAwake, Fill, NumbersIInv
<1>7. processed + left + remain = count /\ processed + left \in 0..BlockSize /\ 0 \in 0..BlockSize
  BY PinsAre DEF StayAwake, SlicesIInv, NumbersIInv
<1>8. NumbersIInv'
  BY <1>6, <1>7 DEF StayAwake, NumbersIInv
<1>9. SlicesIInv'
  BY <1>6, <1>7 DEF StayAwake, SlicesIInv, NumbersIInv
<1>10. SleepIInv' /\ FreshIInv'
  BY DEF StayAwake, SleepIInv, FreshIInv
<1>11. QED
  BY <1>1, <1>5, <1>8, <1>9, <1>10

\* The plugin falls asleep.
LEMMA FallAsleepKeeps ==
  ASSUME IInv, FallAsleep
  PROVE  IInv'
<1> USE DEF IInv
<1>1. QueueIInv' /\ (m \in Good)'
  BY QueueStays DEF FallAsleep
<1>2. NumbersIInv'
  BY DEF FallAsleep, NumbersIInv
<1>3. SlicesIInv'
  BY DEF FallAsleep, SlicesIInv
<1>4. SleepIInv' /\ FreshIInv'
  BY DEF FallAsleep, maySleep, SleepIInv, FreshIInv
<1>5. QED
  BY <1>1, <1>2, <1>3, <1>4

\* What the countdown is when frames are to be processed.
LEMMA CountdownIs ==
  ASSUME m \in Good, NumbersIInv
  PROVE  countdown \in 0..BlockSize /\ countdown >= m.sleepCount /\ m.sleepCount \in 0..BlockSize
<1>1. m.sleepCount \in 0..BlockSize /\ left \in 0..BlockSize
  BY DEF Good, Members, NumbersIInv
<1>2. QED
  BY <1>1, PinsAre DEF countdown

\* Nothing is left of the slice.
LEMMA ReturnAwakeKeeps ==
  ASSUME IInv, ReturnAwake
  PROVE  IInv'
<1> USE DEF IInv
<1>1. QueueIInv'
  BY QueueStays DEF ReturnAwake
<1>2. m' \in Good
  <2>1. m.sleepCount \in 0..BlockSize /\ left = 0
    BY DEF Good, Members, ReturnAwake
  <2>2. countdown = m.sleepCount
    BY <2>1, PinsAre DEF countdown
  <2>3. m' = m
    BY <2>2 DEF ReturnAwake, Good, Members
  <2>4. QED
    BY <2>3
<1>3. NumbersIInv'
  BY DEF ReturnAwake, NumbersIInv
<1>4. SlicesIInv'
  BY DEF ReturnAwake, SlicesIInv
<1>5. SleepIInv' /\ FreshIInv'
  BY DEF ReturnAwake, SleepIInv, FreshIInv
<1>6. QED
  BY <1>1, <1>2, <1>3, <1>4, <1>5

\* Some frames of the slice are processed while the countdown runs.
LEMMA CountDownKeeps ==
  ASSUME IInv, CountDown
  PROVE  IInv'
<1> USE DEF IInv
<1>1. QueueIInv'
  BY QueueStays DEF CountDown
<1>2. PICK c \in 0..BlockSize : c = countdown /\ c >= m.sleepCount
  BY CountdownIs
<1>3. left \in 0..BlockSize /\ BlockSize \in Nat /\ m.sleepCount \in 0..BlockSize
  BY CountdownIs, PinsAre DEF NumbersIInv
<1>4. PICK n \in 0..BlockSize : n = Min2(left, c) /\ n <= left /\ n <= c
  BY <1>2, <1>3 DEF Min2
<1>5. m' \in Good
  <2>1. PICK t : Filled(m, n, c - n, t)
    BY DEF Filled
  <2>2. c - n \in 0..BlockSize /\ (c - n) + n >= m.sleepCount
    BY <1>2, <1>3, <1>4
  <2>3. t \in Good
    BY <2>1, <2>2, FilledIsGood
  <2>4. t = [[m EXCEPT !.sleepCount = c - n] EXCEPT !.clean = Min2(BlockSize, @ + n)]
    BY <2>1 DEF Filled, Good, Members
  <2>5. m' \in afterPlugin(t)
    BY <1>2, <1>4, <2>4 DEF CountDown, Fill
  <2>6. QED
    BY <2>3, <2>5, PluginIsGood
<1>6. processed' = processed + n /\ left' = left - n /\ blockPos' = blockPos + n
  BY <1>2, <1>4 DEF CountDown, Fill
<1>7. /\ processed + left + remain = count /\ blockPos = processed
      /\ processed \in 0..BlockSize /\ remain \in 0..BlockSize /\ count \in 0..BlockSize
  BY DEF CountDown, SlicesIInv, NumbersIInv
<1>8. /\ processed + n \in 0..BlockSize /\ left - n \in 0..BlockSize
      /\ (processed + n) + (left - n) = processed + left
      /\ (processed + n) + (left - n) + remain = count
  BY <1>3, <1>4, <1>7
<1>9. NumbersIInv'
  BY <1>6, <1>7, <1>8 DEF CountDown, NumbersIInv
<1>10. SlicesIInv'
  BY <1>6, <1>7, <1>8 DEF CountDown, SlicesIInv
<1>11. SleepIInv' /\ FreshIInv'
  BY DEF CountDown, SleepIInv, FreshIInv
<1>12. QED
  BY <1>1, <1>5, <1>9, <1>10, <1>11

\* The block is over, or the position moves on to the next event.
LEMMA SlicedKeeps ==
  ASSUME IInv, Sliced
  PROVE  IInv'
<1> USE DEF IInv
<1>1. QueueIInv' /\ (m \in Good)'
  BY QueueStays DEF Sliced
<1>2. events \in Seq(HostEvents) /\ Len(events) \in Nat /\ (events = <<>> <=> Len(events) = 0)
  BY DEF QueueIInv
<1>3. \A i \in 1..Len(events) : events[i].timeDelta \in 0..BlockSize-1
  BY <1>2, HostEventsAre
<1>4. /\ processed + left + remain = count /\ blockPos = sliceStart /\ (asleep \/ left = 0)
      /\ processed \in Nat /\ left \in Nat /\ count \in 0..BlockSize /\ sliceStart \in Nat
      /\ \A i \in 1..Len(events) : events[i].timeDelta < count
  BY PinsAre DEF Sliced, NumbersIInv, SlicesIInv
<1>5. fresh # {} => FALSE
  BY DEF Sliced, FreshIInv
<1>6. SleepIInv' /\ FreshIInv'
  BY <1>5 DEF Sliced, SleepIInv, FreshIInv
<1>7. 0 \in 0..BlockSize
  BY PinsAre
<1>8. CASE events = <<>>
  <2>1. pc' = "idle" /\ blockPos' = blockPos /\ eventsComplete' = eventsComplete /\ left' = 0
        /\ remain = 0
    BY <1>8 DEF Sliced, SlicesIInv
  <2>2. processed = count \/ asleep
    BY <1>4, <2>1
  <2>3. NumbersIInv'
    BY <1>7, <2>1 DEF Sliced, NumbersIInv
  <2>4. SlicesIInv'
    BY <2>1, <2>2 DEF Sliced, SlicesIInv
  <2>5. QED
    BY <1>1, <1>6, <2>3, <2>4
<1>9. CASE events # <<>>
  <2>1. pc' = "loop" /\ blockPos' = blockPos + (events[1].timeDelta - sliceStart)
        /\ eventsComplete' = TRUE /\ left' = 0
    BY <1>2, <1>9 DEF Sliced
  <2>2. PICK t \in 0..BlockSize-1 : t = events[1].timeDelta
    BY <1>2, <1>3, <1>9
  <2>3. left = 0 /\ processed + left = t
    BY <1>4, <1>9, <2>2 DEF Sliced, SleepIInv, SlicesIInv
  <2>4. blockPos' = t /\ processed = t /\ t \in 0..BlockSize
    BY <1>4, <2>1, <2>2, <2>3, PinsAre
  <2>5. \A i \in 1..Len(events) : events[i].timeDelta >= t
    <3>1. ASSUME NEW i \in 1..Len(events) PROVE events[i].timeDelta >= t
      <4>1. CASE i = 1
        BY <2>2, <4>1
      <4>2. CASE i # 1
        <5>1. 1 \in 1..Len(events) /\ 1 < i
          BY <1>2, <4>2
        <5>2. events[1].timeDelta <= events[i].timeDelta
          BY <5>1 DEF QueueIInv, Sorted
        <5>3. QED
          BY <1>3, <2>2, <5>2
      <4>3. QED
        BY <4>1, <4>2
    <3>2. QED
      BY <3>1
  <2>6. NumbersIInv'
    BY <1>7, <2>1, <2>4 DEF Sliced, NumbersIInv
  <2>7. processed + 0 + remain = count
    BY <1>4, <2>3
  <2>8. SlicesIInv'
    BY <1>4, <2>1, <2>4, <2>5, <2>7 DEF Sliced, SlicesIInv
  <2>9. QED
    BY <1>1, <1>6, <2>6, <2>8
<1>10. QED
  BY <1>8, <1>9

\* The events that are due are preprocessed; before the first block those are
\* the starts of all the audio inputs, among others.
LEMMA PreProcessKeeps ==
  ASSUME IInv, PreProcess
  PROVE  IInv'
<1> USE DEF IInv
<1>1. QueueIInv'
  BY QueueStays DEF PreProcess
<1>2. /\ events \in Seq(HostEvents) /\ Len(events) \in Nat /\ events # <<>> /\ 1 \in 1..Len(events)
      /\ Head(events) = events[1] /\ blockPos \in Nat /\ events[1].timeDelta \in Nat
  BY HostEventsAre, PinsAre DEF PreProcess, QueueIInv, NumbersIInv
<1>3. (\A i \in 1..Len(events) : events[i].timeDelta >= blockPos) /\ events[1].timeDelta = blockPos
  BY <1>2 DEF PreProcess, SlicesIInv
<1>4. PICK n \in 1..Len(events) :
        /\ batch = SubSeq(events, 1, n)
        /\ \A i \in 1..Len(events) : events[i].timeDelta = blockPos <=> i <= n
  BY <1>2, <1>3, BatchIs
<1>5. PICK due : due = batch
  OBVIOUS
<1>6. /\ due \in Seq(HostEvents) /\ Len(due) = n /\ Len(due) \in Nat
      /\ \A i \in 1..n : due[i] = events[i]
  BY <1>2, <1>4, <1>5
<1>7. m' \in Good
  <2>1. FoldLeft(preProcessEvent, m, batch) \in Good
    BY <1>5, <1>6, PreProcessIsGood
  <2>2. QED
    BY <2>1 DEF PreProcess
<1>8. NumbersIInv'
  BY DEF PreProcess, blockVars, NumbersIInv
<1>9. SlicesIInv'
  BY DEF PreProcess, blockVars, SlicesIInv
<1>10. SleepIInv'
  BY DEF PreProcess, blockVars, SleepIInv
<1>11. BatchPins' = BatchPins
  BY DEF PreProcess, blockVars, BatchPins, batch
<1>12. fresh \subseteq BatchPins
  <2>1. SUFFICES ASSUME NEW p \in fresh PROVE p \in BatchPins
    OBVIOUS
  <2>2. p \in AudioIns /\ blockPos = 0
    BY DEF PreProcess, FreshIInv
  <2>3. PICK i \in 1..Len(events) : events[i] = Event(0, "PinStreamingStart", p)
    BY DEF PreProcess, FreshIInv
  <2>4. i \in 1..n
    BY <1>2, <1>4, <2>2, <2>3 DEF Event
  <2>5. setsPin(due[i]) /\ due[i].pinIdx = p /\ i \in 1..Len(due)
    BY <1>6, <2>3, <2>4 DEF setsPin, isStreamingEvent, Event
  <2>6. QED
    BY <1>5, <2>5 DEF BatchPins
<1>13. FreshIInv'
  <2>1. fresh' = BatchPins /\ pc' = "handlers" /\ events' = events /\ blockPos' = blockPos
    BY <1>12 DEF PreProcess, blockVars
  <2>2. QED
    BY <1>2, <1>3, <1>11, <2>1 DEF FreshIInv
<1>14. QED
  BY <1>1, <1>7, <1>8, <1>9, <1>10, <1>13

\* A handler is called.
LEMMA ProcessEventKeeps ==
  ASSUME IInv, ProcessEvent
  PROVE  IInv'
<1> USE DEF IInv
<1>1. QueueIInv'
  BY QueueStays DEF ProcessEvent
<1>2. m' \in Good
  BY OnGraphStartIsGood, PluginIsGood DEF ProcessEvent
<1>3. handled' \in Nat
  BY DEF ProcessEvent, NumbersIInv
<1>4. NumbersIInv'
  BY <1>3 DEF ProcessEvent, blockVars, NumbersIInv
<1>5. SlicesIInv' /\ SleepIInv'
  BY DEF ProcessEvent, blockVars, SlicesIInv, SleepIInv
<1>6. BatchPins' = BatchPins
  BY DEF ProcessEvent, blockVars, BatchPins, batch
<1>7. FreshIInv'
  BY <1>6 DEF ProcessEvent, blockVars, FreshIInv
<1>8. QED
  BY <1>1, <1>2, <1>4, <1>5, <1>7

\* The events of this time are gone, and no pin is fresh any more.
LEMMA PostProcessKeeps ==
  ASSUME IInv, PostProcess
  PROVE  IInv'
<1> USE DEF IInv
<1>1. /\ events \in Seq(HostEvents) /\ Len(events) \in Nat /\ events # <<>>
      /\ blockPos \in Nat /\ events[1].timeDelta = blockPos /\ fresh = BatchPins
  BY PinsAre DEF PostProcess, QueueIInv, NumbersIInv, FreshIInv
<1>2. PICK n \in 1..Len(events) : batch = SubSeq(events, 1, n)
  BY <1>1, BatchIs DEF PostProcess, SlicesIInv
<1>3. Len(batch) = n /\ n \in Nat
  BY <1>1, <1>2
<1>4. PICK rest : rest = SubSeq(events, n + 1, Len(events))
  OBVIOUS
<1>5. events' = rest
  BY <1>3, <1>4 DEF PostProcess
<1>6. /\ rest \in Seq(HostEvents) /\ Len(rest) = Len(events) - n
      /\ \A i \in 1..Len(rest) : i + n \in 1..Len(events) /\ rest[i] = events[i + n]
  <2>0. Len(events) \in Nat /\ n \in 1..Len(events)
    BY <1>1
  <2>1. n + 1 \in 1..Len(events) + 1 /\ Len(events) - n \in Nat
    BY <2>0
  <2>2. rest \in Seq(HostEvents) /\ Len(rest) = Len(events) - n
    BY <1>1, <1>4, <2>1
  <2>3. \A i \in 1..Len(rest) : rest[i] = events[i + n]
    BY <1>1, <1>4, <2>1, <2>2
  <2>4. QED
    BY <1>1, <1>3, <2>1, <2>2, <2>3
<1>7. QueueIInv'
  <2>1. Sorted(rest)
    <3>1. ASSUME NEW i \in 1..Len(rest), NEW j \in 1..Len(rest), i < j
          PROVE  rest[i].timeDelta <= rest[j].timeDelta
      <4>1. i + n \in 1..Len(events) /\ j + n \in 1..Len(events) /\ i + n < j + n
        BY <1>3, <1>6, <3>1
      <4>2. events[i + n].timeDelta <= events[j + n].timeDelta
        BY <4>1 DEF QueueIInv, Sorted
      <4>3. QED
        BY <1>6, <4>2
    <3>2. QED
      BY <3>1 DEF Sorted
  <2>2. ASSUME NEW i \in 1..Len(rest), NEW j \in 1..Len(rest), SameValue(rest[j], rest[i])
        PROVE  i = j
    <3>1. i + n \in 1..Len(events) /\ j + n \in 1..Len(events)
          /\ SameValue(events[j + n], events[i + n])
      BY <1>6, <2>2
    <3>2. \A a, b \in 1..Len(events) : SameValue(events[b], events[a]) => a = b
      BY OneValueByPlace DEF QueueIInv
    <3>3. i + n = j + n
      BY <3>1, <3>2
    <3>4. QED
      BY <1>3, <3>3
  <2>3. OneValueAtATime(rest)
    BY <2>2, OneValueByPlace
  <2>4. QED
    BY <1>5, <1>6, <2>1, <2>3 DEF QueueIInv, Sorted, OneValueAtATime, supersededBy
<1>8. m' \in Good
  BY PluginIsGood DEF PostProcess
<1>9. NumbersIInv'
  BY DEF PostProcess, blockVars, NumbersIInv
<1>10. SlicesIInv'
  <2>1. ASSUME NEW i \in 1..Len(rest)
        PROVE  rest[i].timeDelta < count /\ rest[i].timeDelta >= blockPos
    BY <1>6 DEF PostProcess, SlicesIInv
  <2>2. QED
    BY <1>5, <2>1 DEF PostProcess, blockVars, SlicesIInv
<1>11. SleepIInv'
  BY DEF PostProcess, blockVars, SleepIInv
<1>12. FreshIInv'
  BY <1>1 DEF PostProcess, FreshIInv
<1>13. QED
  BY <1>7, <1>8, <1>9, <1>10, <1>11, <1>12

\* Every step of the host and of process() keeps the invariant.
LEMMA StepKeeps == IInv /\ [Next]_vars => IInv'
<1> SUFFICES ASSUME IInv, [Next]_vars PROVE IInv'
  OBVIOUS
<1>1. ASSUME UNCHANGED vars PROVE IInv'
  <2>1. QueueIInv' /\ (m \in Good)'
    BY <1>1, QueueStays DEF IInv, vars
  <2>2. NumbersIInv' /\ SlicesIInv' /\ SleepIInv'
    BY <1>1 DEF IInv, vars, blockVars, NumbersIInv, SlicesIInv, SleepIInv
  <2>3. FreshIInv'
    <3>1. events' = events /\ blockPos' = blockPos /\ fresh' = fresh /\ pc' = pc
      BY <1>1 DEF vars, blockVars
    <3>2. BatchPins' = BatchPins
      BY <3>1 DEF BatchPins, batch
    <3>3. QED
      BY <3>1, <3>2 DEF IInv, FreshIInv
  <2>4. QED
    BY <2>1, <2>2, <2>3 DEF IInv
<1>2. ASSUME NEW e \in EventsAt(0..BlockSize-1), Push(e) PROVE IInv'
  BY <1>2, PushKeeps
<1>3. ASSUME NEW n \in 1..BlockSize, process(n) PROVE IInv'
  BY <1>3, ProcessKeeps
<1>4. QED
  BY <1>1, <1>2, <1>3, SliceKeeps, SubProcessKeeps, StayAwakeKeeps, FallAsleepKeeps,
     ReturnAwakeKeeps, CountDownKeeps, SlicedKeeps, PreProcessKeeps, ProcessEventKeeps,
     PostProcessKeeps
     DEF Next, ProcessSteps

-----------------------------------------------------------------------------
(* What follows from it *)

\* Every behaviour of host and plugin.
LEMMA InvariantHolds == Spec => []IInv
BY InitIsGood, StepKeeps, PTL DEF Spec

\* QueueIsSound: whatever is pushed, the list is in order and has one value for
\* a pin at one time (EventQue::push), and every variable has its type.
THEOREM QueueAlwaysSound == Spec => []QueueIsSound
<1>1. IInv => QueueIsSound
  <2> SUFFICES ASSUME IInv PROVE QueueIsSound
    OBVIOUS
  <2>1. events \in Seq([timeDelta : 0..BlockSize-1, eventType : EventTypes, pinIdx : Pins \cup {Nothing}])
    <3>1. HostEvents \subseteq [timeDelta : 0..BlockSize-1, eventType : EventTypes, pinIdx : Pins \cup {Nothing}]
      BY HostEventsAre
    <3> DEFINE T == [timeDelta : 0..BlockSize-1, eventType : EventTypes, pinIdx : Pins \cup {Nothing}]
    <3> HIDE DEF T
    <3>2. HostEvents \subseteq T
      BY <3>1 DEF T
    <3>3. events \in Seq(T)
      BY <3>2 DEF IInv, QueueIInv
    <3>4. QED
      BY <3>3 DEF T
  <2>2. m \in Members
    BY DEF IInv, Good
  <2>3. fresh \subseteq Pins
    <3>1. AudioIns \subseteq Pins
      BY DEF Pins, AudioPins
    <3>2. CASE pc = "handlers"
      <4>1. events # <<>> /\ events \in Seq(HostEvents) /\ blockPos \in Nat /\ fresh = BatchPins
        BY <3>2, PinsAre DEF IInv, QueueIInv, FreshIInv, NumbersIInv
      <4>2. PICK n \in 1..Len(events) : batch = SubSeq(events, 1, n)
        BY <3>2, <4>1, BatchIs DEF IInv, FreshIInv, SlicesIInv
      <4>3. PICK due : due = batch
        OBVIOUS
      <4>4. due \in Seq(HostEvents)
        BY <4>1, <4>2, <4>3
      <4>5. \A j \in 1..Len(due) : setsPin(due[j]) => due[j].pinIdx \in Pins
        BY <4>4, HostEventsAre
      <4>6. QED
        BY <4>1, <4>3, <4>5 DEF BatchPins
    <3>3. QED
      BY <3>1, <3>2 DEF IInv, FreshIInv
  <2>4. QED
    BY <2>1, <2>2, <2>3 DEF IInv, NumbersIInv, QueueIInv, QueueIsSound, TypeOK, Members
<1>2. QED
  BY <1>1, InvariantHolds, PTL

\* FramesInOrder: the slices of process() add up to the block, and an event
\* finds all the frames before it filled.
THEOREM FramesAlwaysInOrder == Spec => []FramesInOrder
<1>1. IInv => FramesInOrder
  <2> SUFFICES ASSUME IInv PROVE FramesInOrder
    OBVIOUS
  <2>1. pc = "handlers" => Head(events) = events[1]
    BY DEF IInv, QueueIInv, FreshIInv
  <2>2. QED
    BY <2>1 DEF IInv, SlicesIInv, FreshIInv, FramesInOrder
<1>2. QED
  BY <1>1, InvariantHolds, PTL

\* EventsAreAtomic: the events of one time are preprocessed together, before
\* the first of their handlers is called.
THEOREM EventsAlwaysAtomic == Spec => []EventsAreAtomic
<1>1. IInv => EventsAreAtomic
  <2> SUFFICES ASSUME IInv, pc = "handlers" PROVE EventsAreAtomic
    BY DEF EventsAreAtomic
  <2>1. events # <<>> /\ events \in Seq(HostEvents) /\ Len(events) \in Nat
        /\ blockPos \in Nat /\ fresh = BatchPins
    BY PinsAre DEF IInv, QueueIInv, FreshIInv, NumbersIInv
  <2>2. PICK n \in 1..Len(events) :
          /\ batch = SubSeq(events, 1, n)
          /\ \A i \in 1..Len(events) : events[i].timeDelta = blockPos <=> i <= n
    BY <2>1, BatchIs DEF IInv, FreshIInv, SlicesIInv
  <2>3. Len(batch) = n
    BY <2>1, <2>2
  <2>4. QED
    BY <2>1, <2>2, <2>3 DEF EventsAreAtomic
<1>2. QED
  BY <1>1, InvariantHolds, PTL

\* SilenceIsWatched: whatever the plugin calls and the host sends,
\* subProcessPreSleep is the sub-process of a plugin that is silent.
THEOREM SilenceAlwaysWatched == Spec => []SilenceIsWatched
<1>1. IInv => SilenceIsWatched
  BY DEF IInv, Good, Watched, SilenceIsWatched
<1>2. QED
  BY <1>1, InvariantHolds, PTL

\* SleepsOnClearBuffers: subProcessPreSleep puts the plugin to sleep after the
\* last event and, if it is left to the SDK, on clear output buffers.
THEOREM AlwaysSleepsOnClearBuffers == Spec => SleepsOnClearBuffers
<1> DEFINE Clear == /\ events = <<>>
                    /\ m.canSleepManualOverride = "SLEEP_AUTO" => m.isStreaming = {} /\ m.clean = BlockSize
<1>1. ASSUME IInv, Next, asleep', ~asleep PROVE Clear
  <2>1. FallAsleep
    BY <1>1 DEF Next, ProcessSteps, Push, process, Slice, SubProcess, StayAwake, ReturnAwake,
                CountDown, Sliced, PreProcess, ProcessEvent, PostProcess
  <2>2. events = <<>>
    BY <1>1, <2>1 DEF FallAsleep, maySleep, IInv, SleepIInv
  <2>3. ASSUME m.canSleepManualOverride = "SLEEP_AUTO" PROVE m.isStreaming = {} /\ m.clean = BlockSize
    <3>1. m \in Members /\ Watched(m) /\ ClearsBuffers(m)
      BY <1>1 DEF IInv, Good
    <3>2. m.streamingPinCount = 0 /\ m.sleepCount <= 0
      BY <2>1, <2>3 DEF FallAsleep, canSleep, maySleep
    <3>3. IsFiniteSet(m.isStreaming) /\ Cardinality(m.isStreaming) = 0
      BY <3>1, <3>2, PinsAre, FS_Subset DEF Members, Watched
    <3>4. m.isStreaming = {}
      BY <3>3, FS_EmptySet
    <3>5. m.sleepCount \in 0..BlockSize /\ m.clean \in 0..BlockSize
      BY <3>1 DEF Members
    <3>6. m.clean + m.sleepCount >= BlockSize
      BY <2>3, <3>1, <3>4 DEF ClearsBuffers
    <3>7. m.clean = BlockSize
      BY <3>2, <3>5, <3>6, PinsAre
    <3>8. QED
      BY <3>4, <3>7
  <2>4. QED
    BY <2>2, <2>3
<1>2. IInv /\ [Next]_vars => [asleep' /\ ~asleep => Clear]_vars
  BY <1>1 DEF Clear
<1>3. QED
  BY <1>2, InvariantHolds, PTL DEF Spec, SleepsOnClearBuffers

=============================================================================
