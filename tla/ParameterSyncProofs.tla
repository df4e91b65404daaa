------------------------- MODULE ParameterSyncProofs -------------------------
(***************************************************************************)
(* Proofs about ParameterSync, for any parameters of any kind, editors,    *)
(* values and queue lengths: the stores, the pins of the processor and the *)
(* pins of the editors stay alike.                                         *)
(***************************************************************************)
EXTENDS ParameterSync, SequenceLemmas

LEMMA ConstantTypes ==
  /\ DawParameters \subseteq Parameters /\ Blobs \subseteq Parameters
  /\ Inputs \subseteq Parameters /\ Outputs \subseteq Parameters
  /\ Edited \subseteq Parameters /\ SetByController \subseteq Parameters
  /\ Automated \subseteq DawParameters
  /\ Blobs \cap DawParameters = {} /\ Blobs \cap Edited = {}
  /\ Default \in Values /\ NoValue \notin Values
  BY ParameterSyncAssumption

-----------------------------------------------------------------------------
(* The last value for a parameter on a queue *)

IsLast(queue, p, i) ==
  /\ i \in 1..Len(queue)
  /\ queue[i][1] = p
  /\ \A j \in i+1..Len(queue) : queue[j][1] # p

\* What is under way has a last message.
LEMMA LastExists ==
  ASSUME NEW queue \in Seq(Change), NEW p, UnderWay(queue, p)
  PROVE  \E i \in 1..Len(queue) : IsLast(queue, p, i)
<1> DEFINE S == { i \in 1..Len(queue) : queue[i][1] = p }
<1>1. S \in SUBSET (0..Len(queue)) /\ S # {} /\ Len(queue) \in Nat
  BY DEF UnderWay
<1>2. PICK m \in S : \A k \in S : k <= m
  <2> HIDE DEF S
  <2> QED
    BY <1>1, GreatestNumber
<1>3. \A j \in m+1..Len(queue) : queue[j][1] # p
  BY <1>2
<1>4. QED
  BY <1>2, <1>3 DEF IsLast

\* lastOf is its value.
LEMMA LastOfIs ==
  ASSUME NEW queue \in Seq(Change), NEW p, NEW i, IsLast(queue, p, i), NEW otherwise
  PROVE  lastOf(queue, p, otherwise) = queue[i][2]
<1> DEFINE last == CHOOSE k \in 1..Len(queue) :
                     /\ queue[k][1] = p
                     /\ \A j \in k+1..Len(queue) : queue[j][1] # p
<1>1. UnderWay(queue, p)
  BY DEF IsLast, UnderWay
<1>2. \E k \in 1..Len(queue) : /\ queue[k][1] = p
                               /\ \A j \in k+1..Len(queue) : queue[j][1] # p
  BY DEF IsLast
<1>3. last \in 1..Len(queue) /\ queue[last][1] = p /\ \A j \in last+1..Len(queue) : queue[j][1] # p
  BY <1>2
<1>4. lastOf(queue, p, otherwise) = queue[last][2]
  BY <1>1 DEF lastOf
<1> HIDE DEF last
<1>5. last = i
  BY <1>3 DEF IsLast
<1>6. QED
  BY <1>4, <1>5

\* lastOf is what is there if no message is under way.
LEMMA LastOfNone ==
  ASSUME NEW queue, NEW p, ~UnderWay(queue, p), NEW otherwise
  PROVE  lastOf(queue, p, otherwise) = otherwise
  BY DEF lastOf

\* A message joins the queue.
LEMMA LastOfAppend ==
  ASSUME NEW queue \in Seq(Change), NEW r \in Parameters, NEW v \in Values,
         NEW p, NEW otherwise
  PROVE  /\ UnderWay(Append(queue, <<r, v>>), p) <=> r = p \/ UnderWay(queue, p)
         /\ lastOf(Append(queue, <<r, v>>), p, otherwise) =
              IF r = p THEN v ELSE lastOf(queue, p, otherwise)
<1> DEFINE longer == Append(queue, <<r, v>>)
<1>1. /\ longer \in Seq(Change) /\ Len(longer) = Len(queue) + 1 /\ Len(queue) \in Nat
      /\ \A i \in 1..Len(queue) : longer[i] = queue[i]
      /\ longer[Len(queue) + 1] = <<r, v>>
  BY DEF Change
<1> HIDE DEF longer
<1>2. UnderWay(longer, p) <=> r = p \/ UnderWay(queue, p)
  BY <1>1 DEF UnderWay
<1>3. CASE r = p
  <2>1. IsLast(longer, p, Len(queue) + 1)
    BY <1>1, <1>3 DEF IsLast
  <2>2. lastOf(longer, p, otherwise) = v
    BY <1>1, <2>1, LastOfIs
  <2>3. QED
    BY <1>2, <1>3, <2>2 DEF longer
<1>4. CASE r # p /\ UnderWay(queue, p)
  <2>1. PICK i \in 1..Len(queue) : IsLast(queue, p, i)
    BY <1>4, LastExists
  <2>2. IsLast(longer, p, i)
    BY <1>1, <1>4, <2>1 DEF IsLast
  <2>3. lastOf(longer, p, otherwise) = queue[i][2] /\ lastOf(queue, p, otherwise) = queue[i][2]
    BY <1>1, <2>1, <2>2, LastOfIs
  <2>4. QED
    BY <1>2, <1>4, <2>3 DEF longer
<1>5. CASE r # p /\ ~UnderWay(queue, p)
  <2>1. lastOf(longer, p, otherwise) = otherwise /\ lastOf(queue, p, otherwise) = otherwise
    BY <1>2, <1>5, LastOfNone
  <2>2. QED
    BY <1>2, <1>5, <2>1 DEF longer
<1>6. QED
  BY <1>3, <1>4, <1>5

\* The first message is taken, and what was there is replaced by its value.
LEMMA LastOfTail ==
  ASSUME NEW queue \in Seq(Change), queue # <<>>, NEW p, NEW otherwise
  PROVE  /\ Head(queue) \in Change
         /\ Tail(queue) \in Seq(Change)
         /\ UnderWay(queue, p) <=> Head(queue)[1] = p \/ UnderWay(Tail(queue), p)
         /\ lastOf(queue, p, otherwise) =
              lastOf(Tail(queue), p, IF Head(queue)[1] = p THEN Head(queue)[2] ELSE otherwise)
<1> DEFINE shorter == Tail(queue)
           there == IF Head(queue)[1] = p THEN Head(queue)[2] ELSE otherwise
<1>1. /\ shorter \in Seq(Change) /\ Len(queue) = Len(shorter) + 1 /\ Len(shorter) \in Nat
      /\ \A i \in 1..Len(shorter) : shorter[i] = queue[i + 1]
      /\ Head(queue) = queue[1] /\ Head(queue) \in Change
  OBVIOUS
<1> HIDE DEF shorter
<1>2. ASSUME NEW i \in 1..Len(queue)
      PROVE  i = 1 \/ (i - 1 \in 1..Len(shorter) /\ shorter[i - 1] = queue[i])
  BY <1>1
<1>3. UnderWay(queue, p) <=> Head(queue)[1] = p \/ UnderWay(shorter, p)
  <2>1. UnderWay(queue, p) => Head(queue)[1] = p \/ UnderWay(shorter, p)
    BY <1>1, <1>2 DEF UnderWay
  <2>2. Head(queue)[1] = p => UnderWay(queue, p)
    BY <1>1 DEF UnderWay
  <2>3. UnderWay(shorter, p) => UnderWay(queue, p)
    <3>1. \A i \in 1..Len(shorter) : i + 1 \in 1..Len(queue) /\ queue[i + 1] = shorter[i]
      BY <1>1
    <3>2. QED
      BY <3>1 DEF UnderWay
  <2>4. QED
    BY <2>1, <2>2, <2>3
<1>4. CASE UnderWay(shorter, p)
  <2>1. PICK i \in 1..Len(shorter) : IsLast(shorter, p, i)
    BY <1>1, <1>4, LastExists
  <2>2. IsLast(queue, p, i + 1)
    <3>1. i \in 1..Len(shorter) /\ shorter[i][1] = p /\ \A j \in i+1..Len(shorter) : shorter[j][1] # p
      BY <2>1 DEF IsLast
    <3>2. i + 1 \in 1..Len(queue) /\ queue[i + 1][1] = p
      BY <1>1, <3>1
    <3>3. ASSUME NEW j \in i+1+1..Len(queue) PROVE queue[j][1] # p
      <4>1. j - 1 \in i+1..Len(shorter) /\ queue[j] = shorter[j - 1]
        BY <1>1, <3>1
      <4>2. QED
        BY <3>1, <4>1
    <3>4. QED
      BY <3>2, <3>3 DEF IsLast
  <2>3. lastOf(queue, p, otherwise) = queue[i + 1][2] /\ lastOf(shorter, p, there) = shorter[i][2]
    BY <1>1, <2>1, <2>2, LastOfIs
  <2>4. QED
    BY <1>1, <1>3, <2>3 DEF shorter
<1>5. CASE ~UnderWay(shorter, p) /\ Head(queue)[1] = p
  <2>1. IsLast(queue, p, 1)
    BY <1>1, <1>2, <1>5 DEF IsLast, UnderWay
  <2>2. lastOf(queue, p, otherwise) = queue[1][2] /\ lastOf(shorter, p, there) = there
    BY <1>5, <2>1, LastOfIs, LastOfNone
  <2>3. QED
    BY <1>1, <1>3, <1>5, <2>2 DEF shorter
<1>6. CASE ~UnderWay(shorter, p) /\ Head(queue)[1] # p
  <2>1. lastOf(queue, p, otherwise) = otherwise /\ lastOf(shorter, p, there) = otherwise
    BY <1>3, <1>6, LastOfNone
  <2>2. QED
    BY <1>1, <1>3, <2>1 DEF shorter
<1>7. QED
  BY <1>4, <1>5, <1>6

-----------------------------------------------------------------------------
(* The line of parameters that wait *)

InLineOrDirty == Line!InLine \cup dirty

\* A parameter that is added is dirty, and only it is new.
LEMMA LineAdds ==
  ASSUME Line!TypeOK, NEW p \in Parameters, Line!Add(p)
  PROVE  /\ Line!TypeOK'
         /\ dirty' = dirty \cup {p}
         /\ InLineOrDirty' = InLineOrDirty \cup {p}
<1>1. waiting \in Seq(Parameters) /\ Len(waiting) \in Nat /\ serviced \in 0..Len(waiting)
      /\ dirty \subseteq Parameters
  BY DEF Line!TypeOK
<1>2. dirty' = dirty \cup {p} /\ serviced' = serviced
  BY DEF Line!Add
<1>3. CASE p \in Line!InLine
  <2>1. waiting' = waiting
    BY <1>3 DEF Line!Add
  <2>2. QED
    BY <1>1, <1>2, <2>1 DEF Line!TypeOK, Line!InLine, InLineOrDirty
<1>4. CASE p \notin Line!InLine
  <2>1. waiting' = Append(waiting, p)
    BY <1>4 DEF Line!Add
  <2>2. /\ waiting' \in Seq(Parameters) /\ Len(waiting') = Len(waiting) + 1
        /\ \A i \in 1..Len(waiting) : waiting'[i] = waiting[i]
        /\ waiting'[Len(waiting) + 1] = p
    BY <1>1, <2>1
  <2>3. Line!TypeOK'
    BY <1>1, <1>2, <2>2 DEF Line!TypeOK
  <2>4. Line!InLine' = Line!InLine \cup {p}
    BY <1>1, <2>2 DEF Line!InLine
  <2>5. QED
    BY <1>2, <2>3, <2>4 DEF InLineOrDirty
<1>5. QED
  BY <1>3, <1>4

\* The parameter that is serviced was in line, and is not dirty any more.
LEMMA LineServices ==
  ASSUME Line!TypeOK, Line!Service
  PROVE  /\ Line!TypeOK'
         /\ waiting[serviced + 1] \in Parameters \cap InLineOrDirty
         /\ dirty' = dirty \ {waiting[serviced + 1]}
         /\ InLineOrDirty' \subseteq InLineOrDirty
<1>1. waiting \in Seq(Parameters) /\ Len(waiting) \in Nat /\ serviced \in 0..Len(waiting)
      /\ dirty \subseteq Parameters
  BY DEF Line!TypeOK
<1>2. /\ serviced + 1 \in 1..Len(waiting) /\ waiting' = waiting /\ serviced' = serviced + 1
      /\ dirty' = dirty \ {waiting[serviced + 1]}
  BY <1>1 DEF Line!Service
<1>3. waiting[serviced + 1] \in Parameters /\ waiting[serviced + 1] \in Line!InLine
  BY <1>1, <1>2 DEF Line!InLine
<1>4. Line!TypeOK' /\ InLineOrDirty' \subseteq InLineOrDirty
  BY <1>1, <1>2 DEF Line!TypeOK, Line!InLine, InLineOrDirty
<1>5. QED
  BY <1>2, <1>3, <1>4 DEF InLineOrDirty

\* At the end of a frame nobody becomes dirty or joins who was not in line.
LEMMA LineRemoves ==
  ASSUME Line!TypeOK, Line!Remove
  PROVE  /\ Line!TypeOK'
         /\ dirty' = dirty
         /\ InLineOrDirty' \subseteq InLineOrDirty
<1>1. waiting \in Seq(Parameters) /\ Len(waiting) \in Nat /\ serviced \in 0..Len(waiting)
      /\ dirty \subseteq Parameters
  BY DEF Line!TypeOK
<1>2. serviced > 0 /\ serviced' = serviced - 1 /\ dirty' = dirty
  BY DEF Line!Remove
<1>3. /\ Tail(waiting) \in Seq(Parameters) /\ Len(Tail(waiting)) = Len(waiting) - 1
      /\ \A i \in 1..Len(waiting) - 1 : Tail(waiting)[i] = waiting[i + 1]
      /\ Head(waiting) = waiting[1] /\ Head(waiting) \in Parameters
  BY <1>1, <1>2
<1>4. CASE Head(waiting) \in dirty
  <2>1. waiting' = Append(Tail(waiting), Head(waiting))
    BY <1>4 DEF Line!Remove
  <2>2. /\ waiting' \in Seq(Parameters) /\ Len(waiting') = Len(waiting)
        /\ \A i \in 1..Len(waiting) : waiting'[i] \in Line!InLine
    <3>1. \A i \in 1..Len(waiting) - 1 : waiting'[i] = waiting[i + 1]
      BY <1>1, <1>3, <2>1
    <3>2. waiting'[Len(waiting)] = waiting[1] /\ waiting' \in Seq(Parameters) /\ Len(waiting') = Len(waiting)
      BY <1>1, <1>2, <1>3, <2>1
    <3>3. QED
      BY <1>1, <1>2, <3>1, <3>2 DEF Line!InLine
  <2>3. QED
    BY <1>1, <1>2, <2>2 DEF Line!TypeOK, Line!InLine, InLineOrDirty
<1>5. CASE Head(waiting) \notin dirty
  <2>1. waiting' = Tail(waiting)
    BY <1>5 DEF Line!Remove
  <2>2. \A i \in 1..Len(waiting') : waiting'[i] \in Line!InLine
    BY <1>1, <1>3, <2>1 DEF Line!InLine
  <2>3. QED
    BY <1>1, <1>2, <1>3, <2>1, <2>2 DEF Line!TypeOK, Line!InLine, InLineOrDirty
<1>6. QED
  BY <1>4, <1>5

-----------------------------------------------------------------------------
(* The types, and who travels on which queue *)

\* The parameters whose edits reach the processor without the DAW.
Dawless == (Edited \cup SetByController) \ DawParameters

\* The processor tells the controller of the parameters that it is told of by
\* the DAW or sets itself; of the controller's edits each takes one way only.
QueuesFlow ==
  /\ InLineOrDirty \subseteq DawParameters \cup Outputs
  /\ \A i \in 1..Len(toController) : toController[i][1] \in DawParameters \cup Outputs
  /\ \A i \in 1..Len(toProcessor) : toProcessor[i][1] \in Dawless
  /\ \A i \in 1..Len(toDaw) : toDaw[i][1] \in DawParameters

Typed == TypeOK /\ QueuesFlow

\* A queue of parameters of a kind stays one when a message comes or goes.
LEMMA QueueSteps ==
  ASSUME NEW queue \in Seq(Change), NEW kind, \A i \in 1..Len(queue) : queue[i][1] \in kind
  PROVE  /\ \A p \in Parameters \cap kind, v \in Values :
              LET longer == Append(queue, <<p, v>>)
              IN  longer \in Seq(Change) /\ \A i \in 1..Len(longer) : longer[i][1] \in kind
         /\ queue # <<>> =>
              /\ Head(queue) \in Change /\ Head(queue)[1] \in kind
              /\ Tail(queue) \in Seq(Change)
              /\ \A i \in 1..Len(Tail(queue)) : Tail(queue)[i][1] \in kind
<1>1. ASSUME NEW p \in Parameters \cap kind, NEW v \in Values
      PROVE  LET longer == Append(queue, <<p, v>>)
             IN  longer \in Seq(Change) /\ \A i \in 1..Len(longer) : longer[i][1] \in kind
  <2>1. <<p, v>> \in Change
    BY DEF Change
  <2> DEFINE longer == Append(queue, <<p, v>>)
  <2>2. /\ longer \in Seq(Change) /\ Len(longer) = Len(queue) + 1 /\ Len(queue) \in Nat
        /\ \A i \in 1..Len(queue) : longer[i] = queue[i]
        /\ longer[Len(queue) + 1] = <<p, v>>
    BY <2>1
  <2> HIDE DEF longer
  <2>3. longer \in Seq(Change) /\ \A i \in 1..Len(longer) : longer[i][1] \in kind
    BY <2>2
  <2>4. QED
    BY <2>3 DEF longer
<1>2. ASSUME queue # <<>>
      PROVE  /\ Head(queue) \in Change /\ Head(queue)[1] \in kind
             /\ Tail(queue) \in Seq(Change)
             /\ \A i \in 1..Len(Tail(queue)) : Tail(queue)[i][1] \in kind
  <2>1. /\ Tail(queue) \in Seq(Change) /\ Len(queue) = Len(Tail(queue)) + 1 /\ Len(Tail(queue)) \in Nat
        /\ \A i \in 1..Len(Tail(queue)) : Tail(queue)[i] = queue[i + 1]
        /\ Head(queue) = queue[1] /\ Head(queue) \in Change
    BY <1>2
  <2>2. QED
    BY <2>1
<1>3. QED
  BY <1>1, <1>2

\* The types of the variables, one by one.
Types ==
  /\ store \in [Parameters -> Values] /\ controller \in [Parameters -> Values]
  /\ Line!TypeOK
  /\ events \in [Inputs -> Values \cup {NoValue}]
  /\ dsp \in [Inputs -> Values]
  /\ m_editors \subseteq Editors
  /\ pins \in [Editors -> [Parameters -> Values]]
  /\ untold \subseteq Editors \X Parameters
  /\ toController \in Seq(Change) /\ toProcessor \in Seq(Change) /\ toDaw \in Seq(Change)

LEMMA TypeOKIsTypes == TypeOK <=> Types
  BY DEF TypeOK, Types

LEMMA InitTyped == Init => Typed
<1> SUFFICES ASSUME Init PROVE Typed
  OBVIOUS
<1> USE ConstantTypes DEF Init
<1>1. Line!TypeOK /\ InLineOrDirty = {}
  BY DEF Line!Init, Line!TypeOK, InLineOrDirty, Line!InLine
<1>2. store \in [Parameters -> Values] /\ events \in [Inputs -> Values \cup {NoValue}]
  BY DEF seeds
<1>3. Types
  BY <1>1, <1>2 DEF Types
<1>4. QueuesFlow
  BY <1>1 DEF QueuesFlow
<1>5. QED
  BY <1>3, <1>4, TypeOKIsTypes DEF Typed

\* Every step keeps the types, and messages to their queues.
LEMMA StepTyped == Typed /\ [Next]_vars => Typed'
<1> SUFFICES ASSUME Typed, [Next]_vars PROVE Typed'
  OBVIOUS
<1>1. Types /\ QueuesFlow
  BY TypeOKIsTypes DEF Typed
<1>2. Types' /\ QueuesFlow' => Typed'
  <2>1. TypeOK' <=> Types'
    BY DEF TypeOK, Types
  <2>2. QED
    BY <2>1 DEF Typed
<1> DEFINE OnQueue(queue, kind) == queue \in Seq(Change) /\ \A i \in 1..Len(queue) : queue[i][1] \in kind
<1>3. /\ OnQueue(toController, DawParameters \cup Outputs)
      /\ OnQueue(toProcessor, Dawless)
      /\ OnQueue(toDaw, DawParameters)
  BY <1>1 DEF Types, QueuesFlow
<1>4. /\ OnQueue(toController', DawParameters \cup Outputs)
      /\ OnQueue(toProcessor', Dawless)
      /\ OnQueue(toDaw', DawParameters)
      /\ InLineOrDirty' \subseteq DawParameters \cup Outputs
      => QueuesFlow'
  BY DEF QueuesFlow
<1>5. ASSUME NEW queue, NEW kind, OnQueue(queue, kind), NEW p \in Parameters \cap kind, NEW v \in Values
      PROVE  OnQueue(Append(queue, <<p, v>>), kind)
  BY <1>5, QueueSteps
<1>6. ASSUME NEW queue, NEW kind, OnQueue(queue, kind), queue # <<>>
      PROVE  /\ Head(queue)[1] \in Parameters \cap kind /\ Head(queue)[2] \in Values
             /\ OnQueue(Tail(queue), kind)
  BY <1>6, QueueSteps DEF Change
<1>7. InLineOrDirty \subseteq DawParameters \cup Outputs
  BY <1>1 DEF QueuesFlow
<1> HIDE DEF OnQueue
<1>8. ASSUME UNCHANGED lineVars
      PROVE  Line!TypeOK' /\ InLineOrDirty' = InLineOrDirty
  BY <1>1, <1>8 DEF Types, lineVars, Line!TypeOK, InLineOrDirty, Line!InLine
<1>9. \A v \in Values : v \in Values \cup {NoValue}
  OBVIOUS
<1> DEFINE Queues ==
             /\ OnQueue(toController', DawParameters \cup Outputs)
             /\ OnQueue(toProcessor', Dawless)
             /\ OnQueue(toDaw', DawParameters)
           Others ==
             /\ store' \in [Parameters -> Values] /\ controller' \in [Parameters -> Values]
             /\ events' \in [Inputs -> Values \cup {NoValue}]
             /\ dsp' \in [Inputs -> Values]
             /\ m_editors' \subseteq Editors
             /\ pins' \in [Editors -> [Parameters -> Values]]
             /\ untold' \subseteq Editors \X Parameters
           TheLine == Line!TypeOK' /\ InLineOrDirty' \subseteq DawParameters \cup Outputs
<1>10. Queues /\ Others /\ TheLine => Typed'
  <2>1. Queues => toController' \in Seq(Change) /\ toProcessor' \in Seq(Change) /\ toDaw' \in Seq(Change)
    BY DEF OnQueue
  <2>2. QED
    BY <1>2, <1>4, <2>1 DEF Types
<1> HIDE DEF Queues, Others, TheLine
<1> USE ConstantTypes
<1>11. ASSUME DawEvent PROVE Typed'
  <2>1. PICK p \in DawParameters, v \in Values :
          /\ Head(toDaw) = <<p, v>> /\ toDaw # <<>> /\ toDaw' = Tail(toDaw)
          /\ setParameterNormalizedFromDaw(p, v)
          /\ UNCHANGED <<dsp, controllerVars, toController, toProcessor>>
    <3>1. toDaw # <<>> /\ Head(toDaw) \in Change /\ Head(toDaw)[1] \in DawParameters
      BY <1>3, <1>11, QueueSteps DEF DawEvent, OnQueue
    <3>2. QED
      BY <1>11, <3>1 DEF DawEvent, Change
  <2>2. Queues
    BY <1>3, <1>6, <2>1 DEF Queues
  <2>3. Others
    BY <1>1, <2>1 DEF Others, Types, setParameterNormalizedFromDaw, sendParameterToProcessor, controllerVars
  <2>4. TheLine
    BY <1>1, <1>7, <1>8, <2>1, LineAdds DEF TheLine, Types, setParameterNormalizedFromDaw
  <2>5. QED
    BY <1>10, <2>2, <2>3, <2>4
<1>12. ASSUME ReceiveFromController PROVE Typed'
  <2>1. toProcessor # <<>> /\ Head(toProcessor)[1] \in Parameters /\ Head(toProcessor)[2] \in Values
    BY <1>3, <1>6, <1>12 DEF ReceiveFromController
  <2>2. Queues
    BY <1>3, <1>6, <1>12 DEF Queues, ReceiveFromController
  <2>3. Others
    BY <1>1, <1>12, <2>1 DEF Others, Types, ReceiveFromController, sendParameterToProcessor, controllerVars
  <2>4. TheLine
    BY <1>7, <1>8, <1>12 DEF TheLine, ReceiveFromController
  <2>5. QED
    BY <1>10, <2>2, <2>3, <2>4
<1>13. ASSUME Process PROVE Typed'
  <2>1. Queues
    BY <1>3, <1>13 DEF Queues, Process, queueVars
  <2>2. Others
    BY <1>1, <1>13 DEF Others, Types, Process, controllerVars
  <2>3. TheLine
    BY <1>7, <1>8, <1>13 DEF TheLine, Process
  <2>4. QED
    BY <1>10, <2>1, <2>2, <2>3
<1>14. ASSUME NEW p \in Outputs, NEW v \in Values, setPin(p, v) PROVE Typed'
  <2>1. Queues
    BY <1>3, <1>14 DEF Queues, setPin, queueVars
  <2>2. Others
    BY <1>1, <1>14 DEF Others, Types, setPin, controllerVars
  <2>3. TheLine
    BY <1>1, <1>7, <1>8, <1>14, LineAdds DEF TheLine, Types, setPin
  <2>4. QED
    BY <1>10, <2>1, <2>2, <2>3
<1>15. ASSUME Service PROVE Typed'
  <2>1. /\ Line!TypeOK' /\ InLineOrDirty' \subseteq InLineOrDirty
        /\ waiting[serviced + 1] \in Parameters \cap (DawParameters \cup Outputs)
    BY <1>1, <1>7, <1>15, LineServices DEF Types, Service
  <2>2. store[waiting[serviced + 1]] \in Values
    BY <1>1, <2>1 DEF Types
  <2>3. Queues
    BY <1>3, <1>5, <1>15, <2>1, <2>2 DEF Queues, Service
  <2>4. Others
    BY <1>1, <1>15 DEF Others, Types, Service, controllerVars
  <2>5. TheLine
    BY <1>7, <2>1 DEF TheLine
  <2>6. QED
    BY <1>10, <2>3, <2>4, <2>5
<1>16. ASSUME EndFrame PROVE Typed'
  <2>1. Queues
    BY <1>3, <1>16 DEF Queues, EndFrame, queueVars
  <2>2. Others
    BY <1>1, <1>16 DEF Others, Types, EndFrame, controllerVars
  <2>3. TheLine
    BY <1>1, <1>7, <1>16, LineRemoves DEF TheLine, Types, EndFrame
  <2>4. QED
    BY <1>10, <2>1, <2>2, <2>3
<1>17. ASSUME start_processor PROVE Typed'
  <2>1. Queues
    BY <1>3, <1>17 DEF Queues, start_processor, queueVars
  <2>2. Others
    BY <1>1, <1>17 DEF Others, Types, start_processor, seeds, controllerVars
  <2>3. TheLine
    BY <1>7, <1>8, <1>17 DEF TheLine, start_processor
  <2>4. QED
    BY <1>10, <2>1, <2>2, <2>3
<1>18. ASSUME NEW p \in Edited \cup SetByController, NEW v \in Values, onParameterChangedByPlugin(p, v),
              toController' = toController
       PROVE  Queues
  <2>1. CASE p \in DawParameters
    BY <1>3, <1>5, <1>18, <2>1 DEF Queues, onParameterChangedByPlugin
  <2>2. CASE p \notin DawParameters
    <3>1. p \in Parameters \cap Dawless
      BY <2>2 DEF Dawless
    <3>2. toProcessor' = Append(toProcessor, <<p, v>>) /\ UNCHANGED <<toDaw, toController>>
      BY <1>18, <2>2 DEF onParameterChangedByPlugin
    <3>3. QED
      BY <1>3, <1>5, <1>18, <3>1, <3>2 DEF Queues
  <2>3. QED
    BY <2>1, <2>2
<1>19. ASSUME NEW e \in Editors, NEW p \in Edited, NEW v \in Values, setPinFromUi(e, p, v)
       PROVE  Typed'
  <2>1. Queues
    BY <1>18, <1>19 DEF setPinFromUi
  <2>2. Others
    BY <1>1, <1>19 DEF Others, Types, setPinFromUi, processorVars
  <2>3. TheLine
    BY <1>7, <1>8, <1>19 DEF TheLine, setPinFromUi, processorVars
  <2>4. QED
    BY <1>10, <2>1, <2>2, <2>3
<1>20. ASSUME NEW p \in SetByController, NEW v \in Values, setParameter(p, v) PROVE Typed'
  <2>1. Queues
    BY <1>18, <1>20 DEF setParameter
  <2>2. Others
    BY <1>1, <1>20 DEF Others, Types, setParameter, processorVars
  <2>3. TheLine
    BY <1>7, <1>8, <1>20 DEF TheLine, setParameter, processorVars
  <2>4. QED
    BY <1>10, <2>1, <2>2, <2>3
<1>21. ASSUME ReceiveFromProcessor PROVE Typed'
  <2>1. /\ toController # <<>> /\ Head(toController)[1] \in Parameters
        /\ Head(toController)[2] \in Values
    BY <1>3, <1>6, <1>21 DEF ReceiveFromProcessor
  <2>2. Queues
    BY <1>3, <1>6, <1>21 DEF Queues, ReceiveFromProcessor
  <2>3. Others
    <3>1. PICK q \in Parameters, v \in Values :
            /\ controller' = [controller EXCEPT ![q] = v]
            /\ \/ UNCHANGED <<pins, untold>>
               \/ pins' = pinsWith(q, v) /\ untold' = untold \ (Editors \X {q})
      BY <1>21, <2>1 DEF ReceiveFromProcessor
    <3>2. untold' \subseteq Editors \X Parameters
      BY <1>1, <3>1 DEF Types
    <3>3. controller' \in [Parameters -> Values]
      BY <1>1, <3>1 DEF Types
    <3>4. pinsWith(q, v) \in [Editors -> [Parameters -> Values]]
      BY <1>1 DEF Types, pinsWith
    <3>5. pins' \in [Editors -> [Parameters -> Values]]
      BY <1>1, <3>1, <3>4 DEF Types
    <3>6. QED
      BY <1>1, <1>21, <3>2, <3>3, <3>5 DEF Others, Types, ReceiveFromProcessor, processorVars
  <2>4. TheLine
    BY <1>7, <1>8, <1>21 DEF TheLine, ReceiveFromProcessor, processorVars
  <2>5. QED
    BY <1>10, <2>2, <2>3, <2>4
<1>22. ASSUME NEW e \in Editors, initUi(e) \/ unRegisterGui(e) PROVE Typed'
  <2>1. Queues
    BY <1>3, <1>22 DEF Queues, initUi, unRegisterGui, queueVars
  <2>2. Others
    <3>1. /\ m_editors' \subseteq Editors /\ UNCHANGED <<processorVars, controller>>
          /\ \/ pins' = [pins EXCEPT ![e] = controller] /\ untold' = untold
             \/ /\ pins' = [pins EXCEPT ![e] = [p \in Parameters |-> Default]]
                /\ untold' = untold \ ({e} \X Parameters)
      BY <1>1, <1>22 DEF Types, initUi, unRegisterGui
    <3>2. untold' \subseteq Editors \X Parameters
      BY <1>1, <3>1 DEF Types
    <3>3. pins' \in [Editors -> [Parameters -> Values]]
      <4>1. controller \in [Parameters -> Values] /\ [p \in Parameters |-> Default] \in [Parameters -> Values]
        BY <1>1 DEF Types
      <4>2. QED
        BY <1>1, <3>1, <4>1 DEF Types
    <3>4. QED
      BY <1>1, <3>1, <3>2, <3>3 DEF Others, Types, processorVars
  <2>3. TheLine
    BY <1>7, <1>8, <1>22 DEF TheLine, initUi, unRegisterGui, processorVars
  <2>4. QED
    BY <1>10, <2>1, <2>2, <2>3
<1>23. ASSUME NEW p \in Automated, NEW v \in Values, Automate(p, v) PROVE Typed'
  <2>1. Queues
    BY <1>3, <1>5, <1>23 DEF Queues, Automate
  <2>2. Others
    BY <1>1, <1>23 DEF Others, Types, Automate, processorVars, controllerVars
  <2>3. TheLine
    BY <1>7, <1>8, <1>23 DEF TheLine, Automate, processorVars
  <2>4. QED
    BY <1>10, <2>1, <2>2, <2>3
<1>24. CASE UNCHANGED vars
  <2>1. Queues
    BY <1>3, <1>24 DEF Queues, vars, queueVars
  <2>2. Others
    BY <1>1, <1>24 DEF Others, Types, vars, processorVars, controllerVars
  <2>3. TheLine
    BY <1>7, <1>8, <1>24 DEF TheLine, vars, processorVars
  <2>4. QED
    BY <1>10, <2>1, <2>2, <2>3
<1>25. QED
  BY <1>11, <1>12, <1>13, <1>14, <1>15, <1>16, <1>17, <1>19, <1>20, <1>21, <1>22, <1>23, <1>24 DEF Next

\* A message that is taken, in terms of Typed.
LEMMA Heads ==
  ASSUME Typed
  PROVE  /\ toDaw # <<>> => Head(toDaw)[1] \in DawParameters /\ Head(toDaw)[2] \in Values
         /\ toProcessor # <<>> => Head(toProcessor)[1] \in Dawless /\ Head(toProcessor)[2] \in Values
         /\ toController # <<>> => /\ Head(toController)[1] \in DawParameters \cup Outputs
                                   /\ Head(toController)[2] \in Values
         /\ \A q \in {toDaw, toProcessor, toController} : q \in Seq(Change)
<1>1. Types /\ QueuesFlow
  BY TypeOKIsTypes DEF Typed
<1>2. QED
  BY <1>1, QueueSteps DEF Types, QueuesFlow, Change

-----------------------------------------------------------------------------
(* The processor's pins *)

PinsInv == \A p \in Inputs \ Outputs :
             IF events[p] = NoValue THEN dsp[p] = store[p] ELSE events[p] = store[p]

LEMMA InitPins == Init => PinsInv
  BY ConstantTypes DEF Init, seeds, PinsInv

\* A change of the store comes with an event; only output pins are set without.
LEMMA StepPins == Typed /\ PinsInv /\ [Next]_vars => PinsInv'
<1> SUFFICES ASSUME Typed, PinsInv, [Next]_vars PROVE PinsInv'
  OBVIOUS
<1>1. Types
  BY TypeOKIsTypes DEF Typed
<1> USE ConstantTypes DEF Types, PinsInv
<1>2. ASSUME DawEvent PROVE PinsInv'
  <2>1. Head(toDaw)[1] \in DawParameters /\ Head(toDaw)[2] \in Values
    BY <1>2, Heads DEF DawEvent
  <2>2. QED
    BY <1>1, <1>2, <2>1 DEF DawEvent, setParameterNormalizedFromDaw, sendParameterToProcessor
<1>3. ASSUME ReceiveFromController PROVE PinsInv'
  <2>1. Head(toProcessor)[1] \in Dawless /\ Head(toProcessor)[2] \in Values
    BY <1>3, Heads DEF ReceiveFromController
  <2>2. QED
    BY <1>1, <1>3, <2>1 DEF ReceiveFromController, sendParameterToProcessor, Dawless
<1>4. ASSUME Process PROVE PinsInv'
  BY <1>1, <1>4 DEF Process
<1>5. ASSUME NEW p \in Outputs, NEW v \in Values, setPin(p, v) PROVE PinsInv'
  BY <1>1, <1>5 DEF setPin
<1>6. ASSUME start_processor PROVE PinsInv'
  BY <1>1, <1>6 DEF start_processor, seeds
<1>7. ASSUME UNCHANGED <<store, events, dsp>> PROVE PinsInv'
  BY <1>7
<1>8. QED
  BY <1>2, <1>3, <1>4, <1>5, <1>6, <1>7
     DEF Next, Service, EndFrame, setPinFromUi, setParameter, ReceiveFromProcessor, initUi,
         unRegisterGui, Automate, vars, processorVars

-----------------------------------------------------------------------------
(* The editors *)

LEMMA InitEditors == Init => EditorsShowController
  BY DEF Init, EditorsShowController

\* An open editor is told of every change but the plugin's controller's, and that
\* is noted.
LEMMA StepEditors == Typed /\ EditorsShowController /\ [Next]_vars => EditorsShowController'
<1> SUFFICES ASSUME Typed, EditorsShowController, [Next]_vars PROVE EditorsShowController'
  OBVIOUS
<1>1. Types
  BY TypeOKIsTypes DEF Typed
<1> USE ConstantTypes DEF Types, EditorsShowController
<1>2. ASSUME NEW e \in Editors, NEW p \in Edited, NEW v \in Values, setPinFromUi(e, p, v)
      PROVE  EditorsShowController'
  BY <1>1, <1>2 DEF setPinFromUi
<1>3. ASSUME NEW p \in SetByController, NEW v \in Values, setParameter(p, v)
      PROVE  EditorsShowController'
  BY <1>1, <1>3 DEF setParameter
<1>4. ASSUME ReceiveFromProcessor PROVE EditorsShowController'
  <2>1. Head(toController)[1] \in Parameters /\ Head(toController)[2] \in Values
    BY <1>4, Heads DEF ReceiveFromProcessor
  <2>2. PICK q \in Parameters, v \in Values :
          /\ controller' = [controller EXCEPT ![q] = v] /\ m_editors' = m_editors
          /\ \/ v = controller[q] /\ UNCHANGED <<pins, untold>>
             \/ pins' = pinsWith(q, v) /\ untold' = untold \ (Editors \X {q})
    BY <1>4, <2>1 DEF ReceiveFromProcessor
  <2>3. CASE v = controller[q] /\ UNCHANGED <<pins, untold>>
    <3>1. controller' = controller
      BY <1>1, <2>2, <2>3
    <3>2. m_editors' = m_editors /\ pins' = pins /\ untold' = untold
      BY <2>2, <2>3
    <3>3. QED
      BY <3>1, <3>2
  <2>4. CASE pins' = pinsWith(q, v) /\ untold' = untold \ (Editors \X {q})
    <3>1. ASSUME NEW e \in m_editors, NEW p \in Parameters, <<e, p>> \notin untold'
          PROVE  pins'[e][p] = controller'[p]
      <4>1. e \in Editors /\ pins'[e] = [pins[e] EXCEPT ![q] = v] /\ pins[e] \in [Parameters -> Values]
        BY <1>1, <2>4 DEF pinsWith
      <4>2. CASE p = q
        BY <1>1, <2>2, <4>1, <4>2
      <4>3. CASE p # q
        <5>1. <<e, p>> \notin untold
          BY <2>4, <3>1, <4>3
        <5>2. QED
          BY <1>1, <2>2, <4>1, <4>3, <5>1
      <4>4. QED
        BY <4>2, <4>3
    <3>2. m_editors' = m_editors
      BY <2>2
    <3>3. QED
      BY <3>1, <3>2, Zenon
  <2>5. QED
    BY <2>2, <2>3, <2>4
<1>5. ASSUME NEW e \in Editors, initUi(e) \/ unRegisterGui(e) PROVE EditorsShowController'
  BY <1>1, <1>5 DEF initUi, unRegisterGui
<1>6. ASSUME UNCHANGED controllerVars PROVE EditorsShowController'
  BY <1>6 DEF controllerVars
<1>7. QED
  BY <1>2, <1>3, <1>4, <1>5, <1>6
     DEF Next, DawEvent, ReceiveFromController, Process, setPin, Service, EndFrame, start_processor,
         Automate, vars

-----------------------------------------------------------------------------
(* The stores *)

\* What the controller is told of: it has the store's value, or will once it
\* has read its queue; or else it shows an edit that the DAW has yet to deliver.
Told(p) ==
  \/ ReachesController(p)
  \/ /\ ~UnderWay(toController, p)
     /\ \E i \in 1..Len(toDaw) : toDaw[i] = <<p, controller[p]>>

ByProcessor == DawParameters \cup (Outputs \ Dawless)
ByController == Parameters \ (DawParameters \cup Outputs)

StoresInv == /\ \A p \in ByProcessor : Told(p)
             /\ \A p \in ByController : ReachesProcessor(p)

LEMMA InitStores == Init => StoresInv
<1> SUFFICES ASSUME Init PROVE StoresInv
  OBVIOUS
<1>1. \A p : ~UnderWay(<<>>, p)
  BY DEF UnderWay
<1>2. QED
  BY <1>1, ConstantTypes DEF Init, StoresInv, Told, ReachesController, ReachesProcessor, lastOf, ByProcessor, ByController

\* An edit that waits on the DAW's queue waits still when another joins.
LEMMA EditStays ==
  ASSUME NEW queue \in Seq(Change), NEW r \in Parameters, NEW v \in Values
  PROVE  /\ \A x : (\E i \in 1..Len(queue) : queue[i] = x)
                   => \E i \in 1..Len(Append(queue, <<r, v>>)) : Append(queue, <<r, v>>)[i] = x
         /\ \E i \in 1..Len(Append(queue, <<r, v>>)) : Append(queue, <<r, v>>)[i] = <<r, v>>
<1> DEFINE longer == Append(queue, <<r, v>>)
<1>1. /\ Len(longer) = Len(queue) + 1 /\ Len(queue) \in Nat
      /\ \A i \in 1..Len(queue) : longer[i] = queue[i]
      /\ longer[Len(queue) + 1] = <<r, v>>
  OBVIOUS
<1> HIDE DEF longer
<1>2. /\ \A x : (\E i \in 1..Len(queue) : queue[i] = x) => \E i \in 1..Len(longer) : longer[i] = x
      /\ \E i \in 1..Len(longer) : longer[i] = <<r, v>>
  BY <1>1
<1>3. QED
  BY <1>2 DEF longer

\* An edit that waits is the first, or waits still when the first is taken.
LEMMA EditGoes ==
  ASSUME NEW queue \in Seq(Change), queue # <<>>, NEW i \in 1..Len(queue)
  PROVE  queue[i] = Head(queue) \/ \E k \in 1..Len(Tail(queue)) : Tail(queue)[k] = queue[i]
<1>1. /\ Len(queue) = Len(Tail(queue)) + 1 /\ Len(Tail(queue)) \in Nat
      /\ \A k \in 1..Len(Tail(queue)) : Tail(queue)[k] = queue[k + 1]
      /\ Head(queue) = queue[1]
  OBVIOUS
<1>2. CASE i = 1
  BY <1>1, <1>2
<1>3. CASE i # 1
  <2>1. i - 1 \in 1..Len(Tail(queue)) /\ Tail(queue)[i - 1] = queue[i]
    BY <1>1, <1>3
  <2>2. QED
    BY <2>1
<1>4. QED
  BY <1>2, <1>3

\* Nothing but dirty is new: what was told stays so.
LEMMA ToldStays ==
  ASSUME NEW p, Told(p), dirty \subseteq dirty', UNCHANGED <<toController, controller, store, toDaw>>
  PROVE  Told(p)'
  BY DEF Told, ReachesController, UnderWay

\* The processor tells the controller every change but those that come from it.
LEMMA StepTold ==
  ASSUME Typed, StoresInv, [Next]_vars, NEW p \in ByProcessor
  PROVE  Told(p)'
<1>1. Types /\ QueuesFlow /\ Told(p) /\ p \in Parameters /\ p \notin Dawless
  BY TypeOKIsTypes, ConstantTypes DEF Typed, StoresInv, ByProcessor, Dawless
<1> USE ConstantTypes
<1>2. toDaw \in Seq(Change) /\ toController \in Seq(Change) /\ Line!TypeOK
  BY <1>1 DEF Types
<1>3. ASSUME DawEvent PROVE Told(p)'
  <2>1. PICK q \in DawParameters, v \in Values :
          /\ toDaw # <<>> /\ Head(toDaw) = <<q, v>> /\ toDaw' = Tail(toDaw)
          /\ setParameterNormalizedFromDaw(q, v)
          /\ UNCHANGED <<controllerVars, toController>>
    <3>1. toDaw # <<>> /\ Head(toDaw) \in Change /\ Head(toDaw)[1] \in DawParameters
      BY <1>2, <1>3, Heads, QueueSteps DEF DawEvent
    <3>2. QED
      BY <1>3, <3>1 DEF DawEvent, Change
  <2>2. store' = [store EXCEPT ![q] = v] /\ controller' = controller /\ toController' = toController
    BY <2>1 DEF setParameterNormalizedFromDaw, controllerVars
  <2>3. CASE v # store[q]
    <3>1. dirty' = dirty \cup {q}
      BY <1>2, <2>1, <2>3, LineAdds DEF setParameterNormalizedFromDaw
    <3>2. CASE p = q
      BY <3>1, <3>2 DEF Told, ReachesController
    <3>3. CASE p # q
      <4>1. store'[p] = store[p]
        BY <1>1, <2>2, <3>3 DEF Types
      <4>2. ASSUME NEW i \in 1..Len(toDaw), toDaw[i] = <<p, controller[p]>>
            PROVE  \E k \in 1..Len(toDaw') : toDaw'[k] = <<p, controller[p]>>
        <5>1. toDaw[i] # Head(toDaw)
          BY <2>1, <3>3, <4>2
        <5>2. \E k \in 1..Len(Tail(toDaw)) : Tail(toDaw)[k] = toDaw[i]
          BY <1>2, <2>1, <5>1, EditGoes
        <5>3. QED
          BY <2>1, <4>2, <5>2
      <4>3. QED
        BY <1>1, <2>2, <3>1, <4>1, <4>2 DEF Told, ReachesController
    <3>4. QED
      BY <3>2, <3>3
  <2>4. CASE v = store[q]
    <3>1. store' = store /\ dirty' = dirty
      BY <1>1, <2>1, <2>2, <2>4 DEF Types, setParameterNormalizedFromDaw, lineVars
    <3>2. CASE p \in dirty \/ lastOf(toController, p, controller[p]) = store[p]
      BY <2>2, <3>1, <3>2 DEF Told, ReachesController
    <3>3. CASE ~UnderWay(toController, p) /\ \E i \in 1..Len(toDaw) : toDaw[i] = <<p, controller[p]>>
      <4>1. PICK i \in 1..Len(toDaw) : toDaw[i] = <<p, controller[p]>>
        BY <3>3
      <4>2. CASE toDaw[i] = Head(toDaw)
        <5>1. controller[p] = store[p]
          BY <2>1, <2>4, <4>1, <4>2
        <5>2. lastOf(toController, p, controller[p]) = store[p]
          BY <3>3, <5>1, LastOfNone
        <5>3. QED
          BY <2>2, <3>1, <5>2 DEF Told, ReachesController
      <4>3. CASE toDaw[i] # Head(toDaw)
        <5>1. \E k \in 1..Len(Tail(toDaw)) : Tail(toDaw)[k] = toDaw[i]
          BY <1>2, <2>1, <4>3, EditGoes
        <5>2. \E k \in 1..Len(toDaw') : toDaw'[k] = <<p, controller[p]>>
          BY <2>1, <4>1, <5>1
        <5>3. QED
          BY <2>2, <3>3, <5>2 DEF Told, ReachesController
      <4>4. QED
        BY <4>2, <4>3
    <3>4. QED
      BY <1>1, <3>2, <3>3 DEF Told, ReachesController
  <2>5. QED
    BY <2>3, <2>4
<1>4. ASSUME ReceiveFromController PROVE Told(p)'
  <2>1. Head(toProcessor)[1] \in Dawless
    BY <1>4, Heads DEF ReceiveFromController
  <2>2. /\ store'[p] = store[p] /\ dirty' = dirty
        /\ UNCHANGED <<toController, controller, toDaw>>
    BY <1>1, <1>4, <2>1 DEF ReceiveFromController, Types, controllerVars, lineVars
  <2>3. QED
    BY <1>1, <2>2 DEF Told, ReachesController
<1>5. ASSUME NEW q \in Outputs, NEW v \in Values, setPin(q, v) PROVE Told(p)'
  <2>1. UNCHANGED <<toController, controller, toDaw>> /\ store' = [store EXCEPT ![q] = v]
    BY <1>5 DEF setPin, controllerVars, queueVars
  <2>2. q \in Parameters
    OBVIOUS
  <2>3. CASE v = store[q] /\ q \notin Blobs
    <3>1. store' = store /\ dirty' = dirty
      BY <1>1, <1>5, <2>1, <2>3 DEF setPin, Types, lineVars
    <3>2. QED
      BY <1>1, <2>1, <3>1, ToldStays
  <2>4. CASE ~(v = store[q] /\ q \notin Blobs)
    <3>1. dirty' = dirty \cup {q}
      BY <1>2, <1>5, <2>2, <2>4, LineAdds DEF setPin
    <3>2. CASE p = q
      BY <3>1, <3>2 DEF Told, ReachesController
    <3>3. CASE p # q
      <4>1. store'[p] = store[p]
        BY <1>1, <2>1, <3>3 DEF Types
      <4>2. QED
        BY <1>1, <2>1, <3>1, <4>1 DEF Told, ReachesController
    <3>4. QED
      BY <3>2, <3>3
  <2>5. QED
    BY <2>3, <2>4
<1>6. ASSUME Service PROVE Told(p)'
  <2> DEFINE q == waiting[serviced + 1]
  <2>1. dirty' = dirty \ {q} /\ q \in Parameters
    BY <1>2, <1>6, LineServices DEF Service
  <2>2. /\ toController' = Append(toController, <<q, store[q]>>)
        /\ UNCHANGED <<store, controller, toDaw>>
    BY <1>6 DEF Service, controllerVars
  <2> HIDE DEF q
  <2>3. store[q] \in Values
    BY <1>1, <2>1 DEF Types
  <2>4. /\ UnderWay(Append(toController, <<q, store[q]>>), p) <=> q = p \/ UnderWay(toController, p)
        /\ lastOf(Append(toController, <<q, store[q]>>), p, controller[p]) =
             IF q = p THEN store[q] ELSE lastOf(toController, p, controller[p])
    BY <1>2, <2>1, <2>3, LastOfAppend
  <2>5. /\ UnderWay(toController', p) <=> q = p \/ UnderWay(toController, p)
        /\ lastOf(toController', p, controller[p]) =
             IF q = p THEN store[q] ELSE lastOf(toController, p, controller[p])
    BY <2>2, <2>4
  <2>6. QED
    BY <1>1, <2>1, <2>2, <2>5 DEF Told, ReachesController
<1>7. ASSUME ReceiveFromProcessor PROVE Told(p)'
  <2> DEFINE q == Head(toController)[1]
             v == Head(toController)[2]
  <2>1. /\ toController # <<>> /\ toController' = Tail(toController)
        /\ controller' = [controller EXCEPT ![q] = v]
        /\ UNCHANGED <<store, dirty, toDaw>>
    BY <1>7 DEF ReceiveFromProcessor, processorVars, lineVars
  <2> HIDE DEF q, v
  <2>2. /\ UnderWay(toController, p) <=> q = p \/ UnderWay(toController', p)
        /\ lastOf(toController, p, controller[p]) =
             lastOf(toController', p, IF q = p THEN v ELSE controller[p])
    BY <1>2, <2>1, LastOfTail DEF q, v
  <2>3. controller'[p] = IF q = p THEN v ELSE controller[p]
    BY <1>1, <2>1 DEF Types
  <2>4. QED
    BY <1>1, <2>1, <2>2, <2>3 DEF Told, ReachesController
<1>8. ASSUME NEW q \in Edited \cup SetByController, NEW v \in Values,
             controller' = [controller EXCEPT ![q] = v], onParameterChangedByPlugin(q, v),
             UNCHANGED <<store, dirty, toController>>
      PROVE  Told(p)'
  <2>1. CASE q \in DawParameters
    <3>1. toDaw' = Append(toDaw, <<q, v>>)
      BY <1>8, <2>1 DEF onParameterChangedByPlugin
    <3>2. CASE p = q
      <4>1. controller'[p] = v
        BY <1>1, <1>8, <3>2 DEF Types
      <4>2. \E i \in 1..Len(toDaw') : toDaw'[i] = <<p, controller'[p]>>
        <5>1. \E i \in 1..Len(Append(toDaw, <<p, v>>)) : Append(toDaw, <<p, v>>)[i] = <<p, v>>
          <6>1. toDaw \in Seq(Change) /\ p \in Parameters
            BY <1>1, <1>2
          <6>2. QED
            BY <1>8, <6>1, EditStays
        <5>2. QED
          BY <3>1, <3>2, <4>1, <5>1
      <4>3. CASE UnderWay(toController, p)
        <5>1. PICK k \in 1..Len(toController) : IsLast(toController, p, k)
          BY <1>2, <4>3, LastExists
        <5>2. lastOf(toController, p, controller[p]) = lastOf(toController, p, controller'[p])
          BY <1>2, <5>1, LastOfIs
        <5>3. QED
          BY <1>1, <1>8, <4>3, <5>2 DEF Told, ReachesController
      <4>4. CASE ~UnderWay(toController, p)
        BY <1>8, <4>2, <4>4 DEF Told, ReachesController
      <4>5. QED
        BY <4>3, <4>4
    <3>3. CASE p # q
      <4>1. controller'[p] = controller[p]
        BY <1>1, <1>8, <3>3 DEF Types
      <4>2. (\E i \in 1..Len(toDaw) : toDaw[i] = <<p, controller[p]>>)
              => \E i \in 1..Len(toDaw') : toDaw'[i] = <<p, controller[p]>>
        <5>1. q \in Parameters
          BY <2>1
        <5>2. (\E i \in 1..Len(toDaw) : toDaw[i] = <<p, controller[p]>>)
                => \E i \in 1..Len(Append(toDaw, <<q, v>>)) : Append(toDaw, <<q, v>>)[i] = <<p, controller[p]>>
          <6>1. toDaw \in Seq(Change)
            BY <1>2
          <6>2. QED
            BY <1>8, <5>1, <6>1, EditStays
        <5>3. QED
          BY <3>1, <5>2
      <4>3. QED
        BY <1>1, <1>8, <4>1, <4>2 DEF Told, ReachesController
    <3>4. QED
      BY <3>2, <3>3
  <2>2. CASE q \notin DawParameters
    <3>1. toDaw' = toDaw /\ q \in Dawless
      BY <1>8, <2>2 DEF onParameterChangedByPlugin, Dawless
    <3>2. controller'[p] = controller[p]
      BY <1>1, <1>8, <3>1 DEF Types
    <3>3. QED
      BY <1>1, <1>8, <3>1, <3>2 DEF Told, ReachesController
  <2>3. QED
    BY <2>1, <2>2
<1>9. ASSUME NEW e \in Editors, NEW q \in Edited, NEW v \in Values, setPinFromUi(e, q, v)
      PROVE  Told(p)'
  BY <1>8, <1>9 DEF setPinFromUi, processorVars, lineVars
<1>10. ASSUME NEW q \in SetByController, NEW v \in Values, setParameter(q, v) PROVE Told(p)'
  BY <1>8, <1>10 DEF setParameter, processorVars, lineVars
<1>11. ASSUME NEW q \in Automated, NEW v \in Values, Automate(q, v) PROVE Told(p)'
  <2>1. /\ toDaw' = Append(toDaw, <<q, v>>)
        /\ UNCHANGED <<toController, controller, store, dirty>>
    BY <1>11 DEF Automate, processorVars, lineVars, controllerVars
  <2>2. (\E i \in 1..Len(toDaw) : toDaw[i] = <<p, controller[p]>>)
          => \E i \in 1..Len(toDaw') : toDaw'[i] = <<p, controller[p]>>
    <3>1. q \in Parameters
      OBVIOUS
    <3>2. (\E i \in 1..Len(toDaw) : toDaw[i] = <<p, controller[p]>>)
            => \E i \in 1..Len(Append(toDaw, <<q, v>>)) : Append(toDaw, <<q, v>>)[i] = <<p, controller[p]>>
      BY <1>2, <3>1, EditStays
    <3>3. QED
      BY <2>1, <3>2
  <2>3. QED
    BY <1>1, <2>1, <2>2 DEF Told, ReachesController
<1>12. ASSUME EndFrame PROVE Told(p)'
  BY <1>1, <1>2, <1>12, LineRemoves, ToldStays DEF EndFrame, controllerVars, queueVars
<1>13. ASSUME UNCHANGED <<dirty, toController, controller, store, toDaw>> PROVE Told(p)'
  BY <1>1, <1>13, ToldStays
<1>14. QED
  BY <1>3, <1>4, <1>5, <1>6, <1>7, <1>9, <1>10, <1>11, <1>12, <1>13
     DEF Next, Process, start_processor, initUi, unRegisterGui,
         vars, processorVars, controllerVars, queueVars, lineVars

\* The controller tells the processor every change of what is not the DAW's.
LEMMA StepTells ==
  ASSUME Typed, StoresInv, [Next]_vars, NEW p \in ByController
  PROVE  ReachesProcessor(p)'
<1>1. Types /\ QueuesFlow /\ ReachesProcessor(p) /\ p \in Parameters /\ p \notin DawParameters \cup Outputs
  BY TypeOKIsTypes DEF Typed, StoresInv, ByController
<1> USE ConstantTypes
<1>2. toProcessor \in Seq(Change)
  BY <1>1 DEF Types
<1>3. ASSUME ReceiveFromController PROVE ReachesProcessor(p)'
  <2> DEFINE q == Head(toProcessor)[1]
             v == Head(toProcessor)[2]
  <2>1. /\ toProcessor # <<>> /\ toProcessor' = Tail(toProcessor)
        /\ store' = [store EXCEPT ![q] = v]
        /\ controller' = controller
    BY <1>3 DEF ReceiveFromController, controllerVars
  <2> HIDE DEF q, v
  <2>2. lastOf(toProcessor, p, store[p]) = lastOf(toProcessor', p, IF q = p THEN v ELSE store[p])
    BY <1>2, <2>1, LastOfTail DEF q, v
  <2>3. store'[p] = IF q = p THEN v ELSE store[p]
    BY <1>1, <2>1 DEF Types
  <2>4. QED
    BY <1>1, <2>1, <2>2, <2>3 DEF ReachesProcessor
<1>4. ASSUME NEW q \in Edited \cup SetByController, NEW v \in Values,
             controller' = [controller EXCEPT ![q] = v], onParameterChangedByPlugin(q, v),
             store' = store
      PROVE  ReachesProcessor(p)'
  <2>1. CASE q \in DawParameters
    <3>1. toProcessor' = toProcessor /\ controller'[p] = controller[p]
      BY <1>1, <1>4, <2>1 DEF onParameterChangedByPlugin, Types
    <3>2. QED
      BY <1>1, <1>4, <3>1 DEF ReachesProcessor
  <2>2. CASE q \notin DawParameters
    <3>1. toProcessor' = Append(toProcessor, <<q, v>>)
      BY <1>4, <2>2 DEF onParameterChangedByPlugin
    <3>2. lastOf(toProcessor', p, store[p]) = IF q = p THEN v ELSE lastOf(toProcessor, p, store[p])
      <4>1. lastOf(Append(toProcessor, <<q, v>>), p, store[p])
              = IF q = p THEN v ELSE lastOf(toProcessor, p, store[p])
        BY <1>2, LastOfAppend
      <4>2. QED
        BY <3>1, <4>1
    <3>3. controller'[p] = IF q = p THEN v ELSE controller[p]
      BY <1>1, <1>4 DEF Types
    <3>4. QED
      BY <1>1, <1>4, <3>2, <3>3 DEF ReachesProcessor
  <2>3. QED
    BY <2>1, <2>2
<1>5. ASSUME NEW e \in Editors, NEW q \in Edited, NEW v \in Values, setPinFromUi(e, q, v)
      PROVE  ReachesProcessor(p)'
  BY <1>4, <1>5 DEF setPinFromUi, processorVars
<1>6. ASSUME NEW q \in SetByController, NEW v \in Values, setParameter(q, v) PROVE ReachesProcessor(p)'
  BY <1>4, <1>6 DEF setParameter, processorVars
<1>7. ASSUME store'[p] = store[p], controller'[p] = controller[p], toProcessor' = toProcessor
      PROVE  ReachesProcessor(p)'
  BY <1>1, <1>7 DEF ReachesProcessor
<1>8. ASSUME DawEvent PROVE ReachesProcessor(p)'
  <2>1. Head(toDaw)[1] # p
    BY <1>1, <1>8, Heads DEF DawEvent
  <2>2. QED
    BY <1>1, <1>7, <1>8, <2>1 DEF DawEvent, setParameterNormalizedFromDaw, controllerVars, Types
<1>9. ASSUME ReceiveFromProcessor PROVE ReachesProcessor(p)'
  <2>1. Head(toController)[1] # p
    BY <1>1, <1>9, Heads DEF ReceiveFromProcessor
  <2>2. QED
    BY <1>1, <1>7, <1>9, <2>1 DEF ReceiveFromProcessor, processorVars, Types
<1>10. ASSUME NEW q \in Outputs, NEW v \in Values, setPin(q, v) PROVE ReachesProcessor(p)'
  BY <1>1, <1>7, <1>10 DEF setPin, controllerVars, queueVars, Types
<1>11. QED
  BY <1>3, <1>5, <1>6, <1>7, <1>8, <1>9, <1>10
     DEF Next, Process, Service, EndFrame, start_processor, initUi, unRegisterGui, Automate,
         vars, processorVars, controllerVars, queueVars

-----------------------------------------------------------------------------
(* Theorems *)

\* The inductive invariant.
IInv == Typed /\ PinsInv /\ EditorsShowController /\ StoresInv

LEMMA Invariance == Spec => []IInv
<1>1. Init => IInv
  BY InitTyped, InitPins, InitEditors, InitStores DEF IInv
<1>2. IInv /\ [Next]_vars => IInv'
  <2> SUFFICES ASSUME IInv, [Next]_vars PROVE IInv'
    OBVIOUS
  <2>1. Typed' /\ PinsInv' /\ EditorsShowController'
    BY StepTyped, StepPins, StepEditors DEF IInv
  <2>2. \A p \in ByProcessor : Told(p)'
    BY StepTold DEF IInv
  <2>3. \A p \in ByController : ReachesProcessor(p)'
    BY StepTells DEF IInv
  <2>4. QED
    BY <2>1, <2>2, <2>3 DEF IInv, StoresInv, ByProcessor, ByController, Dawless
<1>3. QED
  BY <1>1, <1>2, PTL DEF Spec

\* Every variable of the two stores and their queues has its type.
THEOREM TypeCorrect == Spec => []TypeOK
<1>1. IInv => TypeOK
  BY DEF IInv, Typed
<1>2. QED
  BY <1>1, Invariance, PTL

\* The processor's input pins have, or will have after the next block, what its
\* store has, through any changes of the DAW and the controller, and restarts.
THEOREM PinsAlwaysFollow == Spec => []PinsFollowStore
<1>1. IInv => PinsFollowStore
  BY DEF IInv, Typed, PinsInv, PinsFollowStore
<1>2. QED
  BY <1>1, Invariance, PTL

\* Every open editor shows what the controller's store has, of every parameter
\* but those that the plugin's controller has set since the editor opened or
\* was last told of them.
THEOREM EditorsAlwaysShow == Spec => []EditorsShowController
<1>1. IInv => EditorsShowController
  BY DEF IInv
<1>2. QED
  BY <1>1, Invariance, PTL

\* No newest value is lost, in either direction: what the processor alone sets
\* waits for its turn, or is the last that the controller has or will read; what
\* the user and the plugin's controller alone set is the last that the processor
\* has or will read; of what the DAW carries the controller has or will read the
\* processor's value, unless it shows an edit that the DAW has yet to deliver.
THEOREM NewestAlwaysArrives == Spec => []NewestIsOnItsWay
<1>1. IInv => NewestIsOnItsWay
  <2> SUFFICES ASSUME IInv PROVE NewestIsOnItsWay
    OBVIOUS
  <2>1. ASSUME NEW p \in Outputs \ (Edited \cup SetByController \cup DawParameters)
        PROVE  ReachesController(p)
    <3>1. Told(p)
      BY DEF IInv, StoresInv, ByProcessor, Dawless
    <3>2. \A i \in 1..Len(toDaw) : toDaw[i] # <<p, controller[p]>>
      BY DEF IInv, Typed, QueuesFlow
    <3>3. QED
      BY <3>1, <3>2 DEF Told
  <2>2. ASSUME NEW p \in Parameters \ (Outputs \cup DawParameters)
        PROVE  ReachesProcessor(p)
    BY DEF IInv, StoresInv, ByController
  <2>3. ASSUME NEW p \in DawParameters
        PROVE  \/ ReachesController(p)
               \/ /\ ~UnderWay(toController, p)
                  /\ \E i \in 1..Len(toDaw) : toDaw[i] = <<p, controller[p]>>
    BY DEF IInv, StoresInv, ByProcessor, Told
  <2>4. QED
    BY <2>1, <2>2, <2>3 DEF NewestIsOnItsWay
<1>2. QED
  BY <1>1, Invariance, PTL

\* What the plugin's processor sets is changed on the other side through the
\* DAW or not at all.  A parameter of which this is not true is the one that
\* MCParameterSyncTwoWriters shows apart.
OneWayEach == Outputs \cap (Edited \cup SetByController) \subseteq DawParameters

\* Once nothing about a parameter is under way the two stores agree on it,
\* provided it is not set on both sides without the DAW.
THEOREM StoresAlwaysAgree ==
  ASSUME OneWayEach
  PROVE  Spec => []StoresAgreeAtRest
<1>1. IInv => StoresAgreeAtRest
  <2> SUFFICES ASSUME IInv, NEW p \in Parameters, p \notin dirty, ~UnderWay(toController, p),
                      ~UnderWay(toProcessor, p), ~UnderWay(toDaw, p)
               PROVE  controller[p] = store[p]
    BY DEF StoresAgreeAtRest
  <2>1. CASE p \in ByProcessor
    <3>1. Told(p)
      BY <2>1 DEF IInv, StoresInv
    <3>2. \A i \in 1..Len(toDaw) : toDaw[i] # <<p, controller[p]>>
      BY DEF UnderWay
    <3>3. QED
      BY <3>1, <3>2, LastOfNone DEF Told, ReachesController
  <2>2. CASE p \in ByController
    <3>1. ReachesProcessor(p)
      BY <2>2 DEF IInv, StoresInv
    <3>2. QED
      BY <3>1, LastOfNone DEF ReachesProcessor
  <2>3. p \in ByProcessor \cup ByController
    BY ConstantTypes DEF ByProcessor, ByController, Dawless, OneWayEach
  <2>4. QED
    BY <2>1, <2>2, <2>3
<1>2. QED
  BY <1>1, Invariance, PTL

=============================================================================
