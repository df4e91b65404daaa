--------------------------- MODULE ParameterSync ---------------------------
(***************************************************************************)
(* The two parameter stores of a plugin and what keeps them alike: the     *)
(* processor's PatchManager (gmpi_processor, on the audio thread) and the  *)
(* controller's (gmpi_controller_holder, on the UI thread), the queues     *)
(* between them, the DAW that carries the edits of its own parameters, the *)
(* pins of the open editors and of the processor.                          *)
(*                                                                         *)
(* The line of parameters that wait to be sent to the controller is a      *)
(* WaiterQueue; a message is made when its parameter's turn comes, with    *)
(* the value the store holds then.  The two queues deliver whole messages  *)
(* in order, as MessageChannel does.  The DAW is external: it hands what   *)
(* notifyDaw told it, and its automation, to setParameterNormalizedFromDaw *)
(* in order and at a time of its own.                                      *)
(* A value stands for a parameter's normalised and real form alike.        *)
(***************************************************************************)
EXTENDS Integers, Sequences

CONSTANTS
  Parameters,
  DawParameters,    \* dawTag > -1: the DAW carries their edits
  Automated,        \* those the DAW changes itself
  Blobs,            \* sent as "ppc3", the others as "ppc2"
  Inputs, Outputs,  \* with an input pin, an output pin of the processor
  Edited,           \* changed by the user in an editor
  SetByController,  \* changed by the plugin's own <Controller/>
  Editors,
  Values,
  Default,          \* an empty blob, or the default value
  NoValue,
  QueueLength,      \* the messages under way to the controller, at most
  EditsUnderWay     \* the edits under way to the processor and by the DAW, at most

ASSUME ParameterSyncAssumption ==
  /\ {DawParameters, Blobs, Inputs, Outputs, Edited, SetByController} \subseteq SUBSET Parameters
  /\ Automated \subseteq DawParameters
  \* neither the DAW nor setPinFromUi takes a blob
  /\ Blobs \cap (DawParameters \cup Edited) = {}
  /\ Default \in Values /\ NoValue \notin Values
  /\ {QueueLength, EditsUnderWay} \subseteq Nat \ {0}

VARIABLES
  store,                     \* processor: patchManager.parameters
  waiting, serviced, dirty,  \* processor: pendingControllerQueueClients
  events,                    \* processor: the PinSet queued for a pin, or NoValue
  dsp,                       \* the plugin's processor: the value of its input pin
  controller,                \* controller: patchManager.parameters
  m_editors,                 \* controller: the open editors
  pins,                      \* the value each editor's pins show, Default while it is closed
  untold,                    \* for the properties: <<e, p>> if e was open when the plugin's
                             \* controller set p, and its pins of p have not been set since
  toController, toProcessor, \* messages on their way
  toDaw                      \* what the DAW will hand to the processor

lineVars == <<waiting, serviced, dirty>>
processorVars == <<store, lineVars, events, dsp>>
controllerVars == <<controller, m_editors, pins, untold>>
queueVars == <<toController, toProcessor, toDaw>>
vars == <<processorVars, controllerVars, queueVars>>

Line == INSTANCE WaiterQueue WITH Clients <- Parameters

-----------------------------------------------------------------------------
\* start_processor gives every input pin its parameter's value; an empty blob
\* is what the pin has anyway.
seeds(values) ==
  [p \in Inputs |-> IF p \in Blobs /\ values[p] = Default THEN NoValue ELSE values[p]]

Init ==
  /\ store = [p \in Parameters |-> Default]
  /\ Line!Init
  /\ events = seeds(store)
  /\ dsp = [p \in Inputs |-> Default]
  /\ controller = [p \in Parameters |-> Default]
  /\ m_editors = {}
  /\ pins = [e \in Editors |-> [p \in Parameters |-> Default]]
  /\ untold = {}
  /\ toController = <<>>
  /\ toProcessor = <<>>
  /\ toDaw = <<>>

-----------------------------------------------------------------------------
(* The processor: the audio thread *)

\* Mutant of sendParameterToProcessor: the older event for the pin stays.
sendParameterOnce(p, v) ==
  events' = IF p \in Inputs /\ events[p] = NoValue THEN [events EXCEPT ![p] = v] ELSE events

\* EventQue::push: a newer value for a pin at the same time takes the place
\* of the older one.
sendParameterToProcessor(p, v) ==
  events' = IF p \in Inputs THEN [events EXCEPT ![p] = v] ELSE events

\* With sendToEditor, as wrappers without a parameter path of their own to
\* the editor ask for.
setParameterNormalizedFromDaw(p, v) ==
  /\ store' = [store EXCEPT ![p] = v]
  /\ IF v = store[p]
       THEN UNCHANGED <<events, lineVars>>
       ELSE sendParameterToProcessor(p, v) /\ Line!Add(p)

\* The DAW hands over the next of its events.
DawEvent ==
  /\ toDaw # <<>>
  /\ LET change == Head(toDaw) IN setParameterNormalizedFromDaw(change[1], change[2])
  /\ toDaw' = Tail(toDaw)
  /\ UNCHANGED <<dsp, controllerVars, toController, toProcessor>>

\* onQueMessageReady of the processor: "ppc2" and "ppc3" alike do nothing
\* when the value is the one the store has.
ReceiveFromController ==
  /\ toProcessor # <<>>
  /\ LET p == Head(toProcessor)[1]
         v == Head(toProcessor)[2]
     IN  /\ store' = [store EXCEPT ![p] = v]
         /\ IF v = store[p] THEN UNCHANGED events ELSE sendParameterToProcessor(p, v)
  /\ toProcessor' = Tail(toProcessor)
  /\ UNCHANGED <<lineVars, dsp, controllerVars, toController, toDaw>>

\* The plugin's process() is given the events, and the list is cleared.
Process ==
  /\ \E p \in Inputs : events[p] # NoValue
  /\ dsp' = [p \in Inputs |-> IF events[p] = NoValue THEN dsp[p] ELSE events[p]]
  /\ events' = [p \in Inputs |-> NoValue]
  /\ UNCHANGED <<store, lineVars, controllerVars, queueVars>>

\* Mutant of setPin: a parameter that is in line is not put there again, not
\* even after its turn.
setPinInLine(p, v) ==
  /\ \A q \in Inputs : events[q] = NoValue
  /\ store' = [store EXCEPT ![p] = v]
  /\ IF p \in Line!InLine THEN UNCHANGED lineVars ELSE Line!Add(p)
  /\ UNCHANGED <<events, dsp, controllerVars, queueVars>>

\* The plugin sets an output pin, from process(), after the events were
\* delivered.  A blob is sent though it is the same as the last.
setPin(p, v) ==
  /\ p \in Outputs
  /\ \A q \in Inputs : events[q] = NoValue
  /\ store' = [store EXCEPT ![p] = v]
  /\ IF v = store[p] /\ p \notin Blobs THEN UNCHANGED lineVars ELSE Line!Add(p)
  /\ UNCHANGED <<events, dsp, controllerVars, queueVars>>

\* ServiceWaitersIncremental: a parameter's turn comes, if there is room.
Service ==
  /\ Len(toController) < QueueLength
  /\ Line!Service
  /\ LET p == waiting[serviced + 1] IN toController' = Append(toController, <<p, store[p]>>)
  /\ UNCHANGED <<store, events, dsp, controllerVars, toProcessor, toDaw>>

\* ServiceWaitersIncremental: the GUI frame ends.
EndFrame ==
  /\ Line!Remove
  /\ UNCHANGED <<store, events, dsp, controllerVars, queueVars>>

\* A new instance of the plugin's processor: what was queued for the old one
\* is dropped, and every pin is given the store's value.
start_processor ==
  /\ dsp' = [p \in Inputs |-> Default]
  /\ events' = seeds(store)
  /\ UNCHANGED <<store, lineVars, controllerVars, queueVars>>

-----------------------------------------------------------------------------
(* The controller: the UI thread *)

\* Mutant of onParameterChangedByPlugin: the DAW is taken to carry everything.
onlyTellTheDaw(p, v) ==
  /\ toDaw' = IF p \in DawParameters THEN Append(toDaw, <<p, v>>) ELSE toDaw
  /\ UNCHANGED toProcessor

onParameterChangedByPlugin(p, v) ==
  IF p \in DawParameters
    THEN toDaw' = Append(toDaw, <<p, v>>) /\ UNCHANGED toProcessor
    ELSE toProcessor' = Append(toProcessor, <<p, v>>) /\ UNCHANGED toDaw

roomForEdit == Len(toDaw) < EditsUnderWay /\ Len(toProcessor) < EditsUnderWay

\* The user moves a control of an open editor: every pin but the blobs' of
\* every open editor is set, the changed parameter's and the others'.
setPinFromUi(e, p, v) ==
  /\ e \in m_editors
  /\ p \in Edited
  /\ roomForEdit
  /\ v # controller[p]
  /\ controller' = [controller EXCEPT ![p] = v]
  /\ pins' = [f \in Editors |-> [q \in Parameters |->
                IF f \in m_editors /\ q \notin Blobs THEN controller'[q] ELSE pins[f][q]]]
  /\ untold' = untold \cap (Editors \X Blobs)
  /\ onParameterChangedByPlugin(p, v)
  /\ UNCHANGED <<processorVars, m_editors, toController>>

\* The plugin's controller changes a parameter; no editor is told.
setParameter(p, v) ==
  /\ p \in SetByController
  /\ roomForEdit
  /\ v # controller[p]
  /\ controller' = [controller EXCEPT ![p] = v]
  /\ untold' = untold \cup (m_editors \X {p})
  /\ onParameterChangedByPlugin(p, v)
  /\ UNCHANGED <<processorVars, m_editors, pins, toController>>

\* The pins of a parameter in every open editor.
pinsWith(p, v) ==
  [e \in Editors |-> IF e \in m_editors THEN [pins[e] EXCEPT ![p] = v] ELSE pins[e]]

\* onQueMessageReady of the controller; a "ppc2" that changes nothing sets no
\* pin, a "ppc3" always does.
ReceiveFromProcessor ==
  /\ toController # <<>>
  /\ LET p == Head(toController)[1]
         v == Head(toController)[2]
     IN  /\ controller' = [controller EXCEPT ![p] = v]
         /\ IF v = controller[p] /\ p \notin Blobs
              THEN UNCHANGED <<pins, untold>>
              ELSE pins' = pinsWith(p, v) /\ untold' = untold \ (Editors \X {p})
  /\ toController' = Tail(toController)
  /\ UNCHANGED <<processorVars, m_editors, toProcessor, toDaw>>

\* Mutant of initUi: the editor opens with what its pins are made with.
initUiBare(e) ==
  /\ e \notin m_editors
  /\ m_editors' = m_editors \cup {e}
  /\ UNCHANGED <<processorVars, controller, pins, untold, queueVars>>

initUi(e) ==
  /\ e \notin m_editors
  /\ m_editors' = m_editors \cup {e}
  /\ pins' = [pins EXCEPT ![e] = controller]
  /\ UNCHANGED <<processorVars, controller, untold, queueVars>>

unRegisterGui(e) ==
  /\ e \in m_editors
  /\ m_editors' = m_editors \ {e}
  /\ pins' = [pins EXCEPT ![e] = [p \in Parameters |-> Default]]
  /\ untold' = untold \ ({e} \X Parameters)
  /\ UNCHANGED <<processorVars, controller, queueVars>>

\* The DAW plays an automation point.
Automate(p, v) ==
  /\ Len(toDaw) < EditsUnderWay
  /\ toDaw' = Append(toDaw, <<p, v>>)
  /\ UNCHANGED <<processorVars, controllerVars, toController, toProcessor>>

-----------------------------------------------------------------------------
Next ==
  \/ DawEvent
  \/ ReceiveFromController
  \/ Process
  \/ \E p \in Outputs, v \in Values : setPin(p, v)
  \/ Service
  \/ EndFrame
  \/ start_processor
  \/ \E e \in Editors, p \in Edited, v \in Values : setPinFromUi(e, p, v)
  \/ \E p \in SetByController, v \in Values : setParameter(p, v)
  \/ ReceiveFromProcessor
  \/ \E e \in Editors : initUi(e)
  \/ \E e \in Editors : unRegisterGui(e)
  \/ \E p \in Automated, v \in Values : Automate(p, v)

Spec == Init /\ [][Next]_vars

-----------------------------------------------------------------------------
(* Properties *)

Change == Parameters \X Values

\* Every variable has its type.
TypeOK ==
  /\ {store, controller} \subseteq [Parameters -> Values]
  /\ Line!TypeOK
  /\ events \in [Inputs -> Values \cup {NoValue}]
  /\ dsp \in [Inputs -> Values]
  /\ m_editors \subseteq Editors
  /\ pins \in [Editors -> [Parameters -> Values]]
  /\ untold \subseteq Editors \X Parameters
  /\ {toController, toProcessor, toDaw} \subseteq Seq(Change)

UnderWay(queue, p) == \E i \in 1..Len(queue) : queue[i][1] = p

\* The last value for p on a queue, or what is there without one.
lastOf(queue, p, otherwise) ==
  IF UnderWay(queue, p)
    THEN LET last == CHOOSE i \in 1..Len(queue) :
                       /\ queue[i][1] = p
                       /\ \A j \in i+1..Len(queue) : queue[j][1] # p
         IN  queue[last][2]
    ELSE otherwise

\* Once nothing about a parameter is under way the two stores agree on it.
StoresAgreeAtRest ==
  \A p \in Parameters :
    p \in dirty \/ UnderWay(toController, p) \/ UnderWay(toProcessor, p) \/ UnderWay(toDaw, p)
      \/ controller[p] = store[p]

\* The processor's newest value of p waits for its turn or is the last that the
\* controller has or will read.
ReachesController(p) == p \in dirty \/ lastOf(toController, p, controller[p]) = store[p]

\* The controller's newest value of p is the last that the processor has or will
\* read.
ReachesProcessor(p) == lastOf(toProcessor, p, store[p]) = controller[p]

\* No newest value is lost between the dirty flags, the line and the queues: of a
\* parameter that the plugin's processor alone sets the store's; of one that only
\* the user and the plugin's controller set the controller's; of one that the DAW
\* carries the store's, unless the controller shows an edit that the DAW has yet
\* to deliver.
NewestIsOnItsWay ==
  /\ \A p \in Outputs \ (Edited \cup SetByController \cup DawParameters) : ReachesController(p)
  /\ \A p \in Parameters \ (Outputs \cup DawParameters) : ReachesProcessor(p)
  /\ \A p \in DawParameters :
       \/ ReachesController(p)
       \/ /\ ~UnderWay(toController, p)
          /\ \E i \in 1..Len(toDaw) : toDaw[i] = <<p, controller[p]>>

\* What an input pin has, or will have after the next block, is what the store
\* has, through restarts too: "the DSP never starts on a stale value".  An
\* event for a blob points into the store, so it has to be for the bytes there.
PinsFollowStore ==
  /\ TypeOK
  /\ \A p \in Inputs \ Outputs :
       IF events[p] = NoValue THEN dsp[p] = store[p] ELSE events[p] = store[p]

\* "The plugin Editor and Processor are merely 'observers of the state' and
\* are each notified ... of any change in the state": an open editor shows
\* what the controller has, of every parameter but those that the plugin's
\* controller has set, which tells no editor, since their pins were last set.
EditorsShowController ==
  \A e \in m_editors, p \in Parameters : <<e, p>> \in untold \/ pins[e][p] = controller[p]

=============================================================================
