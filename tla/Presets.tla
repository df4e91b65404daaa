------------------------------- MODULE Presets -------------------------------
(***************************************************************************)
(* The <Preset> documents that a store of parameters is written to and     *)
(* read from (writePresetXml, readPresetXml in Hosting/controller_holder), *)
(* with the store of Hosting/processor_holder, which an instance of the    *)
(* plugin's processor follows: start_processor makes an instance and gives *)
(* its pins the store's values, later changes reach them as events.  The   *)
(* controller's store has the same writer and reader.                      *)
(*                                                                         *)
(* The wrapper is external: it keeps documents and gives them back in any  *)
(* order, possibly edited; it touches the store ("Unsafe") only while no   *)
(* audio callback runs, and starts a new instance before the next one.     *)
(***************************************************************************)
EXTENDS Integers, FiniteSets

CONSTANTS
  Parameters,
  NonStateful,    \* persistant="false"
  HostControls,   \* the parameters that stand for host controls
  Blobs,          \* parameters of datatype Blob
  Inputs,         \* those with an input pin of the processor
  Values,
  Default,        \* the default of a scalar; a blob's is to be empty
  NoValue,        \* no event, or a pin that was never set
  Missing,        \* a parameter without a <Param>
  NoText          \* a <Param> without a val

PresetsAssumption ==
  /\ NonStateful \cup HostControls \cup Blobs \cup Inputs \subseteq Parameters
  /\ HostControls \cap (Blobs \cup NonStateful) = {}
  /\ Default \in Values /\ NoValue \notin Values
  /\ {Missing, NoText} \cap [base64 : BOOLEAN, of : Values] = {}

VARIABLES
  parameters,  \* patchManager.parameters: the value of each
  document,    \* the document outside: a text for each parameter, or not a preset
  saved,       \* for the properties: what document was written from, or Missing
  running,     \* whether audio callbacks run
  events,      \* for each input the PinSet event in the queue
  pins         \* the values the instance has on its pins

vars == <<parameters, document, saved, running, events, pins>>

-----------------------------------------------------------------------------
(* Texts *)

\* Mutant of toXml: everything is written through valueReal, which is 0 for a
\* value that is not a scalar.
toNumber(p, value) ==
  [base64 |-> FALSE, of |-> IF p \in Blobs THEN Default ELSE value]

toXml(p, value) == [base64 |-> p \in Blobs, of |-> value]

\* A text of the other kind is read as nothing, which is a scalar's zero too.
setFromXml(p, text) == IF text.base64 <=> p \in Blobs THEN text.of ELSE Default

NotAPreset == [p \in {} |-> Missing]

-----------------------------------------------------------------------------
(* The writer and the reader *)

writePresetXml ==
  [p \in Parameters |-> IF p \in NonStateful THEN Missing ELSE toXml(p, parameters[p])]

\* Mutant of mayReset: only what is not saved is spared.
mayResetHostControls(p) == p \notin NonStateful

mayReset(p) == p \notin HostControls \cup NonStateful

\* Non-stateful parameters are left alone; of the others those that have a
\* text take it, and those left out return to their default, but not host
\* controls.  Without a <Preset> nothing changes.
readPresetXml(doc) ==
  IF doc = NotAPreset
    THEN parameters
    ELSE [p \in Parameters |->
            IF p \in NonStateful THEN parameters[p]
            ELSE IF doc[p] = Missing THEN (IF mayReset(p) THEN Default ELSE parameters[p])
            ELSE IF doc[p] = NoText THEN parameters[p]
            ELSE setFromXml(p, doc[p])]

-----------------------------------------------------------------------------
Init ==
  /\ parameters = [p \in Parameters |-> Default]
  /\ document = NotAPreset
  /\ saved = Missing
  /\ running = FALSE
  /\ events = [p \in Inputs |-> NoValue]
  /\ pins = [p \in Inputs |-> NoValue]

\* setHostControlFromDaw, setParameterNormalizedFromDaw and the controller's
\* messages, on the audio thread: a value the store has already is dropped;
\* another goes to the input pin, where it replaces a waiting event.
SetParameter(p, value) ==
  /\ running
  /\ value # parameters[p]
  /\ parameters' = [parameters EXCEPT ![p] = value]
  /\ events' = IF p \in Inputs THEN [events EXCEPT ![p] = value] ELSE events
  /\ UNCHANGED <<document, saved, running, pins>>

\* The host takes the plugin out of its audio graph.
Stop ==
  /\ running
  /\ running' = FALSE
  /\ UNCHANGED <<parameters, document, saved, events, pins>>

getPresetUnsafe ==
  /\ ~running
  /\ document' = writePresetXml
  /\ saved' = parameters
  /\ UNCHANGED <<parameters, running, events, pins>>

\* The file is edited: an entry goes, loses its text, or comes from a version
\* that wrote everything, or the file is not a preset at all.
EditDocument ==
  /\ saved # Missing
  /\ \/ \E p \in Parameters, text \in {Missing, NoText} \cup { toXml(q, v) : q \in Parameters, v \in Values } :
          document' = [document EXCEPT ![p] = text]
     \/ document' = [p \in Parameters |-> Missing]
     \/ document' = NotAPreset
  /\ document' # document
  /\ saved' = Missing
  /\ UNCHANGED <<parameters, running, events, pins>>

setPresetUnsafe ==
  /\ ~running
  /\ parameters' = readPresetXml(document)
  /\ UNCHANGED <<document, saved, running, events, pins>>

\* Mutant of start_processor: the queue of the old instance is not emptied.
start_processorKeepingEvents ==
  /\ ~running
  /\ running' = TRUE
  /\ pins' = [p \in Inputs |-> NoValue]
  /\ events' = [p \in Inputs |->
                  IF p \in Blobs /\ parameters[p] = Default THEN events[p] ELSE parameters[p]]
  /\ UNCHANGED <<parameters, document, saved>>

\* A new instance; the queue is emptied and every input gets its parameter's
\* value, except an empty blob: "a later change will deliver it".
start_processor ==
  /\ ~running
  /\ running' = TRUE
  /\ pins' = [p \in Inputs |-> NoValue]
  /\ events' = [p \in Inputs |->
                  IF p \in Blobs /\ parameters[p] = Default THEN NoValue ELSE parameters[p]]
  /\ UNCHANGED <<parameters, document, saved>>

\* process() delivers the events.
process ==
  /\ running
  /\ pins' = [p \in Inputs |-> IF events[p] = NoValue THEN pins[p] ELSE events[p]]
  /\ events' = [p \in Inputs |-> NoValue]
  /\ UNCHANGED <<parameters, document, saved, running>>

Next ==
  \/ \E p \in Parameters, value \in Values : SetParameter(p, value)
  \/ Stop
  \/ getPresetUnsafe
  \/ EditDocument
  \/ setPresetUnsafe
  \/ start_processor
  \/ process

Spec == Init /\ [][Next]_vars

-----------------------------------------------------------------------------
(* Properties *)

\* Every variable has its type.
TypeOK ==
  /\ parameters \in [Parameters -> Values]
  /\ document \in {NotAPreset} \cup
       [Parameters -> [base64 : BOOLEAN, of : Values] \cup {Missing, NoText}]
  /\ saved \in [Parameters -> Values] \cup {Missing}
  /\ running \in BOOLEAN
  /\ {events, pins} \subseteq [Inputs -> Values \cup {NoValue}]

\* "the pair is not a round trip" unless reader and writer agree: reading a
\* preset brings back what was written, of every datatype and whatever the
\* store held meanwhile.  A text that is no preset changes nothing, and an
\* empty preset resets what the plugin saves: "that is how a
\* revert-to-defaults is spelled".
RestoreGivesWhatWasSaved ==
  [][setPresetUnsafe =>
       /\ saved # Missing =>
            \A p \in Parameters \ (NonStateful \cup HostControls) : parameters'[p] = saved[p]
       /\ document = NotAPreset => parameters' = parameters
       /\ document = [p \in Parameters |-> Missing] =>
            \A p \in Parameters \ (NonStateful \cup HostControls) : parameters'[p] = Default
    ]_vars

\* A non-stateful value (such as a live pointer) survives any document, old ones
\* that name it included.  A host control survives those that do not name it;
\* one that does gives it the value it says, and nothing else.
PresetsLeaveSessionValuesAlone ==
  [][setPresetUnsafe =>
       /\ \A p \in NonStateful : parameters'[p] = parameters[p]
       /\ \A p \in HostControls :
            \/ parameters'[p] = parameters[p]
            \/ /\ document # NotAPreset /\ document[p] \notin {Missing, NoText}
               /\ parameters'[p] = setFromXml(p, document[p])]_vars

\* "Both RESET passes do skip them, so nothing applies a stale one over a value
\* the host has published", of host controls in a document that was written by
\* this store.  Not so: such a document names them, and what it says is applied.
HostValuesAreNotStale ==
  [][setPresetUnsafe /\ saved # Missing
       => \A p \in HostControls : parameters'[p] = parameters[p]]_vars

\* An instance started after a preset, or after a change that the old one had
\* not been given yet, has the store's values on its pins as soon as the
\* events are delivered; a blob without an event is empty in the store too.
InstanceFollowsStore ==
  /\ TypeOK
  /\ running => \A p \in Inputs :
       LET coming == IF events[p] # NoValue THEN events[p] ELSE pins[p]
       IN  \/ coming = parameters[p]
           \/ coming = NoValue /\ p \in Blobs /\ parameters[p] = Default

=============================================================================
