---------------------------- MODULE IndependentParts ----------------------------
(***************************************************************************)
(* Parts of the hosting code and of the SDK that do not interact, side by  *)
(* side: the grabs of editors, the presets of a store, counted references, *)
(* a sender's pool of shared blobs, a filter that settles, and the         *)
(* discovery of plugins.                                                   *)
(***************************************************************************)
EXTENDS Integers, Sequences

CONSTANTS
  Editors, Parameters, DawParameters,
  StoreParameters, NonStateful, HostParameters, Blobs, Inputs, Values, Default, NoValue, Missing,
  NoText,
  Objects, Locals, nullptr,
  Views, Pins, First, Contents, Nothing, QueueBound,
  outputPins, Levels, Quiet, historyCount, SliceLengths,
  Modules, Absent

VARIABLES
  m_editors, isGrabbed, gestures, held,
  parameters, document, saved, running, events, pins,
  refCount2_, obj, todo, usedDeleted, orphaned,
  data_, viewCounts, wire, value_,
  inputStreams, subProcess, actualSubProcess, historyIdx, staticOutputs, streaming, heard, heldFor,
  registrations, pluginMap, xmls, index, plugins, read, chosen, instance

Grabs == INSTANCE EditorGrabs
Store == INSTANCE Presets WITH
  Parameters <- StoreParameters, HostControls <- HostParameters
Counts == INSTANCE References
Pool == INSTANCE SharedBlobs WITH refCount2_ <- viewCounts
Settling == INSTANCE FilterSettling WITH held <- heldFor
Discovery == INSTANCE PluginFactory

ASSUME PartsAssumption ==
  /\ Grabs!EditorGrabsAssumption
  /\ Store!PresetsAssumption
  /\ Counts!ReferencesAssumption
  /\ Pool!SharedBlobsAssumption
  /\ Settling!FilterSettlingAssumption
  /\ Discovery!PluginFactoryAssumption

-----------------------------------------------------------------------------
(* The properties are those of the modules, where they are explained.       *)

\* The host has one gesture open for each of its parameters that is grabbed.
GesturesBalance == Grabs!GesturesBalance

\* What a plugin saves comes back from the preset it was written to.
RestoreGivesWhatWasSaved == Store!RestoreGivesWhatWasSaved

\* Presets leave non-stateful values alone, and host controls they do not name.
PresetsLeaveSessionValuesAlone == Store!PresetsLeaveSessionValuesAlone

\* An instance of the processor has the store's values on its pins.
InstanceFollowsStore == Store!InstanceFollowsStore

\* An object lives exactly as long as a pointer holds it, unless a pointer was
\* assigned what its own old object alone kept.
CountsMatchOwners == Counts!CountsMatchOwners

\* A blob is not overwritten while someone downstream has a pointer to it.
BlobsStayWhileReferenced == Pool!BlobsStayWhileReferenced

\* Outputs that do not stream do not move.
SettledOutputsStandStill == Settling!SettledOutputsStandStill

\* The DAW tag of a parameter is its index among those the DAW can show.
TagsAreIndices == Discovery!TagsAreIndices

\* A pin for a parameter or host control finds it in the holders' stores.
PinsFindTheirParameter == Discovery!PinsFindTheirParameter

=============================================================================
