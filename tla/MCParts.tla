----------------------------- MODULE MCParts -----------------------------
(* The parts of IndependentParts, one in each behaviour, and two more: a    *)
(* message queue that is reset at any time (InterThreadQue, extended), and  *)
(* clients of QueuedUsers whose messages fit.                               *)
EXTENDS IndependentParts, InterThreadQue

CONSTANTS
  Parts,         \* which of them are explored
  note, blob

VARIABLES
  part,
  waitingClientsHead, waitingClientsTail, currentClient, next_, inQue, dirty, servicedCount,
  cumulativesampleFrames, sampleFramesPerClient, sfAccumulator, oversize, multipartChunkIndex,
  usersReadIndex, payload, pc, usersFreeSpace, count, sentData, size, unsent, ready

grabVars == <<m_editors, isGrabbed, gestures, held>>
presetVars == <<parameters, document, saved, running, events, pins>>
pluginVars == <<registrations, pluginMap, xmls, index, plugins, read, chosen, instance>>
referenceVars == <<refCount2_, obj, todo, usedDeleted, orphaned>>
blobVars == <<data_, viewCounts, wire, value_>>
filterVars == <<inputStreams, subProcess, actualSubProcess, historyIdx, staticOutputs, streaming,
                heard, heldFor>>
queVars == vars
userVars == <<waitingClientsHead, waitingClientsTail, currentClient, next_, inQue, dirty, servicedCount,
  cumulativesampleFrames, sampleFramesPerClient, sfAccumulator, oversize, multipartChunkIndex,
  usersReadIndex, payload, pc, usersFreeSpace, count, sentData, size, unsent, ready>>

-----------------------------------------------------------------------------
(* Modules of one plugin, with up to two parameters and three pins; of two  *)
(* plugins in one XML, one of them without an id; and of two XMLs.          *)
parameter(id, datatype, private) ==
  [id |-> id, datatype |-> datatype, private |-> private, persistant |-> TRUE]

hostPin(hc) ==
  [id |-> Absent, parameterId |-> Absent, hostConnect |-> hc, parameterField |-> "Value",
   direction |-> "In", datatype |-> Absent]

parameterPin(id, field) ==
  [id |-> Absent, parameterId |-> id, hostConnect |-> "None", parameterField |-> field,
   direction |-> "In", datatype |-> Absent]

SomeParameters ==
  LET one(id) == { <<parameter(id, d, b)>> : d \in {"Float32", "Enum", "Blob"}, b \in BOOLEAN }
  IN  {<<>>} \cup one(0) \cup { p \o q : p \in one(1), q \in one(0) }

SomePins(parameterIds, field) ==
  { <<>> } \cup { <<hostPin(hc)>> : hc \in {"TimeBpm", "ProcessBypass"} }
           \cup { <<parameterPin(id, field)>> : id \in parameterIds }

plugin(id, ps, audio, gui) ==
  [id |-> id, parameters |-> ps, audioPins |-> audio, guiPins |-> gui]

SomePlugins(id) ==
  UNION { { plugin(id, ps, audio \o more, gui) :
              audio \in SomePins({ ps[i].id : i \in DOMAIN ps }, "Value"),
              more \in SomePins({}, "Value"),
              gui \in SomePins({ ps[i].id : i \in DOMAIN ps }, "Normalized") }
          : ps \in SomeParameters }

Simple(id) == plugin(id, << >>, << >>, << >>)

ModulesOf(p) ==
  { { [subType |-> "Audio", xml |-> <<p>>] },
    { [subType |-> "Audio", xml |-> <<p>>], [subType |-> "Editor", id |-> p.id] } }

SomeModules ==
  UNION { ModulesOf(p) : p \in SomePlugins("P") }
  \cup { { [subType |-> "Audio", xml |-> <<Simple("P"), Simple("Q")>>], [subType |-> "Audio", id |-> "Q"] },
         { [subType |-> "Audio", xml |-> <<Simple("P"), Simple(Absent)>>] },
         { [subType |-> "Audio", xml |-> <<Simple("P")>>], [subType |-> "Audio", xml |-> <<Simple("Q")>>] } }

(* As in MCInterThreadQue, with one message of each kind.                   *)
MCLength == [m \in Message |-> IF m = note THEN 1 ELSE 5]

(* Two clients whose messages always fit.                                   *)
Users == INSTANCE QueuedUsers WITH
  Clients <- {"c1", "c2"}, NoClient <- "none", Payloads <- {1}, SampleFrames <- {1, 4},
  TotalSpace <- 9, HeaderLength <- 1, MultipartPayload <- 1, SafetyZone <- 2,
  MultipartSafetyZone <- 3, SampleFramesPerCycle <- 3, FirstFramesPerClient <- 2,
  FewestClients <- 2, multipartReadIndex <- usersReadIndex, freeSpace <- usersFreeSpace

-----------------------------------------------------------------------------
MCInit ==
  /\ part \in Parts
  /\ Grabs!Init
  /\ Store!Init
  /\ registrations \in (IF part = "plugins" THEN Modules ELSE {{}})
  /\ Discovery!NothingRead
  /\ Counts!Init
  /\ Pool!Init
  /\ Settling!Init
  /\ Init
  /\ Users!Init

MCNext ==
  /\ UNCHANGED part
  /\ \/ /\ part = "grabs" /\ Grabs!Next
        /\ UNCHANGED <<presetVars, pluginVars, referenceVars, blobVars, filterVars, queVars, userVars>>
     \/ /\ part = "presets" /\ Store!Next
        /\ UNCHANGED <<grabVars, pluginVars, referenceVars, blobVars, filterVars, queVars, userVars>>
     \/ /\ part = "plugins" /\ Discovery!Next
        /\ UNCHANGED <<grabVars, presetVars, referenceVars, blobVars, filterVars, queVars, userVars>>
     \/ /\ part = "references" /\ Counts!Next
        /\ UNCHANGED <<grabVars, presetVars, pluginVars, blobVars, filterVars, queVars, userVars>>
     \/ /\ part = "blobs" /\ Pool!Next
        /\ UNCHANGED <<grabVars, presetVars, pluginVars, referenceVars, filterVars, queVars, userVars>>
     \/ /\ part = "filter" /\ Settling!Next
        /\ UNCHANGED <<grabVars, presetVars, pluginVars, referenceVars, blobVars, queVars, userVars>>
     \/ /\ part = "reset" /\ Next
        /\ UNCHANGED <<grabVars, presetVars, pluginVars, referenceVars, blobVars, filterVars, userVars>>
     \/ /\ part = "users" /\ Users!Next
        /\ UNCHANGED <<grabVars, presetVars, pluginVars, referenceVars, blobVars, filterVars, queVars>>

MCSpec ==
  MCInit /\ [][MCNext]_<<part, grabVars, presetVars, pluginVars, referenceVars, blobVars,
                         filterVars, queVars, userVars>>

\* The fairness of QueuedUsers; no other part has any.
MCFairSpec ==
  /\ MCSpec
  /\ WF_userVars(part = "users" /\ Users!Service)
  /\ WF_userVars(part = "users" /\ ready > 0 /\ Users!Consume(ready))

-----------------------------------------------------------------------------
(* The properties are those of the modules, where they are explained.       *)

\* Who registered with an XML is listed by the host's factory.
EveryRegisteredPluginIsListed == Discovery!EveryRegisteredPluginIsListed

\* A filter counts as settled when its outputs have not changed for long enough.
SettledMeansHeld == Settling!SettledMeansHeld

\* No deleted object is called.
NoDeletedObjectIsUsed == Counts!NoDeletedObjectIsUsed

\* No preset puts a stale value over one the host has published.
HostValuesAreNotStale == Store!HostValuesAreNotStale

\* A client that changed is serviced in the end, if every message fits the fifo.
EveryUpdateIsServiced == Users!EveryUpdateIsServiced

=============================================================================
