---------------------------- MODULE PluginFactory ----------------------------
(***************************************************************************)
(* How the host learns what plugins there are.  Static initialisers of the *)
(* plugin's source files register its classes with MpFactory (Core/Common),*)
(* in whatever order the linker chose; later the host's factory            *)
(* (Hosting/gmpi_factory) asks for every XML there is and reads it, and    *)
(* the DAW's wrapper initialises the holders of parameters and has         *)
(* instances made.                                                         *)
(***************************************************************************)
EXTENDS PluginXml

CONSTANTS
  Modules   \* the modules that may be built: sets of registrations, each
            \* [subType, xml] or [subType, id]

VARIABLES
  registrations,  \* the static initialisers that have not run
  pluginMap,      \* MpFactory: the classes that can be made, as <<subType, id>>
  xmls,           \* MpFactory: the XMLs, in the order registered
  index,          \* factory(): the next XML to ask for
  plugins,        \* factory: what the host can list
  read,           \* whether factory() has returned
  chosen,         \* the plugin info the holders are initialised with, or NoPlugin
  instance        \* the last answer of createInstance

vars == <<registrations, pluginMap, xmls, index, plugins, read, chosen, instance>>

NoPlugin == [id |-> Absent, parameters |-> <<>>, dspPins |-> <<>>, guiPins |-> <<>>]

withXml(r) == "xml" \in DOMAIN r

\* RegisterPluginWithXml looks for the first id in the text.
uniqueId(xml) == xml[1].id

\* The XMLs are sound: IsSound says in what respect.
PluginFactoryAssumption ==
  /\ Absent \notin {"Enum", "Int32", "Float32", "Bool"}
  /\ \A m \in Modules : \A r \in m :
       withXml(r) => IsSequence(r.xml) /\ \A k \in DOMAIN r.xml : IsSound(r.xml[k])

-----------------------------------------------------------------------------
NothingRead ==
  /\ pluginMap = {}
  /\ xmls = <<>>
  /\ index = 0
  /\ plugins = <<>>
  /\ read = FALSE
  /\ chosen = NoPlugin
  /\ instance = "none"

Init == registrations \in Modules /\ NothingRead

RegisterPluginWithXml(r) ==
  /\ withXml(r)
  /\ registrations' = registrations \ {r}
  /\ pluginMap' = pluginMap \cup {<<r.subType, uniqueId(r.xml)>>}
  /\ xmls' = Append(xmls, r.xml)
  /\ UNCHANGED <<index, plugins, read, chosen, instance>>

RegisterPlugin(r) ==
  /\ ~withXml(r)
  /\ registrations' = registrations \ {r}
  /\ pluginMap' = pluginMap \cup {<<r.subType, r.id>>}
  /\ UNCHANGED <<xmls, index, plugins, read, chosen, instance>>

\* A turn of the loop in factory::factory().
ReadNext ==
  /\ registrations = {}
  /\ ~read
  /\ index < Len(xmls)
  /\ plugins' = readpluginXml(xmls[index + 1])
  /\ index' = index + 1
  /\ UNCHANGED <<registrations, pluginMap, xmls, read, chosen, instance>>

\* getPluginInformation fails: there is no XML of that index.
EndRead ==
  /\ registrations = {}
  /\ ~read
  /\ index >= Len(xmls)
  /\ read' = TRUE
  /\ UNCHANGED <<registrations, pluginMap, xmls, index, plugins, chosen, instance>>

\* The wrapper takes one of the listed plugins for its holders.
getPluginInfo(i) ==
  /\ read
  /\ i < Len(plugins)
  /\ chosen' = plugins[i + 1]
  /\ UNCHANGED <<registrations, pluginMap, xmls, index, plugins, read, instance>>

\* gmpi_factory's createInstance calls that of MpFactory.
createInstance(id, subType) ==
  /\ read
  /\ instance' = IF <<subType, id>> \in pluginMap THEN "Ok" ELSE "NoSupport"
  /\ UNCHANGED <<registrations, pluginMap, xmls, index, plugins, read, chosen>>

Next ==
  \/ \E r \in registrations : RegisterPluginWithXml(r) \/ RegisterPlugin(r)
  \/ ReadNext
  \/ EndRead
  \/ \E i \in 0..Len(plugins) - 1 : getPluginInfo(i)
  \/ \E subType \in {"Audio", "Editor"} : createInstance(chosen.id, subType)

Spec == Init /\ [][Next]_vars

-----------------------------------------------------------------------------
(* Properties *)

\* "the index must line up strictly with the parameter DAW tag": the assertion
\* of both holders' init.  What the DAW cannot show has no tag, and bypass is
\* "a standard parameter at the end of the list", with an id nobody else has.
TagsAreIndices ==
  \A i \in DOMAIN plugins :
    LET parameters == plugins[i].parameters
        native == nativeParams(plugins[i])
    IN  /\ \A t \in DOMAIN native :
             /\ native[t].dawTag = t - 1
             /\ native[t].datatype \notin {"String", "Blob", "Midi"}
             /\ native[t].hostConnect \in {"None", "ProcessBypass"}
             /\ native[t].hostConnect = "ProcessBypass" => t = Len(native)
        /\ \A j, k \in DOMAIN parameters : parameters[j].id = parameters[k].id => j = k

\* Every pin that shows a parameter or a host control finds it by its
\* parameterId in the holders' stores, and takes its values as they are: a pin
\* for the value that names no datatype has its parameter's.
PinsFindTheirParameter ==
  \A i \in DOMAIN plugins :
    LET pins == plugins[i].dspPins \o plugins[i].guiPins
        parameters == plugins[i].parameters
    IN  \A k \in DOMAIN pins :
          pins[k].parameterId # -1 =>
            \E j \in DOMAIN parameters :
              /\ parameters[j].id = pins[k].parameterId
              /\ parameters[j].hostConnect = pins[k].hostConnect
              /\ pins[k].parameterFieldType = "Value" => pins[k].datatype = parameters[j].datatype

\* "return a specific plugin, if there are more than one": whoever registered
\* is listed, not only the plugins of the last XML.
EveryRegisteredPluginIsListed ==
  read => \A i \in DOMAIN xmls : \A k \in DOMAIN xmls[i] :
            xmls[i][k].id # Absent => \E j \in DOMAIN plugins : plugins[j].id = xmls[i][k].id

=============================================================================
