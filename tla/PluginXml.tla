------------------------------ MODULE PluginXml ------------------------------
(***************************************************************************)
(* readpluginXml of Hosting/xml_spec_reader: what the hosting code makes   *)
(* of a plugin's XML.  The parameters and pins are read in order, the host *)
(* controls that the pins ask for become parameters of their own, and the  *)
(* parameters a DAW can show are numbered.                                 *)
(*                                                                         *)
(* An XML is a sequence of <Plugin> elements.  Of an element's attributes  *)
(* only those are here that decide how parameters and pins find each       *)
(* other; names, ranges and texts are not.                                 *)
(***************************************************************************)
EXTENDS Integers, Sequences, FiniteSets

CONSTANTS Absent   \* an attribute that is not given

\* HostControls, in the order of the enumeration.
HostControls ==
  <<"TimeBpm", "TimeQuarterNotePosition", "TimeTransportPlaying", "TimeBarStart",
    "TimeNumerator", "TimeDenominator", "ProcessRendermode", "ProcessBypass">>

hostControlDatatypes ==
  <<"Float32", "Float32", "Bool", "Float32", "Int32", "Int32", "Int32", "Bool">>

indexOf(hc) == CHOOSE i \in DOMAIN HostControls : HostControls[i] = hc

\* "ID becomes negative, derived from HC enum": -2 - (int)hc.
hostControlId(hc) == -2 - (indexOf(hc) - 1)

given(attribute, otherwise) == IF attribute = Absent THEN otherwise ELSE attribute

\* The elements of s at some of its positions, in their order.
ElementsAt(s, positions) ==
  [k \in 1..Cardinality(positions) |->
     s[CHOOSE i \in positions : Cardinality({ j \in positions : j < i }) = k - 1]]

-----------------------------------------------------------------------------
(* <Parameter> elements *)

\* An enum is stored as an int; without a datatype it stays zero, which is Enum.
readParameter(e) ==
  [id |-> given(e.id, -1),
   dawTag |-> -1,
   hostConnect |-> "None",
   datatype |-> IF e.datatype = "Enum" THEN "Int32" ELSE given(e.datatype, "Enum"),
   is_private |-> e.private,
   is_stateful |-> e.persistant]

-----------------------------------------------------------------------------
(* <Pin> elements: RegisterPin *)

\* What a pin carries that shows a field of a parameter; -1 in the code when it
\* is not known.
fieldDatatype(parameters, id, field) ==
  CASE field = "MenuItems" -> "String"
    [] field = "Grab" -> "Bool"
    [] field = "Automation" -> "Int32"
    [] field = "Normalized" -> "Float32"
    [] field = "Value" ->
         LET those == { i \in DOMAIN parameters : parameters[i].id = id }
             first == CHOOSE i \in those : \A j \in those : i <= j
         IN  IF those = {} THEN Absent ELSE parameters[first].datatype

subTypeDatatype(subType) == IF subType = "Audio" THEN "Audio" ELSE "Float32"

\* The pin's id is its position unless the XML gives one.
RegisterPin(parameters, e, subType, nextPinId) ==
  LET ofParameter == e.parameterId # Absent
      expected == IF ofParameter
                    THEN fieldDatatype(parameters, e.parameterId, e.parameterField)
                    ELSE IF e.hostConnect # "None"
                           THEN hostControlDatatypes[indexOf(e.hostConnect)]
                           ELSE Absent
  IN  [id |-> given(e.id, nextPinId),
       direction |-> e.direction,
       hostConnect |-> e.hostConnect,
       parameterId |-> IF ofParameter THEN e.parameterId
                       ELSE IF e.hostConnect # "None" THEN hostControlId(e.hostConnect) ELSE -1,
       parameterFieldType |-> IF ofParameter \/ e.hostConnect # "None" THEN e.parameterField ELSE "Value",
       datatype |-> given(e.datatype, given(expected, subTypeDatatype(subType)))]

readPins(parameters, elements, subType) ==
  [i \in 1..Len(elements) |-> RegisterPin(parameters, elements[i], subType, i - 1)]

-----------------------------------------------------------------------------
(* "consolidate host-controls" *)

\* The host controls that a pin of the processor or the editor asks for, each
\* once, in the order of the enumeration.
usedHostControls(info) ==
  LET asked(pins, hc) == \E k \in DOMAIN pins : pins[k].hostConnect = hc
  IN  ElementsAt(HostControls, { i \in DOMAIN HostControls : \/ asked(info.dspPins, HostControls[i])
                                                            \/ asked(info.guiPins, HostControls[i]) })

\* Mutant of bypassParamId: the last parameter is taken to have the largest id.
idAfterLast(parameters) == IF parameters = <<>> THEN 0 ELSE parameters[Len(parameters)].id + 1

\* Bypass is a standard parameter at the end of the list, after the largest id.
bypassParamId(parameters) ==
  LET ids == { parameters[i].id : i \in DOMAIN parameters } \cup {-1}
  IN  1 + CHOOSE m \in ids : \A id \in ids : id <= m

idOf(hc, parameters) ==
  IF hc = "ProcessBypass" THEN bypassParamId(parameters) ELSE hostControlId(hc)

hostParameter(hc, parameters) ==
  [id |-> idOf(hc, parameters),
   dawTag |-> -1,
   hostConnect |-> hc,
   datatype |-> hostControlDatatypes[indexOf(hc)],
   is_private |-> hc # "ProcessBypass",
   is_stateful |-> TRUE]

\* "update all pins to use the new parameter id."
renumbered(pins, parameters) ==
  [i \in DOMAIN pins |->
     IF pins[i].hostConnect = "ProcessBypass"
       THEN [pins[i] EXCEPT !.parameterId = bypassParamId(parameters)]
       ELSE pins[i]]

\* Mutant of consolidated: the editor's pins keep the id they had.
consolidatedForProcessor(info) ==
  LET used == usedHostControls(info)
  IN  [info EXCEPT !.parameters = @ \o [i \in DOMAIN used |-> hostParameter(used[i], @)],
                   !.dspPins = renumbered(@, info.parameters)]

consolidated(info) ==
  LET used == usedHostControls(info)
  IN  [info EXCEPT !.parameters = @ \o [i \in DOMAIN used |-> hostParameter(used[i], @)],
                   !.dspPins = renumbered(@, info.parameters),
                   !.guiPins = renumbered(@, info.parameters)]

-----------------------------------------------------------------------------
(* "assign DAW tags" *)

hasTag(p) == ~p.is_private /\ p.datatype \notin {"String", "Blob", "Midi"}

withTags(parameters) ==
  [i \in DOMAIN parameters |->
     IF hasTag(parameters[i])
       THEN [parameters[i] EXCEPT !.dawTag = Cardinality({ j \in 1..i - 1 : hasTag(parameters[j]) })]
       ELSE parameters[i]]

-----------------------------------------------------------------------------
(* Whole plugins *)

IsSequence(s) == Len(s) \in Nat /\ DOMAIN s = 1..Len(s)

\* What the author of the XML sees to, as nothing in the code checks it: no id
\* is used twice, and a pin shows a parameter that is there or a host control,
\* if any, whose datatype it leaves to them.
IsSound(e) ==
  LET ids == [i \in DOMAIN e.parameters |-> given(e.parameters[i].id, -1)]
      HasSoundPins(pins) ==
        /\ IsSequence(pins)
        /\ \A k \in DOMAIN pins :
             /\ pins[k].hostConnect = "None" \/ \E i \in DOMAIN HostControls : pins[k].hostConnect = HostControls[i]
             /\ pins[k].parameterId # Absent =>
                  pins[k].hostConnect = "None" /\ \E i \in DOMAIN ids : ids[i] = pins[k].parameterId
             /\ (pins[k].parameterId # Absent \/ pins[k].hostConnect # "None")
                  /\ pins[k].parameterField = "Value" => pins[k].datatype = Absent
  IN  /\ IsSequence(e.parameters)
      /\ \A i \in DOMAIN ids : ids[i] \in Int /\ ids[i] >= -1
      /\ \A i, j \in DOMAIN ids : ids[i] = ids[j] => i = j
      /\ HasSoundPins(e.audioPins)
      /\ HasSoundPins(e.guiPins)

readPlugin(e) ==
  LET parameters == [i \in DOMAIN e.parameters |-> readParameter(e.parameters[i])]
      info == consolidated([id |-> e.id,
                            parameters |-> parameters,
                            dspPins |-> readPins(parameters, e.audioPins, "Audio"),
                            guiPins |-> readPins(parameters, e.guiPins, "Editor")])
  IN  [info EXCEPT !.parameters = withTags(@)]

\* What plugins holds afterwards: it is cleared first, and a <Plugin> without
\* an id is skipped.
readpluginXml(xml) ==
  LET named == ElementsAt(xml, { k \in DOMAIN xml : xml[k].id # Absent })
  IN  [i \in DOMAIN named |-> readPlugin(named[i])]

\* gmpi_processor::init and gmpi_controller_holder::init: the parameters the
\* DAW knows, by the index it will use.
nativeParams(info) ==
  ElementsAt(info.parameters, { i \in DOMAIN info.parameters : info.parameters[i].dawTag > -1 })

=============================================================================
