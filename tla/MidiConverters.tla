--------------------------- MODULE MidiConverters ---------------------------
(***************************************************************************)
(* The MIDI converters side by side: MpeConverter (extended), and the two  *)
(* between MIDI 1.0 and MIDI 2.0.  They do not interact.                   *)
(***************************************************************************)
EXTENDS MpeConverter

CONSTANTS Senders, Data, NoMessage, Values, Steps, Silent

VARIABLES
  incoming_rpn, incoming_nrpn, incoming_rpn_value, sent, asked,
  midi2NoteTune, midi2NoteToKey, ControlChangeValue, noteSent, value, sounding, newestValue, crossed,
  last

Two == INSTANCE MidiConverter2 WITH Channels <- Senders
One == INSTANCE MidiConverter1 WITH
  Channels <- Senders, newest <- newestValue, sent <- noteSent

ASSUME MidiAssumption ==
  /\ Two!MidiConverter2Assumption
  /\ One!MidiConverter1Assumption

-----------------------------------------------------------------------------
(* The properties are those of the modules, where they are explained.       *)

\* "RPNS are coming, cancel NRPNs": a data entry goes to the parameter that was
\* selected last on its channel.
DataGoesWhereAsked == Two!DataGoesWhereAsked

\* The Note-Off of MidiConverter1 ends the key of its Note-On, if no two channels
\* sounded the note on two keys.
OffsMatchOns == One!OffsMatchOns

\* Thinning of controllers loses no value on the channel last sent to.
ReceiverFollows == One!ReceiverFollows

=============================================================================
