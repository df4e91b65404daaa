-------------------------- MODULE MCAudioThread --------------------------
(* What a plugin has on the audio thread, one in each behaviour: process()  *)
(* of a plugin with an audio input and output and a control; MPE; and the   *)
(* converters from and to MIDI 1.0, of the latter the notes or the          *)
(* controllers, which share nothing.                                        *)
(*                                                                          *)
(* The mapper has three keys, so that fingers take all of them and are      *)
(* given each other's.  Channels 0 and 3 are the masters; on 1 and 2 there  *)
(* are fingers.                                                             *)
EXTENDS Processor, MidiConverters

CONSTANTS in, out, knob, midi, filter

VARIABLE which

twoVars == <<incoming_rpn, incoming_nrpn, incoming_rpn_value, sent, asked>>
oneVars == <<midi2NoteTune, midi2NoteToKey, ControlChangeValue, noteSent, value, sounding, newestValue,
             crossed, last>>

MCInit ==
  /\ which \in {"processor", "mpe", "two", "notes", "controls"}
  /\ Init
  /\ MpeInit
  /\ Two!Init
  /\ One!Init

MCNext ==
  /\ UNCHANGED which
  /\ \/ which = "processor" /\ Next /\ UNCHANGED <<mpeVars, twoVars, oneVars>>
     \/ which = "mpe" /\ MpeNext /\ UNCHANGED <<vars, twoVars, oneVars>>
     \/ which = "two" /\ Two!Next /\ UNCHANGED <<vars, mpeVars, oneVars>>
     \/ which = "notes" /\ One!Next /\ UNCHANGED <<vars, mpeVars, twoVars, One!controlVars>>
     \/ which = "controls" /\ One!Next /\ UNCHANGED <<vars, mpeVars, twoVars, One!noteVars>>

\* The fairness of Processor; the converters have none.
MCFairSpec ==
  /\ MCInit /\ [][MCNext]_<<which, vars, mpeVars, twoVars, oneVars>>
  /\ WF_vars(which = "processor" /\ ProcessSteps)

-----------------------------------------------------------------------------
\* A silent plugin is put to sleep, in the behaviours in which it is run.
SilentPluginIsPutToSleep == which = "processor" => SilentPluginSleeps

=============================================================================
