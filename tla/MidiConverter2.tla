--------------------------- MODULE MidiConverter2 ---------------------------
(***************************************************************************)
(* MidiConverter2 of Core/GmpiMidi.h turns MIDI 1.0 into MIDI 2.0.  Each   *)
(* message becomes one of the same meaning, but for registered and         *)
(* non-registered parameters: their numbers and values come as several     *)
(* controllers, and the converter puts them together.                      *)
(*                                                                         *)
(* Widening a value from 14 to 32 bits is left out; its upper 14 bits are  *)
(* the value.                                                              *)
(***************************************************************************)
EXTENDS Integers

CONSTANTS
  Channels,  \* the channels that parameters are set on
  Data,      \* the 7-bit values sent
  NoMessage

VARIABLES
  incoming_rpn,        \* by channel
  incoming_nrpn,       \* by channel
  incoming_rpn_value,  \* one for all channels
  sent,                \* the last message a data entry was turned into
  asked                \* for the properties: by channel, the selection made
                       \* since its kind last changed

vars == <<incoming_rpn, incoming_nrpn, incoming_rpn_value, sent, asked>>

MidiConverter2Assumption == Data \subseteq 0..127

NULL_RPN == 65535
Kinds == {"RPN", "NRPN"}
Halves == {"msb", "lsb"}
Unset == -1

Init ==
  /\ incoming_rpn = [c \in Channels |-> NULL_RPN]
  /\ incoming_nrpn = [c \in Channels |-> NULL_RPN]
  /\ incoming_rpn_value = 0
  /\ sent = NoMessage
  /\ asked = [c \in Channels |-> [kind |-> "controller", msb |-> Unset, lsb |-> Unset]]

\* cntrl_update_msb, cntrl_update_lsb: one half is replaced; the second drops
\* the bits above the fourteenth.
cntrl_update(var, half, v) ==
  IF half = "msb" THEN (var % 128) + 128 * v ELSE ((var \div 128) % 128) * 128 + v

\* Mutant of cancelled: the selection of the other kind stays.
kept(selection, c) == selection

\* "RPNS are coming, cancel NRPNs msgs", and the other way round.
cancelled(selection, c) == [selection EXCEPT ![c] = NULL_RPN]

\* Controllers 98 to 101.
Select(c, kind, half, v) ==
  /\ IF kind = "RPN"
       THEN /\ incoming_rpn' = [incoming_rpn EXCEPT ![c] = cntrl_update(@, half, v)]
            /\ incoming_nrpn' = cancelled(incoming_nrpn, c)
       ELSE /\ incoming_nrpn' = [incoming_nrpn EXCEPT ![c] = cntrl_update(@, half, v)]
            /\ incoming_rpn' = cancelled(incoming_rpn, c)
  /\ asked' = [asked EXCEPT ![c] =
                 [(IF @.kind = kind THEN @ ELSE [kind |-> kind, msb |-> Unset, lsb |-> Unset])
                    EXCEPT ![half] = v]]
  /\ UNCHANGED <<incoming_rpn_value, sent>>

Message(kind, number, value, c) == [kind |-> kind, number |-> number, value |-> value, channel |-> c]

\* Controllers 6 and 38, Data Entry; "No RPN/NRPN selected, so data entry is a
\* plain CC".
DataEntry(c, half, v) ==
  /\ incoming_rpn_value' = cntrl_update(incoming_rpn_value, half, v)
  /\ sent' = IF incoming_rpn[c] # NULL_RPN THEN Message("RPN", incoming_rpn[c], incoming_rpn_value', c)
             ELSE IF incoming_nrpn[c] # NULL_RPN THEN Message("NRPN", incoming_nrpn[c], incoming_rpn_value', c)
             ELSE Message("controller", IF half = "msb" THEN 6 ELSE 38, v, c)
  /\ UNCHANGED <<incoming_rpn, incoming_nrpn, asked>>

Next ==
  \/ \E c \in Channels, kind \in Kinds, half \in Halves, v \in Data : Select(c, kind, half, v)
  \/ \E c \in Channels, half \in Halves, v \in Data : DataEntry(c, half, v)

Spec == Init /\ [][Next]_vars

-----------------------------------------------------------------------------
(* Properties *)

\* A data entry goes to the parameter that was selected last on its channel,
\* of the kind selected last, once both halves of the number have come; the
\* selections of other channels and the old ones of this do not matter.
GoesWhereAsked(message) ==
  LET a == asked[message.channel]
  IN  /\ message.kind = a.kind
      /\ a.msb # Unset /\ a.lsb # Unset => message.number = 128 * a.msb + a.lsb

DataGoesWhereAsked == [][sent' # sent => GoesWhereAsked(sent')]_vars

=============================================================================
