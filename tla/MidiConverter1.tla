--------------------------- MODULE MidiConverter1 ---------------------------
(***************************************************************************)
(* MidiConverter1 of Core/GmpiMidi.h turns MIDI 2.0 into MIDI 1.0.  A      *)
(* MIDI 2.0 note number is only a name: the note sounds at the pitch that  *)
(* was set for it, so in MIDI 1.0 it is on the key nearest to that pitch.  *)
(* Controllers have 7 bits in MIDI 1.0; values that come out the same are  *)
(* thinned.  Bender, channel pressure and programs pass without state.     *)
(***************************************************************************)
EXTENDS Integers

CONSTANTS
  Notes,     \* the MIDI 2.0 note numbers, and the MIDI 1.0 keys
  Channels,
  Values,    \* the 32-bit values of a controller
  Steps,     \* how many of them are one 7-bit value
  Silent

VARIABLES
  midi2NoteTune,       \* one for all channels
  midi2NoteToKey,      \* one for all channels
  ControlChangeValue,  \* of one controller: quantized, unquantized
  sent,                \* the last note message
  value,               \* receiver: by channel, the controller's value
  sounding,            \* source: by channel, for each note the key that its Note-On
                       \* went to, or Silent
  newest,              \* source: by channel, the controller's value
  crossed,             \* for the properties: the notes that sounded on two channels
                       \* at once, not all on their natural key
  last                 \* for the properties: the channel last sent to

noteVars == <<midi2NoteTune, midi2NoteToKey, sent, sounding, crossed>>
controlVars == <<ControlChangeValue, value, newest, last>>
vars == <<noteVars, controlVars>>

MidiConverter1Assumption ==
  /\ Silent \notin Notes
  /\ Values \subseteq Nat /\ Steps \in Nat \ {0}

Unsent == -1

Message(status, c, k) == [status |-> status, channel |-> c, key |-> k]

Init ==
  /\ midi2NoteTune = [n \in Notes |-> n]
  /\ midi2NoteToKey = [n \in Notes |-> n]
  /\ sent = Message("none", Unsent, Unsent)
  /\ sounding = [c \in Channels |-> [n \in Notes |-> Silent]]
  /\ crossed = {}
  /\ ControlChangeValue = [quantized |-> Unsent, unquantized |-> Unsent]
  /\ value = [c \in Channels |-> Unsent]
  /\ newest = [c \in Channels |-> Unsent]
  /\ last = Unsent

\* Another channel sounds the note, and one of the two does so on another key.
crosses(c, n, k) ==
  \E d \in Channels \ {c} : sounding[d][n] # Silent /\ ~(k = n /\ sounding[d][n] = n)

\* The source does not start a note that sounds on the same channel.
NoteOn(c, n) ==
  /\ sounding[c][n] = Silent
  /\ LET k == midi2NoteTune[n]
     IN  /\ midi2NoteToKey' = [midi2NoteToKey EXCEPT ![n] = k]
         /\ sent' = Message("NoteOn", c, k)
         /\ sounding' = [sounding EXCEPT ![c][n] = k]
         /\ crossed' = IF crosses(c, n, k) THEN crossed \cup {n} ELSE crossed
  /\ UNCHANGED <<midi2NoteTune, controlVars>>

\* Mutant of NoteOff: the key is looked up by the pitch of now.
NoteOffByPitch(c, n) ==
  /\ sounding[c][n] # Silent
  /\ sent' = Message("NoteOff", c, midi2NoteTune[n])
  /\ midi2NoteToKey' = [midi2NoteToKey EXCEPT ![n] = n]
  /\ sounding' = [sounding EXCEPT ![c][n] = Silent]
  /\ UNCHANGED <<midi2NoteTune, crossed, controlVars>>

NoteOff(c, n) ==
  /\ sounding[c][n] # Silent
  /\ sent' = Message("NoteOff", c, midi2NoteToKey[n])
  /\ midi2NoteToKey' = [midi2NoteToKey EXCEPT ![n] = n]
  /\ sounding' = [sounding EXCEPT ![c][n] = Silent]
  /\ UNCHANGED <<midi2NoteTune, crossed, controlVars>>

\* PolyControlChange with PolyPitch, on any channel.
SetPitch(n, semitones) ==
  /\ midi2NoteTune' = [midi2NoteTune EXCEPT ![n] = semitones]
  /\ UNCHANGED <<midi2NoteToKey, sent, sounding, crossed, controlVars>>

floatToU7(v) == v \div Steps

\* Mutant of isThinned: a value near the last one is a repeat.
isNear(v) == v - ControlChangeValue.unquantized \in -1..1

\* "Send exact (deliberate) repeats, but not 'close' ... repeats".
isThinned(v) ==
  /\ ControlChangeValue.quantized = floatToU7(v)
  /\ ControlChangeValue.unquantized # v

ControlChange(c, v) ==
  /\ newest' = [newest EXCEPT ![c] = v]
  /\ IF isThinned(v)
       THEN UNCHANGED <<ControlChangeValue, value, last>>
       ELSE /\ ControlChangeValue' = [quantized |-> floatToU7(v), unquantized |-> v]
            /\ value' = [value EXCEPT ![c] = floatToU7(v)]
            /\ last' = c
  /\ UNCHANGED noteVars

Next ==
  \/ \E c \in Channels, n \in Notes : NoteOn(c, n)
  \/ \E c \in Channels, n \in Notes : NoteOff(c, n)
  \/ \E n, semitones \in Notes : SetPitch(n, semitones)
  \/ \E c \in Channels, v \in Values : ControlChange(c, v)

Spec == Init /\ [][Next]_vars

-----------------------------------------------------------------------------
(* Properties *)

\* Aftertouch goes to the key on which the note sounds.
AftertouchFollows ==
  \A c \in Channels, n \in Notes :
    n \notin crossed /\ sounding[c][n] # Silent => midi2NoteToKey[n] = sounding[c][n]

ends(c, n) == sounding[c][n] # Silent /\ sounding'[c][n] = Silent

\* The Note-Off for the note goes to the key that the Note-On went to.
OffIsForItsKey(c, n) == sent' = Message("NoteOff", c, sounding[c][n])

\* "Store it for note-off": a Note-Off ends the key that its Note-On started, and
\* aftertouch goes to it, whatever pitch the note was given in between and
\* whatever other notes and channels do, as long as the note did not sound on
\* two channels with two keys.
OffsMatchOns ==
  /\ []AftertouchFollows
  /\ [][\A c \in Channels, n \in Notes :
          n \notin crossed /\ ends(c, n) => OffIsForItsKey(c, n)]_vars

\* The same of every note.  One array of keys serves all channels, so the code
\* does not see to it: of two channels that sound a note on two keys, the first
\* to end it ends the other's key, and the second ends the natural one.
EveryOffMatchesItsOn ==
  [][\A c \in Channels, n \in Notes : ends(c, n) => OffIsForItsKey(c, n)]_vars

\* "avoid sending same value repeatedly", but no value is lost: the channel that
\* was sent to last has its newest value, to 7 bits.
ReceiverFollows == last # Unsent => value[last] = floatToU7(newest[last])

\* The same of every channel.  One array of values sent serves them all, so the
\* code does not promise it: a channel that follows another gets nothing.
EveryReceiverFollows ==
  \A c \in Channels : newest[c] # Unsent => value[c] = floatToU7(newest[c])

=============================================================================
