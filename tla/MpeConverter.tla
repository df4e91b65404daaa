---------------------------- MODULE MpeConverter ----------------------------
(***************************************************************************)
(* MpeConverter and FatMpeConverter of Core/GmpiMidi.h, which turn the     *)
(* channels of MPE into per-note messages: the same but for the encoding   *)
(* of what they are sent, for zones, which FatMpeConverter is told, and    *)
(* for release tails, which it takes care of.  Messages on a master        *)
(* channel and on one outside of the zones are passed on; there is nothing *)
(* to remember of them.                                                    *)
(*                                                                         *)
(* A value of a controller matters only as the newest one of its channel   *)
(* or an older one, so stale is all that is kept of the values.            *)
(***************************************************************************)
EXTENDS NoteMapper, FiniteSets

CONSTANTS
  LastChannel,      \* 15
  Players,          \* the channels that the fingers play on
  Notes,            \* the notes they play
  ZoneSizes,        \* the sizes that zones are set to
  MidNoteSettings,  \* whether zones are set while fingers are down
  NoKey

VARIABLES
  fat,       \* whether the converter is a FatMpeConverter
  lower,     \* lowerZoneMasterChannel and lower_zone_size
  upper,     \* upperZoneMasterChannel and upper_zone_size
  tuning,    \* receiver: the pitch of each key
  stale,     \* receiver: for each controller the keys that should have their
             \* channel's newest value and do not
  fingers,   \* the ids of the notes the fingers hold
  stolen,    \* for the properties: those of them whose key went to another
             \* finger when all keys were held
  newest     \* for the properties: the key of the newest note of each channel,
             \* if no other has got it since

zoneVars == <<lower, upper>>
historyVars == <<stolen, newest>>
receiverVars == <<tuning, stale>>
mpeVars == <<mapperVars, fat, zoneVars, receiverVars, fingers, historyVars>>

Channels == 0..LastChannel
Controllers == {"bend", "expression"}  \* pressure and brightness go alike

ASSUME MpeAssumption ==
  /\ LastKey \in Nat /\ NoKey \notin Keys
  /\ LastChannel \in Nat \ {0}
  /\ ZoneSizes \subseteq Channels
  /\ Players \subseteq Channels /\ Notes \subseteq Keys
  /\ NoId \notin Players \X Notes

Zone(master, size) == [master |-> master, size |-> size]
NoZone == Zone(-1, 0)

MpeInit ==
  /\ MapperInit
  /\ fat \in BOOLEAN
  /\ lower = IF fat THEN NoZone ELSE Zone(0, LastChannel)
  /\ upper = NoZone
  /\ tuning = [k \in Keys |-> k]
  /\ stale = [x \in Controllers |-> {}]
  /\ fingers = {}
  /\ stolen = {}
  /\ newest = [c \in Channels |-> NoKey]

-----------------------------------------------------------------------------
(* Zones *)

isMaster(c) == c \in {lower.master, upper.master}
isLowerZone(c) == lower.size > 0 /\ c <= lower.size
isUpperZone(c) == upper.size > 0 /\ c >= LastChannel - upper.size
isMember(c) == ~isMaster(c) /\ (isLowerZone(c) \/ isUpperZone(c))

\* Mutant of shrunk: the other zone keeps its size.
unshrunk(zone, other) == zone

shrunk(zone, other) ==
  [zone EXCEPT !.size = IF zone.size <= LastChannel - 1 - other THEN @ ELSE LastChannel - 1 - other]

\* An MPE Configuration Message sets the size of its zone and shrinks the other.
Configure(c, size) ==
  /\ fat
  /\ fingers = {} \/ MidNoteSettings
  /\ \/ /\ c = 0
        /\ lower' = Zone(IF size > 0 THEN c ELSE -1, size)
        /\ upper' = IF size > 0 THEN shrunk(upper, size) ELSE upper
     \/ /\ c = LastChannel
        /\ upper' = Zone(IF size > 0 THEN c ELSE -1, size)
        /\ lower' = IF size > 0 THEN shrunk(lower, size) ELSE lower
  /\ UNCHANGED <<mapperVars, fat, receiverVars, fingers, historyVars>>

\* The host forces MPE off or on.
setMpeMode(on) ==
  /\ fat
  /\ fingers = {} \/ MidNoteSettings
  /\ lower' = IF on THEN Zone(0, LastChannel) ELSE NoZone
  /\ upper' = NoZone
  /\ UNCHANGED <<mapperVars, fat, receiverVars, fingers, historyVars>>

-----------------------------------------------------------------------------
(* Notes *)

\* Mutant of sentOnNoteOn: only the bender is reset.
sentBend == {"bend"}

\* "MIDI 2.0 does not automatically reset per-note controls": bender,
\* brightness and pressure of the channel are sent with every Note-On.
sentOnNoteOn == Controllers

\* The receiver is told a key's pitch when it is not the one remembered for it.
\* Nothing was sent for a key never used, but 0 is remembered.
sendPitch(k, n) ==
  tuning' = IF noteIds[k].pitch # n THEN [tuning EXCEPT ![k] = n] ELSE tuning

NoteOn(c, n) ==
  /\ isMember(c)
  /\ allocateNote(<<c, n>>, n)
  /\ LET k == keyFor(<<c, n>>, n)
     IN  /\ sendPitch(k, n)
         /\ stale' = [x \in Controllers |-> IF x \in sentOnNoteOn THEN stale[x] \ {k} ELSE stale[x] \cup {k}]
         /\ stolen' = (IF heldKeys = Keys THEN stolen \cup {noteIds[k].noteId} ELSE stolen) \ {<<c, n>>}
         /\ newest' = [d \in Channels |-> IF d = c THEN k ELSE IF newest[d] = k THEN NoKey ELSE newest[d]]
  /\ fingers' = fingers \cup {<<c, n>>}
  /\ UNCHANGED <<fat, zoneVars>>

NoteOff(c, n) ==
  /\ isMember(c)
  /\ release(findNote(<<c, n>>))
  /\ fingers' = fingers \ {<<c, n>>}
  /\ stolen' = stolen \ {<<c, n>>}
  /\ UNCHANGED <<fat, zoneVars, receiverVars, newest>>

\* The channels whose notes an All Notes Off on channel c ends.
inScope(c) ==
  IF ~fat THEN (IF isMaster(c) THEN Channels ELSE {c})
  ELSE IF c = lower.master THEN { d \in Channels : isLowerZone(d) }
  ELSE IF c = upper.master THEN { d \in Channels : isUpperZone(d) }
  ELSE {c}

\* All Notes Off or All Sound Off; the fingers on these channels count as lifted.
AllNotesOff(c) ==
  /\ releaseHeldNotes(inScope(c))
  /\ fingers' = { id \in fingers : id[1] \notin inScope(c) }
  /\ stolen' = { id \in stolen : id[1] \notin inScope(c) }
  /\ UNCHANGED <<fat, zoneVars, receiverVars, newest>>

tailsFollow(x) == fat /\ x = "expression"

targets(c, x) == IF tailsFollow(x) THEN expressionTargets(c) ELSE heldTargets(c)

\* The keys on which the channel's notes sound.
soundingOn(c, x) == heldTargets(c) \cup (IF tailsFollow(x) THEN {newest[c]} \ {NoKey} ELSE {})

\* Pitch bend, or pressure or brightness.
Control(c, x) ==
  /\ isMember(c)
  /\ stale' = [stale EXCEPT ![x] = (@ \cup soundingOn(c, x)) \ targets(c, x)]
  /\ UNCHANGED <<mapperVars, fat, zoneVars, tuning, fingers, historyVars>>

-----------------------------------------------------------------------------
MpeNext ==
  \/ \E c \in {0, LastChannel}, size \in ZoneSizes : Configure(c, size)
  \/ \E on \in BOOLEAN : setMpeMode(on)
  \/ \E c \in Players, n \in Notes : NoteOn(c, n)
  \/ \E c \in Players, n \in Notes : NoteOff(c, n)
  \/ \E c \in Channels : AllNotesOff(c)
  \/ \E c \in Players, x \in Controllers : Control(c, x)

MpeSpec == MpeInit /\ [][MpeNext]_mpeVars

-----------------------------------------------------------------------------
(* Properties *)

\* A key that was told its note's pitch, or is for note 0 and was never told any.
isTuned(k) ==
  \/ tuning[k] = noteIds[k].noteId[2]
  \/ noteIds[k].noteId[2] = 0 /\ tuning[k] = k

\* Every finger sounds on a key of its own, tuned to its note unless that is 0,
\* and nothing else sounds.
EachOnItsOwn ==
  /\ \A id \in fingers \ stolen : Cardinality(findNote(id)) = 1
  /\ \A k \in heldKeys : noteIds[k].noteId \in fingers \ stolen /\ isTuned(k)

\* The same of every note.  The code does not see to it: the pitch remembered of
\* a key that was never used is 0, so a second finger on note 0 is not tuned.
EveryFingerIsTuned ==
  \A k \in heldKeys : tuning[k] = noteIds[k].noteId[2]

\* A note that starts takes its natural key if that is free, "so a released slot
\* must never be matched by id", and has its key until its Note-Off.
KeysAreKept ==
  \A id \in fingers' :
    /\ id \notin fingers /\ id[2] \notin heldKeys => findNote(id)' = {id[2]}
    /\ id \in fingers \ stolen /\ id \notin stolen' => findNote(id)' = findNote(id)

\* The mapper's promise: the fingers do not get in each other's way, and one loses
\* its key only when there is none left for another.
FingersHaveKeys == []EachOnItsOwn /\ [][KeysAreKept]_mpeVars

\* "MPE is expected to" reset per-note controls, and "a release tail keeps
\* following the controller until the channel is reused": a note has its
\* channel's newest values from its start on, however its key was used before,
\* to its Note-Off and with FatMpeConverter beyond it.  As long as the newest
\* note of the channel has its key, no other key gets them; when that key has
\* gone to another channel's note, older notes that were released may.
NotesFollowTheirChannel ==
  \A x \in Controllers :
    /\ stale[x] = {}
    /\ \A c \in Channels : newest[c] # NoKey => targets(c, x) \subseteq soundingOn(c, x)

\* "Older released notes on the channel are dead and get nothing".
DeadNotesGetNothing ==
  \A c \in Channels, x \in Controllers : targets(c, x) \subseteq soundingOn(c, x)

\* No channel is a member of both zones, and a zone that is in use has its
\* master to itself.
ZonesAreApart ==
  /\ \A c \in Channels : ~(isLowerZone(c) /\ isUpperZone(c))
  /\ lower.size > 0 => lower.master = 0 /\ ~isUpperZone(0)
  /\ upper.size > 0 => upper.master = LastChannel /\ ~isLowerZone(LastChannel)

=============================================================================
