----------------------------- MODULE NoteMapper -----------------------------
(***************************************************************************)
(* NoteMapper of Core/GmpiMidi.h: in MPE every finger plays on a channel   *)
(* of its own, so the same note may sound several times; the mapper gives  *)
(* each note a key of its own to sound on, its natural one if that is      *)
(* free.                                                                   *)
(*                                                                         *)
(* A note's id is its channel and number.  The sequence numbers of the     *)
(* slots are only compared, so their order is kept, in before.             *)
(***************************************************************************)
EXTENDS Integers

CONSTANTS
  LastKey,  \* 127
  NoId      \* noteId -1, of a key never used

VARIABLES
  noteIds,            \* for each key its noteId, whether it is held, and its pitch: the
                      \* one last sent for it, 0 if none was
  noteIdsRoundRobin,
  before              \* <<j, k>> if the last Note-On of key k is newer than that of j

mapperVars == <<noteIds, noteIdsRoundRobin, before>>

Keys == 0..LastKey

MapperInit ==
  /\ noteIds = [k \in Keys |-> [noteId |-> NoId, held |-> FALSE, pitch |-> 0]]
  /\ noteIdsRoundRobin = 0
  /\ before = {}

heldKeys == { k \in Keys : noteIds[k].held }
usedKeys == { k \in Keys : noteIds[k].noteId # NoId }
onChannel(c) == { k \in usedKeys : noteIds[k].noteId[1] = c }

\* Mutant of findNote: a released key is matched too.
findReleased(id) == { k \in usedKeys : noteIds[k].noteId = id }

\* "Only a held slot owns its noteId".
findNote(id) == { k \in heldKeys : noteIds[k].noteId = id }

\* The key that is n places on.
rotated(n) == (noteIdsRoundRobin + n) % (LastKey + 1)

\* The next free key, or the one the search ends on: all of them are held.
nextKey ==
  LET found(n) == rotated(n) \notin heldKeys \/ n = LastKey + 1
  IN  rotated(CHOOSE n \in 1..LastKey + 1 : found(n) /\ \A i \in 1..n-1 : ~found(i))

\* A key that has this note already, the note's natural key, or the next.
keyFor(id, preferred) ==
  IF findNote(id) # {} THEN CHOOSE k \in findNote(id) : \A j \in findNote(id) : k <= j
  ELSE IF preferred \notin heldKeys THEN preferred
  ELSE nextKey

\* The key for a Note-On; the converters remember the note's pitch in it in the
\* same go.
allocateNote(id, preferred) ==
  LET k == keyFor(id, preferred)
  IN  /\ noteIds' = [noteIds EXCEPT ![k] = [noteId |-> id, held |-> TRUE, pitch |-> preferred]]
      /\ noteIdsRoundRobin' = IF findNote(id) = {} /\ preferred \in heldKeys THEN k ELSE noteIdsRoundRobin
      /\ before' = { pair \in before : k \notin {pair[1], pair[2]} } \cup ((usedKeys \ {k}) \X {k})

\* noteId stays in place after the Note-Off.
release(keys) ==
  /\ noteIds' = [k \in Keys |-> IF k \in keys THEN [noteIds[k] EXCEPT !.held = FALSE] ELSE noteIds[k]]
  /\ UNCHANGED <<noteIdsRoundRobin, before>>

releaseHeldNotes(channels) ==
  release({ k \in heldKeys : noteIds[k].noteId[1] \in channels })

\* The key with the largest sequence number on the channel.
latestOn(c) == { k \in onChannel(c) : \A j \in onChannel(c) : <<k, j>> \notin before }

\* The notes of channel c that have had no Note-Off.
heldTargets(c) == onChannel(c) \cap heldKeys

\* forEachExpressionTarget: "every note still held on the channel, plus the
\* note most recently started on it".
expressionTargets(c) == heldTargets(c) \cup latestOn(c)

=============================================================================
