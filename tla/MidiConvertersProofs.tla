------------------------ MODULE MidiConvertersProofs ------------------------
(***************************************************************************)
(* The MIDI converters, for any number of keys, channels, notes and        *)
(* values: fingers have keys of their own and their keys follow their      *)
(* channel, zones stay apart, Note-Offs match, and data goes where it was  *)
(* asked to go.                                                            *)
(***************************************************************************)
EXTENDS MidiConverters, SequenceLemmas

-----------------------------------------------------------------------------
(* MidiConverter2: a selected parameter *)

Largest == 16383
Numbers == 0..Largest
High(number) == number \div 128
Low(number) == number % 128

\* What incoming_rpn or incoming_nrpn is, of the kind that the selection has.
Selects(selected, number) ==
  /\ number \in Numbers
  /\ selected.msb # Two!Unset => High(number) = selected.msb
  /\ selected.lsb # Two!Unset => Low(number) = selected.lsb

Selection == [kind : Two!Kinds \cup {"controller"}, msb : Data \cup {Two!Unset}, lsb : Data \cup {Two!Unset}]

SelectionIInv ==
  /\ incoming_rpn \in [Senders -> Numbers \cup {Two!NULL_RPN}]
  /\ incoming_nrpn \in [Senders -> Numbers \cup {Two!NULL_RPN}]
  /\ asked \in [Senders -> Selection]
  /\ \A c \in Senders :
       /\ asked[c].kind # "RPN" => incoming_rpn[c] = Two!NULL_RPN
       /\ asked[c].kind # "NRPN" => incoming_nrpn[c] = Two!NULL_RPN
       /\ asked[c].kind = "RPN" => Selects(asked[c], incoming_rpn[c])
       /\ asked[c].kind = "NRPN" => Selects(asked[c], incoming_nrpn[c])
       /\ asked[c].kind = "controller" => asked[c].msb = Two!Unset /\ asked[c].lsb = Two!Unset

Joined(high, low, number) == number = high * 128 + low

\* A number is put together from two halves of seven bits, and taken apart.
LEMMA TwoHalves ==
  /\ \A high, low \in 0..127 : \A n :
       Joined(high, low, n) => n \in Numbers /\ High(n) = high /\ Low(n) = low
  /\ \A n \in Nat : Low(n) \in 0..127 /\ High(n) % 128 \in 0..127
  /\ \A n \in Numbers : High(n) % 128 = High(n)
<1>1. ASSUME NEW high \in 0..127, NEW low \in 0..127, NEW n, Joined(high, low, n)
      PROVE  n \in Numbers /\ High(n) = high /\ Low(n) = low
  <2>1. n \in Int /\ n = high * 128 + low
    BY <1>1 DEF Joined
  <2>2. n \in Numbers
    <3>1. 0 <= high * 128 /\ high * 128 <= 16256
      OBVIOUS
    <3>2. 0 <= n /\ n <= Largest
      BY <2>1, <3>1 DEF Largest
    <3>3. QED
      BY <2>1, <3>2 DEF Numbers
  <2>3. High(n) = high
    BY <2>1 DEF High
  <2>4. Low(n) = low
    BY <2>1 DEF Low
  <2>5. QED
    BY <2>2, <2>3, <2>4
<1>2. ASSUME NEW n \in Nat PROVE Low(n) \in 0..127 /\ High(n) % 128 \in 0..127
  BY DEF Low, High
<1>3. ASSUME NEW n \in Numbers PROVE High(n) % 128 = High(n)
  <2>1. n \in Nat /\ n <= 16383
    BY DEF Numbers, Largest
  <2>2. PICK h \in Int, l \in 0..127 : h = High(n) /\ n = 128 * h + l
    <3>1. n % 128 \in 0..127 /\ n \div 128 \in Int /\ n = 128 * (n \div 128) + (n % 128)
      BY <2>1
    <3>2. QED
      BY <3>1 DEF High
  <2>3. h \in 0..127
    BY <2>1, <2>2
  <2>4. h % 128 = h
    BY <2>3
  <2>5. QED
    BY <2>2, <2>4
<1>4. QED
  BY <1>1, <1>2, <1>3

Updated(selected, half, v) == [selected EXCEPT ![half] = v]

\* One half of a number is replaced, the other is as it was; of a parameter
\* that is not selected both count as unset.
LEMMA HalfIsReplaced ==
  ASSUME Two!MidiConverter2Assumption,
         NEW number \in Numbers \cup {Two!NULL_RPN}, NEW a \in Selection,
         number = Two!NULL_RPN => a.msb = Two!Unset /\ a.lsb = Two!Unset,
         number # Two!NULL_RPN => Selects(a, number),
         NEW half \in Two!Halves, NEW v \in Data, NEW b, b = Updated(a, half, v)
  PROVE  /\ b \in Selection /\ b.kind = a.kind
         /\ Selects(b, Two!cntrl_update(number, half, v))
<1> DEFINE high == High(number) % 128
           low == Low(number)
<1>1. v \in 0..127 /\ number \in Nat
  BY DEF Two!MidiConverter2Assumption, Two!NULL_RPN, Numbers, Largest
<1>2. high \in 0..127 /\ low \in 0..127
  BY <1>1, TwoHalves
<1>3. /\ a.msb # Two!Unset => high = a.msb
      /\ a.lsb # Two!Unset => low = a.lsb
  BY TwoHalves DEF Selects
<1>4. Two!cntrl_update(number, half, v) = IF half = "msb" THEN low + 128 * v ELSE high * 128 + v
  BY DEF Two!cntrl_update, High, Low
<1> HIDE DEF high, low
<1>5. CASE half = "msb"
  <2>1. b \in Selection /\ b.msb = v /\ b.lsb = a.lsb /\ b.kind = a.kind
    BY <1>5 DEF Updated, Selection
  <2>2. PICK later : later = Two!cntrl_update(number, half, v)
    OBVIOUS
  <2>3. Joined(v, low, later)
    BY <1>1, <1>2, <1>4, <1>5, <2>2 DEF Joined
  <2>6. later \in Numbers /\ High(later) = v /\ Low(later) = low
    BY <1>1, <1>2, <2>3, TwoHalves
  <2>7. Selects(b, later)
    BY <1>3, <2>1, <2>6 DEF Selects
  <2>8. QED
    BY <2>1, <2>2, <2>7
<1>6. CASE half = "lsb"
  <2>1. b \in Selection /\ b.lsb = v /\ b.msb = a.msb /\ b.kind = a.kind
    BY <1>6 DEF Updated, Selection
  <2>2. PICK later : later = Two!cntrl_update(number, half, v)
    OBVIOUS
  <2>3. Joined(high, v, later)
    BY <1>4, <1>6, <2>2 DEF Joined
  <2>5. later \in Numbers /\ High(later) = high /\ Low(later) = v
    BY <1>1, <1>2, <2>3, TwoHalves
  <2>6. Selects(b, later)
    BY <1>3, <2>1, <2>5 DEF Selects
  <2>7. QED
    BY <2>1, <2>2, <2>6
<1>7. QED
  BY <1>5, <1>6 DEF Two!Halves

\* What a change of the selection does.
LEMMA SelectKeeps ==
  ASSUME Two!MidiConverter2Assumption, SelectionIInv,
         NEW c \in Senders, NEW kind \in Two!Kinds, NEW half \in Two!Halves, NEW v \in Data,
         Two!Select(c, kind, half, v)
  PROVE  SelectionIInv'
<1>1. PICK a : a = IF asked[c].kind = kind THEN asked[c]
                   ELSE [kind |-> kind, msb |-> Two!Unset, lsb |-> Two!Unset]
  OBVIOUS
<1>2. a \in Selection /\ a.kind = kind /\ asked \in [Senders -> Selection]
  BY <1>1 DEF Selection, SelectionIInv
<1>3. PICK number : number = IF kind = "RPN" THEN incoming_rpn[c] ELSE incoming_nrpn[c]
  OBVIOUS
<1>4. /\ number \in Numbers \cup {Two!NULL_RPN}
      /\ number = Two!NULL_RPN => a.msb = Two!Unset /\ a.lsb = Two!Unset
      /\ number # Two!NULL_RPN => Selects(a, number)
  <2>1. CASE asked[c].kind = kind
    <3>1. a = asked[c] /\ number \in Numbers
      BY <1>1, <1>3, <2>1 DEF SelectionIInv, Two!Kinds, Selects
    <3>2. Selects(a, number)
      BY <1>1, <1>3, <2>1 DEF SelectionIInv, Two!Kinds
    <3>3. number # Two!NULL_RPN
      BY <3>1 DEF Two!NULL_RPN, Numbers, Largest
    <3>4. QED
      BY <3>1, <3>2, <3>3
  <2>2. CASE asked[c].kind # kind
    BY <1>1, <1>3, <2>2 DEF SelectionIInv, Two!Kinds
  <2>3. QED
    BY <2>1, <2>2
<1>5. PICK b : b = Updated(a, half, v)
  OBVIOUS
<1>6. b \in Selection /\ b.kind = kind /\ Selects(b, Two!cntrl_update(number, half, v))
  BY <1>2, <1>4, <1>5, HalfIsReplaced
<1>7. PICK later : later = Two!cntrl_update(number, half, v)
  OBVIOUS
<1>8. later \in Numbers /\ Selects(b, later)
  BY <1>6, <1>7 DEF Selects
<1>9. asked' = [asked EXCEPT ![c] = b]
  BY <1>1, <1>2, <1>5 DEF Two!Select, Updated
<1>10. /\ kind = "RPN" => incoming_rpn' = [incoming_rpn EXCEPT ![c] = later]
                          /\ incoming_nrpn' = [incoming_nrpn EXCEPT ![c] = Two!NULL_RPN]
       /\ kind = "NRPN" => incoming_nrpn' = [incoming_nrpn EXCEPT ![c] = later]
                          /\ incoming_rpn' = [incoming_rpn EXCEPT ![c] = Two!NULL_RPN]
  BY <1>3, <1>7 DEF Two!Select, Two!cancelled, SelectionIInv
<1>11. /\ incoming_rpn' \in [Senders -> Numbers \cup {Two!NULL_RPN}]
       /\ incoming_nrpn' \in [Senders -> Numbers \cup {Two!NULL_RPN}]
  BY <1>8, <1>10 DEF SelectionIInv, Two!Kinds
<1>12. asked' \in [Senders -> Selection]
  BY <1>2, <1>6, <1>9
<1>13. ASSUME NEW d \in Senders
       PROVE  /\ asked'[d].kind # "RPN" => incoming_rpn'[d] = Two!NULL_RPN
              /\ asked'[d].kind # "NRPN" => incoming_nrpn'[d] = Two!NULL_RPN
              /\ asked'[d].kind = "RPN" => Selects(asked'[d], incoming_rpn'[d])
              /\ asked'[d].kind = "NRPN" => Selects(asked'[d], incoming_nrpn'[d])
              /\ asked'[d].kind = "controller" => asked'[d].msb = Two!Unset /\ asked'[d].lsb = Two!Unset
  <2>1. CASE d = c
    <3>1. asked'[d] = b
      BY <1>2, <1>9, <2>1
    <3>2. /\ kind = "RPN" => incoming_rpn'[d] = later /\ incoming_nrpn'[d] = Two!NULL_RPN
          /\ kind = "NRPN" => incoming_nrpn'[d] = later /\ incoming_rpn'[d] = Two!NULL_RPN
      BY <1>10, <2>1 DEF SelectionIInv
    <3>3. QED
      BY <1>6, <1>8, <3>1, <3>2 DEF Two!Kinds
  <2>2. CASE d # c
    <3>1. asked'[d] = asked[d] /\ incoming_rpn'[d] = incoming_rpn[d] /\ incoming_nrpn'[d] = incoming_nrpn[d]
      BY <1>2, <1>9, <1>10, <2>2 DEF SelectionIInv, Two!Kinds
    <3>2. QED
      BY <3>1 DEF SelectionIInv
  <2>3. QED
    BY <2>1, <2>2
<1>14. QED
  BY <1>11, <1>12, <1>13 DEF SelectionIInv

\* The selections of any history of controllers.
LEMMA SelectionInvariance == Two!Spec => []SelectionIInv
<1>0. Two!MidiConverter2Assumption
  BY MidiAssumption
<1>1. Two!Init => SelectionIInv
  BY DEF Two!Init, SelectionIInv, Selection
<1>2. SelectionIInv /\ [Two!Next]_Two!vars => SelectionIInv'
  <2> SUFFICES ASSUME SelectionIInv, [Two!Next]_Two!vars PROVE SelectionIInv'
    OBVIOUS
  <2>1. ASSUME NEW c \in Senders, NEW kind \in Two!Kinds, NEW half \in Two!Halves, NEW v \in Data,
               Two!Select(c, kind, half, v)
        PROVE  SelectionIInv'
    BY <1>0, <2>1, SelectKeeps
  <2>2. ASSUME UNCHANGED <<incoming_rpn, incoming_nrpn, asked>> PROVE SelectionIInv'
    BY <2>2 DEF SelectionIInv
  <2>3. QED
    BY <2>1, <2>2 DEF Two!Next, Two!DataEntry, Two!vars
<1>3. QED
  BY <1>1, <1>2, PTL DEF Two!Spec

\* "RPNS are coming, cancel NRPNs": a data entry goes to the parameter that was
\* selected last on its channel, of the kind selected last.
THEOREM DataAlwaysGoesWhereAsked == Two!Spec => DataGoesWhereAsked
<1>1. ASSUME SelectionIInv, NEW c \in Senders, NEW half \in Two!Halves, NEW v \in Data,
             Two!DataEntry(c, half, v)
      PROVE  Two!GoesWhereAsked(sent')
  <2> DEFINE a == asked[c]
  <2>1. /\ sent'.channel = c
        /\ incoming_rpn[c] # Two!NULL_RPN => sent'.kind = "RPN" /\ sent'.number = incoming_rpn[c]
        /\ incoming_rpn[c] = Two!NULL_RPN /\ incoming_nrpn[c] # Two!NULL_RPN
             => sent'.kind = "NRPN" /\ sent'.number = incoming_nrpn[c]
        /\ incoming_rpn[c] = Two!NULL_RPN /\ incoming_nrpn[c] = Two!NULL_RPN
             => sent'.kind = "controller"
    BY <1>1 DEF Two!DataEntry, Two!Message
  <2>2. a.kind \in {"RPN", "NRPN", "controller"}
    BY <1>1 DEF SelectionIInv, Selection, Two!Kinds
  <2>3. /\ a.kind = "RPN" => Selects(a, incoming_rpn[c])
        /\ a.kind = "NRPN" => Selects(a, incoming_nrpn[c]) /\ incoming_rpn[c] = Two!NULL_RPN
        /\ a.kind = "controller" => /\ incoming_rpn[c] = Two!NULL_RPN /\ incoming_nrpn[c] = Two!NULL_RPN
                                    /\ a.msb = Two!Unset
    BY <1>1 DEF SelectionIInv
  <2>4. ASSUME NEW n, Selects(a, n)
        PROVE  n # Two!NULL_RPN /\ (a.msb # Two!Unset /\ a.lsb # Two!Unset => n = 128 * a.msb + a.lsb)
    <3>1. n \in Numbers
      BY <2>4 DEF Selects
    <3>2. n \in Nat /\ n # Two!NULL_RPN
      BY <3>1 DEF Numbers, Largest, Two!NULL_RPN
    <3>3. n = 128 * High(n) + Low(n)
      BY <3>2 DEF High, Low
    <3>4. QED
      BY <2>4, <3>2, <3>3 DEF Selects
  <2>5. sent'.kind = a.kind /\ (a.msb # Two!Unset /\ a.lsb # Two!Unset => sent'.number = 128 * a.msb + a.lsb)
    <3>1. CASE a.kind = "RPN"
      BY <2>1, <2>3, <2>4, <3>1
    <3>2. CASE a.kind = "NRPN"
      BY <2>1, <2>3, <2>4, <3>2
    <3>3. CASE a.kind = "controller"
      BY <2>1, <2>3, <3>3
    <3>4. QED
      BY <2>2, <3>1, <3>2, <3>3
  <2>6. QED
    BY <2>1, <2>5 DEF Two!GoesWhereAsked
<1>2. ASSUME SelectionIInv, [Two!Next]_Two!vars, sent' # sent PROVE Two!GoesWhereAsked(sent')
  BY <1>1, <1>2 DEF Two!Next, Two!Select, Two!vars
<1>3. SelectionIInv /\ [Two!Next]_Two!vars => [sent' # sent => Two!GoesWhereAsked(sent')]_Two!vars
  BY <1>2
<1>4. QED
  BY <1>3, SelectionInvariance, PTL DEF Two!Spec, DataGoesWhereAsked, Two!DataGoesWhereAsked

-----------------------------------------------------------------------------
(* MidiConverter1: keys of notes, and thinning *)

\* The key of each note that sounds is remembered, unless it sounds on two channels
\* with two keys: two channels that have not been at odds both have the natural key.
KeysIInv ==
  /\ sounding \in [Senders -> [Notes -> Notes \cup {Silent}]]
  /\ midi2NoteTune \in [Notes -> Notes] /\ midi2NoteToKey \in [Notes -> Notes]
  /\ One!AftertouchFollows
  /\ \A c, d \in Senders, n \in Notes :
       n \notin crossed /\ c # d /\ sounding[c][n] # Silent /\ sounding[d][n] # Silent
         => sounding[c][n] = n /\ sounding[d][n] = n

\* What a note that starts or ends does to the notes that sound.
LEMMA OneNoteChanges ==
  ASSUME KeysIInv, NEW c \in Senders, NEW n \in Notes, NEW k, k \in Notes \cup {Silent},
         sounding' = [sounding EXCEPT ![c][n] = k]
  PROVE  /\ sounding' \in [Senders -> [Notes -> Notes \cup {Silent}]]
         /\ \A d \in Senders, m \in Notes :
              sounding'[d][m] = IF d = c /\ m = n THEN k ELSE sounding[d][m]
<1>1. sounding \in [Senders -> [Notes -> Notes \cup {Silent}]]
  BY DEF KeysIInv
<1>2. PICK row : row = [sounding[c] EXCEPT ![n] = k]
  OBVIOUS
<1>3. /\ row \in [Notes -> Notes \cup {Silent}]
      /\ \A m \in Notes : row[m] = IF m = n THEN k ELSE sounding[c][m]
  BY <1>1, <1>2
<1>4. sounding' = [sounding EXCEPT ![c] = row]
  BY <1>1, <1>2
<1>5. \A d \in Senders : sounding'[d] = IF d = c THEN row ELSE sounding[d]
  BY <1>1, <1>4
<1>6. QED
  BY <1>1, <1>3, <1>4, <1>5

\* A note starts: if another channel sounds it, either both are on the natural
\* key or they are at odds from now on.
LEMMA StartsKeepKeys ==
  ASSUME One!MidiConverter1Assumption, KeysIInv, NEW c \in Senders, NEW n \in Notes, One!NoteOn(c, n)
  PROVE  KeysIInv'
<1>1. PICK k : k = midi2NoteTune[n]
  OBVIOUS
<1>2. /\ k \in Notes /\ k # Silent /\ sounding[c][n] = Silent
      /\ sounding' = [sounding EXCEPT ![c][n] = k]
      /\ midi2NoteToKey' = [midi2NoteToKey EXCEPT ![n] = k]
      /\ midi2NoteTune' = midi2NoteTune
      /\ crossed' = IF One!crosses(c, n, k) THEN crossed \cup {n} ELSE crossed
  BY <1>1 DEF One!NoteOn, KeysIInv, One!MidiConverter1Assumption
<1>3. /\ sounding' \in [Senders -> [Notes -> Notes \cup {Silent}]]
      /\ \A d \in Senders, m \in Notes : sounding'[d][m] = IF d = c /\ m = n THEN k ELSE sounding[d][m]
  <2>1. k \in Notes \cup {Silent} /\ sounding' = [sounding EXCEPT ![c][n] = k]
    BY <1>2
  <2>2. QED
    BY <2>1, OneNoteChanges
<1>4. /\ midi2NoteToKey' \in [Notes -> Notes] /\ midi2NoteTune' \in [Notes -> Notes]
      /\ \A m \in Notes : midi2NoteToKey'[m] = IF m = n THEN k ELSE midi2NoteToKey[m]
  BY <1>2 DEF KeysIInv
<1>5. /\ crossed \subseteq crossed'
      /\ n \notin crossed' => \A d \in Senders \ {c} : sounding[d][n] # Silent => k = n /\ sounding[d][n] = n
  BY <1>2 DEF One!crosses
<1>6. One!AftertouchFollows'
  <2>1. ASSUME NEW d \in Senders, NEW m \in Notes, m \notin crossed', sounding'[d][m] # Silent
        PROVE  midi2NoteToKey'[m] = sounding'[d][m]
    <3>1. CASE m = n
      BY <1>3, <1>4, <1>5, <2>1, <3>1
    <3>2. CASE m # n
      BY <1>3, <1>4, <1>5, <2>1, <3>2 DEF KeysIInv, One!AftertouchFollows
    <3>3. QED
      BY <3>1, <3>2
  <2>2. QED
    BY <2>1 DEF One!AftertouchFollows
<1>7. ASSUME NEW d \in Senders, NEW e \in Senders, NEW m \in Notes, m \notin crossed', d # e,
             sounding'[d][m] # Silent, sounding'[e][m] # Silent
      PROVE  sounding'[d][m] = m /\ sounding'[e][m] = m
  <2>1. CASE m = n
    <3>1. \A f \in Senders \ {c} : sounding'[f][m] = sounding[f][m]
      BY <1>3
    <3>2. sounding'[c][m] = k
      BY <1>3, <2>1
    <3>3. CASE c \in {d, e}
      BY <1>5, <1>7, <2>1, <3>1, <3>2, <3>3
    <3>4. CASE c \notin {d, e}
      BY <1>5, <1>7, <2>1, <3>1, <3>4
    <3>5. QED
      BY <3>3, <3>4
  <2>2. CASE m # n
    BY <1>3, <1>5, <1>7, <2>2 DEF KeysIInv
  <2>3. QED
    BY <2>1, <2>2
<1>8. QED
  BY <1>3, <1>4, <1>6, <1>7 DEF KeysIInv

\* A note ends: if another channel sounds it too, that is on the natural key.
LEMMA EndsKeepKeys ==
  ASSUME One!MidiConverter1Assumption, KeysIInv, NEW c \in Senders, NEW n \in Notes, One!NoteOff(c, n)
  PROVE  KeysIInv'
<1>1. /\ sounding[c][n] # Silent
      /\ sounding' = [sounding EXCEPT ![c][n] = Silent]
      /\ midi2NoteToKey' = [midi2NoteToKey EXCEPT ![n] = n]
      /\ midi2NoteTune' = midi2NoteTune /\ crossed' = crossed
  BY DEF One!NoteOff
<1>2. /\ sounding' \in [Senders -> [Notes -> Notes \cup {Silent}]]
      /\ \A d \in Senders, m \in Notes : sounding'[d][m] = IF d = c /\ m = n THEN Silent ELSE sounding[d][m]
  BY <1>1, OneNoteChanges
<1>3. /\ midi2NoteToKey' \in [Notes -> Notes] /\ midi2NoteTune' \in [Notes -> Notes]
      /\ \A m \in Notes : midi2NoteToKey'[m] = IF m = n THEN n ELSE midi2NoteToKey[m]
  BY <1>1 DEF KeysIInv
<1>4. One!AftertouchFollows'
  <2>1. ASSUME NEW d \in Senders, NEW m \in Notes, m \notin crossed', sounding'[d][m] # Silent
        PROVE  midi2NoteToKey'[m] = sounding'[d][m]
    <3>1. CASE m = n
      <4>1. d # c /\ sounding[d][n] # Silent
        BY <1>2, <2>1, <3>1
      <4>2. sounding[d][n] = n
        BY <1>1, <2>1, <3>1, <4>1 DEF KeysIInv
      <4>3. QED
        BY <1>2, <1>3, <3>1, <4>1, <4>2
    <3>2. CASE m # n
      BY <1>1, <1>2, <1>3, <2>1, <3>2 DEF KeysIInv, One!AftertouchFollows
    <3>3. QED
      BY <3>1, <3>2
  <2>2. QED
    BY <2>1 DEF One!AftertouchFollows
<1>5. ASSUME NEW d \in Senders, NEW e \in Senders, NEW m \in Notes, m \notin crossed', d # e,
             sounding'[d][m] # Silent, sounding'[e][m] # Silent
      PROVE  sounding'[d][m] = m /\ sounding'[e][m] = m
  <2>1. sounding'[d][m] = sounding[d][m] /\ sounding'[e][m] = sounding[e][m]
    BY <1>2, <1>5
  <2>2. QED
    BY <1>1, <1>5, <2>1 DEF KeysIInv
<1>6. QED
  BY <1>2, <1>3, <1>4, <1>5 DEF KeysIInv

\* Note-Ons, Note-Offs and changes of pitch on any channels keep the keys in step.
LEMMA KeysInvariance == One!Spec => []KeysIInv
<1>0. One!MidiConverter1Assumption
  BY MidiAssumption
<1>1. One!Init => KeysIInv
  BY DEF One!Init, KeysIInv, One!AftertouchFollows
<1>2. KeysIInv /\ [One!Next]_One!vars => KeysIInv'
  <2> SUFFICES ASSUME KeysIInv, [One!Next]_One!vars PROVE KeysIInv'
    OBVIOUS
  <2>1. ASSUME NEW c \in Senders, NEW n \in Notes, One!NoteOn(c, n) PROVE KeysIInv'
    BY <1>0, <2>1, StartsKeepKeys
  <2>2. ASSUME NEW c \in Senders, NEW n \in Notes, One!NoteOff(c, n) PROVE KeysIInv'
    BY <1>0, <2>2, EndsKeepKeys
  <2>3. ASSUME NEW n \in Notes, NEW semitones \in Notes, One!SetPitch(n, semitones) PROVE KeysIInv'
    <3>1. midi2NoteTune' \in [Notes -> Notes] /\ UNCHANGED <<midi2NoteToKey, sounding, crossed>>
      BY <2>3 DEF One!SetPitch, KeysIInv
    <3>2. QED
      BY <3>1 DEF KeysIInv, One!AftertouchFollows
  <2>4. ASSUME UNCHANGED One!noteVars PROVE KeysIInv'
    BY <2>4 DEF One!noteVars, KeysIInv, One!AftertouchFollows
  <2>5. QED
    BY <2>1, <2>2, <2>3, <2>4 DEF One!Next, One!ControlChange, One!vars
<1>3. QED
  BY <1>1, <1>2, PTL DEF One!Spec

\* A Note-Off of MidiConverter1 ends the key that its Note-On started, and
\* aftertouch goes to it, whatever pitch the note was given in between, for each
\* note that did not sound on two channels with two keys: the array of keys is
\* shared by the channels, so for the others it does not hold.
THEOREM OffsAlwaysMatchOns == One!Spec => OffsMatchOns
<1>1. ASSUME KeysIInv, [One!Next]_One!vars, NEW c \in Senders, NEW n \in Notes,
             n \notin crossed, One!ends(c, n)
      PROVE  One!OffIsForItsKey(c, n)
  <2>0. One!MidiConverter1Assumption
    BY MidiAssumption
  <2>1. sounding[c][n] # Silent /\ sounding'[c][n] = Silent
    BY <1>1 DEF One!ends
  <2>2. ASSUME NEW d \in Senders, NEW m \in Notes, One!NoteOn(d, m) PROVE FALSE
    <3>1. midi2NoteTune[m] \in Notes /\ sounding' = [sounding EXCEPT ![d][m] = midi2NoteTune[m]]
      BY <1>1, <2>2 DEF One!NoteOn, KeysIInv
    <3>2. sounding'[c][n] = IF c = d /\ n = m THEN midi2NoteTune[m] ELSE sounding[c][n]
      BY <1>1, <3>1, OneNoteChanges
    <3>3. QED
      BY <2>0, <2>1, <3>1, <3>2 DEF One!MidiConverter1Assumption
  <2>3. ASSUME NEW d \in Senders, NEW m \in Notes, One!NoteOff(d, m) PROVE One!OffIsForItsKey(c, n)
    <3>1. /\ sounding' = [sounding EXCEPT ![d][m] = Silent]
          /\ noteSent' = One!Message("NoteOff", d, midi2NoteToKey[m])
      BY <2>3 DEF One!NoteOff
    <3>2. sounding'[c][n] = IF c = d /\ n = m THEN Silent ELSE sounding[c][n]
      BY <1>1, <3>1, OneNoteChanges
    <3>3. c = d /\ n = m
      BY <2>1, <3>2
    <3>4. midi2NoteToKey[n] = sounding[c][n]
      BY <1>1, <2>1 DEF KeysIInv, One!AftertouchFollows
    <3>5. QED
      BY <3>1, <3>3, <3>4 DEF One!OffIsForItsKey
  <2>4. ASSUME sounding' = sounding PROVE FALSE
    BY <2>1, <2>4
  <2>5. QED
    BY <1>1, <2>2, <2>3, <2>4
       DEF One!Next, One!SetPitch, One!ControlChange, One!noteVars, One!vars
<1>2. KeysIInv /\ [One!Next]_One!vars
        => [\A c \in Senders, n \in Notes :
              n \notin crossed /\ One!ends(c, n) => One!OffIsForItsKey(c, n)]_One!vars
  BY <1>1
<1>3. KeysIInv => One!AftertouchFollows
  BY DEF KeysIInv
<1>4. QED
  BY <1>2, <1>3, KeysInvariance, PTL DEF One!Spec, OffsMatchOns, One!OffsMatchOns

\* What the channel sent to last has is what thinning compares with.
ThinningIInv ==
  /\ DOMAIN value = Senders /\ DOMAIN newestValue = Senders
  /\ value = [c \in Senders |-> value[c]] /\ newestValue = [c \in Senders |-> newestValue[c]]
  /\ last # One!Unsent =>
    /\ last \in Senders
    /\ value[last] = ControlChangeValue.quantized
    /\ ControlChangeValue.quantized = One!floatToU7(newestValue[last])

\* Thinning of controllers loses no value on the channel last sent to.
THEOREM ReceiverAlwaysFollows == One!Spec => []ReceiverFollows
<1>1. One!Init => ThinningIInv
  BY DEF One!Init, ThinningIInv
<1>2. ASSUME ThinningIInv, NEW c \in Senders, NEW v \in Values, One!ControlChange(c, v)
      PROVE  ThinningIInv'
  <2>1. newestValue' = [newestValue EXCEPT ![c] = v]
    BY <1>2 DEF One!ControlChange
  <2>2. CASE One!isThinned(v)
    <3>1. UNCHANGED <<ControlChangeValue, value, last>> /\ ControlChangeValue.quantized = One!floatToU7(v)
      BY <1>2, <2>2 DEF One!ControlChange, One!isThinned
    <3>2. QED
      BY <1>2, <2>1, <3>1 DEF ThinningIInv
  <2>3. CASE ~One!isThinned(v)
    <3>1. /\ ControlChangeValue'.quantized = One!floatToU7(v)
          /\ value' = [value EXCEPT ![c] = One!floatToU7(v)]
          /\ last' = c
      BY <1>2, <2>3 DEF One!ControlChange
    <3>2. QED
      BY <1>2, <2>1, <3>1 DEF ThinningIInv
  <2>4. QED
    BY <2>2, <2>3
<1>3. ThinningIInv /\ [One!Next]_One!vars => ThinningIInv'
  <2>1. UNCHANGED One!controlVars /\ ThinningIInv => ThinningIInv'
    BY DEF One!controlVars, ThinningIInv
  <2>2. QED
    BY <1>2, <2>1 DEF One!Next, One!NoteOn, One!NoteOff, One!SetPitch, One!vars
<1>4. ThinningIInv => ReceiverFollows
  BY DEF ThinningIInv, ReceiverFollows, One!ReceiverFollows
<1>5. QED
  BY <1>1, <1>3, <1>4, PTL DEF One!Spec

-----------------------------------------------------------------------------
(* MpeConverter: zones *)

\* The zones that are set share the channels between the masters.
ZonesIInv ==
  /\ lower \in [master : Int, size : Int] /\ upper \in [master : Int, size : Int]
  /\ lower.size <= LastChannel /\ upper.size <= LastChannel
  /\ lower.size > 0 /\ upper.size > 0 => lower.size + upper.size <= LastChannel - 1
  /\ lower.size > 0 => lower.master = 0
  /\ upper.size > 0 => upper.master = LastChannel

\* A zone is shrunk as far as the other has to grow, and keeps its master.
LEMMA Shrinks ==
  ASSUME NEW zone \in [master : Int, size : Int], NEW size \in 0..LastChannel
  PROVE  /\ shrunk(zone, size) \in [master : Int, size : Int]
         /\ shrunk(zone, size).master = zone.master
         /\ shrunk(zone, size).size <= zone.size
         /\ shrunk(zone, size).size <= LastChannel - 1 - size
<1>1. LastChannel \in Nat
  BY MpeAssumption
<1>2. QED
  BY <1>1 DEF shrunk

\* No channel is a member of both zones, and a zone that is in use has its
\* master to itself.
THEOREM ZonesAreAlwaysApart == MpeSpec => []ZonesAreApart
<1>0. LastChannel \in Nat \ {0}
  BY MpeAssumption
<1>1. MpeInit => ZonesIInv
  BY <1>0 DEF MpeInit, ZonesIInv, NoZone, Zone
<1>2. ZonesIInv /\ [MpeNext]_mpeVars => ZonesIInv'
  <2> SUFFICES ASSUME ZonesIInv, [MpeNext]_mpeVars PROVE ZonesIInv'
    OBVIOUS
  <2>1. ASSUME NEW c \in {0, LastChannel}, NEW size \in ZoneSizes, Configure(c, size) PROVE ZonesIInv'
    <3>1. size \in 0..LastChannel
      BY MpeAssumption DEF Channels
    <3>2. CASE c = 0 /\ lower' = Zone(IF size > 0 THEN c ELSE -1, size)
               /\ upper' = IF size > 0 THEN shrunk(upper, size) ELSE upper
      <4>1. /\ lower' \in [master : Int, size : Int] /\ lower'.size = size
            /\ size > 0 => lower'.master = 0
        BY <1>0, <3>1, <3>2 DEF Zone
      <4>2. /\ upper' \in [master : Int, size : Int] /\ upper'.master = upper.master
            /\ upper'.size <= upper.size
            /\ size > 0 => upper'.size <= LastChannel - 1 - size
        BY <3>1, <3>2, Shrinks DEF ZonesIInv
      <4>3. upper.size \in Int /\ upper'.size \in Int
        BY <4>2 DEF ZonesIInv
      <4>4. lower'.size + upper'.size <= LastChannel - 1 \/ size <= 0
        BY <1>0, <3>1, <4>1, <4>2, <4>3
      <4>5. lower'.size <= LastChannel /\ upper'.size <= LastChannel
        BY <1>0, <3>1, <4>1, <4>2, <4>3 DEF ZonesIInv
      <4>6. upper'.size > 0 => upper'.master = LastChannel
        BY <4>2, <4>3 DEF ZonesIInv
      <4>7. QED
        BY <1>0, <3>1, <4>1, <4>2, <4>4, <4>5, <4>6 DEF ZonesIInv
    <3>3. CASE c = LastChannel /\ upper' = Zone(IF size > 0 THEN c ELSE -1, size)
               /\ lower' = IF size > 0 THEN shrunk(lower, size) ELSE lower
      <4>1. /\ upper' \in [master : Int, size : Int] /\ upper'.size = size
            /\ size > 0 => upper'.master = LastChannel
        BY <1>0, <3>1, <3>3 DEF Zone
      <4>2. /\ lower' \in [master : Int, size : Int] /\ lower'.master = lower.master
            /\ lower'.size <= lower.size
            /\ size > 0 => lower'.size <= LastChannel - 1 - size
        BY <3>1, <3>3, Shrinks DEF ZonesIInv
      <4>3. lower.size \in Int /\ lower'.size \in Int
        BY <4>2 DEF ZonesIInv
      <4>4. upper'.size + lower'.size <= LastChannel - 1 \/ size <= 0
        BY <1>0, <3>1, <4>1, <4>2, <4>3
      <4>5. upper'.size <= LastChannel /\ lower'.size <= LastChannel
        BY <1>0, <3>1, <4>1, <4>2, <4>3 DEF ZonesIInv
      <4>6. lower'.size > 0 => lower'.master = 0
        BY <4>2, <4>3 DEF ZonesIInv
      <4>7. QED
        BY <1>0, <3>1, <4>1, <4>2, <4>4, <4>5, <4>6 DEF ZonesIInv
    <3>4. QED
      BY <2>1, <3>2, <3>3 DEF Configure
  <2>2. ASSUME NEW mode \in BOOLEAN, setMpeMode(mode) PROVE ZonesIInv'
    BY <1>0, <2>2 DEF setMpeMode, ZonesIInv, NoZone, Zone
  <2>3. ASSUME UNCHANGED zoneVars PROVE ZonesIInv'
    BY <2>3 DEF zoneVars, ZonesIInv
  <2>4. QED
    BY <2>1, <2>2, <2>3 DEF MpeNext, NoteOn, NoteOff, AllNotesOff, Control, mpeVars
<1>3. ZonesIInv => ZonesAreApart
  BY <1>0 DEF ZonesIInv, ZonesAreApart, isLowerZone, isUpperZone, Channels
<1>4. QED
  BY <1>1, <1>2, <1>3, PTL DEF MpeSpec

-----------------------------------------------------------------------------
(* NoteMapper: the key of a Note-On *)

Ids == Players \X Notes

\* The table of keys: a held one has the id of a finger.
MapperTypes ==
  /\ noteIds \in [Keys -> [noteId : Ids \cup {NoId}, held : BOOLEAN, pitch : Keys]]
  /\ noteIdsRoundRobin \in Keys

\* Going round the keys reaches each of them.
LEMMA EveryKeyIsReached ==
  ASSUME noteIdsRoundRobin \in Keys, NEW k \in Keys
  PROVE  \E n \in 1..LastKey + 1 : rotated(n) = k
<1> DEFINE size == LastKey + 1
           n == IF k > noteIdsRoundRobin THEN k - noteIdsRoundRobin ELSE k - noteIdsRoundRobin + size
<1>1. LastKey \in Nat
  BY MpeAssumption
<1>2. n \in 1..LastKey + 1
  BY <1>1 DEF Keys
<1>3. k \in Nat /\ size \in Nat \ {0} /\ k < size
  BY <1>1 DEF Keys
<1>4. noteIdsRoundRobin + n \in {k, k + size}
  BY <1>1 DEF Keys
<1> HIDE DEF n, size
<1>5. k % size = k
  BY <1>3
<1>6. (k + size) % size = k
  BY <1>3
<1>7. QED
  BY <1>2, <1>4, <1>5, <1>6 DEF rotated, size

\* The search for a free key ends on one if there is one, and on a key anyway.
LEMMA NextKeyIsFree ==
  ASSUME noteIdsRoundRobin \in Keys
  PROVE  /\ nextKey \in Keys
         /\ heldKeys # Keys => nextKey \notin heldKeys
<1> DEFINE found(n) == rotated(n) \notin heldKeys \/ n = LastKey + 1
           S == { n \in 1..LastKey + 1 : found(n) }
           first == CHOOSE n \in 1..LastKey + 1 : found(n) /\ \A i \in 1..n-1 : ~found(i)
<1>1. LastKey \in Nat
  BY MpeAssumption
<1>2. \E n \in 1..LastKey + 1 : found(n) /\ \A i \in 1..n-1 : ~found(i)
  <2>1. LastKey + 1 \in S /\ S \in SUBSET Nat
    BY <1>1
  <2>2. PICK n \in S : \A i \in S : n <= i
    <3> HIDE DEF S
    <3> QED
      BY <2>1, LeastNumber
  <2>3. \A i \in 1..n-1 : i \in 1..LastKey + 1 /\ ~(n <= i)
    BY <1>1
  <2>4. \A i \in 1..n-1 : ~found(i)
    BY <2>2, <2>3
  <2>5. QED
    BY <2>2, <2>4
<1>3. first \in 1..LastKey + 1 /\ found(first) /\ \A i \in 1..first-1 : ~found(i)
  BY <1>2
<1>4. nextKey = rotated(first)
  BY DEF nextKey
<1> HIDE DEF first
<1>5. \A n \in 1..LastKey + 1 : rotated(n) \in Keys
  BY <1>1 DEF rotated, Keys
<1>6. ASSUME rotated(first) \in heldKeys PROVE heldKeys = Keys
  <2>1. first = LastKey + 1
    BY <1>3, <1>6
  <2>2. \A n \in 1..LastKey + 1 : rotated(n) \in heldKeys
    <3>1. \A n \in 1..LastKey + 1 : n \in 1..LastKey + 1 - 1 \/ n = LastKey + 1
      BY <1>1
    <3>2. QED
      BY <1>3, <1>6, <2>1, <3>1
  <2>3. QED
    BY <2>2, EveryKeyIsReached DEF heldKeys
<1>7. QED
  BY <1>3, <1>4, <1>5, <1>6

\* A note keeps its key; a new one gets its natural key if that is free, or
\* another that is free, if any is.
LEMMA KeyOfANote ==
  ASSUME MapperTypes, NEW id, NEW preferred \in Keys
  PROVE  /\ keyFor(id, preferred) \in Keys
         /\ findNote(id) # {} => keyFor(id, preferred) \in findNote(id)
         /\ findNote(id) = {} /\ preferred \notin heldKeys => keyFor(id, preferred) = preferred
         /\ findNote(id) = {} /\ heldKeys # Keys => keyFor(id, preferred) \notin heldKeys
<1>1. findNote(id) \subseteq Keys /\ Keys \subseteq Nat
  BY MpeAssumption DEF findNote, heldKeys, Keys
<1>2. ASSUME findNote(id) # {} PROVE keyFor(id, preferred) \in findNote(id)
  <2>1. \E k \in findNote(id) : \A j \in findNote(id) : k <= j
    BY <1>1, <1>2, LeastNumber
  <2>2. QED
    BY <1>2, <2>1 DEF keyFor
<1>3. noteIdsRoundRobin \in Keys
  BY DEF MapperTypes
<1>4. ASSUME findNote(id) = {} PROVE keyFor(id, preferred) = IF preferred \notin heldKeys THEN preferred ELSE nextKey
  BY <1>4 DEF keyFor
<1>5. QED
  BY <1>1, <1>2, <1>3, <1>4, NextKeyIsFree

\* What a Note-On does to the table.
LEMMA NoteOnTakesAKey ==
  ASSUME MapperTypes, NEW c \in Players, NEW n \in Notes, NEW k, k = keyFor(<<c, n>>, n),
         allocateNote(<<c, n>>, n)
  PROVE  /\ MapperTypes' /\ k \in Keys
         /\ noteIds' = [noteIds EXCEPT ![k] = [noteId |-> <<c, n>>, held |-> TRUE, pitch |-> n]]
         /\ heldKeys' = heldKeys \cup {k}
         /\ \A id : findNote(id)' = IF id = <<c, n>> THEN findNote(id) \cup {k} ELSE findNote(id) \ {k}
         /\ \A d : onChannel(d)' = IF d = c THEN onChannel(d) \cup {k} ELSE onChannel(d) \ {k}
         /\ before' = { pair \in before : k \notin {pair[1], pair[2]} } \cup ((usedKeys \ {k}) \X {k})
<1>1. n \in Keys /\ <<c, n>> \in Ids /\ <<c, n>> # NoId
  BY MpeAssumption DEF Ids
<1>2. k \in Keys
  BY <1>1, KeyOfANote
<1>3. noteIds' = [noteIds EXCEPT ![k] = [noteId |-> <<c, n>>, held |-> TRUE, pitch |-> n]]
  BY DEF allocateNote
<1>4. /\ noteIds'[k].noteId = <<c, n>> /\ noteIds'[k].held
      /\ \A j \in Keys \ {k} : noteIds'[j] = noteIds[j]
  BY <1>2, <1>3 DEF MapperTypes
<1>5. MapperTypes'
  <2>1. noteIdsRoundRobin' \in Keys
    BY <1>2 DEF allocateNote, MapperTypes
  <2>2. [noteId |-> <<c, n>>, held |-> TRUE, pitch |-> n] \in [noteId : Ids \cup {NoId}, held : BOOLEAN, pitch : Keys]
    BY <1>1
  <2>3. QED
    BY <1>2, <1>3, <2>1, <2>2 DEF MapperTypes
<1>6. heldKeys' = heldKeys \cup {k}
  BY <1>2, <1>4 DEF heldKeys
<1>7. ASSUME NEW id
      PROVE  findNote(id)' = IF id = <<c, n>> THEN findNote(id) \cup {k} ELSE findNote(id) \ {k}
  <2>1. \A j : j \in findNote(id)' <=> j \in heldKeys' /\ noteIds'[j].noteId = id
    BY DEF findNote
  <2>2. \A j : j \in findNote(id) <=> j \in heldKeys /\ noteIds[j].noteId = id
    BY DEF findNote
  <2>3. \A j \in heldKeys : j \in Keys
    BY DEF heldKeys
  <2>4. QED
    BY <1>2, <1>4, <1>6, <2>1, <2>2, <2>3
<1>8. ASSUME NEW d
      PROVE  onChannel(d)' = IF d = c THEN onChannel(d) \cup {k} ELSE onChannel(d) \ {k}
  <2>1. \A j : j \in onChannel(d)' <=> j \in Keys /\ noteIds'[j].noteId # NoId /\ noteIds'[j].noteId[1] = d
    BY DEF onChannel, usedKeys
  <2>2. \A j : j \in onChannel(d) <=> j \in Keys /\ noteIds[j].noteId # NoId /\ noteIds[j].noteId[1] = d
    BY DEF onChannel, usedKeys
  <2>3. QED
    BY <1>1, <1>2, <1>4, <2>1, <2>2
<1>9. before' = { pair \in before : k \notin {pair[1], pair[2]} } \cup ((usedKeys \ {k}) \X {k})
  BY DEF allocateNote
<1>10. QED
  BY <1>2, <1>3, <1>5, <1>6, <1>7, <1>8, <1>9

\* What Note-Offs do to it.
LEMMA KeysAreReleased ==
  ASSUME MapperTypes, NEW keys, release(keys)
  PROVE  /\ MapperTypes'
         /\ heldKeys' = heldKeys \ keys
         /\ \A k \in Keys : noteIds'[k].noteId = noteIds[k].noteId /\ noteIds'[k].pitch = noteIds[k].pitch
         /\ \A id : findNote(id)' = findNote(id) \ keys
         /\ \A d : onChannel(d)' = onChannel(d)
         /\ before' = before
<1>1. noteIds' = [k \in Keys |-> IF k \in keys THEN [noteIds[k] EXCEPT !.held = FALSE] ELSE noteIds[k]]
  BY DEF release
<1>2. \A k \in Keys : noteIds[k] \in [noteId : Ids \cup {NoId}, held : BOOLEAN, pitch : Keys]
  BY DEF MapperTypes
<1>3. \A k \in Keys : /\ noteIds'[k] \in [noteId : Ids \cup {NoId}, held : BOOLEAN, pitch : Keys]
                      /\ noteIds'[k].noteId = noteIds[k].noteId /\ noteIds'[k].pitch = noteIds[k].pitch
  <2>1. ASSUME NEW slot \in [noteId : Ids \cup {NoId}, held : BOOLEAN, pitch : Keys], NEW later,
               later = [slot EXCEPT !.held = FALSE]
        PROVE  /\ later \in [noteId : Ids \cup {NoId}, held : BOOLEAN, pitch : Keys]
               /\ later.noteId = slot.noteId /\ later.pitch = slot.pitch
    BY <2>1
  <2>2. ASSUME NEW k \in Keys
        PROVE  /\ noteIds'[k] \in [noteId : Ids \cup {NoId}, held : BOOLEAN, pitch : Keys]
               /\ noteIds'[k].noteId = noteIds[k].noteId /\ noteIds'[k].pitch = noteIds[k].pitch
    <3>1. CASE k \in keys
      <4>1. noteIds'[k] = [noteIds[k] EXCEPT !.held = FALSE]
        BY <1>1, <3>1
      <4>2. QED
        BY <1>2, <2>1, <4>1
    <3>2. CASE k \notin keys
      <4>1. noteIds'[k] = noteIds[k]
        BY <1>1, <3>2
      <4>2. QED
        BY <1>2, <4>1
    <3>3. QED
      BY <3>1, <3>2
  <2>3. QED
    BY <2>2
<1>4. \A k \in Keys : noteIds'[k].held <=> noteIds[k].held /\ k \notin keys
  <2>1. ASSUME NEW k \in Keys PROVE noteIds'[k].held <=> noteIds[k].held /\ k \notin keys
    <3>1. CASE k \in keys
      <4>1. noteIds'[k].held = FALSE
        BY <1>1, <1>2, <3>1
      <4>2. QED
        BY <3>1, <4>1
    <3>2. CASE k \notin keys
      BY <1>1, <3>2
    <3>3. QED
      BY <3>1, <3>2
  <2>2. QED
    BY <2>1
<1>5. MapperTypes'
  <2>1. noteIdsRoundRobin' \in Keys
    BY DEF release, MapperTypes
  <2>2. noteIds' \in [Keys -> [noteId : Ids \cup {NoId}, held : BOOLEAN, pitch : Keys]]
    BY <1>1, <1>3
  <2>3. QED
    BY <2>1, <2>2 DEF MapperTypes
<1>6. heldKeys' = heldKeys \ keys
  BY <1>4 DEF heldKeys
<1>7. \A id : findNote(id)' = findNote(id) \ keys
  BY <1>3, <1>6 DEF findNote, heldKeys
<1>8. \A d : onChannel(d)' = onChannel(d)
  BY <1>3 DEF onChannel, usedKeys
<1>9. before' = before
  BY DEF release
<1>10. QED
  BY <1>3, <1>5, <1>6, <1>7, <1>8, <1>9

-----------------------------------------------------------------------------
(* MpeConverter: the newest note of a channel *)

\* The newest note of a channel is the one that is started after all the others.
NewestIInv ==
  /\ newest \in [Channels -> Keys \cup {NoKey}]
  /\ stale = [x \in Controllers |-> {}]
  /\ \A c \in Channels : newest[c] # NoKey =>
       /\ newest[c] \in onChannel(c)
       /\ \A j \in onChannel(c) : <<newest[c], j>> \notin before
       /\ \A j \in onChannel(c) \ {newest[c]} : <<j, newest[c]>> \in before

\* It is the one that the mapper finds.
LEMMA NewestIsLatest ==
  ASSUME NewestIInv, NEW c \in Channels, newest[c] # NoKey
  PROVE  latestOn(c) = {newest[c]}
<1>1. newest[c] \in latestOn(c)
  BY DEF latestOn, NewestIInv
<1>2. ASSUME NEW k \in latestOn(c), k # newest[c] PROVE FALSE
  BY <1>2 DEF latestOn, NewestIInv
<1>3. QED
  BY <1>1, <1>2

\* A Note-On makes another note the newest of its channel.
LEMMA NoteOnMakesNewest ==
  ASSUME MapperTypes, NewestIInv, NEW c \in Players, NEW n \in Notes, NoteOn(c, n)
  PROVE  NewestIInv'
<1>1. PICK k : k = keyFor(<<c, n>>, n)
  OBVIOUS
<1>2. /\ newest' = [d \in Channels |-> IF d = c THEN k ELSE IF newest[d] = k THEN NoKey ELSE newest[d]]
      /\ stale' = [x \in Controllers |-> stale[x] \ {k}]
      /\ allocateNote(<<c, n>>, n)
  BY <1>1 DEF NoteOn, sentOnNoteOn
<1>3. /\ k \in Keys
      /\ \A d : onChannel(d)' = IF d = c THEN onChannel(d) \cup {k} ELSE onChannel(d) \ {k}
      /\ before' = { pair \in before : k \notin {pair[1], pair[2]} } \cup ((usedKeys \ {k}) \X {k})
  BY <1>1, <1>2, NoteOnTakesAKey
<1>4. \A i, j : <<i, j>> \in before' <=> \/ (<<i, j>> \in before /\ i # k /\ j # k)
                                        \/ (i \in usedKeys \ {k} /\ j = k)
  <2>1. ASSUME NEW i, NEW j
        PROVE  <<i, j>> \in before' <=> \/ (<<i, j>> \in before /\ i # k /\ j # k)
                                       \/ (i \in usedKeys \ {k} /\ j = k)
    <3>1. k \notin {<<i, j>>[1], <<i, j>>[2]} <=> i # k /\ j # k
      OBVIOUS
    <3>2. <<i, j>> \in (usedKeys \ {k}) \X {k} <=> i \in usedKeys \ {k} /\ j = k
      OBVIOUS
    <3>3. QED
      BY <1>3, <3>1, <3>2
  <2>2. QED
    BY <2>1
<1>5. c \in Channels /\ NoKey \notin Keys
  BY MpeAssumption
<1>6. newest' \in [Channels -> Keys \cup {NoKey}] /\ stale' = [x \in Controllers |-> {}]
  BY <1>2, <1>3 DEF NewestIInv
<1>7. ASSUME NEW d \in Channels, newest'[d] # NoKey
      PROVE  /\ newest'[d] \in onChannel(d)'
             /\ \A j \in onChannel(d)' : <<newest'[d], j>> \notin before'
             /\ \A j \in onChannel(d)' \ {newest'[d]} : <<j, newest'[d]>> \in before'
  <2>1. CASE d = c
    <3>1. newest'[d] = k /\ onChannel(d)' = onChannel(d) \cup {k}
      BY <1>2, <1>3, <2>1
    <3>2. \A j \in onChannel(d) : j \in usedKeys
      BY DEF onChannel
    <3>3. QED
      BY <1>4, <3>1, <3>2
  <2>2. CASE d # c
    <3>1. newest'[d] = newest[d] /\ newest[d] # k /\ newest[d] # NoKey /\ onChannel(d)' = onChannel(d) \ {k}
      BY <1>2, <1>3, <1>7, <2>2
    <3>2. /\ newest[d] \in onChannel(d)
          /\ \A j \in onChannel(d) : <<newest[d], j>> \notin before
          /\ \A j \in onChannel(d) \ {newest[d]} : <<j, newest[d]>> \in before
      BY <3>1 DEF NewestIInv
    <3>3. QED
      BY <1>4, <3>1, <3>2
  <2>3. QED
    BY <2>1, <2>2
<1>8. QED
  BY <1>6, <1>7 DEF NewestIInv

\* Each other step leaves the order of notes alone, and the newest value goes to
\* all the keys it should go to.
LEMMA NewestInvariance == MpeSpec => [](MapperTypes /\ NewestIInv)
<1>1. MpeInit => MapperTypes /\ NewestIInv
  <2> SUFFICES ASSUME MpeInit PROVE MapperTypes /\ NewestIInv
    OBVIOUS
  <2>1. 0 \in Keys
    BY MpeAssumption DEF Keys
  <2>2. MapperTypes
    BY <2>1 DEF MpeInit, MapperInit, MapperTypes
  <2>3. NewestIInv
    BY DEF MpeInit, NewestIInv
  <2>4. QED
    BY <2>2, <2>3
<1>2. MapperTypes /\ NewestIInv /\ [MpeNext]_mpeVars => MapperTypes' /\ NewestIInv'
  <2> SUFFICES ASSUME MapperTypes, NewestIInv, [MpeNext]_mpeVars PROVE MapperTypes' /\ NewestIInv'
    OBVIOUS
  <2>1. ASSUME NEW c \in Players, NEW n \in Notes, NoteOn(c, n) PROVE MapperTypes' /\ NewestIInv'
    <3>1. MapperTypes'
      <4>1. PICK k : k = keyFor(<<c, n>>, n)
        OBVIOUS
      <4>2. QED
        BY <2>1, <4>1, NoteOnTakesAKey DEF NoteOn
    <3>2. QED
      BY <2>1, <3>1, NoteOnMakesNewest
  <2>2. ASSUME NEW keys, release(keys), UNCHANGED <<stale, newest>> PROVE MapperTypes' /\ NewestIInv'
    <3>1. MapperTypes' /\ (\A d : onChannel(d)' = onChannel(d)) /\ before' = before
      BY <2>2, KeysAreReleased
    <3>2. QED
      BY <2>2, <3>1 DEF NewestIInv
  <2>3. ASSUME NEW c \in Players, NEW x \in Controllers, Control(c, x) PROVE MapperTypes' /\ NewestIInv'
    <3>1. c \in Channels
      BY MpeAssumption
    <3>2. soundingOn(c, x) \subseteq targets(c, x)
      BY <3>1, NewestIsLatest DEF soundingOn, targets, expressionTargets
    <3>3. stale' = [y \in Controllers |-> {}]
      BY <2>3, <3>2 DEF Control, NewestIInv
    <3>4. UNCHANGED <<noteIds, noteIdsRoundRobin, before, newest>>
      BY <2>3 DEF Control, mapperVars, historyVars
    <3>5. QED
      BY <3>3, <3>4 DEF NewestIInv, MapperTypes, onChannel, usedKeys
  <2>4. ASSUME UNCHANGED <<mapperVars, stale, newest>> PROVE MapperTypes' /\ NewestIInv'
    BY <2>4 DEF mapperVars, NewestIInv, MapperTypes, onChannel, usedKeys
  <2>5. QED
    BY <2>1, <2>2, <2>3, <2>4
       DEF MpeNext, Configure, setMpeMode, NoteOff, AllNotesOff, releaseHeldNotes, receiverVars, historyVars,
           mpeVars
<1>3. QED
  BY <1>1, <1>2, PTL DEF MpeSpec

\* A note has its channel's newest values from its start on to its Note-Off and,
\* with FatMpeConverter, beyond it; and as long as the newest note of the channel
\* has its key, no other key gets them.  Nothing is said of who else gets them
\* once that key has gone to another channel's note.
THEOREM NotesAlwaysFollowTheirChannel == MpeSpec => []NotesFollowTheirChannel
<1>1. NewestIInv => NotesFollowTheirChannel
  <2> SUFFICES ASSUME NewestIInv PROVE NotesFollowTheirChannel
    OBVIOUS
  <2>1. \A x \in Controllers : stale[x] = {}
    BY DEF NewestIInv
  <2>2. ASSUME NEW c \in Channels, newest[c] # NoKey, NEW x \in Controllers
        PROVE  targets(c, x) \subseteq soundingOn(c, x)
    BY <2>2, NewestIsLatest DEF targets, expressionTargets, soundingOn
  <2>3. QED
    BY <2>1, <2>2 DEF NotesFollowTheirChannel
<1>2. QED
  BY <1>1, NewestInvariance, PTL

-----------------------------------------------------------------------------
(* MpeConverter: fingers and their keys *)

\* Each finger that has not lost its key holds exactly one, and no key is held
\* but by a finger.
FingersIInv ==
  /\ fingers \subseteq Ids /\ stolen \subseteq fingers
  /\ \A k \in heldKeys : noteIds[k].noteId \in fingers \ stolen /\ noteIds[k].pitch = noteIds[k].noteId[2]
  /\ \A id \in fingers \ stolen : findNote(id) # {}
  /\ \A j, k \in heldKeys : noteIds[j].noteId = noteIds[k].noteId => j = k

\* A key is tuned as is remembered of it, or was never told a pitch and 0 is
\* remembered.
TuningIInv ==
  /\ tuning \in [Keys -> Keys]
  /\ \A k \in Keys : tuning[k] = noteIds[k].pitch \/ (noteIds[k].pitch = 0 /\ tuning[k] = k)

LEMMA FindsOne ==
  ASSUME FingersIInv, NEW id, NEW k \in findNote(id)
  PROVE  findNote(id) = {k}
BY DEF FingersIInv, findNote

\* A Note-On takes the key of another finger only when all keys are held.
LEMMA NoteOnKeepsFingers ==
  ASSUME MapperTypes, FingersIInv, NEW c \in Players, NEW n \in Notes, NoteOn(c, n)
  PROVE  FingersIInv' /\ KeysAreKept
<1>1. PICK id, k : id = <<c, n>> /\ k = keyFor(id, n)
  OBVIOUS
<1>2. /\ allocateNote(id, n)
      /\ fingers' = fingers \cup {id}
      /\ stolen' = (IF heldKeys = Keys THEN stolen \cup {noteIds[k].noteId} ELSE stolen) \ {id}
  BY <1>1 DEF NoteOn
<1>3. id \in Ids /\ n \in Keys /\ id[2] = n
  BY <1>1, MpeAssumption DEF Ids
<1>4. /\ k \in Keys
      /\ noteIds' = [noteIds EXCEPT ![k] = [noteId |-> id, held |-> TRUE, pitch |-> n]]
      /\ heldKeys' = heldKeys \cup {k}
      /\ \A other : findNote(other)' = IF other = id THEN findNote(other) \cup {k} ELSE findNote(other) \ {k}
  <2>1. allocateNote(<<c, n>>, n) /\ k = keyFor(<<c, n>>, n)
    BY <1>1, <1>2
  <2>2. k \in Keys
    BY <2>1, NoteOnTakesAKey
  <2>3. noteIds' = [noteIds EXCEPT ![k] = [noteId |-> <<c, n>>, held |-> TRUE, pitch |-> n]]
    BY <2>1, NoteOnTakesAKey
  <2>4. heldKeys' = heldKeys \cup {k}
    BY <2>1, NoteOnTakesAKey
  <2>5. \A i : findNote(i)' = IF i = <<c, n>> THEN findNote(i) \cup {k} ELSE findNote(i) \ {k}
    BY <2>1, NoteOnTakesAKey
  <2>6. QED
    BY <1>1, <2>2, <2>3, <2>4, <2>5
<1>5. /\ findNote(id) # {} => k \in findNote(id)
      /\ findNote(id) = {} /\ n \notin heldKeys => k = n
      /\ findNote(id) = {} /\ heldKeys # Keys => k \notin heldKeys
  BY <1>1, <1>3, KeyOfANote
<1>6. /\ noteIds'[k].noteId = id /\ noteIds'[k].pitch = n
      /\ \A j \in Keys \ {k} : noteIds'[j] = noteIds[j]
  BY <1>4 DEF MapperTypes
<1>7. \A j, other : j \in findNote(other) <=> j \in heldKeys /\ noteIds[j].noteId = other
  BY DEF findNote
<1>8. heldKeys \subseteq Keys
  BY DEF heldKeys
<1>9. \A j \in heldKeys \ {k} : noteIds[j].noteId # id
  BY <1>5, <1>7 DEF FingersIInv
<1>10. ASSUME k \in heldKeys, noteIds[k].noteId # id PROVE noteIds[k].noteId \in stolen'
  BY <1>2, <1>5, <1>7, <1>10
<1>11. \A other : other \in stolen' => other # id /\ (other \in stolen \/ (k \in heldKeys /\ other = noteIds[k].noteId))
  BY <1>2, <1>4
<1>12. \A other \in fingers' \ stolen' : other = id \/ other \in fingers \ stolen
  BY <1>2
<1>13. FingersIInv'
  <2>1. fingers' \subseteq Ids /\ stolen' \subseteq fingers'
    BY <1>2, <1>3, <1>11 DEF FingersIInv
  <2>2. ASSUME NEW j \in heldKeys'
        PROVE  noteIds'[j].noteId \in fingers' \ stolen' /\ noteIds'[j].pitch = noteIds'[j].noteId[2]
    <3>1. CASE j = k
      BY <1>2, <1>3, <1>6, <1>11, <3>1
    <3>2. CASE j # k
      <4>1. j \in heldKeys \ {k} /\ noteIds'[j] = noteIds[j]
        BY <1>4, <1>6, <1>8, <3>2
      <4>2. noteIds[j].noteId \in fingers \ stolen /\ noteIds[j].pitch = noteIds[j].noteId[2]
        BY <4>1 DEF FingersIInv
      <4>3. k \in heldKeys => noteIds[j].noteId # noteIds[k].noteId
        BY <4>1 DEF FingersIInv
      <4>4. QED
        BY <1>2, <1>11, <4>1, <4>2, <4>3
    <3>3. QED
      BY <3>1, <3>2
  <2>3. ASSUME NEW other \in fingers' \ stolen' PROVE findNote(other)' # {}
    <3>1. CASE other = id
      BY <1>4, <3>1
    <3>2. CASE other # id
      <4>1. other \in fingers \ stolen
        BY <1>12, <3>2
      <4>2. PICK j : j \in findNote(other)
        BY <4>1 DEF FingersIInv
      <4>3. j # k
        BY <1>7, <1>10, <3>2, <4>2
      <4>4. QED
        BY <1>4, <3>2, <4>2, <4>3
    <3>3. QED
      BY <3>1, <3>2
  <2>4. ASSUME NEW i \in heldKeys', NEW j \in heldKeys', noteIds'[i].noteId = noteIds'[j].noteId PROVE i = j
    <3>1. \A m \in heldKeys' : m = k \/ (m \in heldKeys \ {k} /\ noteIds'[m] = noteIds[m])
      BY <1>4, <1>6, <1>8
    <3>2. QED
      BY <1>6, <1>9, <2>4, <3>1 DEF FingersIInv
  <2>5. QED
    BY <2>1, <2>2, <2>3, <2>4 DEF FingersIInv
<1>14. ASSUME NEW other \in fingers'
       PROVE  /\ other \notin fingers /\ other[2] \notin heldKeys => findNote(other)' = {other[2]}
              /\ other \in fingers \ stolen /\ other \notin stolen' => findNote(other)' = findNote(other)
  <2>1. CASE other \notin fingers
    <3>1. other = id
      BY <1>2, <2>1
    <3>2. findNote(id) = {}
      BY <1>7, <2>1, <3>1 DEF FingersIInv
    <3>3. QED
      BY <1>3, <1>4, <1>5, <2>1, <3>1, <3>2
  <2>2. ASSUME other \in fingers \ stolen, other \notin stolen' PROVE findNote(other)' = findNote(other)
    <3>1. PICK j : j \in findNote(other)
      BY <2>2 DEF FingersIInv
    <3>2. findNote(other) = {j}
      BY <3>1, FindsOne
    <3>3. CASE other = id
      BY <1>4, <1>5, <3>2, <3>3
    <3>4. CASE other # id
      <4>1. k # j
        BY <1>7, <1>10, <2>2, <3>1, <3>4
      <4>2. QED
        BY <1>4, <3>2, <3>4, <4>1
    <3>5. QED
      BY <3>3, <3>4
  <2>3. QED
    BY <2>1, <2>2
<1>15. QED
  BY <1>13, <1>14 DEF KeysAreKept

\* Fingers are lifted: their keys and no others are released.
LEMMA LiftsKeepFingers ==
  ASSUME MapperTypes, FingersIInv, NEW lifted, NEW keys,
         keys = { k \in heldKeys : noteIds[k].noteId \in lifted }, release(keys),
         fingers' = fingers \ lifted, stolen' = stolen \ lifted
  PROVE  FingersIInv' /\ KeysAreKept
<1>1. /\ heldKeys' = heldKeys \ keys
      /\ \A k \in Keys : noteIds'[k].noteId = noteIds[k].noteId /\ noteIds'[k].pitch = noteIds[k].pitch
      /\ \A id : findNote(id)' = findNote(id) \ keys
  BY KeysAreReleased
<1>2. heldKeys \subseteq Keys
  BY DEF heldKeys
<1>3. ASSUME NEW id \in fingers' PROVE findNote(id)' = findNote(id)
  BY <1>1, <1>3 DEF findNote
<1>4. FingersIInv'
  <2>1. fingers' \subseteq Ids /\ stolen' \subseteq fingers'
    BY DEF FingersIInv
  <2>2. \A k \in heldKeys' : noteIds'[k].noteId \in fingers' \ stolen' /\ noteIds'[k].pitch = noteIds'[k].noteId[2]
    BY <1>1, <1>2 DEF FingersIInv
  <2>3. \A id \in fingers' \ stolen' : findNote(id)' # {}
    BY <1>3 DEF FingersIInv
  <2>4. \A j, k \in heldKeys' : noteIds'[j].noteId = noteIds'[k].noteId => j = k
    BY <1>1, <1>2 DEF FingersIInv
  <2>5. QED
    BY <2>1, <2>2, <2>3, <2>4 DEF FingersIInv
<1>5. QED
  BY <1>3, <1>4 DEF KeysAreKept

\* Each step keeps the fingers on their keys.
LEMMA FingersStep ==
  ASSUME MapperTypes, FingersIInv, [MpeNext]_mpeVars
  PROVE  FingersIInv' /\ KeysAreKept
<1>1. ASSUME NEW c \in Players, NEW n \in Notes, NoteOn(c, n) PROVE FingersIInv' /\ KeysAreKept
  BY <1>1, NoteOnKeepsFingers
<1>2. ASSUME NEW c \in Players, NEW n \in Notes, NoteOff(c, n) PROVE FingersIInv' /\ KeysAreKept
  <2>1. PICK lifted, keys : lifted = {<<c, n>>} /\ keys = findNote(<<c, n>>)
    OBVIOUS
  <2>2. keys = { k \in heldKeys : noteIds[k].noteId \in lifted }
    BY <2>1 DEF findNote
  <2>3. release(keys) /\ fingers' = fingers \ lifted /\ stolen' = stolen \ lifted
    BY <1>2, <2>1 DEF NoteOff
  <2>4. QED
    BY <2>2, <2>3, LiftsKeepFingers
<1>3. ASSUME NEW c \in Channels, AllNotesOff(c) PROVE FingersIInv' /\ KeysAreKept
  <2>1. PICK lifted, keys : /\ lifted = { id \in fingers : id[1] \in inScope(c) }
                            /\ keys = { k \in heldKeys : noteIds[k].noteId[1] \in inScope(c) }
    OBVIOUS
  <2>2. keys = { k \in heldKeys : noteIds[k].noteId \in lifted }
    BY <2>1 DEF FingersIInv
  <2>3. release(keys)
    BY <1>3, <2>1 DEF AllNotesOff, releaseHeldNotes
  <2>4. fingers' = fingers \ lifted /\ stolen' = stolen \ lifted
    BY <1>3, <2>1 DEF AllNotesOff, FingersIInv
  <2>5. QED
    BY <2>2, <2>3, <2>4, LiftsKeepFingers
<1>4. ASSUME UNCHANGED <<mapperVars, fingers, stolen>> PROVE FingersIInv' /\ KeysAreKept
  <2>1. heldKeys' = heldKeys /\ noteIds' = noteIds /\ fingers' = fingers /\ stolen' = stolen
    BY <1>4 DEF mapperVars, heldKeys
  <2>2. \A id : findNote(id)' = findNote(id)
    BY <2>1 DEF findNote
  <2>3. FingersIInv'
    BY <2>1, <2>2 DEF FingersIInv
  <2>4. QED
    BY <2>1, <2>2, <2>3 DEF KeysAreKept
<1>5. QED
  BY <1>1, <1>2, <1>3, <1>4 DEF MpeNext, Configure, setMpeMode, Control, historyVars, mpeVars

\* A pitch is sent to a key when it is not the one remembered for it.
LEMMA TuningStep ==
  ASSUME MapperTypes, TuningIInv, [MpeNext]_mpeVars
  PROVE  TuningIInv'
<1>1. ASSUME NEW c \in Players, NEW n \in Notes, NoteOn(c, n) PROVE TuningIInv'
  <2>1. PICK k : k = keyFor(<<c, n>>, n)
    OBVIOUS
  <2>2. allocateNote(<<c, n>>, n) /\ sendPitch(k, n) /\ n \in Keys
    BY <1>1, <2>1, MpeAssumption DEF NoteOn
  <2>3. k \in Keys /\ noteIds' = [noteIds EXCEPT ![k] = [noteId |-> <<c, n>>, held |-> TRUE, pitch |-> n]]
    BY <2>1, <2>2, NoteOnTakesAKey
  <2>4. noteIds'[k].pitch = n /\ \A j \in Keys \ {k} : noteIds'[j] = noteIds[j]
    BY <2>3 DEF MapperTypes
  <2>5. CASE noteIds[k].pitch # n
    <3>1. tuning' = [tuning EXCEPT ![k] = n]
      BY <2>2, <2>5 DEF sendPitch
    <3>2. QED
      BY <2>2, <2>3, <2>4, <3>1 DEF TuningIInv
  <2>6. CASE noteIds[k].pitch = n
    <3>1. tuning' = tuning
      BY <2>2, <2>6 DEF sendPitch
    <3>2. QED
      BY <2>3, <2>4, <2>6, <3>1 DEF TuningIInv
  <2>7. QED
    BY <2>5, <2>6
<1>2. ASSUME NEW keys, release(keys), tuning' = tuning PROVE TuningIInv'
  <2>1. \A k \in Keys : noteIds'[k].pitch = noteIds[k].pitch
    BY <1>2, KeysAreReleased
  <2>2. QED
    BY <1>2, <2>1 DEF TuningIInv
<1>3. ASSUME noteIds' = noteIds, tuning' = tuning PROVE TuningIInv'
  BY <1>3 DEF TuningIInv
<1>4. QED
  BY <1>1, <1>2, <1>3
     DEF MpeNext, Configure, setMpeMode, NoteOff, AllNotesOff, releaseHeldNotes, Control, mapperVars,
         receiverVars, mpeVars

\* The mapper's promise: fingers do not get in each other's way, and one loses
\* its key only when there is none left for another; the key of a finger is tuned
\* to its note, or was never told a pitch and the note is 0.
THEOREM FingersAlwaysHaveKeys == MpeSpec => FingersHaveKeys
<1>1. MpeInit => FingersIInv /\ TuningIInv
  <2>1. MpeInit => FingersIInv
    BY DEF MpeInit, MapperInit, FingersIInv, heldKeys
  <2>2. MpeInit => TuningIInv
    BY DEF MpeInit, MapperInit, TuningIInv
  <2>3. QED
    BY <2>1, <2>2
<1>2. MapperTypes /\ FingersIInv /\ TuningIInv /\ [MpeNext]_mpeVars
        => FingersIInv' /\ TuningIInv' /\ [KeysAreKept]_mpeVars
  BY FingersStep, TuningStep
<1>3. FingersIInv /\ TuningIInv => EachOnItsOwn
  <2> SUFFICES ASSUME FingersIInv, TuningIInv PROVE EachOnItsOwn
    OBVIOUS
  <2>1. ASSUME NEW id \in fingers \ stolen PROVE Cardinality(findNote(id)) = 1
    <3>1. PICK k : k \in findNote(id)
      BY DEF FingersIInv
    <3>2. findNote(id) = {k}
      BY <3>1, FindsOne
    <3>3. QED
      BY <3>2, FS_Singleton
  <2>2. ASSUME NEW k \in heldKeys PROVE noteIds[k].noteId \in fingers \ stolen /\ isTuned(k)
    <3>1. k \in Keys
      BY DEF heldKeys
    <3>2. noteIds[k].noteId \in fingers \ stolen /\ noteIds[k].pitch = noteIds[k].noteId[2]
      BY DEF FingersIInv
    <3>3. QED
      BY <3>1, <3>2 DEF TuningIInv, isTuned
  <2>3. QED
    BY <2>1, <2>2 DEF EachOnItsOwn
<1>4. QED
  BY <1>1, <1>2, <1>3, NewestInvariance, PTL DEF MpeSpec, FingersHaveKeys

=============================================================================
