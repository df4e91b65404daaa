----------------------- MODULE InterThreadQueProofs -----------------------
(***************************************************************************)
(* The receiving side of the queues, for any messages, lengths and zones:  *)
(* what can put the reader out of step, that chunks fit and come together  *)
(* again, and that frames and chunks are a channel of whole messages.      *)
(***************************************************************************)
EXTENDS InterThreadQue, SequenceTheorems, SequenceLemmas

-----------------------------------------------------------------------------
(* Bytes in a sequence of frames *)

\* g[k] is the number of bytes in the first k frames.
Totals(frames, g) ==
  /\ g \in [0..Len(frames) -> Nat]
  /\ g[0] = 0
  /\ \A k \in 1..Len(frames) : g[k] = g[k - 1] + HeaderLength + frames[k].length

LEMMA Lengths ==
  /\ HeaderLength \in Nat \ {0} /\ MultipartPayload \in Nat \ {0} /\ TotalSpace \in Nat \ {0}
  /\ SafetyZone \in Nat \ {0} /\ MultipartSafetyZone \in Nat \ {0}
  /\ HeaderLength + MultipartPayload <= SafetyZone
  /\ HeaderLength <= MultipartSafetyZone
  /\ 2 * MultipartSafetyZone < TotalSpace
BY InterThreadQueAssumption DEF InterThreadQueAssumption

LEMMA FrameIs ==
  ASSUME NEW f \in Frames
  PROVE  /\ f.kind \in {"plain", "MPAR", "MPCK"} /\ f.of \in Message /\ f.from \in Nat /\ f.length \in Nat
         /\ f.kind = "MPCK" => f.length > 0
         /\ f # NoFrame /\ f # Noise
BY DEF Frames, NoFrame, Noise, Frame

LEMMA TotalsExist ==
  ASSUME NEW s \in Seq(Frames)
  PROVE  \E g : Totals(s, g)
<1> DEFINE step == [k \in 1..Len(s) |-> [t \in Nat |-> t + HeaderLength + s[k].length]]
<1>1. \A k \in 1..Len(s) : s[k].length \in Nat
  BY FrameIs
<1>2. step \in [1..Len(s) -> [Nat -> Nat]]
  BY <1>1, Lengths
<1>3. PICK g \in [0..Len(s) -> Nat] : Unfolds(Len(s), 0, step, g)
  <2>1. Len(s) \in Nat /\ 0 \in Nat
    OBVIOUS
  <2> HIDE DEF step
  <2>2. QED
    BY <1>2, <2>1, RecursionExists
<1>4. ASSUME NEW k \in 1..Len(s) PROVE g[k] = g[k - 1] + HeaderLength + s[k].length
  <2>1. k - 1 \in 0..Len(s) /\ g[k - 1] \in Nat
    OBVIOUS
  <2>2. g[k] = step[k][g[k - 1]]
    BY <1>3 DEF Unfolds
  <2>3. QED
    BY <2>1, <2>2
<1>5. QED
  BY <1>3, <1>4 DEF Totals, Unfolds

LEMMA TotalsAre ==
  ASSUME NEW s \in Seq(Frames), NEW g, Totals(s, g)
  PROVE  BytesIn(s) = g[Len(s)] /\ g[Len(s)] \in Nat
<1> DEFINE D == 0..Len(s)
           value(f, k) == IF k = 0 THEN 0 ELSE f[k - 1] + HeaderLength + s[k].length
           upTo == CHOOSE f : f = [k \in D |-> value(f, k)]
           same == { k \in D : upTo[k] = g[k] }
<1>1. BytesIn(s) = upTo[Len(s)]
  BY DEF BytesIn
<1>2. Len(s) \in Nat
  OBVIOUS
<1>3. g = [k \in D |-> value(g, k)]
  <2>1. \A k \in D : g[k] = value(g, k)
    <3>1. ASSUME NEW k \in D, k # 0 PROVE g[k] = value(g, k)
      <4>1. k \in 1..Len(s)
        BY <3>1
      <4>2. QED
        BY <3>1, <4>1 DEF Totals
    <3>2. g[0] = value(g, 0)
      BY DEF Totals
    <3>3. QED
      BY <3>1, <3>2
  <2> HIDE DEF value
  <2>2. QED
    BY <2>1 DEF Totals
<1>4. upTo = [k \in D |-> value(upTo, k)]
  <2> HIDE DEF value
  <2>1. \E f : f = [k \in D |-> value(f, k)]
    BY <1>3
  <2>2. QED
    BY <2>1
<1> HIDE DEF upTo
<1>5. 0 \in same
  <2>1. 0 \in D
    BY <1>2
  <2>2. upTo[0] = 0
    BY <1>4, <2>1
  <2>3. QED
    BY <2>1, <2>2 DEF Totals
<1>6. ASSUME NEW k \in 1..Len(s), k - 1 \in same PROVE k \in same
  <2>1. k \in D /\ k # 0 /\ upTo[k - 1] = g[k - 1]
    BY <1>6
  <2>2. upTo[k] = upTo[k - 1] + HeaderLength + s[k].length
    BY <1>4, <2>1
  <2>3. QED
    BY <2>1, <2>2 DEF Totals
<1>7. D \subseteq same
  <2> HIDE DEF same
  <2> QED
    BY <1>2, <1>5, <1>6, UpTo, Zenon
<1>8. QED
  <2>1. Len(s) \in D
    BY <1>2
  <2>2. QED
    BY <1>1, <1>7, <2>1 DEF Totals

LEMMA BytesAreNumbers ==
  ASSUME NEW s \in Seq(Frames)
  PROVE  BytesIn(s) \in Nat
<1>1. PICK g : Totals(s, g)
  BY TotalsExist
<1>2. QED
  BY <1>1, TotalsAre

\* No frames, no bytes.
LEMMA EmptyHasNoBytes == BytesIn(<<>>) = 0
<1>1. PICK none \in Seq(Frames) : none = <<>> /\ Len(none) = 0
  <2>1. <<>> \in Seq(Frames) /\ Len(<<>>) = 0
    OBVIOUS
  <2>2. QED
    BY <2>1, Zenon
<1>2. PICK g : Totals(none, g)
  BY TotalsExist
<1>3. BytesIn(none) = g[0] /\ g[0] = 0
  BY <1>1, <1>2, TotalsAre DEF Totals
<1>4. QED
  BY <1>1, <1>3, Zenon

\* A frame that is pushed brings its header and its contents.
LEMMA PushedBytes ==
  ASSUME NEW s \in Seq(Frames), NEW f \in Frames
  PROVE  /\ Append(s, f) \in Seq(Frames)
         /\ BytesIn(Append(s, f)) = BytesIn(s) + HeaderLength + f.length
         /\ BytesIn(s) \in Nat
<1>1. PICK g : Totals(s, g)
  BY TotalsExist
<1>2. PICK t \in Seq(Frames) : /\ t = Append(s, f) /\ Len(t) = Len(s) + 1
                               /\ \A k \in 1..Len(s) : t[k] = s[k]
                               /\ t[Len(s) + 1] = f
  <2>1. /\ Append(s, f) \in Seq(Frames) /\ Len(Append(s, f)) = Len(s) + 1
        /\ \A k \in 1..Len(s) : Append(s, f)[k] = s[k]
        /\ Append(s, f)[Len(s) + 1] = f
    BY AppendProperties
  <2>2. QED
    BY <2>1, Zenon
<1> DEFINE more == g[Len(s)] + HeaderLength + f.length
           h == [k \in 0..Len(t) |-> IF k = Len(t) THEN more ELSE g[k]]
<1>3. Len(s) \in Nat /\ Len(s) \in 0..Len(s)
  OBVIOUS
<1>4. BytesIn(s) = g[Len(s)] /\ g[Len(s)] \in Nat /\ more \in Nat
  BY <1>1, TotalsAre, FrameIs, Lengths
<1>5. Totals(t, h)
  <2>1. \A k \in 0..Len(s) : g[k] \in Nat
    BY <1>1 DEF Totals
  <2> HIDE DEF more
  <2>2. h \in [0..Len(t) -> Nat] /\ h[0] = g[0]
    BY <1>2, <1>3, <1>4, <2>1
  <2>3. ASSUME NEW k \in 1..Len(s) PROVE h[k] = h[k - 1] + HeaderLength + t[k].length
    <3>1. h[k] = g[k] /\ h[k - 1] = g[k - 1]
      BY <1>2, <1>3
    <3>2. QED
      BY <1>1, <1>2, <3>1 DEF Totals
  <2>4. h[Len(s) + 1] = h[Len(s)] + HeaderLength + t[Len(s) + 1].length
    <3>1. h[Len(s) + 1] = more /\ h[Len(s)] = g[Len(s)]
      BY <1>2, <1>3
    <3>2. QED
      BY <1>2, <3>1 DEF more
  <2>5. \A k \in 1..Len(t) : k \in 1..Len(s) \/ k = Len(s) + 1
    BY <1>2, <1>3
  <2>6. \A k \in 1..Len(t) : h[k] = h[k - 1] + HeaderLength + t[k].length
    <3> HIDE DEF h
    <3>1. Len(s) + 1 - 1 = Len(s)
      BY <1>3
    <3>2. QED
      BY <2>3, <2>4, <2>5, <3>1
  <2>7. h[0] = 0
    BY <1>1, <2>2 DEF Totals
  <2> HIDE DEF h
  <2>8. QED
    BY <2>2, <2>6, <2>7 DEF Totals
<1>6. BytesIn(t) = h[Len(t)]
  <2> HIDE DEF h
  <2> QED
    BY <1>5, TotalsAre
<1>7. BytesIn(t) = more
  <2> HIDE DEF more
  <2>1. Len(t) \in 0..Len(t)
    BY <1>2, <1>3
  <2>2. QED
    BY <1>6, <2>1
<1>8. QED
  BY <1>2, <1>4, <1>7

\* A frame that is read takes its bytes with it.
LEMMA ReadBytes ==
  ASSUME NEW s \in Seq(Frames), s # <<>>
  PROVE  /\ Head(s) \in Frames /\ Tail(s) \in Seq(Frames)
         /\ BytesIn(s) = HeaderLength + Head(s).length + BytesIn(Tail(s))
         /\ BytesIn(Tail(s)) \in Nat
<1>1. PICK t \in Seq(Frames), f \in Frames :
        /\ t = Tail(s) /\ f = Head(s) /\ Len(s) = Len(t) + 1 /\ s[1] = f
        /\ \A k \in 1..Len(t) : s[k + 1] = t[k]
  <2>1. Head(s) \in Frames /\ Tail(s) \in Seq(Frames)
    OBVIOUS
  <2>2. Len(s) = Len(Tail(s)) + 1
    OBVIOUS
  <2>3. s[1] = Head(s) /\ \A k \in 1..Len(Tail(s)) : s[k + 1] = Tail(s)[k]
    OBVIOUS
  <2>4. QED
    BY <2>1, <2>2, <2>3, Zenon
<1>2. PICK g : Totals(t, g)
  BY TotalsExist
<1> DEFINE first == HeaderLength + f.length
           h == [k \in 0..Len(s) |-> IF k = 0 THEN 0 ELSE first + g[k - 1]]
<1>3. Len(t) \in Nat /\ first \in Nat /\ \A k \in 0..Len(t) : g[k] \in Nat
  <2>1. first \in Nat
    BY FrameIs, Lengths
  <2>2. \A k \in 0..Len(t) : g[k] \in Nat
    BY <1>2 DEF Totals
  <2> HIDE DEF first
  <2>3. QED
    BY <2>1, <2>2
<1>4. BytesIn(t) = g[Len(t)] /\ g[Len(t)] \in Nat
  BY <1>2, TotalsAre
<1>5. Totals(s, h)
  <2>1. ASSUME NEW k \in 1..Len(s) PROVE h[k] = h[k - 1] + HeaderLength + s[k].length
    <3>1. h[k] = first + g[k - 1]
      BY <1>1, <1>3
    <3>2. CASE k = 1
      <4>1. g[0] = 0 /\ h[0] = 0 /\ k - 1 = 0
        BY <1>2, <1>3, <3>2 DEF Totals
      <4> HIDE DEF h
      <4>2. h[k] = first /\ h[k - 1] = 0
        BY <1>3, <3>1, <4>1
      <4>3. f.length \in Nat
        BY FrameIs
      <4>4. QED
        BY <1>1, <3>2, <4>2, <4>3, Lengths
    <3>3. CASE k # 1
      <4>1. k - 1 \in 1..Len(t) /\ k - 1 - 1 \in 0..Len(t) /\ k - 1 + 1 = k
        BY <1>1, <1>3, <3>3
      <4>2. g[k - 1] = g[k - 1 - 1] + HeaderLength + t[k - 1].length
        BY <1>2, <4>1 DEF Totals
      <4>3. t[k - 1] = s[k] /\ t[k - 1].length \in Nat
        <5>1. s[k - 1 + 1] = t[k - 1]
          BY <1>1, <4>1
        <5>2. QED
          BY <4>1, <5>1, FrameIs
      <4>4. h[k - 1] = first + g[k - 1 - 1]
        BY <1>1, <1>3, <3>3
      <4>5. g[k - 1 - 1] \in Nat
        BY <1>3, <4>1
      <4> HIDE DEF h, first
      <4>6. QED
        BY <1>3, <3>1, <4>2, <4>3, <4>4, <4>5, Lengths
    <3>4. QED
      BY <3>2, <3>3
  <2>2. h \in [0..Len(s) -> Nat]
    <3> HIDE DEF first
    <3>1. ASSUME NEW k \in 0..Len(s), k # 0 PROVE first + g[k - 1] \in Nat
      <4>1. k - 1 \in 0..Len(t)
        BY <1>1, <1>3, <3>1
      <4>2. QED
        BY <1>3, <4>1
    <3>2. QED
      BY <3>1
  <2>3. h[0] = 0
    BY <1>1, <1>3
  <2> HIDE DEF h
  <2>4. QED
    BY <2>1, <2>2, <2>3 DEF Totals
<1>6. BytesIn(s) = h[Len(s)]
  <2> HIDE DEF h
  <2> QED
    BY <1>5, TotalsAre
<1>7. BytesIn(s) = first + g[Len(t)]
  <2> HIDE DEF first
  <2>1. Len(s) \in 0..Len(s) /\ Len(s) # 0 /\ Len(s) - 1 = Len(t)
    BY <1>1, <1>3
  <2>2. QED
    BY <1>6, <2>1
<1>8. QED
  BY <1>1, <1>4, <1>7

-----------------------------------------------------------------------------
(* Where the reader is *)

\* A frame that was pushed fits the fifo.
WellMade(f) ==
  /\ f.length < TotalSpace
  /\ f.kind = "MPAR" => f.length = MultipartPayload

BetweenFrames == recieving = NoFrame /\ offset = 0

InFrame ==
  recieving \in Frames /\ stream # <<>> /\ recieving = Head(stream) /\ offset = HeaderLength

\* The contents of a chunk that was refused are taken for headers.
OutOfStep ==
  /\ recieving \in {NoFrame, Noise}
  /\ offset > 0
  /\ stream # <<>> /\ Head(stream).kind = "MPCK"
  /\ oversize_data = <<>>

StreamIInv ==
  /\ stream \in Seq(Frames)
  /\ offset \in Nat
  /\ readyBytes \in 0..unread
  /\ unread <= TotalSpace
  /\ \A i \in 1..Len(stream) : WellMade(stream[i])

PlaceIInv == BetweenFrames \/ InFrame \/ OutOfStep

\* What is left of a message in chunks is never nothing.
SendingIInv ==
  /\ sending \in Message \cup {NoMessage}
  /\ sent \in Nat
  /\ sending = NoMessage => sent = 0
  /\ sending # NoMessage => sent < WholeLength(sending)

Received == (Message \X Nat) \cup {NoMessage}

ReceiverIInv ==
  /\ recieving \in Frames \cup {NoFrame, Noise}
  /\ partialMessageReceived \in BOOLEAN
  /\ oversize_data \in Seq(Received)
  /\ multipartReadIndex \in Nat
  /\ delivered \in Message \cup {NoMessage, Garbage}

IInv == StreamIInv /\ PlaceIInv /\ SendingIInv /\ ReceiverIInv

LEMMA FunctionIsSequence ==
  ASSUME NEW S, NEW n \in Nat, NEW w \in [1..n -> S]
  PROVE  w \in Seq(S) /\ Len(w) = n
OBVIOUS

LEMMA WholeLengthIs ==
  ASSUME NEW m \in Message
  PROVE  /\ Length[m] \in Nat /\ WholeLength(m) \in Nat /\ WholeLength(m) = HeaderLength + Length[m]
         /\ HeaderLength <= WholeLength(m) /\ WholeLength(m) > 0
<1>1. Length[m] \in Nat
  BY InterThreadQueAssumption DEF InterThreadQueAssumption
<1>2. QED
  BY <1>1, Lengths DEF WholeLength

\* Pushing a frame that has room keeps what is said of the stream, and the
\* reader's place.
LEMMA PushKeeps ==
  ASSUME StreamIInv, PlaceIInv, NEW f \in Frames, WellMade(f), HeaderLength + f.length <= freeSpace,
         Push(f), UNCHANGED <<headerVars, multipartVars>>
  PROVE  /\ StreamIInv' /\ PlaceIInv'
         /\ (BetweenFrames => BetweenFrames') /\ (InFrame => InFrame')
<1> DEFINE more == HeaderLength + f.length
<1>1. /\ stream \in Seq(Frames) /\ offset \in Nat /\ readyBytes \in 0..unread /\ unread <= TotalSpace
      /\ BytesIn(stream) \in Nat
      /\ stream' = Append(stream, f) /\ offset' = offset /\ readyBytes' = readyBytes
  BY PushedBytes DEF StreamIInv, Push
<1>2. stream' \in Seq(Frames) /\ BytesIn(stream') = BytesIn(stream) + HeaderLength + f.length
  BY <1>1, PushedBytes
<1>3. /\ Len(stream') = Len(stream) + 1
      /\ \A i \in 1..Len(stream) : stream'[i] = stream[i]
      /\ stream'[Len(stream) + 1] = f
  BY <1>1, AppendProperties
<1>4. more \in Nat /\ f.length \in Nat
  BY FrameIs, Lengths
<1>5. unread' = unread + more
  BY <1>1, <1>2, <1>4, Lengths DEF unread
<1>6. readyBytes' \in 0..unread' /\ unread' <= TotalSpace
  <2>1. unread \in Int /\ TotalSpace \in Nat
    BY <1>1, Lengths DEF unread
  <2>2. unread + more <= TotalSpace
    BY <1>4, <2>1 DEF freeSpace
  <2> HIDE DEF more
  <2>3. QED
    BY <1>1, <1>4, <1>5, <2>1, <2>2
<1>7. \A i \in 1..Len(stream') : WellMade(stream'[i])
  <2>1. \A i \in 1..Len(stream') : i \in 1..Len(stream) \/ i = Len(stream) + 1
    BY <1>1, <1>3
  <2>2. QED
    BY <1>3, <2>1 DEF StreamIInv
<1>8. StreamIInv'
  BY <1>1, <1>2, <1>6, <1>7 DEF StreamIInv
<1>9. stream # <<>> => stream' # <<>> /\ Head(stream') = Head(stream)
  BY <1>1, <1>3
<1>10. PlaceIInv' /\ (BetweenFrames => BetweenFrames') /\ (InFrame => InFrame')
  <2>1. UNCHANGED <<recieving, offset, oversize_data>>
    BY <1>1 DEF headerVars, multipartVars
  <2>2. BetweenFrames => BetweenFrames'
    BY <2>1 DEF BetweenFrames
  <2>3. InFrame => InFrame'
    BY <1>9, <2>1 DEF InFrame
  <2>4. OutOfStep => OutOfStep'
    BY <1>9, <2>1 DEF OutOfStep
  <2>5. QED
    BY <2>2, <2>3, <2>4 DEF PlaceIInv
<1>11. QED
  BY <1>8, <1>10

\* Reading the contents of a frame takes the frame from the stream.
LEMMA ReadKeeps ==
  ASSUME StreamIInv, InFrame, readyBytes >= Head(stream).length, Read(Head(stream).length)
  PROVE  StreamIInv' /\ stream' = Tail(stream) /\ offset' = 0
<1> DEFINE n == Head(stream).length
<1>1. /\ stream \in Seq(Frames) /\ stream # <<>> /\ offset = HeaderLength
      /\ readyBytes \in 0..unread /\ unread <= TotalSpace
  BY DEF StreamIInv, InFrame
<1>2. /\ Head(stream) \in Frames /\ Tail(stream) \in Seq(Frames)
      /\ BytesIn(stream) = HeaderLength + n + BytesIn(Tail(stream))
      /\ BytesIn(Tail(stream)) \in Nat
  BY <1>1, ReadBytes
<1>3. n \in Nat /\ HeaderLength \in Nat /\ TotalSpace \in Nat
  BY <1>2, FrameIs, Lengths
<1>4. stream' = Tail(stream) /\ offset' = 0 /\ readyBytes' = readyBytes - n
  BY <1>1 DEF Read
<1>5. unread' = unread - n /\ unread' = BytesIn(Tail(stream)) /\ unread \in Int
  <2>1. unread' = BytesIn(Tail(stream))
    BY <1>2, <1>4 DEF unread
  <2>2. unread = n + BytesIn(Tail(stream))
    <3> HIDE DEF n
    <3> QED
      BY <1>1, <1>2, <1>3 DEF unread
  <2> HIDE DEF n
  <2>3. QED
    BY <1>2, <1>3, <2>1, <2>2
<1>6. readyBytes' \in 0..unread' /\ unread' <= TotalSpace
  <2> HIDE DEF n
  <2>1. readyBytes >= n
    BY DEF n
  <2>2. QED
    BY <1>1, <1>3, <1>4, <1>5, <2>1
<1>7. \A i \in 1..Len(stream') : WellMade(stream'[i])
  <2>1. ASSUME NEW i \in 1..Len(Tail(stream)) PROVE WellMade(Tail(stream)[i])
    <3>1. i + 1 \in 1..Len(stream) /\ Tail(stream)[i] = stream[i + 1]
      BY <1>1
    <3>2. QED
      BY <3>1 DEF StreamIInv
  <2>2. QED
    BY <1>4, <2>1
<1>8. QED
  BY <1>2, <1>4, <1>6, <1>7 DEF StreamIInv

-----------------------------------------------------------------------------
(* The sender's steps *)

LEMMA FramesAre ==
  /\ \A m \in Message : /\ PlainFrame(m) \in Frames /\ PlainFrame(m).kind = "plain"
                        /\ PlainFrame(m).of = m /\ PlainFrame(m).length = Length[m]
  /\ \A m \in Message : /\ StartFrame(m) \in Frames /\ StartFrame(m).kind = "MPAR"
                        /\ StartFrame(m).of = m /\ StartFrame(m).length = MultipartPayload
  /\ \A m \in Message, from \in Nat, n \in Nat \ {0} :
       /\ ChunkFrame(m, from, n) \in Frames /\ ChunkFrame(m, from, n).kind = "MPCK"
       /\ ChunkFrame(m, from, n).of = m /\ ChunkFrame(m, from, n).from = from
       /\ ChunkFrame(m, from, n).length = n
<1>1. \A m \in Message : Length[m] \in Nat
  BY WholeLengthIs
<1>2. MultipartPayload \in Nat
  BY Lengths
<1>3. QED
  BY <1>1, <1>2 DEF Frames, Frame, PlainFrame, StartFrame, ChunkFrame

LEMMA SpaceIs ==
  ASSUME StreamIInv
  PROVE  freeSpace \in Nat /\ freeSpace <= TotalSpace /\ unread \in Nat
<1>1. readyBytes \in 0..unread /\ unread <= TotalSpace /\ offset \in Nat /\ BytesIn(stream) \in Nat
  <2>1. stream \in Seq(Frames)
    BY DEF StreamIInv
  <2>2. BytesIn(stream) \in Nat
    BY <2>1, BytesAreNumbers
  <2>3. QED
    BY <2>2 DEF StreamIInv
<1>2. unread \in Int
  BY <1>1 DEF unread
<1>3. QED
  BY <1>1, <1>2, Lengths DEF freeSpace

\* The frame of a message that fits is pushed.
LEMMA WriteKeeps ==
  ASSUME IInv, NEW m \in Message, WriteMessage(m)
  PROVE  IInv'
<1> DEFINE f == PlainFrame(m)
<1>1. f \in Frames /\ f.kind = "plain" /\ f.length = Length[m]
  BY FramesAre
<1>2. WellMade(f) /\ HeaderLength + f.length <= freeSpace
  <2>1. Length[m] \in Nat /\ WholeLength(m) = HeaderLength + Length[m]
    BY WholeLengthIs
  <2>2. WholeLength(m) + SafetyZone <= freeSpace
    BY DEF WriteMessage
  <2>3. freeSpace \in Nat /\ freeSpace <= TotalSpace
    BY SpaceIs DEF IInv
  <2>4. HeaderLength + Length[m] <= freeSpace /\ Length[m] < TotalSpace
    BY <2>1, <2>2, <2>3, Lengths
  <2> HIDE DEF f
  <2>5. QED
    BY <1>1, <2>4 DEF WellMade
<1>3. Push(f) /\ UNCHANGED <<senderVars, headerVars, multipartVars, delivered>>
  BY DEF WriteMessage
<1> HIDE DEF f
<1>4. StreamIInv' /\ PlaceIInv'
  BY <1>1, <1>2, <1>3, PushKeeps DEF IInv
<1>5. SendingIInv' /\ ReceiverIInv'
  BY <1>3 DEF IInv, SendingIInv, ReceiverIInv, senderVars, headerVars, multipartVars
<1>6. QED
  BY <1>4, <1>5 DEF IInv

\* MPAR is pushed, and nothing of the message has been sent.
LEMMA StartKeeps ==
  ASSUME IInv, NEW m \in Message, startMultiPartSend(m)
  PROVE  IInv'
<1> DEFINE f == StartFrame(m)
<1>1. f \in Frames /\ f.kind = "MPAR" /\ f.length = MultipartPayload
  BY FramesAre
<1>2. WellMade(f) /\ HeaderLength + f.length <= freeSpace
  <2>1. SafetyZone < freeSpace
    BY DEF startMultiPartSend
  <2>2. freeSpace \in Nat /\ freeSpace <= TotalSpace
    BY SpaceIs DEF IInv
  <2>3. HeaderLength + MultipartPayload <= freeSpace /\ MultipartPayload < TotalSpace
    BY <2>1, <2>2, Lengths
  <2> HIDE DEF f
  <2>4. QED
    BY <1>1, <2>3 DEF WellMade
<1>3. /\ Push(f) /\ UNCHANGED <<headerVars, multipartVars, delivered>>
      /\ sending = NoMessage /\ sending' = m /\ sent' = sent
  BY DEF startMultiPartSend
<1> HIDE DEF f
<1>4. StreamIInv' /\ PlaceIInv'
  BY <1>1, <1>2, <1>3, PushKeeps DEF IInv
<1>5. SendingIInv'
  <2>1. sent = 0
    BY <1>3 DEF IInv, SendingIInv
  <2>2. 0 < WholeLength(m)
    BY WholeLengthIs
  <2>3. m # NoMessage
    BY InterThreadQueAssumption DEF InterThreadQueAssumption
  <2>4. QED
    BY <1>3, <2>1, <2>2, <2>3 DEF SendingIInv, WholeLength
<1>6. ReceiverIInv'
  BY <1>3 DEF IInv, ReceiverIInv, headerVars, multipartVars
<1>7. QED
  BY <1>4, <1>5, <1>6 DEF IInv

\* The bytes that MultiPart_send takes.
chunkLength ==
  IF WholeLength(sending) - sent <= roomForChunk THEN WholeLength(sending) - sent ELSE roomForChunk

LEMMA ChunkIs ==
  ASSUME IInv, MultiPart_send
  PROVE  /\ sending \in Message /\ sent \in Nat
         /\ chunkLength \in Nat \ {0} /\ sent + chunkLength <= WholeLength(sending)
         /\ HeaderLength + chunkLength <= freeSpace /\ chunkLength < TotalSpace
         /\ Push(ChunkFrame(sending, sent, chunkLength))
         /\ IF sent + chunkLength = WholeLength(sending)
              THEN sending' = NoMessage /\ sent' = 0
              ELSE sending' = sending /\ sent' = sent + chunkLength
         /\ UNCHANGED <<headerVars, multipartVars, delivered>>
<1> DEFINE left == WholeLength(sending) - sent
<1>1. sending \in Message /\ sent \in Nat /\ sent < WholeLength(sending)
  BY DEF IInv, SendingIInv, MultiPart_send
<1>2. WholeLength(sending) \in Nat
  BY <1>1, WholeLengthIs
<1>3. freeSpace \in Nat /\ freeSpace <= TotalSpace /\ 2 * MultipartSafetyZone < freeSpace
  BY SpaceIs DEF IInv, MultiPart_send
<1>4. roomForChunk = freeSpace - MultipartSafetyZone /\ roomForChunk \in Nat \ {0}
      /\ HeaderLength + roomForChunk <= freeSpace /\ roomForChunk < TotalSpace
  BY <1>3, Lengths DEF roomForChunk
<1>5. left \in Nat \ {0} /\ sent + left = WholeLength(sending)
  BY <1>1, <1>2
<1>6. chunkLength \in {left, roomForChunk} /\ chunkLength <= left /\ chunkLength <= roomForChunk
  <2> HIDE DEF left
  <2> QED
    BY <1>4, <1>5 DEF chunkLength, left
<1>7. /\ Push(ChunkFrame(sending, sent, chunkLength))
      /\ sending' = IF chunkLength = left THEN NoMessage ELSE sending
      /\ sent' = IF chunkLength = left THEN 0 ELSE sent + chunkLength
      /\ UNCHANGED <<headerVars, multipartVars, delivered>>
  BY DEF MultiPart_send, chunkLength
<1> HIDE DEF left
<1>8. /\ chunkLength \in Nat \ {0} /\ sent + chunkLength <= WholeLength(sending)
      /\ (chunkLength = left <=> sent + chunkLength = WholeLength(sending))
      /\ HeaderLength + chunkLength <= freeSpace /\ chunkLength < TotalSpace
  BY <1>1, <1>2, <1>3, <1>4, <1>5, <1>6, Lengths
<1>9. IF sent + chunkLength = WholeLength(sending)
        THEN sending' = NoMessage /\ sent' = 0
        ELSE sending' = sending /\ sent' = sent + chunkLength
  BY <1>7, <1>8
<1>10. QED
  BY <1>1, <1>7, <1>8, <1>9

\* A chunk is pushed, and something is left or the message has been sent.
LEMMA MultiPart_sendKeeps ==
  ASSUME IInv, MultiPart_send
  PROVE  IInv'
<1> DEFINE f == ChunkFrame(sending, sent, chunkLength)
<1>1. /\ sending \in Message /\ sent \in Nat
      /\ chunkLength \in Nat \ {0} /\ sent + chunkLength <= WholeLength(sending)
      /\ HeaderLength + chunkLength <= freeSpace /\ chunkLength < TotalSpace
      /\ Push(f)
      /\ UNCHANGED <<headerVars, multipartVars, delivered>>
  BY ChunkIs
<1>2. f \in Frames /\ f.kind = "MPCK" /\ f.length = chunkLength
  BY <1>1, FramesAre
<1> HIDE DEF f
<1>3. WellMade(f) /\ HeaderLength + f.length <= freeSpace
  BY <1>1, <1>2 DEF WellMade
<1>4. StreamIInv' /\ PlaceIInv'
  BY <1>1, <1>2, <1>3, PushKeeps DEF IInv
<1>5. SendingIInv'
  <2>1. WholeLength(sending) \in Nat
    BY <1>1, WholeLengthIs
  <2>2. CASE sent + chunkLength = WholeLength(sending)
    <3>1. sending' = NoMessage /\ sent' = 0
      BY <2>2, ChunkIs
    <3>2. QED
      BY <3>1 DEF SendingIInv
  <2>3. CASE sent + chunkLength # WholeLength(sending)
    <3>1. sending' = sending /\ sent' = sent + chunkLength
      BY <2>3, ChunkIs
    <3>2. sent' < WholeLength(sending) /\ sent' \in Nat
      BY <1>1, <2>1, <2>3, <3>1
    <3>3. sending # NoMessage
      BY <1>1, InterThreadQueAssumption DEF InterThreadQueAssumption
    <3>4. QED
      BY <1>1, <3>1, <3>2, <3>3 DEF SendingIInv, WholeLength
  <2>4. QED
    BY <2>2, <2>3
<1>6. ReceiverIInv'
  BY <1>1 DEF IInv, ReceiverIInv, headerVars, multipartVars
<1>7. QED
  BY <1>4, <1>5, <1>6 DEF IInv

\* Bytes become visible.
LEMMA SendKeeps ==
  ASSUME IInv, NEW n \in 1..TotalSpace, Send(n)
  PROVE  IInv'
<1>1. UNCHANGED <<stream, offset, senderVars, headerVars, multipartVars, delivered>>
  BY DEF Send
<1>2. unread' = unread /\ unread \in Nat
  BY <1>1, SpaceIs DEF unread, IInv
<1>3. readyBytes' \in 0..unread'
  BY <1>2, Lengths DEF Send, IInv, StreamIInv
<1>4. StreamIInv'
  BY <1>1, <1>2, <1>3 DEF IInv, StreamIInv
<1>5. SendingIInv' /\ ReceiverIInv'
  BY <1>1 DEF IInv, SendingIInv, ReceiverIInv, senderVars, headerVars, multipartVars
<1>6. PlaceIInv'
  BY <1>1 DEF IInv, PlaceIInv, BetweenFrames, InFrame, OutOfStep, headerVars, multipartVars
<1>7. QED
  BY <1>4, <1>5, <1>6 DEF IInv

-----------------------------------------------------------------------------
(* The receiver's steps *)

\* What is read is the first frame's header, or taken for one.
LEMMA ReadHeaderKeeps ==
  ASSUME IInv, ReadHeader
  PROVE  IInv' /\ (BetweenFrames => InFrame')
<1>1. /\ recieving = NoFrame /\ readyBytes >= HeaderLength
      /\ recieving' = IF offset = 0 THEN Head(stream) ELSE Noise
      /\ offset' = offset + HeaderLength /\ readyBytes' = readyBytes - HeaderLength
      /\ UNCHANGED <<stream, partialMessageReceived, senderVars, multipartVars, delivered>>
  BY DEF ReadHeader
<1>2. /\ stream \in Seq(Frames) /\ offset \in Nat /\ readyBytes \in 0..unread /\ unread <= TotalSpace
      /\ unread \in Nat
  BY SpaceIs DEF IInv, StreamIInv
<1>3. BytesIn(stream) \in Nat
  BY <1>2, BytesAreNumbers
<1>4. unread' = unread - HeaderLength
  BY <1>1, <1>2, <1>3, Lengths DEF unread
<1>5. StreamIInv'
  <2>1. offset' \in Nat /\ readyBytes' \in 0..unread' /\ unread' <= TotalSpace
    BY <1>1, <1>2, <1>4, Lengths
  <2>2. QED
    BY <1>1, <2>1 DEF IInv, StreamIInv
<1>6. SendingIInv'
  BY <1>1 DEF IInv, SendingIInv, senderVars
<1>7. CASE offset = 0
  <2>1. stream # <<>>
    <3>1. SUFFICES ASSUME stream = <<>> PROVE FALSE
      OBVIOUS
    <3>2. BytesIn(stream) = 0
      BY <3>1, EmptyHasNoBytes
    <3>3. QED
      BY <1>1, <1>2, <1>7, <3>2, Lengths DEF unread
  <2>2. Head(stream) \in Frames
    BY <1>2, <2>1
  <2>3. InFrame'
    BY <1>1, <1>7, <2>1, <2>2, Lengths DEF InFrame
  <2>4. ReceiverIInv'
    BY <1>1, <1>7, <2>2 DEF IInv, ReceiverIInv, multipartVars
  <2>5. QED
    BY <1>5, <1>6, <2>3, <2>4 DEF IInv, PlaceIInv
<1>8. CASE offset # 0
  <2>1. OutOfStep
    <3>1. ~BetweenFrames
      BY <1>8 DEF BetweenFrames
    <3>2. ~InFrame
      BY <1>1, FrameIs DEF InFrame
    <3>3. QED
      BY <3>1, <3>2 DEF IInv, PlaceIInv
  <2>2. offset' > 0
    BY <1>1, <1>2, <1>8, Lengths
  <2>3. OutOfStep'
    BY <1>1, <1>8, <2>1, <2>2 DEF OutOfStep, multipartVars
  <2>4. ReceiverIInv'
    BY <1>1, <1>8 DEF IInv, ReceiverIInv, multipartVars
  <2>5. ~BetweenFrames
    BY <1>8 DEF BetweenFrames
  <2>6. QED
    BY <1>5, <1>6, <2>3, <2>4, <2>5 DEF IInv, PlaceIInv
<1>9. QED
  BY <1>7, <1>8

\* The contents are waited for.
LEMMA DeferKeeps ==
  ASSUME IInv, DeferMessage
  PROVE  IInv'
<1>1. /\ partialMessageReceived' = TRUE
      /\ UNCHANGED <<streamVars, recieving, senderVars, multipartVars, delivered>>
  BY DEF DeferMessage
<1>2. StreamIInv'
  BY <1>1 DEF IInv, StreamIInv, streamVars, unread
<1>3. PlaceIInv'
  BY <1>1 DEF IInv, PlaceIInv, BetweenFrames, InFrame, OutOfStep, streamVars, multipartVars
<1>4. SendingIInv' /\ ReceiverIInv'
  BY <1>1 DEF IInv, SendingIInv, ReceiverIInv, senderVars, multipartVars
<1>5. QED
  BY <1>2, <1>3, <1>4 DEF IInv

\* A message is processed only where a frame starts, and once it has come.
LEMMA ProcessIsInFrame ==
  ASSUME IInv, NEW kind \in {"plain", "MPAR", "MPCK"}, Process(kind)
  PROVE  /\ InFrame /\ recieving = Head(stream) /\ recieving \in Frames /\ recieving.kind = kind
         /\ stream \in Seq(Frames) /\ stream # <<>>
         /\ readyBytes >= Head(stream).length
         /\ (kind = "MPAR" => Head(stream).length = MultipartPayload)
         /\ recieving' = NoFrame /\ partialMessageReceived' = FALSE
         /\ UNCHANGED senderVars
<1>1. recieving.kind = kind /\ readyBytes >= recieving.length
  BY DEF Process, contentsReady
<1>2. recieving # NoFrame /\ recieving # Noise
  BY <1>1 DEF NoFrame, Noise, Frame
<1>3. InFrame
  BY <1>2 DEF IInv, PlaceIInv, BetweenFrames, OutOfStep
<1>4. kind = "MPAR" => Head(stream).length = MultipartPayload
  <2>1. stream \in Seq(Frames) /\ stream # <<>> /\ Head(stream) = stream[1] /\ 1 \in 1..Len(stream)
    BY <1>3 DEF IInv, StreamIInv, InFrame
  <2>2. WellMade(stream[1])
    BY <2>1 DEF IInv, StreamIInv
  <2>3. QED
    BY <1>1, <1>3, <2>1, <2>2 DEF WellMade, InFrame
<1>5. QED
  BY <1>1, <1>3, <1>4 DEF Process, InFrame, IInv, StreamIInv

\* Once its contents are read the reader is between two frames.
LEMMA FrameIsRead ==
  ASSUME IInv, NEW kind \in {"plain", "MPAR", "MPCK"}, Process(kind), Read(Head(stream).length)
  PROVE  /\ StreamIInv' /\ PlaceIInv' /\ SendingIInv' /\ BetweenFrames'
         /\ stream' = Tail(stream)
<1>1. /\ InFrame /\ readyBytes >= Head(stream).length
      /\ recieving' = NoFrame /\ UNCHANGED senderVars
  BY ProcessIsInFrame
<1>2. StreamIInv' /\ stream' = Tail(stream) /\ offset' = 0
  BY <1>1, ReadKeeps DEF IInv
<1>3. BetweenFrames'
  BY <1>1, <1>2 DEF BetweenFrames
<1>4. SendingIInv'
  BY <1>1 DEF IInv, SendingIInv, senderVars
<1>5. QED
  BY <1>2, <1>3, <1>4 DEF PlaceIInv

LEMMA ProcessPlainKeeps ==
  ASSUME IInv, NEW consumed \in 0..recieving.length, ProcessPlain(consumed)
  PROVE  IInv' /\ BetweenFrames' /\ stream' = Tail(stream)
<1>1. /\ Process("plain") /\ Read(consumed + drained(consumed)) /\ delivered' = recieving.of
      /\ UNCHANGED multipartVars
  BY DEF ProcessPlain
<1>2. /\ recieving = Head(stream) /\ recieving \in Frames
      /\ recieving' = NoFrame /\ partialMessageReceived' = FALSE
  BY <1>1, ProcessIsInFrame
<1>3. recieving.length \in Nat /\ recieving.of \in Message
  BY <1>2, FrameIs
<1>4. consumed + drained(consumed) = Head(stream).length
  BY <1>2, <1>3 DEF drained
<1>5. Read(Head(stream).length)
  BY <1>1, <1>4
<1>6. /\ StreamIInv' /\ PlaceIInv' /\ SendingIInv' /\ BetweenFrames'
      /\ stream' = Tail(stream)
  BY <1>1, <1>5, FrameIsRead
<1>7. ReceiverIInv'
  BY <1>1, <1>2, <1>3 DEF IInv, ReceiverIInv, multipartVars
<1>8. QED
  BY <1>6, <1>7 DEF IInv

LEMMA ProcessStartKeeps ==
  ASSUME IInv, ProcessStart
  PROVE  /\ IInv' /\ BetweenFrames' /\ stream' = Tail(stream)
         /\ Len(oversize_data') = WholeLength(recieving.of)
<1>1. /\ Process("MPAR") /\ Read(MultipartPayload)
      /\ oversize_data' = resized(WholeLength(recieving.of))
      /\ multipartReadIndex' = 0 /\ UNCHANGED delivered
  BY DEF ProcessStart
<1>2. /\ recieving = Head(stream) /\ recieving \in Frames
      /\ Head(stream).length = MultipartPayload
      /\ recieving' = NoFrame /\ partialMessageReceived' = FALSE
  BY <1>1, ProcessIsInFrame
<1>3. Read(Head(stream).length)
  BY <1>1, <1>2
<1>4. /\ StreamIInv' /\ PlaceIInv' /\ SendingIInv' /\ BetweenFrames'
      /\ stream' = Tail(stream)
  BY <1>1, <1>3, FrameIsRead
<1>5. PICK n \in Nat : n = WholeLength(recieving.of)
  BY <1>2, FrameIs, WholeLengthIs
<1>6. oversize_data' \in Seq(Received) /\ Len(oversize_data') = n
  <2> DEFINE w == [i \in 1..n |-> IF i <= Len(oversize_data) THEN oversize_data[i] ELSE NoMessage]
  <2>1. oversize_data \in Seq(Received) /\ NoMessage \in Received
    BY DEF IInv, ReceiverIInv, Received
  <2>2. w \in [1..n -> Received]
    BY <2>1
  <2>3. oversize_data' = w
    BY <1>1, <1>5 DEF resized
  <2> HIDE DEF w
  <2>4. QED
    BY <2>2, <2>3, FunctionIsSequence
<1>7. ReceiverIInv'
  BY <1>1, <1>2, <1>6 DEF IInv, ReceiverIInv
<1>8. QED
  BY <1>4, <1>5, <1>6, <1>7 DEF IInv

\* The buffer with the chunk of the last header in its place.
filledBuffer ==
  [i \in 1..Len(oversize_data) |->
     IF multipartReadIndex < i /\ i <= multipartReadIndex + recieving.length
       THEN Bytes(recieving.of, recieving.from, recieving.length)[i - multipartReadIndex]
       ELSE oversize_data[i]]

LEMMA DecodedIs ==
  ASSUME NEW bytes
  PROVE  decoded(bytes) \in Message \cup {Garbage}
BY DEF decoded

LEMMA ProcessChunkKeeps ==
  ASSUME IInv, ProcessChunk
  PROVE  /\ IInv'
         /\ ~overflows => BetweenFrames' /\ stream' = Tail(stream)
<1>1. Process("MPCK") /\ IF overflows THEN ignoreFurtherData ELSE appendChunk
  BY DEF ProcessChunk
<1>2. /\ InFrame /\ recieving = Head(stream) /\ recieving \in Frames /\ recieving.kind = "MPCK"
      /\ stream # <<>>
      /\ recieving' = NoFrame /\ partialMessageReceived' = FALSE
      /\ UNCHANGED senderVars
  BY <1>1, ProcessIsInFrame
<1>3. /\ recieving.length \in Nat /\ recieving.of \in Message /\ recieving.from \in Nat
      /\ multipartReadIndex \in Nat /\ oversize_data \in Seq(Received)
      /\ delivered \in Message \cup {NoMessage, Garbage}
  BY <1>2, FrameIs DEF IInv, ReceiverIInv
<1>4. CASE overflows
  <2>1. oversize_data' = <<>> /\ UNCHANGED <<streamVars, multipartReadIndex, delivered>>
    BY <1>1, <1>4 DEF ignoreFurtherData
  <2>2. OutOfStep'
    BY <1>2, <2>1, Lengths DEF InFrame, OutOfStep, streamVars
  <2>3. StreamIInv'
    BY <2>1 DEF IInv, StreamIInv, streamVars, unread
  <2>4. SendingIInv'
    BY <1>2 DEF IInv, SendingIInv, senderVars
  <2>5. <<>> \in Seq(Received)
    OBVIOUS
  <2>6. ReceiverIInv'
    BY <1>2, <1>3, <2>1, <2>5 DEF ReceiverIInv
  <2>7. QED
    BY <1>4, <2>2, <2>3, <2>4, <2>6 DEF IInv, PlaceIInv
<1>5. CASE ~overflows
  <2>1. /\ Read(recieving.length)
        /\ IF multipartReadIndex + recieving.length >= Len(oversize_data)
             THEN /\ delivered' = decoded(filledBuffer)
                  /\ oversize_data' = <<>>
                  /\ multipartReadIndex' = 0
             ELSE /\ oversize_data' = filledBuffer
                  /\ multipartReadIndex' = multipartReadIndex + recieving.length
                  /\ UNCHANGED delivered
    BY <1>1, <1>5 DEF appendChunk, filledBuffer
  <2>2. Read(Head(stream).length)
    BY <1>2, <2>1
  <2>3. /\ StreamIInv' /\ PlaceIInv' /\ SendingIInv' /\ BetweenFrames'
        /\ stream' = Tail(stream)
    BY <1>1, <2>2, FrameIsRead
  <2>4. filledBuffer \in Seq(Received)
    <3>1. ASSUME NEW i \in 1..Len(oversize_data) PROVE filledBuffer[i] \in Received
      <4>1. CASE multipartReadIndex < i /\ i <= multipartReadIndex + recieving.length
        <5>1. i - multipartReadIndex \in 1..recieving.length
          BY <1>3, <4>1
        <5>2. Bytes(recieving.of, recieving.from, recieving.length)[i - multipartReadIndex]
                = <<recieving.of, recieving.from + (i - multipartReadIndex)>>
          BY <5>1 DEF Bytes
        <5>3. recieving.from + (i - multipartReadIndex) \in Nat
          BY <1>3, <5>1
        <5>4. filledBuffer[i] = <<recieving.of, recieving.from + (i - multipartReadIndex)>>
          BY <4>1, <5>2 DEF filledBuffer
        <5>5. QED
          BY <1>3, <5>3, <5>4 DEF Received
      <4>2. CASE ~(multipartReadIndex < i /\ i <= multipartReadIndex + recieving.length)
        <5>1. filledBuffer[i] = oversize_data[i]
          BY <4>2 DEF filledBuffer
        <5>2. QED
          BY <1>3, <5>1
      <4>3. QED
        BY <4>1, <4>2
    <3>2. Len(oversize_data) \in Nat
      BY <1>3
    <3>3. filledBuffer \in [1..Len(oversize_data) -> Received]
      BY <3>1 DEF filledBuffer
    <3>4. QED
      BY <3>2, <3>3, FunctionIsSequence
  <2>5. ReceiverIInv'
    <3>1. <<>> \in Seq(Received) /\ multipartReadIndex + recieving.length \in Nat
      BY <1>3
    <3>2. decoded(filledBuffer) \in Message \cup {Garbage}
      BY DecodedIs
    <3>3. CASE multipartReadIndex + recieving.length >= Len(oversize_data)
      <4>1. delivered' = decoded(filledBuffer) /\ oversize_data' = <<>> /\ multipartReadIndex' = 0
        BY <2>1, <3>3
      <4>2. delivered' \in Message \cup {NoMessage, Garbage}
        BY <3>2, <4>1
      <4>3. QED
        BY <1>2, <3>1, <4>1, <4>2 DEF ReceiverIInv
    <3>4. CASE ~(multipartReadIndex + recieving.length >= Len(oversize_data))
      BY <1>2, <1>3, <2>1, <2>4, <3>1, <3>4 DEF ReceiverIInv
    <3>5. QED
      BY <3>3, <3>4
  <2>6. QED
    BY <2>3, <2>5 DEF IInv
<1>6. QED
  BY <1>4, <1>5

\* A reset leaves nothing to read.
LEMMA ResetKeeps ==
  ASSUME IInv, Reset
  PROVE  IInv' /\ BetweenFrames' /\ stream' = <<>>
<1>1. /\ stream' = <<>> /\ offset' = 0 /\ readyBytes' = 0
      /\ recieving' = NoFrame /\ partialMessageReceived' = FALSE
      /\ UNCHANGED <<senderVars, multipartVars, delivered>>
  BY DEF Reset
<1>2. stream' \in Seq(Frames) /\ Len(stream') = 0
  <2>1. <<>> \in Seq(Frames) /\ Len(<<>>) = 0
    OBVIOUS
  <2>2. QED
    BY <1>1, <2>1, Zenon
<1>3. unread' = 0
  BY <1>1, EmptyHasNoBytes DEF unread
<1>4. StreamIInv'
  BY <1>1, <1>2, <1>3, Lengths DEF StreamIInv
<1>5. BetweenFrames'
  BY <1>1 DEF BetweenFrames
<1>6. SendingIInv' /\ ReceiverIInv'
  BY <1>1 DEF IInv, SendingIInv, ReceiverIInv, senderVars, multipartVars
<1>7. QED
  BY <1>1, <1>4, <1>5, <1>6 DEF IInv, PlaceIInv

-----------------------------------------------------------------------------
\* Every step keeps the invariant.
LEMMA StepKeeps ==
  ASSUME IInv, [Next]_vars
  PROVE  IInv'
<1>1. ASSUME NEW m \in Message, WriteMessage(m) PROVE IInv'
  BY <1>1, WriteKeeps
<1>2. ASSUME NEW m \in Message, startMultiPartSend(m) PROVE IInv'
  BY <1>2, StartKeeps
<1>3. ASSUME NEW n \in 1..TotalSpace, Send(n) PROVE IInv'
  BY <1>3, SendKeeps
<1>4. CASE pollMessage
  <2>1. ASSUME NEW consumed \in 0..recieving.length, ProcessPlain(consumed) PROVE IInv'
    BY <2>1, ProcessPlainKeeps
  <2>2. QED
    BY <1>4, <2>1, ReadHeaderKeeps, DeferKeeps, ProcessStartKeeps, ProcessChunkKeeps DEF pollMessage
<1>5. CASE UNCHANGED vars
  <2>1. UNCHANGED <<streamVars, senderVars, headerVars, multipartVars, delivered>>
    BY <1>5 DEF vars
  <2>2. StreamIInv'
    BY <2>1 DEF IInv, StreamIInv, streamVars, unread
  <2>3. PlaceIInv'
    BY <2>1 DEF IInv, PlaceIInv, BetweenFrames, InFrame, OutOfStep, streamVars, headerVars, multipartVars
  <2>4. SendingIInv' /\ ReceiverIInv'
    BY <2>1 DEF IInv, SendingIInv, ReceiverIInv, senderVars, headerVars, multipartVars
  <2>5. QED
    BY <2>2, <2>3, <2>4 DEF IInv
<1>6. QED
  BY <1>1, <1>2, <1>3, <1>4, <1>5, MultiPart_sendKeeps, ResetKeeps DEF Next

LEMMA InitIsGood == Init => IInv
<1> SUFFICES ASSUME Init PROVE IInv
  OBVIOUS
<1>1. /\ stream = <<>> /\ offset = 0 /\ readyBytes = 0 /\ sending = NoMessage /\ sent = 0
      /\ recieving = NoFrame /\ partialMessageReceived = FALSE /\ oversize_data = <<>>
      /\ multipartReadIndex = 0 /\ delivered = NoMessage
  BY DEF Init
<1>2. stream \in Seq(Frames) /\ Len(stream) = 0 /\ oversize_data \in Seq(Received)
  <2>1. <<>> \in Seq(Frames) /\ Len(<<>>) = 0 /\ <<>> \in Seq(Received)
    OBVIOUS
  <2>2. QED
    BY <1>1, <2>1, Zenon
<1>3. unread = 0
  BY <1>1, EmptyHasNoBytes DEF unread
<1>4. StreamIInv
  BY <1>1, <1>2, <1>3, Lengths DEF StreamIInv
<1>5. PlaceIInv /\ SendingIInv
  BY <1>1 DEF PlaceIInv, BetweenFrames, SendingIInv
<1>6. ReceiverIInv
  BY <1>1, <1>2 DEF ReceiverIInv
<1>7. QED
  BY <1>4, <1>5, <1>6 DEF IInv

LEMMA InvariantHolds == Spec => []IInv
<1>1. Init => IInv
  BY InitIsGood
<1>2. IInv /\ [Next]_vars => IInv'
  BY StepKeeps
<1>3. QED
  BY <1>1, <1>2, PTL DEF Spec

\* OnlyOverflowMisaligns: whenever the queue is reset and whatever clients leave
\* unread, only a chunk that did not fit its buffer puts the reader out of step.
THEOREM OnlyOverflowAlwaysMisaligns == Spec => []OnlyOverflowMisaligns
<1>1. IInv => OnlyOverflowMisaligns
  <2> SUFFICES ASSUME IInv, (recieving = NoFrame /\ offset > 0) \/ recieving = Noise
               PROVE  oversize_data = <<>> /\ Head(stream).kind = "MPCK"
    BY DEF OnlyOverflowMisaligns
  <2>1. ~BetweenFrames
    BY DEF BetweenFrames, NoFrame, Noise, Frame
  <2>2. ~InFrame
    BY FrameIs DEF InFrame
  <2>3. QED
    BY <2>1, <2>2 DEF IInv, PlaceIInv, OutOfStep
<1>2. QED
  BY <1>1, InvariantHolds, PTL

\* The variables have their types, whenever the queue is reset.
LEMMA TypesAre == IInv => TypeOK
BY DEF IInv, StreamIInv, SendingIInv, ReceiverIInv, Received, TypeOK

-----------------------------------------------------------------------------
(* What the receiver is at, frame by frame, when no reset comes between the  *)
(* chunks of a message                                                      *)

\* A message and how much of it has come, or none.
Places == (Message \cup {NoMessage}) \X Nat

\* What a frame makes of the place its reader is at, and which it may be read at.
Follows(before, f, after) ==
  /\ f.kind = "plain" => after = before
  /\ f.kind = "MPAR" => after = <<f.of, 0>>
  /\ f.kind = "MPCK" =>
       /\ before = <<f.of, f.from>>
       /\ f.from + f.length <= WholeLength(f.of)
       /\ after = IF f.from + f.length = WholeLength(f.of) THEN <<NoMessage, 0>>
                  ELSE <<f.of, f.from + f.length>>

\* h[k] is the place after the first k frames.
Trace(frames, h) ==
  /\ h \in [0..Len(frames) -> Places]
  /\ \A k \in 1..Len(frames) : Follows(h[k - 1], frames[k], h[k])

\* The buffer holds what had come at that place.
Holds(at) ==
  \/ at[1] = NoMessage /\ oversize_data = <<>>
  \/ /\ at[1] \in Message /\ at[2] = multipartReadIndex
     /\ Len(oversize_data) = WholeLength(at[1]) /\ multipartReadIndex < WholeLength(at[1])
     /\ \A i \in 1..multipartReadIndex : oversize_data[i] = <<at[1], i>>

ChunksFollow(h) ==
  /\ Trace(stream, h)
  /\ Holds(h[0])
  /\ sending # NoMessage => h[Len(stream)] = <<sending, sent>>

ChunksIInv ==
  /\ BetweenFrames \/ InFrame
  /\ delivered # Garbage
  /\ \E h : ChunksFollow(h)

LEMMA TracePushed ==
  ASSUME NEW s \in Seq(Frames), NEW f \in Frames, NEW h, Trace(s, h),
         NEW last \in Places, Follows(h[Len(s)], f, last)
  PROVE  \E g : Trace(Append(s, f), g) /\ g[0] = h[0] /\ g[Len(s) + 1] = last
<1>1. PICK t \in Seq(Frames) : /\ t = Append(s, f) /\ Len(t) = Len(s) + 1
                               /\ \A k \in 1..Len(s) : t[k] = s[k]
                               /\ t[Len(s) + 1] = f
  <2>1. /\ Append(s, f) \in Seq(Frames) /\ Len(Append(s, f)) = Len(s) + 1
        /\ \A k \in 1..Len(s) : Append(s, f)[k] = s[k]
        /\ Append(s, f)[Len(s) + 1] = f
    BY AppendProperties
  <2>2. QED
    BY <2>1, Zenon
<1>2. Len(s) \in Nat /\ \A k \in 0..Len(s) : h[k] \in Places
  BY DEF Trace
<1> DEFINE g == [k \in 0..Len(t) |-> IF k = Len(t) THEN last ELSE h[k]]
<1>3. g \in [0..Len(t) -> Places]
  BY <1>1, <1>2
<1>4. g[0] = h[0] /\ g[Len(s)] = h[Len(s)] /\ g[Len(s) + 1] = last
  BY <1>1, <1>2
<1>5. ASSUME NEW k \in 1..Len(s) PROVE Follows(g[k - 1], t[k], g[k])
  <2>1. g[k - 1] = h[k - 1] /\ g[k] = h[k] /\ t[k] = s[k]
    BY <1>1, <1>2
  <2> HIDE DEF g
  <2>2. QED
    BY <2>1 DEF Trace
<1> HIDE DEF g
<1>6. Follows(g[Len(s) + 1 - 1], t[Len(s) + 1], g[Len(s) + 1])
  <2>1. Len(s) + 1 - 1 = Len(s)
    BY <1>2
  <2>2. QED
    BY <1>1, <1>4, <2>1
<1>7. \A k \in 1..Len(t) : k \in 1..Len(s) \/ k = Len(s) + 1
  BY <1>1, <1>2
<1>8. Trace(t, g)
  BY <1>3, <1>5, <1>6, <1>7 DEF Trace
<1>9. QED
  BY <1>1, <1>4, <1>8

LEMMA TraceRead ==
  ASSUME NEW s \in Seq(Frames), s # <<>>, NEW h, Trace(s, h)
  PROVE  \E g : /\ Trace(Tail(s), g) /\ g[Len(Tail(s))] = h[Len(s)]
                /\ Follows(h[0], Head(s), g[0]) /\ h[0] \in Places /\ g[0] \in Places
<1>1. PICK t \in Seq(Frames) :
        /\ t = Tail(s) /\ Len(s) = Len(t) + 1 /\ s[1] = Head(s)
        /\ \A k \in 1..Len(t) : s[k + 1] = t[k]
  <2>1. Tail(s) \in Seq(Frames)
    OBVIOUS
  <2>2. Len(s) = Len(Tail(s)) + 1
    OBVIOUS
  <2>3. s[1] = Head(s) /\ \A k \in 1..Len(Tail(s)) : s[k + 1] = Tail(s)[k]
    OBVIOUS
  <2>4. QED
    BY <2>1, <2>2, <2>3, Zenon
<1>2. Len(t) \in Nat /\ \A k \in 0..Len(s) : h[k] \in Places
  BY DEF Trace
<1> DEFINE g == [k \in 0..Len(t) |-> h[k + 1]]
<1>3. g \in [0..Len(t) -> Places]
  BY <1>1, <1>2
<1>4. g[0] = h[1] /\ g[Len(t)] = h[Len(s)]
  BY <1>1, <1>2
<1>5. ASSUME NEW k \in 1..Len(t) PROVE Follows(g[k - 1], t[k], g[k])
  <2>1. g[k - 1] = h[k] /\ g[k] = h[k + 1] /\ t[k] = s[k + 1]
    BY <1>1, <1>2
  <2>2. k + 1 \in 1..Len(s) /\ k + 1 - 1 = k
    BY <1>1, <1>2
  <2> HIDE DEF g
  <2>3. Follows(h[k + 1 - 1], s[k + 1], h[k + 1])
    BY <2>2 DEF Trace
  <2>4. QED
    BY <2>1, <2>2, <2>3
<1> HIDE DEF g
<1>6. Trace(t, g)
  BY <1>3, <1>5 DEF Trace
<1>7. Follows(h[0], Head(s), g[0])
  <2>1. 1 \in 1..Len(s) /\ 1 - 1 = 0
    BY <1>1, <1>2
  <2>2. Follows(h[1 - 1], s[1], h[1])
    BY <2>1 DEF Trace
  <2>3. QED
    BY <1>1, <1>4, <2>1, <2>2
<1>8. h[0] \in Places /\ g[0] \in Places
  BY <1>1, <1>2, <1>3
<1>9. QED
  BY <1>1, <1>4, <1>6, <1>7, <1>8

-----------------------------------------------------------------------------
(* Which messages are complete *)

Written(frames) == FlattenSeq([i \in 1..Len(frames) |-> completedBy(frames[i])])

LEMMA WrittenIs == written = Written(stream)
BY DEF written, Written

LEMMA CompletedIs ==
  ASSUME NEW f \in Frames
  PROVE  completedBy(f) \in Seq(Message)
<1>1. f.of \in Message
  BY FrameIs
<1>2. <<f.of>> \in Seq(Message) /\ <<>> \in Seq(Message)
  BY <1>1
<1>3. QED
  BY <1>2 DEF completedBy

\* g[k] is the messages that are complete with the first k frames.
Gathered(frames, g) ==
  /\ g \in [0..Len(frames) -> Seq(Message)]
  /\ g[0] = <<>>
  /\ \A k \in 1..Len(frames) : g[k] = g[k - 1] \o completedBy(frames[k])

LEMMA GatheredExist ==
  ASSUME NEW s \in Seq(Frames)
  PROVE  \E g : Gathered(s, g)
<1> DEFINE step == [k \in 1..Len(s) |-> [w \in Seq(Message) |-> w \o completedBy(s[k])]]
<1>1. \A k \in 1..Len(s) : completedBy(s[k]) \in Seq(Message)
  BY CompletedIs
<1>2. step \in [1..Len(s) -> [Seq(Message) -> Seq(Message)]]
  <2>1. ASSUME NEW k \in 1..Len(s), NEW w \in Seq(Message) PROVE w \o completedBy(s[k]) \in Seq(Message)
    BY <1>1
  <2>2. QED
    BY <2>1
<1>3. PICK g \in [0..Len(s) -> Seq(Message)] : Unfolds(Len(s), <<>>, step, g)
  <2>1. Len(s) \in Nat /\ <<>> \in Seq(Message)
    OBVIOUS
  <2> HIDE DEF step
  <2>2. QED
    BY <1>2, <2>1, RecursionExists
<1>4. ASSUME NEW k \in 1..Len(s) PROVE g[k] = g[k - 1] \o completedBy(s[k])
  <2>1. k - 1 \in 0..Len(s) /\ g[k - 1] \in Seq(Message)
    OBVIOUS
  <2>2. g[k] = step[k][g[k - 1]]
    BY <1>3 DEF Unfolds
  <2>3. QED
    BY <2>1, <2>2
<1>5. QED
  BY <1>3, <1>4 DEF Gathered, Unfolds

LEMMA GatheredAre ==
  ASSUME NEW s \in Seq(Frames), NEW g, Gathered(s, g)
  PROVE  Written(s) = g[Len(s)] /\ g[Len(s)] \in Seq(Message)
<1> DEFINE seqs == [i \in 1..Len(s) |-> completedBy(s[i])]
           D == 1..Len(s)
           value(f, i) == IF i = 1 THEN seqs[i] ELSE f[i - 1] \o seqs[i]
           flatten == CHOOSE f : f = [i \in D |-> value(f, i)]
<1>1. Len(s) \in Nat /\ Len(seqs) = Len(s)
  <2>1. seqs \in [1..Len(s) -> Seq(Message)]
    BY CompletedIs
  <2>2. Len(s) \in Nat
    OBVIOUS
  <2> HIDE DEF seqs
  <2>3. QED
    BY <2>1, <2>2, FunctionIsSequence
<1>2. g[Len(s)] \in Seq(Message)
  BY <1>1 DEF Gathered
<1>3. CASE Len(s) = 0
  <2>1. seqs = <<>>
    <3>1. seqs \in [1..Len(s) -> Seq(Message)]
      BY CompletedIs
    <3> HIDE DEF seqs
    <3>2. seqs \in Seq(Seq(Message))
      BY <1>1, <3>1, FunctionIsSequence
    <3>3. QED
      BY <1>1, <1>3, <3>2
  <2>2. Written(s) = seqs
    BY <1>1, <1>3 DEF Written, FlattenSeq
  <2>3. QED
    BY <1>2, <1>3, <2>1, <2>2 DEF Gathered
<1>4. CASE Len(s) # 0
  <2>1. Written(s) = flatten[Len(s)]
    <3>1. Written(s) = FlattenSeq(seqs)
      BY DEF Written
    <3> HIDE DEF seqs
    <3>2. QED
      BY <1>1, <1>4, <3>1 DEF FlattenSeq
  <2> DEFINE u == [i \in D |-> g[i]]
             same == { i \in 0..Len(s) : i \in D => flatten[i] = g[i] }
  <2>2. ASSUME NEW i \in D PROVE seqs[i] = completedBy(s[i]) /\ g[i] = g[i - 1] \o seqs[i]
    BY DEF Gathered
  <2>3. ASSUME 1 \in D PROVE g[1] = seqs[1]
    <3>1. seqs[1] \in Seq(Message)
      BY <2>2, <2>3, CompletedIs
    <3>2. g[1] = g[1 - 1] \o seqs[1]
      BY <2>2, <2>3
    <3> HIDE DEF seqs
    <3>3. g[1] = <<>> \o seqs[1]
      <4>1. g[0] = <<>> /\ 1 - 1 = 0
        BY DEF Gathered
      <4>2. QED
        BY <3>2, <4>1
    <3>4. QED
      BY <3>1, <3>3, ConcatEmptySeq
  <2>4. u = [i \in D |-> value(u, i)]
    <3>1. ASSUME NEW i \in D PROVE u[i] = value(u, i)
      <4>1. CASE i = 1
        BY <2>3, <4>1
      <4>2. CASE i # 1
        <5>1. i - 1 \in D
          BY <1>1, <4>2
        <5>2. u[i] = g[i] /\ u[i - 1] = g[i - 1]
          BY <5>1
        <5> HIDE DEF seqs, u
        <5>3. QED
          BY <2>2, <4>2, <5>2
      <4>3. QED
        BY <4>1, <4>2
    <3> HIDE DEF value
    <3>2. QED
      BY <3>1
  <2>5. flatten = [i \in D |-> value(flatten, i)]
    <3> HIDE DEF value, u
    <3>1. \E f : f = [i \in D |-> value(f, i)]
      BY <2>4
    <3>2. QED
      BY <3>1
  <2> HIDE DEF flatten, seqs
  <2>6. 0 \in same
    BY <1>1
  <2>7. ASSUME NEW i \in 1..Len(s), i - 1 \in same PROVE i \in same
    <3>1. i \in D /\ i \in 0..Len(s)
      BY <1>1
    <3>2. flatten[i] = IF i = 1 THEN seqs[i] ELSE flatten[i - 1] \o seqs[i]
      BY <2>5, <3>1
    <3>3. CASE i = 1
      BY <2>3, <3>1, <3>2, <3>3
    <3>4. CASE i # 1
      <4>1. i - 1 \in D
        BY <1>1, <3>4
      <4>2. flatten[i - 1] = g[i - 1]
        BY <2>7, <4>1
      <4>3. flatten[i] = g[i]
        BY <2>2, <3>2, <3>4, <4>2
      <4>4. QED
        BY <3>1, <4>3
    <3>5. QED
      BY <3>3, <3>4
  <2>8. 0..Len(s) \subseteq same
    <3> HIDE DEF same
    <3> QED
      BY <1>1, <2>6, <2>7, UpTo, Zenon
  <2>9. Len(s) \in 0..Len(s) /\ Len(s) \in D
    BY <1>1, <1>4
  <2>10. QED
    BY <1>2, <2>1, <2>8, <2>9
<1>5. QED
  BY <1>3, <1>4

LEMMA WrittenAreMessages ==
  ASSUME NEW s \in Seq(Frames)
  PROVE  Written(s) \in Seq(Message)
<1>1. PICK g : Gathered(s, g)
  BY GatheredExist
<1>2. QED
  BY <1>1, GatheredAre

LEMMA NothingWritten == Written(<<>>) = <<>>
<1>1. PICK none \in Seq(Frames) : none = <<>> /\ Len(none) = 0
  <2>1. <<>> \in Seq(Frames) /\ Len(<<>>) = 0
    OBVIOUS
  <2>2. QED
    BY <2>1, Zenon
<1>2. PICK g : Gathered(none, g)
  BY GatheredExist
<1>3. Written(none) = g[0] /\ g[0] = <<>>
  BY <1>1, <1>2, GatheredAre DEF Gathered
<1>4. QED
  BY <1>1, <1>3, Zenon

\* A frame that is pushed completes its message after all others.
LEMMA PushedWritten ==
  ASSUME NEW s \in Seq(Frames), NEW f \in Frames
  PROVE  Written(Append(s, f)) = Written(s) \o completedBy(f)
<1>1. PICK g : Gathered(s, g)
  BY GatheredExist
<1>2. PICK t \in Seq(Frames) : /\ t = Append(s, f) /\ Len(t) = Len(s) + 1
                               /\ \A k \in 1..Len(s) : t[k] = s[k]
                               /\ t[Len(s) + 1] = f
  <2>1. /\ Append(s, f) \in Seq(Frames) /\ Len(Append(s, f)) = Len(s) + 1
        /\ \A k \in 1..Len(s) : Append(s, f)[k] = s[k]
        /\ Append(s, f)[Len(s) + 1] = f
    BY AppendProperties
  <2>2. QED
    BY <2>1, Zenon
<1>3. Len(s) \in Nat /\ Written(s) = g[Len(s)] /\ g[Len(s)] \in Seq(Message)
  BY <1>1, GatheredAre
<1>4. PICK more \in Seq(Message) : more = g[Len(s)] \o completedBy(f)
  <2>1. g[Len(s)] \o completedBy(f) \in Seq(Message)
    BY <1>3, CompletedIs
  <2>2. QED
    BY <2>1, Zenon
<1> DEFINE h == [k \in 0..Len(t) |-> IF k = Len(t) THEN more ELSE g[k]]
<1>5. Gathered(t, h)
  <2>1. \A k \in 0..Len(s) : g[k] \in Seq(Message)
    BY <1>1 DEF Gathered
  <2>2. h \in [0..Len(t) -> Seq(Message)] /\ h[0] = g[0]
    BY <1>2, <1>3, <1>4, <2>1
  <2>3. ASSUME NEW k \in 1..Len(s) PROVE h[k] = h[k - 1] \o completedBy(t[k])
    <3>1. h[k] = g[k] /\ h[k - 1] = g[k - 1] /\ t[k] = s[k]
      BY <1>2, <1>3
    <3> HIDE DEF h
    <3>2. QED
      BY <1>1, <3>1 DEF Gathered
  <2>4. h[Len(s) + 1] = more /\ h[Len(s)] = g[Len(s)]
    BY <1>2, <1>3
  <2>5. \A k \in 1..Len(t) : k \in 1..Len(s) \/ k = Len(s) + 1
    BY <1>2, <1>3
  <2> HIDE DEF h
  <2>6. \A k \in 1..Len(t) : h[k] = h[k - 1] \o completedBy(t[k])
    <3>1. ASSUME NEW k \in 1..Len(t) PROVE h[k] = h[k - 1] \o completedBy(t[k])
      <4>1. CASE k \in 1..Len(s)
        BY <2>3, <4>1
      <4>2. CASE k = Len(s) + 1
        <5>1. k - 1 = Len(s)
          BY <1>3, <4>2
        <5>2. h[k] = more /\ h[k - 1] = g[Len(s)] /\ t[k] = f
          BY <1>2, <2>4, <4>2, <5>1
        <5>3. QED
          BY <1>4, <5>2
      <4>3. QED
        BY <2>5, <4>1, <4>2
    <3>2. QED
      BY <3>1
  <2>7. h[0] = <<>>
    BY <1>1, <2>2 DEF Gathered
  <2>8. QED
    BY <2>2, <2>6, <2>7 DEF Gathered
<1>6. Written(t) = more
  <2>1. Len(t) \in 0..Len(t) /\ h[Len(t)] = more
    BY <1>2, <1>3
  <2> HIDE DEF h
  <2>2. QED
    BY <1>5, <2>1, GatheredAre
<1>7. QED
  BY <1>2, <1>3, <1>4, <1>6

LEMMA Regrouped ==
  ASSUME NEW a \in Seq(Message), NEW b \in Seq(Message), NEW c \in Seq(Message)
  PROVE  a \o (b \o c) = (a \o b) \o c
<1>1. /\ a \o b \in Seq(Message) /\ Len(a \o b) = Len(a) + Len(b)
      /\ b \o c \in Seq(Message) /\ Len(b \o c) = Len(b) + Len(c)
  OBVIOUS
<1>2. /\ a \o (b \o c) \in Seq(Message) /\ (a \o b) \o c \in Seq(Message)
      /\ Len(a \o (b \o c)) = Len((a \o b) \o c)
  BY <1>1
<1>3. \A i \in 1..Len(a \o (b \o c)) : (a \o (b \o c))[i] = ((a \o b) \o c)[i]
  BY <1>1
<1>4. QED
  BY <1>2, <1>3, SeqEqual

\* A frame that is read takes the message that it completes from the front.
LEMMA ReadWritten ==
  ASSUME NEW s \in Seq(Frames), s # <<>>
  PROVE  Written(s) = completedBy(Head(s)) \o Written(Tail(s))
<1>1. PICK t \in Seq(Frames), f \in Frames :
        /\ t = Tail(s) /\ f = Head(s) /\ Len(s) = Len(t) + 1 /\ s[1] = f
        /\ \A k \in 1..Len(t) : s[k + 1] = t[k]
  <2>1. Head(s) \in Frames /\ Tail(s) \in Seq(Frames)
    OBVIOUS
  <2>2. Len(s) = Len(Tail(s)) + 1
    OBVIOUS
  <2>3. s[1] = Head(s) /\ \A k \in 1..Len(Tail(s)) : s[k + 1] = Tail(s)[k]
    OBVIOUS
  <2>4. QED
    BY <2>1, <2>2, <2>3, Zenon
<1>2. PICK g : Gathered(t, g)
  BY GatheredExist
<1>3. PICK first \in Seq(Message) : first = completedBy(f)
  BY CompletedIs
<1>4. Len(t) \in Nat /\ \A k \in 0..Len(t) : g[k] \in Seq(Message)
  <2>1. \A k \in 0..Len(t) : g[k] \in Seq(Message)
    BY <1>2 DEF Gathered
  <2>2. QED
    BY <2>1
<1>5. Written(t) = g[Len(t)]
  BY <1>2, GatheredAre
<1> DEFINE h == [k \in 0..Len(s) |-> IF k = 0 THEN <<>> ELSE first \o g[k - 1]]
<1>6. ASSUME NEW k \in 1..Len(s) PROVE h[k] = h[k - 1] \o completedBy(s[k])
  <2>1. h[k] = first \o g[k - 1]
    BY <1>1, <1>4
  <2>2. CASE k = 1
    <3>1. g[k - 1] = <<>> /\ h[k - 1] = <<>>
      BY <1>1, <1>2, <1>4, <2>2 DEF Gathered
    <3>2. first \o <<>> = first /\ <<>> \o first = first
      BY ConcatEmptySeq
    <3> HIDE DEF h
    <3>3. QED
      BY <1>1, <1>3, <2>1, <2>2, <3>1, <3>2
  <2>3. CASE k # 1
    <3>1. k - 1 \in 1..Len(t) /\ k - 1 - 1 \in 0..Len(t) /\ k - 1 + 1 = k
      BY <1>1, <1>4, <2>3
    <3>2. g[k - 1] = g[k - 1 - 1] \o completedBy(t[k - 1])
      BY <1>2, <3>1 DEF Gathered
    <3>3. t[k - 1] = s[k] /\ completedBy(s[k]) \in Seq(Message)
      <4>1. s[k - 1 + 1] = t[k - 1]
        BY <1>1, <3>1
      <4>2. QED
        BY <3>1, <4>1, CompletedIs
    <3>4. h[k - 1] = first \o g[k - 1 - 1]
      BY <1>1, <1>4, <2>3
    <3>5. g[k - 1 - 1] \in Seq(Message)
      BY <1>4, <3>1
    <3> HIDE DEF h
    <3>6. first \o (g[k - 1 - 1] \o completedBy(s[k])) = (first \o g[k - 1 - 1]) \o completedBy(s[k])
      BY <3>3, <3>5, Regrouped, Zenon
    <3>7. QED
      BY <2>1, <3>2, <3>3, <3>4, <3>6
  <2>4. QED
    BY <2>2, <2>3
<1>7. h \in [0..Len(s) -> Seq(Message)]
  <2>1. ASSUME NEW k \in 0..Len(s), k # 0 PROVE first \o g[k - 1] \in Seq(Message)
    <3>1. k - 1 \in 0..Len(t)
      BY <1>1, <1>4, <2>1
    <3>2. g[k - 1] \in Seq(Message)
      BY <1>4, <3>1
    <3>3. QED
      BY <3>2
  <2>2. <<>> \in Seq(Message)
    OBVIOUS
  <2>3. QED
    BY <2>1, <2>2
<1>8. h[0] = <<>> /\ h[Len(s)] = first \o g[Len(t)]
  <2>1. Len(s) \in 0..Len(s) /\ Len(s) # 0 /\ Len(s) - 1 = Len(t) /\ 0 \in 0..Len(s)
    BY <1>1, <1>4
  <2>2. QED
    BY <2>1
<1> HIDE DEF h
<1>9. Gathered(s, h)
  BY <1>6, <1>7, <1>8 DEF Gathered
<1>10. Written(s) = h[Len(s)]
  BY <1>9, GatheredAre
<1>11. QED
  BY <1>1, <1>3, <1>5, <1>8, <1>10

-----------------------------------------------------------------------------
(* The steps of a queue that is not reset within a message                   *)

\* What a step does to the messages that are complete.
ChannelStep == [Channel!Next]_(Channel!vars)

LEMMA FollowsInPlaces ==
  ASSUME NEW f \in Frames, NEW before \in Places, NEW after, Follows(before, f, after)
  PROVE  after \in Places
<1>1. f.kind \in {"plain", "MPAR", "MPCK"} /\ f.of \in Message /\ f.from + f.length \in Nat
  BY FrameIs
<1>2. <<f.of, 0>> \in Places /\ <<NoMessage, 0>> \in Places /\ <<f.of, f.from + f.length>> \in Places
  BY <1>1 DEF Places
<1>3. QED
  BY <1>1, <1>2 DEF Follows

\* A pushed frame follows what was pushed before.
LEMMA PushFollows ==
  ASSUME IInv, BetweenFrames \/ InFrame, delivered # Garbage, NEW h, ChunksFollow(h),
         NEW f \in Frames, WellMade(f), HeaderLength + f.length <= freeSpace, Push(f),
         UNCHANGED <<headerVars, multipartVars, delivered>>,
         NEW last, Follows(h[Len(stream)], f, last),
         sending' # NoMessage => last = <<sending', sent'>>
  PROVE  ChunksIInv' /\ written' = written \o completedBy(f)
<1>1. stream \in Seq(Frames) /\ stream' = Append(stream, f) /\ Trace(stream, h)
  BY DEF IInv, StreamIInv, Push, ChunksFollow
<1>2. h[Len(stream)] \in Places
  BY <1>1 DEF Trace
<1>3. last \in Places
  BY <1>2, FollowsInPlaces
<1>4. PICK g : Trace(stream', g) /\ g[0] = h[0] /\ g[Len(stream) + 1] = last
  BY <1>1, <1>3, TracePushed
<1>5. Len(stream') = Len(stream) + 1
  BY <1>1
<1>6. Holds(g[0])'
  <2>1. Holds(g[0])
    BY <1>4 DEF ChunksFollow
  <2>2. UNCHANGED <<oversize_data, multipartReadIndex>>
    BY DEF multipartVars
  <2>3. QED
    BY <2>1, <2>2 DEF Holds, WholeLength
<1>7. ChunksFollow(g)'
  BY <1>4, <1>5, <1>6 DEF ChunksFollow
<1>8. BetweenFrames' \/ InFrame'
  BY PushKeeps DEF IInv
<1>9. ChunksIInv'
  BY <1>7, <1>8 DEF ChunksIInv
<1>10. written' = written \o completedBy(f)
  <2>1. written' = Written(stream')
    BY DEF written, Written
  <2>2. Written(stream') = Written(stream) \o completedBy(f)
    BY <1>1, PushedWritten
  <2>3. QED
    BY <2>1, <2>2, WrittenIs
<1>11. QED
  BY <1>9, <1>10

LEMMA WriteFollows ==
  ASSUME IInv, ChunksIInv, NEW m \in Message, WriteMessage(m)
  PROVE  ChunksIInv' /\ ChannelStep
<1> DEFINE f == PlainFrame(m)
<1>1. PICK h : ChunksFollow(h)
  BY DEF ChunksIInv
<1>2. f \in Frames /\ f.kind = "plain" /\ f.of = m /\ f.length = Length[m]
  BY FramesAre
<1> HIDE DEF f
<1>3. WellMade(f) /\ HeaderLength + f.length <= freeSpace
  <2>1. Length[m] \in Nat /\ WholeLength(m) = HeaderLength + Length[m]
    BY WholeLengthIs
  <2>2. WholeLength(m) + SafetyZone <= freeSpace
    BY DEF WriteMessage
  <2>3. freeSpace \in Nat /\ freeSpace <= TotalSpace
    BY SpaceIs DEF IInv
  <2>4. HeaderLength + Length[m] <= freeSpace /\ Length[m] < TotalSpace
    BY <2>1, <2>2, <2>3, Lengths
  <2>5. QED
    BY <1>2, <2>4 DEF WellMade
<1>4. Push(f) /\ UNCHANGED <<senderVars, headerVars, multipartVars, delivered>>
  BY DEF WriteMessage, f
<1>5. Follows(h[Len(stream)], f, h[Len(stream)])
  BY <1>2 DEF Follows
<1>6. sending' # NoMessage => h[Len(stream)] = <<sending', sent'>>
  BY <1>1, <1>4 DEF ChunksFollow, senderVars
<1>7. ChunksIInv' /\ written' = written \o completedBy(f)
  BY <1>1, <1>2, <1>3, <1>4, <1>5, <1>6, PushFollows DEF ChunksIInv
<1>8. Channel!Write(m)
  <2>1. written \in Seq(Message)
    BY WrittenIs, WrittenAreMessages DEF IInv, StreamIInv
  <2>2. completedBy(f) = <<m>>
    BY <1>2 DEF completedBy
  <2>3. written' = Append(written, m)
    BY <1>7, <2>1, <2>2, AppendIsConcat
  <2>4. QED
    BY <1>4, <2>3 DEF Channel!Write
<1>9. QED
  BY <1>7, <1>8 DEF ChannelStep, Channel!Next

LEMMA StartFollows ==
  ASSUME IInv, ChunksIInv, NEW m \in Message, startMultiPartSend(m)
  PROVE  ChunksIInv' /\ ChannelStep
<1> DEFINE f == StartFrame(m)
<1>1. PICK h : ChunksFollow(h)
  BY DEF ChunksIInv
<1>2. f \in Frames /\ f.kind = "MPAR" /\ f.of = m /\ f.length = MultipartPayload
  BY FramesAre
<1> HIDE DEF f
<1>3. WellMade(f) /\ HeaderLength + f.length <= freeSpace
  <2>1. SafetyZone < freeSpace
    BY DEF startMultiPartSend
  <2>2. freeSpace \in Nat /\ freeSpace <= TotalSpace
    BY SpaceIs DEF IInv
  <2>3. HeaderLength + MultipartPayload <= freeSpace /\ MultipartPayload < TotalSpace
    BY <2>1, <2>2, Lengths
  <2>4. QED
    BY <1>2, <2>3 DEF WellMade
<1>4. /\ Push(f) /\ UNCHANGED <<headerVars, multipartVars, delivered>>
      /\ sending = NoMessage /\ sending' = m /\ sent' = sent
  BY DEF startMultiPartSend, f
<1>5. Follows(h[Len(stream)], f, <<m, 0>>)
  BY <1>2 DEF Follows
<1>6. <<sending', sent'>> = <<m, 0>>
  BY <1>4 DEF IInv, SendingIInv
<1>7. ChunksIInv' /\ written' = written \o completedBy(f)
  BY <1>1, <1>2, <1>3, <1>4, <1>5, <1>6, PushFollows DEF ChunksIInv
<1>8. UNCHANGED Channel!vars
  <2>1. written \in Seq(Message)
    BY WrittenIs, WrittenAreMessages DEF IInv, StreamIInv
  <2>2. completedBy(f) = <<>>
    BY <1>2 DEF completedBy
  <2>3. written' = written
    BY <1>7, <2>1, <2>2, ConcatEmptySeq
  <2>4. QED
    BY <1>4, <2>3 DEF Channel!vars
<1>9. QED
  BY <1>7, <1>8 DEF ChannelStep

LEMMA MultiPart_sendFollows ==
  ASSUME IInv, ChunksIInv, MultiPart_send
  PROVE  ChunksIInv' /\ ChannelStep
<1> DEFINE f == ChunkFrame(sending, sent, chunkLength)
<1>1. PICK h : ChunksFollow(h)
  BY DEF ChunksIInv
<1>2. /\ sending \in Message /\ sent \in Nat
      /\ chunkLength \in Nat \ {0} /\ sent + chunkLength <= WholeLength(sending)
      /\ HeaderLength + chunkLength <= freeSpace /\ chunkLength < TotalSpace
      /\ Push(f)
      /\ UNCHANGED <<headerVars, multipartVars, delivered>>
  BY ChunkIs
<1>3. /\ f \in Frames /\ f.kind = "MPCK" /\ f.of = sending /\ f.from = sent
      /\ f.length = chunkLength
  BY <1>2, FramesAre
<1> HIDE DEF f
<1>4. WellMade(f) /\ HeaderLength + f.length <= freeSpace
  BY <1>2, <1>3 DEF WellMade
<1>5. h[Len(stream)] = <<sending, sent>>
  <2>1. sending # NoMessage
    BY <1>2, InterThreadQueAssumption DEF InterThreadQueAssumption
  <2>2. QED
    BY <1>1, <2>1 DEF ChunksFollow
<1>6. written \in Seq(Message)
  BY WrittenIs, WrittenAreMessages DEF IInv, StreamIInv
<1>7. CASE sent + chunkLength = WholeLength(sending)
  <2>1. sending' = NoMessage
    BY <1>7, ChunkIs
  <2>2. Follows(h[Len(stream)], f, <<NoMessage, 0>>)
    BY <1>2, <1>3, <1>5, <1>7 DEF Follows
  <2>3. ChunksIInv' /\ written' = written \o completedBy(f)
    BY <1>1, <1>2, <1>3, <1>4, <2>1, <2>2, PushFollows DEF ChunksIInv
  <2>4. completedBy(f) = <<sending>>
    BY <1>3, <1>7 DEF completedBy
  <2>5. written' = Append(written, sending)
    BY <1>2, <1>6, <2>3, <2>4, AppendIsConcat
  <2>6. Channel!Write(sending)
    BY <1>2, <2>5 DEF Channel!Write
  <2>7. QED
    BY <1>2, <2>3, <2>6 DEF ChannelStep, Channel!Next
<1>8. CASE sent + chunkLength # WholeLength(sending)
  <2>1. <<sending', sent'>> = <<sending, sent + chunkLength>>
    BY <1>8, ChunkIs
  <2>2. Follows(h[Len(stream)], f, <<sending, sent + chunkLength>>)
    BY <1>2, <1>3, <1>5, <1>8 DEF Follows
  <2>3. ChunksIInv' /\ written' = written \o completedBy(f)
    BY <1>1, <1>2, <1>3, <1>4, <2>1, <2>2, PushFollows DEF ChunksIInv
  <2>4. completedBy(f) = <<>>
    BY <1>3, <1>8 DEF completedBy
  <2>5. written' = written
    BY <1>6, <2>3, <2>4, ConcatEmptySeq
  <2>6. QED
    BY <1>2, <2>3, <2>5 DEF ChannelStep, Channel!vars
<1>9. QED
  BY <1>7, <1>8

\* Steps that only look at the stream, or make it visible.
LEMMA LookingFollows ==
  ASSUME IInv, ChunksIInv, BetweenFrames' \/ InFrame',
         UNCHANGED <<stream, senderVars, multipartVars, delivered>>
  PROVE  ChunksIInv' /\ ChannelStep
<1>1. PICK h : ChunksFollow(h)
  BY DEF ChunksIInv
<1>2. ChunksFollow(h)'
  BY <1>1 DEF ChunksFollow, Holds, WholeLength, senderVars, multipartVars
<1>3. ChunksIInv'
  BY <1>2 DEF ChunksIInv
<1>4. written' = written
  BY DEF written
<1>5. QED
  BY <1>3, <1>4 DEF ChannelStep, Channel!vars

\* Reading a frame takes the place that follows.
LEMMA ReadFollows ==
  ASSUME IInv, stream # <<>>, NEW h, ChunksFollow(h),
         stream' = Tail(stream), BetweenFrames', UNCHANGED senderVars, delivered' # Garbage,
         \A at \in Places : Follows(h[0], Head(stream), at) => Holds(at)'
  PROVE  ChunksIInv' /\ written = completedBy(Head(stream)) \o written'
<1>1. stream \in Seq(Frames) /\ Trace(stream, h)
  BY DEF IInv, StreamIInv, ChunksFollow
<1>2. PICK g : /\ Trace(Tail(stream), g) /\ g[Len(Tail(stream))] = h[Len(stream)]
               /\ Follows(h[0], Head(stream), g[0]) /\ g[0] \in Places
  BY <1>1, TraceRead
<1>3. Holds(g[0])'
  BY <1>2
<1>4. sending' # NoMessage => g[Len(stream')] = <<sending', sent'>>
  BY <1>2 DEF ChunksFollow, senderVars
<1>5. ChunksFollow(g)'
  BY <1>2, <1>3, <1>4 DEF ChunksFollow
<1>6. ChunksIInv'
  BY <1>5 DEF ChunksIInv
<1>7. written = completedBy(Head(stream)) \o written'
  <2>1. written' = Written(Tail(stream))
    BY DEF written, Written
  <2>2. Written(stream) = completedBy(Head(stream)) \o Written(Tail(stream))
    BY <1>1, ReadWritten
  <2>3. QED
    BY <2>1, <2>2, WrittenIs
<1>8. QED
  BY <1>6, <1>7

\* A message that was complete with the first frame is delivered.
LEMMA FirstIsDelivered ==
  ASSUME IInv', NEW m \in Message, written = <<m>> \o written', delivered' = m
  PROVE  Channel!Deliver
<1>1. PICK w \in Seq(Message) : w = written'
  <2>1. written' \in Seq(Message)
    BY WrittenAreMessages DEF IInv, StreamIInv, written, Written
  <2>2. QED
    BY <2>1
<1>2. written = <<m>> \o w
  BY <1>1
<1>3. written # <<>> /\ Head(written) = m /\ Tail(written) = w
  BY <1>2
<1>4. QED
  BY <1>1, <1>3 DEF Channel!Deliver

LEMMA ProcessPlainFollows ==
  ASSUME IInv, ChunksIInv, NEW consumed \in 0..recieving.length, ProcessPlain(consumed)
  PROVE  ChunksIInv' /\ ChannelStep
<1>1. PICK h : ChunksFollow(h)
  BY DEF ChunksIInv
<1>2. Process("plain") /\ delivered' = recieving.of /\ UNCHANGED multipartVars
  BY DEF ProcessPlain
<1>3. /\ recieving = Head(stream) /\ recieving \in Frames /\ recieving.kind = "plain"
      /\ stream # <<>> /\ UNCHANGED senderVars
  BY <1>2, ProcessIsInFrame
<1>4. IInv' /\ BetweenFrames' /\ stream' = Tail(stream)
  BY ProcessPlainKeeps
<1>5. recieving.of \in Message /\ delivered' # Garbage
  BY <1>2, <1>3, FrameIs, InterThreadQueAssumption DEF InterThreadQueAssumption
<1>6. ASSUME NEW at \in Places, Follows(h[0], Head(stream), at) PROVE Holds(at)'
  <2>1. at = h[0]
    BY <1>3, <1>6 DEF Follows
  <2>2. Holds(at)
    BY <1>1, <2>1 DEF ChunksFollow
  <2>3. QED
    BY <1>2, <2>2 DEF Holds, WholeLength, multipartVars
<1>7. ChunksIInv' /\ written = completedBy(Head(stream)) \o written'
  BY <1>1, <1>3, <1>4, <1>5, <1>6, ReadFollows
<1>8. written = <<recieving.of>> \o written'
  <2>1. completedBy(Head(stream)) = <<recieving.of>>
    BY <1>3 DEF completedBy
  <2>2. QED
    BY <1>7, <2>1
<1>9. Channel!Deliver
  BY <1>2, <1>4, <1>5, <1>8, FirstIsDelivered
<1>10. QED
  BY <1>7, <1>9 DEF ChannelStep, Channel!Next

LEMMA ProcessStartFollows ==
  ASSUME IInv, ChunksIInv, ProcessStart
  PROVE  ChunksIInv' /\ ChannelStep
<1>1. PICK h : ChunksFollow(h)
  BY DEF ChunksIInv
<1>2. Process("MPAR") /\ multipartReadIndex' = 0 /\ UNCHANGED delivered
  BY DEF ProcessStart
<1>3. /\ recieving = Head(stream) /\ recieving \in Frames /\ recieving.kind = "MPAR"
      /\ stream # <<>> /\ UNCHANGED senderVars
  BY <1>2, ProcessIsInFrame
<1>4. /\ IInv' /\ BetweenFrames' /\ stream' = Tail(stream)
      /\ Len(oversize_data') = WholeLength(recieving.of)
  BY ProcessStartKeeps
<1>5. recieving.of \in Message
  BY <1>3, FrameIs
<1>6. ASSUME NEW at \in Places, Follows(h[0], Head(stream), at) PROVE Holds(at)'
  <2>1. at = <<recieving.of, 0>>
    BY <1>3, <1>6 DEF Follows
  <2>2. 0 < WholeLength(recieving.of) /\ WholeLength(recieving.of) \in Nat
    BY <1>5, WholeLengthIs
  <2>3. at[1] = recieving.of /\ at[2] = 0
    BY <2>1
  <2>4. QED
    BY <1>2, <1>4, <1>5, <2>2, <2>3 DEF Holds, WholeLength
<1>7. delivered' # Garbage
  BY <1>2 DEF ChunksIInv
<1>8. ChunksIInv' /\ written = completedBy(Head(stream)) \o written'
  BY <1>1, <1>3, <1>4, <1>6, <1>7, ReadFollows
<1>9. written' = written
  <2>1. completedBy(Head(stream)) = <<>>
    BY <1>3 DEF completedBy
  <2>2. written' \in Seq(Message)
    BY <1>4, WrittenAreMessages DEF IInv, StreamIInv, written, Written
  <2>3. QED
    BY <1>8, <2>1, <2>2, ConcatEmptySeq
<1>10. QED
  BY <1>2, <1>8, <1>9 DEF ChannelStep, Channel!vars

\* A chunk comes when the buffer waits for it, and fits.
LEMMA ChunkFits ==
  ASSUME IInv, ChunksIInv, InFrame, recieving.kind = "MPCK"
  PROVE  /\ recieving.of \in Message /\ recieving.length \in Nat \ {0}
         /\ recieving.from = multipartReadIndex /\ multipartReadIndex \in Nat
         /\ Len(oversize_data) = WholeLength(recieving.of) /\ WholeLength(recieving.of) \in Nat
         /\ multipartReadIndex + recieving.length <= WholeLength(recieving.of)
         /\ \A i \in 1..multipartReadIndex : oversize_data[i] = <<recieving.of, i>>
         /\ ~overflows
<1>1. PICK h : ChunksFollow(h)
  BY DEF ChunksIInv
<1>2. recieving = Head(stream) /\ recieving \in Frames /\ stream \in Seq(Frames) /\ stream # <<>>
  BY DEF InFrame, IInv, StreamIInv
<1>3. /\ recieving.of \in Message /\ recieving.length \in Nat \ {0} /\ multipartReadIndex \in Nat
      /\ WholeLength(recieving.of) \in Nat
  BY <1>2, FrameIs, WholeLengthIs DEF IInv, ReceiverIInv
<1>4. PICK g : Follows(h[0], recieving, g[0])
  BY <1>1, <1>2, TraceRead DEF ChunksFollow
<1>5. /\ h[0] = <<recieving.of, recieving.from>>
      /\ recieving.from + recieving.length <= WholeLength(recieving.of)
  BY <1>4 DEF Follows
<1>6. h[0][1] = recieving.of /\ h[0][2] = recieving.from /\ recieving.of # NoMessage
  BY <1>3, <1>5, InterThreadQueAssumption DEF InterThreadQueAssumption
<1>7. /\ recieving.from = multipartReadIndex
      /\ Len(oversize_data) = WholeLength(recieving.of)
      /\ \A i \in 1..multipartReadIndex : oversize_data[i] = <<recieving.of, i>>
  BY <1>1, <1>6 DEF ChunksFollow, Holds
<1>8. ~overflows
  BY <1>3, <1>5, <1>7 DEF overflows
<1>9. QED
  BY <1>3, <1>5, <1>7, <1>8

\* What has come up to the end of a chunk is the start of the message.
LEMMA FilledIs ==
  ASSUME IInv, ChunksIInv, InFrame, recieving.kind = "MPCK",
         NEW i \in 1..multipartReadIndex + recieving.length
  PROVE  i \in 1..Len(oversize_data) /\ filledBuffer[i] = <<recieving.of, i>>
<1>1. /\ recieving.of \in Message /\ recieving.length \in Nat \ {0}
      /\ recieving.from = multipartReadIndex /\ multipartReadIndex \in Nat
      /\ Len(oversize_data) = WholeLength(recieving.of) /\ WholeLength(recieving.of) \in Nat
      /\ multipartReadIndex + recieving.length <= WholeLength(recieving.of)
      /\ \A j \in 1..multipartReadIndex : oversize_data[j] = <<recieving.of, j>>
  BY ChunkFits
<1>2. i \in 1..Len(oversize_data) /\ i \in Nat
  BY <1>1
<1>3. CASE multipartReadIndex < i
  <2>1. i - multipartReadIndex \in 1..recieving.length
    BY <1>1, <1>3
  <2>2. Bytes(recieving.of, recieving.from, recieving.length)[i - multipartReadIndex]
          = <<recieving.of, recieving.from + (i - multipartReadIndex)>>
    BY <2>1 DEF Bytes
  <2>3. recieving.from + (i - multipartReadIndex) = i
    BY <1>1, <1>2
  <2>4. i <= multipartReadIndex + recieving.length
    BY <1>1
  <2>5. filledBuffer[i]
          = Bytes(recieving.of, recieving.from, recieving.length)[i - multipartReadIndex]
    BY <1>2, <1>3, <2>4 DEF filledBuffer
  <2>6. QED
    BY <1>2, <2>2, <2>3, <2>5
<1>4. CASE ~(multipartReadIndex < i)
  <2>1. i \in 1..multipartReadIndex
    BY <1>1, <1>2, <1>4
  <2>2. filledBuffer[i] = oversize_data[i]
    BY <1>2, <1>4 DEF filledBuffer
  <2>3. QED
    BY <1>1, <1>2, <2>1, <2>2
<1>5. QED
  BY <1>3, <1>4

LEMMA DecodedIsWhole ==
  ASSUME NEW m \in Message
  PROVE  decoded(Bytes(m, 0, WholeLength(m))) = m
<1> DEFINE whole(k) == Bytes(k, 0, WholeLength(k))
<1>1. ASSUME NEW k \in Message PROVE whole(k)[1] = <<k, 1>>
  <2>1. 1 \in 1..WholeLength(k)
    BY WholeLengthIs
  <2>2. whole(k)[1] = <<k, 0 + 1>>
    BY <2>1 DEF Bytes
  <2>3. QED
    BY <2>2
<1>2. \A k \in Message : whole(m) = whole(k) => k = m
  <2> SUFFICES ASSUME NEW k \in Message, whole(m) = whole(k) PROVE k = m
    OBVIOUS
  <2>1. <<k, 1>> = <<m, 1>>
    BY <1>1
  <2>2. QED
    BY <2>1
<1>3. decoded(whole(m)) = CHOOSE k \in Message : whole(m) = whole(k)
  BY DEF decoded
<1> HIDE DEF whole
<1>4. QED
  BY <1>2, <1>3 DEF whole

LEMMA ProcessChunkFollows ==
  ASSUME IInv, ChunksIInv, ProcessChunk
  PROVE  ChunksIInv' /\ ChannelStep
<1> DEFINE m == recieving.of
           n == multipartReadIndex + recieving.length
<1>1. PICK h : ChunksFollow(h)
  BY DEF ChunksIInv
<1>2. Process("MPCK") /\ IF overflows THEN ignoreFurtherData ELSE appendChunk
  BY DEF ProcessChunk
<1>3. /\ InFrame /\ recieving = Head(stream) /\ recieving \in Frames /\ recieving.kind = "MPCK"
      /\ stream # <<>> /\ UNCHANGED senderVars
  BY <1>2, ProcessIsInFrame
<1>4. /\ m \in Message /\ recieving.length \in Nat \ {0}
      /\ recieving.from = multipartReadIndex /\ multipartReadIndex \in Nat
      /\ Len(oversize_data) = WholeLength(m) /\ WholeLength(m) \in Nat
      /\ n <= WholeLength(m) /\ n \in Nat
      /\ ~overflows
  BY <1>3, ChunkFits
<1>5. IInv' /\ BetweenFrames' /\ stream' = Tail(stream)
  BY <1>4, ProcessChunkKeeps
<1>6. IF n >= Len(oversize_data)
        THEN /\ delivered' = decoded(filledBuffer)
             /\ oversize_data' = <<>>
             /\ multipartReadIndex' = 0
        ELSE /\ oversize_data' = filledBuffer
             /\ multipartReadIndex' = n
             /\ UNCHANGED delivered
  BY <1>2, <1>4 DEF appendChunk, filledBuffer
<1>7. \A i \in 1..n : i \in 1..Len(oversize_data) /\ filledBuffer[i] = <<m, i>>
  BY <1>3, FilledIs
<1>8. recieving.from + recieving.length = n
  BY <1>4
<1>9. m # NoMessage /\ m # Garbage
  BY <1>4, InterThreadQueAssumption DEF InterThreadQueAssumption
<1> HIDE DEF n
<1>10. CASE n = WholeLength(m)
  <2>1. delivered' = decoded(filledBuffer) /\ oversize_data' = <<>> /\ multipartReadIndex' = 0
    BY <1>4, <1>6, <1>10
  <2>2. filledBuffer = Bytes(m, 0, WholeLength(m))
    <3> DEFINE whole == Bytes(m, 0, WholeLength(m))
    <3>1. ASSUME NEW i \in 1..WholeLength(m) PROVE filledBuffer[i] = whole[i]
      <4>1. whole[i] = <<m, 0 + i>> /\ 0 + i = i
        BY DEF Bytes
      <4>2. filledBuffer[i] = <<m, i>>
        BY <1>7, <1>10
      <4>3. QED
        BY <4>1, <4>2
    <3>2. filledBuffer = [i \in 1..WholeLength(m) |-> filledBuffer[i]]
      BY <1>4 DEF filledBuffer
    <3>3. whole = [i \in 1..WholeLength(m) |-> whole[i]]
      BY DEF Bytes
    <3> HIDE DEF whole
    <3>4. QED
      BY <3>1, <3>2, <3>3 DEF whole
  <2>3. delivered' = m
    BY <1>4, <2>1, <2>2, DecodedIsWhole
  <2>4. ASSUME NEW at \in Places, Follows(h[0], Head(stream), at) PROVE Holds(at)'
    <3>1. at = <<NoMessage, 0>>
      BY <1>3, <1>8, <1>10, <2>4 DEF Follows
    <3>2. QED
      BY <2>1, <3>1 DEF Holds
  <2>5. ChunksIInv' /\ written = completedBy(Head(stream)) \o written'
    BY <1>1, <1>3, <1>5, <1>9, <2>3, <2>4, ReadFollows
  <2>6. completedBy(Head(stream)) = <<m>>
    BY <1>3, <1>8, <1>10 DEF completedBy
  <2>7. Channel!Deliver
    BY <1>4, <1>5, <2>3, <2>5, <2>6, FirstIsDelivered
  <2>8. QED
    BY <2>5, <2>7 DEF ChannelStep, Channel!Next
<1>11. CASE n # WholeLength(m)
  <2>1. oversize_data' = filledBuffer /\ multipartReadIndex' = n /\ delivered' = delivered
    BY <1>4, <1>6, <1>11
  <2>2. Len(filledBuffer) = WholeLength(m)
    BY <1>4 DEF filledBuffer
  <2>3. ASSUME NEW at \in Places, Follows(h[0], Head(stream), at) PROVE Holds(at)'
    <3>1. at = <<m, n>>
      BY <1>3, <1>8, <1>11, <2>3 DEF Follows
    <3>2. at[1] = m /\ at[2] = n
      BY <3>1
    <3>3. n < WholeLength(m)
      BY <1>4, <1>11
    <3>4. QED
      BY <1>4, <1>7, <2>1, <2>2, <3>2, <3>3 DEF Holds, WholeLength
  <2>4. delivered' # Garbage
    BY <2>1 DEF ChunksIInv
  <2>5. ChunksIInv' /\ written = completedBy(Head(stream)) \o written'
    BY <1>1, <1>3, <1>5, <2>3, <2>4, ReadFollows
  <2>6. completedBy(Head(stream)) = <<>>
    BY <1>3, <1>8, <1>11 DEF completedBy
  <2>7. written' = written
    <3>1. written' \in Seq(Message)
      BY <1>5, WrittenAreMessages DEF IInv, StreamIInv, written, Written
    <3>2. QED
      BY <2>5, <2>6, <3>1, ConcatEmptySeq
  <2>8. QED
    BY <2>1, <2>5, <2>7 DEF ChannelStep, Channel!vars
<1>12. QED
  BY <1>10, <1>11

LEMMA ResetFollows ==
  ASSUME IInv, ChunksIInv, ~ResetMidMessage, Reset
  PROVE  ChunksIInv' /\ ChannelStep
<1>1. PICK h : ChunksFollow(h)
  BY DEF ChunksIInv
<1>2. BetweenFrames' /\ stream' = <<>>
  BY ResetKeeps
<1>3. /\ sending = NoMessage
      /\ UNCHANGED <<senderVars, multipartVars, delivered>>
  BY DEF Reset
<1> DEFINE g == [k \in 0..0 |-> h[0]]
<1>4. Trace(<<>>, g) /\ g[0] = h[0]
  <2>1. Len(stream) \in Nat
    BY DEF IInv, StreamIInv
  <2>2. h[0] \in Places
    BY <1>1, <2>1 DEF ChunksFollow, Trace
  <2>3. Len(<<>>) = 0 /\ 1..0 = {}
    OBVIOUS
  <2>4. g \in [0..0 -> Places] /\ g[0] = h[0]
    BY <2>2
  <2> HIDE DEF g
  <2>5. QED
    BY <2>3, <2>4 DEF Trace
<1> HIDE DEF g
<1>5. Holds(g[0])'
  <2>1. Holds(h[0])
    BY <1>1 DEF ChunksFollow
  <2>2. QED
    BY <1>3, <1>4, <2>1 DEF Holds, WholeLength, multipartVars
<1>6. ChunksFollow(g)'
  BY <1>2, <1>3, <1>4, <1>5 DEF ChunksFollow, senderVars
<1>7. ChunksIInv'
  BY <1>2, <1>3, <1>6 DEF ChunksIInv
<1>8. written' = <<>>
  BY <1>2, NothingWritten DEF written, Written
<1>9. Channel!Reset
  BY <1>3, <1>8 DEF Channel!Reset
<1>10. QED
  BY <1>7, <1>9 DEF ChannelStep, Channel!Next

-----------------------------------------------------------------------------
\* Every step keeps it, and is a step of a channel of whole messages.
LEMMA StepFollows ==
  ASSUME IInv, ChunksIInv, ~ResetMidMessage, [Next]_vars
  PROVE  ChunksIInv' /\ ChannelStep
<1> DEFINE Good == ChunksIInv' /\ ChannelStep
<1>1. ASSUME NEW m \in Message, WriteMessage(m) PROVE Good
  BY <1>1, WriteFollows
<1>2. ASSUME NEW m \in Message, startMultiPartSend(m) PROVE Good
  BY <1>2, StartFollows
<1>3. ASSUME NEW n \in 1..TotalSpace, Send(n) PROVE Good
  <2>1. UNCHANGED <<stream, offset, senderVars, headerVars, multipartVars, delivered>>
    BY <1>3 DEF Send
  <2>2. BetweenFrames' \/ InFrame'
    BY <2>1 DEF ChunksIInv, BetweenFrames, InFrame, headerVars
  <2>3. QED
    BY <2>1, <2>2, LookingFollows
<1>4. CASE ReadHeader
  <2>1. UNCHANGED <<stream, senderVars, multipartVars, delivered>> /\ recieving = NoFrame
    BY <1>4 DEF ReadHeader
  <2>2. BetweenFrames
    BY <2>1, FrameIs DEF ChunksIInv, InFrame
  <2>3. InFrame'
    BY <1>4, <2>2, ReadHeaderKeeps
  <2>4. QED
    BY <2>1, <2>3, LookingFollows
<1>5. CASE DeferMessage
  <2>1. UNCHANGED <<streamVars, recieving, senderVars, multipartVars, delivered>>
    BY <1>5 DEF DeferMessage
  <2>2. BetweenFrames' \/ InFrame'
    BY <2>1 DEF ChunksIInv, BetweenFrames, InFrame, streamVars
  <2>3. QED
    BY <2>1, <2>2, LookingFollows DEF streamVars
<1>6. ASSUME NEW consumed \in 0..recieving.length, ProcessPlain(consumed) PROVE Good
  BY <1>6, ProcessPlainFollows
<1>7. CASE pollMessage
  BY <1>4, <1>5, <1>6, <1>7, ProcessStartFollows, ProcessChunkFollows DEF pollMessage
<1>8. CASE UNCHANGED vars
  <2>1. UNCHANGED <<streamVars, senderVars, headerVars, multipartVars, delivered>>
    BY <1>8 DEF vars
  <2>2. BetweenFrames' \/ InFrame'
    BY <2>1 DEF ChunksIInv, BetweenFrames, InFrame, streamVars, headerVars
  <2>3. QED
    BY <2>1, <2>2, LookingFollows DEF streamVars
<1>9. QED
  BY <1>1, <1>2, <1>3, <1>7, <1>8, MultiPart_sendFollows, ResetFollows DEF Next

LEMMA ChunksAreInOrder == ~ResetMidMessage => (Spec => [](IInv /\ ChunksIInv))
<1> SUFFICES ASSUME ~ResetMidMessage PROVE Spec => [](IInv /\ ChunksIInv)
  OBVIOUS
<1>1. Init => IInv /\ ChunksIInv
  <2> SUFFICES ASSUME Init PROVE ChunksIInv
    BY InitIsGood
  <2>1. /\ stream = <<>> /\ sending = NoMessage /\ oversize_data = <<>> /\ delivered = NoMessage
        /\ BetweenFrames
    BY DEF Init, BetweenFrames
  <2> DEFINE g == [k \in 0..0 |-> <<NoMessage, 0>>]
  <2>2. Len(stream) = 0 /\ 1..0 = {}
    BY <2>1
  <2>3. g \in [0..0 -> Places] /\ g[0] = <<NoMessage, 0>>
    BY DEF Places
  <2> HIDE DEF g
  <2>4. Trace(stream, g)
    BY <2>2, <2>3 DEF Trace
  <2>5. Holds(g[0])
    BY <2>1, <2>3 DEF Holds
  <2>6. ChunksFollow(g)
    BY <2>1, <2>4, <2>5 DEF ChunksFollow
  <2>7. delivered # Garbage
    BY <2>1, InterThreadQueAssumption DEF InterThreadQueAssumption
  <2>8. QED
    BY <2>1, <2>6, <2>7 DEF ChunksIInv
<1>2. IInv /\ ChunksIInv /\ [Next]_vars => IInv' /\ ChunksIInv'
  BY StepKeeps, StepFollows
<1>3. QED
  BY <1>1, <1>2, PTL DEF Spec

\* MessagesComeWhole: unless the queue is reset within a message, clients are
\* handed whole messages only, however these are cut, arrive and are read.
THEOREM MessagesAlwaysComeWhole == ~ResetMidMessage => (Spec => []MessagesComeWhole)
<1> SUFFICES ASSUME ~ResetMidMessage PROVE Spec => []MessagesComeWhole
  OBVIOUS
<1>1. IInv /\ ChunksIInv => MessagesComeWhole
  <2> SUFFICES ASSUME ChunksIInv PROVE MessagesComeWhole
    OBVIOUS
  <2>1. recieving # Noise
    BY FrameIs DEF ChunksIInv, BetweenFrames, InFrame, NoFrame, Noise, Frame
  <2>2. QED
    BY <2>1 DEF ChunksIInv, MessagesComeWhole, HeadersAreHeaders, NothingGarbled
<1>2. QED
  BY <1>1, ChunksAreInOrder, PTL

\* FramesFit: the assertions of pushString, pollMessage and ProcessMessage hold,
\* unless the queue is reset within a message.
THEOREM FramesAlwaysFit == ~ResetMidMessage => (Spec => []FramesFit)
<1> SUFFICES ASSUME ~ResetMidMessage PROVE Spec => []FramesFit
  OBVIOUS
<1>1. IInv /\ ChunksIInv => FramesFit
  <2> SUFFICES ASSUME IInv, ChunksIInv PROVE FramesFit
    OBVIOUS
  <2>1. TypeOK /\ unread <= TotalSpace
    BY TypesAre DEF IInv, StreamIInv
  <2>2. CASE InFrame
    <3>1. recieving = stream[1] /\ 1 \in 1..Len(stream)
      BY <2>2 DEF InFrame, IInv, StreamIInv
    <3>2. recieving.length < TotalSpace
      BY <3>1 DEF IInv, StreamIInv, WellMade
    <3>3. recieving.kind = "MPCK" => ~overflows
      BY <2>2, ChunkFits
    <3>4. QED
      BY <2>1, <3>2, <3>3 DEF FramesFit
  <2>3. CASE BetweenFrames
    <3>1. recieving.length = 0 /\ recieving.kind = "none"
      BY <2>3 DEF BetweenFrames, NoFrame, Frame
    <3>2. QED
      BY <2>1, <3>1, Lengths DEF FramesFit
  <2>4. QED
    BY <2>2, <2>3 DEF ChunksIInv
<1>2. QED
  BY <1>1, ChunksAreInOrder, PTL

\* ImplementsMessageChannel: unless the queue is reset within a message, frames,
\* chunks, partial arrivals and short reads are a channel of whole messages.
THEOREM RefinesMessageChannel == ~ResetMidMessage => (Spec => ImplementsMessageChannel)
<1> SUFFICES ASSUME ~ResetMidMessage PROVE Spec => ImplementsMessageChannel
  OBVIOUS
<1>1. Init => Channel!Init
  BY NothingWritten, WrittenIs DEF Init, Channel!Init
<1>2. IInv /\ ChunksIInv /\ [Next]_vars => [Channel!Next]_(Channel!vars)
  BY StepFollows DEF ChannelStep
<1>3. QED
  BY <1>1, <1>2, ChunksAreInOrder, PTL DEF Spec, ImplementsMessageChannel, Channel!Spec

=============================================================================
