--------------------------- MODULE InterThreadQue ---------------------------
(***************************************************************************)
(* interThreadQue of Hosting/message_queues: messages framed by a header   *)
(* of handle, id and length on the byte channel of lock_free_fifo, and the *)
(* chunks a message too big for the fifo is cut into.                      *)
(*                                                                         *)
(* The sender writes whole frames; their bytes become visible to the       *)
(* receiver in any portions, since the bytes may be carried from another   *)
(* queue (popString) and are sent between any two of the receiver's looks  *)
(* at readyBytes().  A byte's value follows from its place in its frame,   *)
(* so the stream is the sequence of frames and how far it has been read.   *)
(* Reading a header anywhere but at the start of a frame gives garbage.    *)
(***************************************************************************)
EXTENDS Integers, Sequences, SequencesExt

CONSTANTS
  Message,              \* handle, id and contents
  Length,               \* the length of each message's contents
  NoMessage,
  Garbage,              \* what is made of bytes that are not a message
  TotalSpace,           \* fifo_.totalSpace()
  HeaderLength,         \* handle, id and length: 12 bytes
  MultipartPayload,     \* the length an MPAR message carries: 4 bytes
  SafetyZone,           \* 8 headers
  MultipartSafetyZone,  \* 50 headers
  ResetMidMessage       \* whether the owner resets the queue during an oversize message

ASSUME InterThreadQueAssumption ==
  /\ Length \in [Message -> Nat]
  /\ NoMessage \notin Message /\ Garbage \notin Message \cup {NoMessage}
  /\ {TotalSpace, HeaderLength, MultipartPayload, SafetyZone, MultipartSafetyZone} \subseteq Nat \ {0}
  /\ HeaderLength + MultipartPayload <= SafetyZone
  /\ HeaderLength <= MultipartSafetyZone
  /\ 2 * MultipartSafetyZone < TotalSpace
  /\ ResetMidMessage \in BOOLEAN

VARIABLES
  stream,                  \* the frames in the fifo, and the one being read
  offset,                  \* bytes of the first frame already read
  readyBytes,              \* bytes sent, not yet read
  sending,                 \* sender: the message in oversize_data, or NoMessage
  sent,                    \* sender: multipartReadIndex, the bytes of it sent
  recieving,               \* receiver: the frame of the last header read, or NoFrame
  partialMessageReceived,  \* receiver: whether it waits for that frame's contents
  oversize_data,           \* receiver: the bytes of the message put together
  multipartReadIndex,      \* receiver: how many of them have come
  delivered                \* what the client was given last

streamVars == <<stream, offset, readyBytes>>
senderVars == <<sending, sent>>
headerVars == <<recieving, partialMessageReceived>>
multipartVars == <<oversize_data, multipartReadIndex>>
vars == <<streamVars, senderVars, headerVars, multipartVars, delivered>>

-----------------------------------------------------------------------------
(* Frames *)

Frame(kind, of, from, length) == [kind |-> kind, of |-> of, from |-> from, length |-> length]

NoFrame == Frame("none", NoMessage, 0, 0)
Noise == Frame("garbage", Garbage, 0, 0)

PlainFrame(m) == Frame("plain", m, 0, Length[m])
StartFrame(m) == Frame("MPAR", m, 0, MultipartPayload)
ChunkFrame(m, from, n) == Frame("MPCK", m, from, n)

\* A message with its own header, as it is copied aside to be sent in chunks.
WholeLength(m) == HeaderLength + Length[m]
Bytes(m, from, n) == [i \in 1..n |-> <<m, from + i>>]

isOversize(m) == WholeLength(m) + SafetyZone > TotalSpace

BytesIn(frames) ==
  LET upTo[k \in 0..Len(frames)] ==
        IF k = 0 THEN 0 ELSE upTo[k - 1] + HeaderLength + frames[k].length
  IN  upTo[Len(frames)]

unread == BytesIn(stream) - offset
freeSpace == TotalSpace - unread

-----------------------------------------------------------------------------
Init ==
  /\ stream = <<>>
  /\ offset = 0
  /\ readyBytes = 0
  /\ sending = NoMessage
  /\ sent = 0
  /\ recieving = NoFrame
  /\ partialMessageReceived = FALSE
  /\ oversize_data = <<>>
  /\ multipartReadIndex = 0
  /\ delivered = NoMessage

-----------------------------------------------------------------------------
(* The sender *)

Push(frame) ==
  /\ stream' = Append(stream, frame)
  /\ UNCHANGED <<offset, readyBytes>>

\* A client of QueuedUsers, or a writer of its own, writes a message that
\* fits; the latter may do so while an oversize message is on its way.
WriteMessage(m) ==
  /\ ~isOversize(m)
  /\ WholeLength(m) + SafetyZone <= freeSpace
  /\ Push(PlainFrame(m))
  /\ UNCHANGED <<senderVars, headerVars, multipartVars, delivered>>

startMultiPartSend(m) ==
  /\ sending = NoMessage
  /\ isOversize(m)
  /\ SafetyZone < freeSpace
  /\ sending' = m
  /\ UNCHANGED sent
  /\ Push(StartFrame(m))
  /\ UNCHANGED <<headerVars, multipartVars, delivered>>

roomForChunk == freeSpace - MultipartSafetyZone

\* Mutant of MultiPart_send: every chunk is taken from the start.
MultiPart_sendFromStart ==
  /\ sending # NoMessage
  /\ 2 * MultipartSafetyZone < freeSpace
  /\ LET left == WholeLength(sending) - sent
         n == IF left <= roomForChunk THEN left ELSE roomForChunk
     IN  /\ Push(ChunkFrame(sending, 0, n))
         /\ sending' = IF n = left THEN NoMessage ELSE sending
         /\ sent' = IF n = left THEN 0 ELSE sent + n
  /\ UNCHANGED <<headerVars, multipartVars, delivered>>

MultiPart_send ==
  /\ sending # NoMessage
  /\ 2 * MultipartSafetyZone < freeSpace
  /\ LET left == WholeLength(sending) - sent
         n == IF left <= roomForChunk THEN left ELSE roomForChunk
     IN  /\ Push(ChunkFrame(sending, sent, n))
         /\ sending' = IF n = left THEN NoMessage ELSE sending
         /\ sent' = IF n = left THEN 0 ELSE sent + n
  /\ UNCHANGED <<headerVars, multipartVars, delivered>>

\* Bytes become visible to the receiver.
Send(n) ==
  /\ readyBytes + n <= unread
  /\ readyBytes' = readyBytes + n
  /\ UNCHANGED <<stream, offset, senderVars, headerVars, multipartVars, delivered>>

-----------------------------------------------------------------------------
(* The receiver: pollMessage *)

\* Read n bytes of the first frame; a frame read to its end is gone.
Read(n) ==
  /\ readyBytes' = readyBytes - n
  /\ IF offset + n = HeaderLength + Head(stream).length
       THEN stream' = Tail(stream) /\ offset' = 0
       ELSE UNCHANGED stream /\ offset' = offset + n

\* Mutant of contentsReady: one more byte is waited for.
moreThanContentsReady == readyBytes > recieving.length

contentsReady == readyBytes >= recieving.length

\* The header goes with the frame it is the header of; the frame stays in the
\* stream, with offset beyond its header, until its contents have been read.
ReadHeader ==
  /\ recieving = NoFrame
  /\ readyBytes >= HeaderLength
  /\ recieving' = IF offset = 0 THEN Head(stream) ELSE Noise
  /\ offset' = offset + HeaderLength
  /\ readyBytes' = readyBytes - HeaderLength
  /\ UNCHANGED <<stream, partialMessageReceived, senderVars, multipartVars, delivered>>

\* The contents have not all come: pollMessage returns, and the next call
\* looks again.
DeferMessage ==
  /\ recieving \notin {NoFrame, Noise}
  /\ ~contentsReady
  /\ partialMessageReceived' = TRUE
  /\ UNCHANGED <<streamVars, recieving, senderVars, multipartVars, delivered>>

\* ProcessMessage is called, and pollMessage goes on to the next header.
Process(kind) ==
  /\ recieving.kind = kind
  /\ contentsReady
  /\ recieving' = NoFrame
  /\ partialMessageReceived' = FALSE
  /\ UNCHANGED senderVars

\* Mutant of drained: what the client left unread stays in the fifo.
drainedNothing(consumed) == 0

\* The bytes of a plain message that its client left unread.
drained(consumed) == recieving.length - consumed

\* The client reads some of the contents, the rest is drained.
ProcessPlain(consumed) ==
  /\ Process("plain")
  /\ consumed <= recieving.length
  /\ Read(consumed + drained(consumed))
  /\ delivered' = recieving.of
  /\ UNCHANGED multipartVars

resized(length) ==
  [i \in 1..length |-> IF i <= Len(oversize_data) THEN oversize_data[i] ELSE NoMessage]

\* Mutant of ProcessStart: the count of the last message is kept.
ProcessStartKeepsIndex ==
  /\ Process("MPAR")
  /\ Read(MultipartPayload)
  /\ oversize_data' = resized(WholeLength(recieving.of))
  /\ UNCHANGED <<multipartReadIndex, delivered>>

ProcessStart ==
  /\ Process("MPAR")
  /\ Read(MultipartPayload)
  /\ oversize_data' = resized(WholeLength(recieving.of))
  /\ multipartReadIndex' = 0
  /\ UNCHANGED delivered

overflows == recieving.length + multipartReadIndex > Len(oversize_data)

\* "failed. ignore all further data": the buffer goes, the contents stay.
ignoreFurtherData ==
  /\ oversize_data' = <<>>
  /\ UNCHANGED <<streamVars, multipartReadIndex, delivered>>

\* What the client makes of a message put together from chunks.
decoded(bytes) ==
  IF \E m \in Message : bytes = Bytes(m, 0, WholeLength(m))
    THEN CHOOSE m \in Message : bytes = Bytes(m, 0, WholeLength(m))
    ELSE Garbage

appendChunk ==
  /\ Read(recieving.length)
  /\ LET next == multipartReadIndex + recieving.length
         filled == [i \in 1..Len(oversize_data) |->
                      IF multipartReadIndex < i /\ i <= next
                        THEN Bytes(recieving.of, recieving.from, recieving.length)[i - multipartReadIndex]
                        ELSE oversize_data[i]]
     IN  IF next >= Len(oversize_data)
           THEN /\ delivered' = decoded(filled)
                /\ oversize_data' = <<>>
                /\ multipartReadIndex' = 0
           ELSE /\ oversize_data' = filled
                /\ multipartReadIndex' = next
                /\ UNCHANGED delivered

ProcessChunk ==
  /\ Process("MPCK")
  /\ IF overflows THEN ignoreFurtherData ELSE appendChunk

pollMessage ==
  \/ ReadHeader
  \/ DeferMessage
  \/ \E consumed \in 0..recieving.length : ProcessPlain(consumed)
  \/ ProcessStart
  \/ ProcessChunk

-----------------------------------------------------------------------------
\* The owner resets the fifo while no thread uses it, so not within a
\* pollMessage.  Neither side forgets the oversize message it is busy with.
Reset ==
  /\ recieving \in {NoFrame, Noise} \/ partialMessageReceived
  /\ sending # NoMessage => ResetMidMessage
  /\ stream' = <<>>
  /\ offset' = 0
  /\ readyBytes' = 0
  /\ recieving' = NoFrame
  /\ partialMessageReceived' = FALSE
  /\ UNCHANGED <<senderVars, multipartVars, delivered>>

Next ==
  \/ \E m \in Message : WriteMessage(m)
  \/ \E m \in Message : startMultiPartSend(m)
  \/ MultiPart_send
  \/ \E n \in 1..TotalSpace : Send(n)
  \/ pollMessage
  \/ Reset

Spec == Init /\ [][Next]_vars

\* Send() follows a message that was written, or an MPAR; a call that writes
\* a chunk returns before it.  So a chunk is sent with the next frame of
\* another kind, if there ever is one.
covered == SubSeq(stream, 1, SelectLastInSeq(stream, LAMBDA f : f.kind # "MPCK"))

\* The receiver polls again and again, and what Send() was called for is sent.
FairSpec ==
  /\ Spec
  /\ WF_vars(pollMessage)
  /\ WF_vars(\E n \in 1..TotalSpace : readyBytes + n = BytesIn(covered) - offset /\ Send(n))

-----------------------------------------------------------------------------
(* Properties *)

Frames ==
  { f \in [kind : {"plain", "MPAR", "MPCK"}, of : Message, from : Nat, length : Nat] :
      f.kind = "MPCK" => f.length > 0 }

\* Every variable has its type.
TypeOK ==
  /\ stream \in Seq(Frames)
  /\ offset \in Nat
  /\ readyBytes \in 0..unread
  /\ sending \in Message \cup {NoMessage}
  /\ sent \in Nat
  /\ recieving \in Frames \cup {NoFrame, Noise}
  /\ partialMessageReceived \in BOOLEAN
  /\ oversize_data \in Seq((Message \X Nat) \cup {NoMessage})
  /\ multipartReadIndex \in Nat
  /\ delivered \in Message \cup {NoMessage, Garbage}

\* "so the next header is read from the right place": a header is read only
\* where a frame starts, whatever the clients left unread and however the
\* bytes arrived.
HeadersAreHeaders == recieving # Noise

\* Nothing the sender wrote comes out garbled: no message is put together
\* from the pieces of two, though a reset may lose some of them.
NothingGarbled == delivered # Garbage

\* Both: the client is handed whole messages only.
MessagesComeWhole == HeadersAreHeaders /\ NothingGarbled

\* Between two messages the reader is at the start of a frame, or inside a
\* chunk that did not fit the buffer: nothing else can put it out of step, and
\* a reset puts it back.
OnlyOverflowMisaligns ==
  (recieving = NoFrame /\ offset > 0) \/ recieving = Noise =>
    oversize_data = <<>> /\ Head(stream).kind = "MPCK"

\* The assertions of pushString, pollMessage and ProcessMessage: a frame is
\* written only into free space; one that is waited for is shorter than the
\* fifo, so there is always room for the rest of it; and a chunk fits the
\* buffer that its MPAR made.
FramesFit ==
  /\ TypeOK
  /\ unread <= TotalSpace
  /\ partialMessageReceived => recieving.length < TotalSpace
  /\ recieving.kind = "MPCK" => ~overflows

\* The message that is complete with this frame, if one is.
completedBy(f) ==
  IF f.kind = "plain" \/ (f.kind = "MPCK" /\ f.from + f.length = WholeLength(f.of))
    THEN <<f.of>>
    ELSE <<>>

written == FlattenSeq([i \in 1..Len(stream) |-> completedBy(stream[i])])

Channel == INSTANCE MessageChannel WITH queue <- written

\* Frames, chunks, partial arrivals and short reads together are a channel of
\* whole messages.
ImplementsMessageChannel == Channel!Spec

\* Every message that was written, and every oversize one that something was
\* written after, is delivered, or a reset takes it away.
EveryMessageArrives ==
  \A m \in Message :
    (\E i \in 1..Len(covered) : completedBy(stream[i]) = <<m>>) ~> (delivered = m \/ written = <<>>)

=============================================================================
