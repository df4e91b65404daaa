---------------------------- MODULE LockFreeFifo ----------------------------
(***************************************************************************)
(* The single-producer, single-consumer ring buffer lock_free_fifo of      *)
(* Hosting/message_queues.h.  One thread pushes and sends, the other pops; *)
(* they share the byte array and two atomic indices.                       *)
(*                                                                         *)
(* A copy of a string is one step per byte, so every interleaving of the   *)
(* two threads' memory accesses is a behaviour.  freeSpace() and           *)
(* readyBytes() are "snapshots": callers read them once, then push or pop  *)
(* several strings against the number they hold, so the number is state    *)
(* (space, ready) and may be stale when it is used.  Each index has one    *)
(* writer and is stored with release and loaded with acquire, so a load    *)
(* that returns an old value is an earlier snapshot.                       *)
(***************************************************************************)
EXTENDS Integers, Sequences

CONSTANTS
  Byte,      \* the values of a byte
  QueSize    \* m_que_size, the length of the array

ASSUME QueSizeAssumption == QueSize \in Nat /\ QueSize > 1

VARIABLES
  m_que,                  \* the array
  read_ptr,               \* atomic, stored by the consumer
  m_committed_write_ptr,  \* atomic, stored by the producer
  m_uncommited_write_ptr, \* the producer's own
  space,                  \* producer: what it still may push of its freeSpace() snapshot
  source,                 \* producer: the string being pushed, <<>> between pushes
  copied,                 \* producer: bytes of source copied so far
  ready,                  \* consumer: what it still may pop of its readyBytes() snapshot
  wanted,                 \* consumer: length of the pop in progress, 0 between pops
  dest,                   \* consumer: bytes the pop in progress has copied out
  popped                  \* consumer: what its last complete pop returned

producerVars == <<m_committed_write_ptr, m_uncommited_write_ptr, space, source, copied>>
consumerVars == <<read_ptr, ready, wanted, dest, popped>>
fifoVars == <<m_que, producerVars, consumerVars>>

Index == 0 .. QueSize - 1

totalSpace == QueSize - 1

\* The strings a push can be given: 1 to totalSpace bytes.
ByteString == UNION { [1..n -> Byte] : n \in 1..totalSpace }

\* The index n places after i in the ring.
Advance(i, n) == (i + n) % QueSize

\* Mutant of freeSpace: bytes pushed but not sent count as free.
freeSpaceOfSent ==
  LET distance == read_ptr - m_committed_write_ptr
  IN  (IF distance <= 0 THEN distance + QueSize ELSE distance) - 1

\* Mutant of freeSpace: the ring may be filled to its last cell.
freeSpaceToTheLastCell ==
  LET distance == read_ptr - m_uncommited_write_ptr
  IN  IF distance <= 0 THEN distance + QueSize ELSE distance

freeSpace ==
  LET distance == read_ptr - m_uncommited_write_ptr
  IN  (IF distance <= 0 THEN distance + QueSize ELSE distance) - 1

readyBytes ==
  LET readyCount == m_committed_write_ptr - read_ptr
  IN  IF readyCount < 0 THEN readyCount + QueSize ELSE readyCount

\* What can be read from read_ptr without wrapping (siphon2, Siphon).
contiguous ==
  IF m_committed_write_ptr >= read_ptr
    THEN m_committed_write_ptr - read_ptr
    ELSE QueSize - read_ptr

-----------------------------------------------------------------------------
\* The array comes from new[] and is not initialised.
FifoInit ==
  /\ m_que \in [Index -> Byte]
  /\ read_ptr = 0
  /\ m_committed_write_ptr = 0
  /\ m_uncommited_write_ptr = 0
  /\ space = 0
  /\ source = <<>>
  /\ copied = 0
  /\ ready = 0
  /\ wanted = 0
  /\ dest = <<>>
  /\ popped = <<>>

-----------------------------------------------------------------------------
(* The producer. *)

QueryFreeSpace ==
  /\ source = <<>>
  /\ space' = freeSpace
  /\ UNCHANGED <<m_que, m_committed_write_ptr, m_uncommited_write_ptr, source, copied, consumerVars>>

\* Mutant of BeginPush: the caller does not look at its snapshot.
BeginPushUnchecked(data) ==
  /\ source = <<>>
  /\ source' = data
  /\ UNCHANGED <<m_que, m_committed_write_ptr, m_uncommited_write_ptr, space, copied, consumerVars>>

BeginPush(data) ==
  /\ source = <<>>
  /\ Len(data) <= space
  /\ source' = data
  /\ space' = space - Len(data)
  /\ UNCHANGED <<m_que, m_committed_write_ptr, m_uncommited_write_ptr, copied, consumerVars>>

\* Mutant of CopyIn: the copy starts at the commit index.
CopyInAtCommitted ==
  /\ copied < Len(source)
  /\ m_que' = [m_que EXCEPT ![Advance(m_committed_write_ptr, copied)] = source[copied + 1]]
  /\ copied' = copied + 1
  /\ UNCHANGED <<m_committed_write_ptr, m_uncommited_write_ptr, space, source, consumerVars>>

\* One byte of the memcpys of pushString.
CopyIn ==
  /\ copied < Len(source)
  /\ m_que' = [m_que EXCEPT ![Advance(m_uncommited_write_ptr, copied)] = source[copied + 1]]
  /\ copied' = copied + 1
  /\ UNCHANGED <<m_committed_write_ptr, m_uncommited_write_ptr, space, source, consumerVars>>

EndPush ==
  /\ source # <<>>
  /\ copied = Len(source)
  /\ m_uncommited_write_ptr' = Advance(m_uncommited_write_ptr, Len(source))
  /\ source' = <<>>
  /\ copied' = 0
  /\ UNCHANGED <<m_que, m_committed_write_ptr, space, consumerVars>>

Send ==
  /\ source = <<>>
  /\ m_committed_write_ptr' = m_uncommited_write_ptr
  /\ UNCHANGED <<m_que, m_uncommited_write_ptr, space, source, copied, consumerVars>>

-----------------------------------------------------------------------------
(* The consumer. *)

QueryReadyBytes ==
  /\ wanted = 0
  /\ ready' = readyBytes
  /\ UNCHANGED <<m_que, read_ptr, wanted, dest, popped, producerVars>>

BeginPop(n) ==
  /\ wanted = 0
  /\ n <= ready
  /\ wanted' = n
  /\ ready' = ready - n
  /\ UNCHANGED <<m_que, read_ptr, dest, popped, producerVars>>

\* siphon2 hands out a pointer and a length; the caller copies n bytes and
\* passes n to siphon2_advance.  Siphon does the same in one call.
BeginSiphon(n) ==
  /\ wanted = 0
  /\ n <= contiguous
  /\ wanted' = n
  /\ ready' = 0
  /\ UNCHANGED <<m_que, read_ptr, dest, popped, producerVars>>

\* One byte of the memcpys of popString.
CopyOut ==
  /\ Len(dest) < wanted
  /\ dest' = Append(dest, m_que[Advance(read_ptr, Len(dest))])
  /\ UNCHANGED <<m_que, read_ptr, ready, wanted, popped, producerVars>>

EndPop ==
  /\ wanted > 0
  /\ Len(dest) = wanted
  /\ read_ptr' = Advance(read_ptr, wanted)
  /\ popped' = dest
  /\ wanted' = 0
  /\ dest' = <<>>
  /\ UNCHANGED <<m_que, ready, producerVars>>

\* Mutant of clear: what was pushed but not sent is thrown away too.
clearUnsent ==
  /\ wanted = 0
  /\ read_ptr' = m_uncommited_write_ptr
  /\ ready' = 0
  /\ UNCHANGED <<m_que, wanted, dest, popped, producerVars>>

clear ==
  /\ wanted = 0
  /\ read_ptr' = m_committed_write_ptr
  /\ ready' = 0
  /\ UNCHANGED <<m_que, wanted, dest, popped, producerVars>>

-----------------------------------------------------------------------------
\* Not thread-safe: the owner calls it while neither thread uses the queue.
Reset ==
  /\ source = <<>>
  /\ wanted = 0
  /\ read_ptr' = 0
  /\ m_committed_write_ptr' = 0
  /\ m_uncommited_write_ptr' = 0
  /\ space' = 0
  /\ ready' = 0
  /\ UNCHANGED <<m_que, source, copied, wanted, dest, popped>>

Producer ==
  \/ QueryFreeSpace
  \/ \E data \in ByteString : BeginPush(data)
  \/ CopyIn
  \/ EndPush
  \/ Send

Consumer ==
  \/ QueryReadyBytes
  \/ \E n \in 1..totalSpace : BeginPop(n)
  \/ \E n \in 1..totalSpace : BeginSiphon(n)
  \/ CopyOut
  \/ EndPop
  \/ clear

FifoNext == Producer \/ Consumer \/ Reset

FifoSpec == FifoInit /\ [][FifoNext]_fifoVars

-----------------------------------------------------------------------------
(* Properties *)

\* The places from index i round to index j.
Distance(i, j) == (j - i + QueSize) % QueSize

\* The cells the next n bytes from index i occupy.
Cells(i, n) == { Advance(i, k) : k \in 0 .. n - 1 }

\* Unread bytes: sent, and pushed but not sent.
Unread == Distance(read_ptr, m_uncommited_write_ptr)

\* Bytes pushed and not yet sent.
Unsent == Distance(m_committed_write_ptr, m_uncommited_write_ptr)

\* Every variable has its type; the indices stay inside the array.
FifoTypeOK ==
  /\ m_que \in [Index -> Byte]
  /\ read_ptr \in Index
  /\ m_committed_write_ptr \in Index
  /\ m_uncommited_write_ptr \in Index
  /\ space \in 0..totalSpace
  /\ source \in Seq(Byte)
  /\ copied \in 0..Len(source)
  /\ ready \in 0..totalSpace
  /\ wanted \in 0..totalSpace
  /\ dest \in Seq(Byte)
  /\ Len(dest) <= wanted
  /\ popped \in Seq(Byte)

\* Going round the ring from read_ptr, the sent bytes come first and the
\* bytes pushed but not sent after them: neither thread ever passes the other.
PointersInOrder ==
  Unread = readyBytes + Unsent

\* What is left of a freeSpace() snapshot, and the string being pushed.
SpaceIsConservative == space + Len(source) <= freeSpace

\* What is left of a readyBytes() snapshot, and the string being popped.
ReadyIsConservative == ready + wanted <= readyBytes

\* A snapshot never promises more than there is when its thread uses it,
\* however old it is and however many strings were pushed or popped since:
\* neither free space, nor bytes that were sent.
SnapshotsAreConservative == FifoTypeOK /\ SpaceIsConservative /\ ReadyIsConservative

\* pushString is never writing a cell that holds an unread byte, so the two
\* threads never touch a cell at the same time.
NoOverwrite ==
  Cells(m_uncommited_write_ptr, Len(source)) \cap Cells(read_ptr, Unread) = {}

\* The assertion that ends pushString: the indices do not meet, since a full
\* ring would look empty.
PushNeverMeetsRead ==
  [][EndPush => m_uncommited_write_ptr' # read_ptr]_fifoVars

\* The n bytes from index i round the ring.
Window(i, n) == [k \in 1..n |-> m_que[Advance(i, k - 1)]]

\* The fifo as the channel of bytes it stands for: a string is pushed when
\* the write index moves, sent when the commit index does and taken when the
\* read index does.
Channel == INSTANCE ByteChannel WITH
  Capacity <- totalSpace,
  pending  <- Window(m_committed_write_ptr, Unsent),
  sent     <- Window(read_ptr, readyBytes),
  taken    <- popped

\* Whatever the interleaving, the consumer gets the bytes that were sent, in
\* order, unchanged, each exactly once.
ImplementsByteChannel == Channel!Spec

=============================================================================
