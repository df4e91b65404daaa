------------------------- MODULE LockFreeFifoProofs -------------------------
(***************************************************************************)
(* Proofs about LockFreeFifo, for every ring length and every set of       *)
(* bytes.  The inductive invariant is the types of the variables, the      *)
(* order of the three indices round the ring, and the fact that neither    *)
(* thread's snapshot of the other's progress over-promises.  For the       *)
(* refinement of ByteChannel it is strengthened with what the two copies   *)
(* in progress have done so far; a step then maps to the channel's Push,   *)
(* Send, Take, Clear or Reset, or to no step at all.                       *)
(***************************************************************************)
EXTENDS LockFreeFifo, SequenceTheorems, TLAPS

IInv ==
  /\ FifoTypeOK
  /\ PointersInOrder
  /\ SpaceIsConservative
  /\ ReadyIsConservative

-----------------------------------------------------------------------------
(* Arithmetic of the ring.  The code's % only ever folds a sum less than    *)
(* twice the ring's length, so it is a test and a subtraction.              *)

\* Moving forward by at most one turn of the ring, as a test and a
\* subtraction; the result is an index again.
LEMMA AdvanceFolds ==
  ASSUME NEW i \in Index, NEW n \in 0..QueSize
  PROVE  /\ Advance(i, n) = IF i + n < QueSize THEN i + n ELSE i + n - QueSize
         /\ Advance(i, n) \in Index
  BY QueSizeAssumption, SMT DEF Advance, Index

\* The way round the ring from one index to another, without the remainder.
LEMMA DistanceFolds ==
  ASSUME NEW i \in Index, NEW j \in Index
  PROVE  /\ Distance(i, j) = IF i <= j THEN j - i ELSE j - i + QueSize
         /\ Distance(i, j) \in 0..totalSpace
  BY QueSizeAssumption, SMT DEF Distance, Index, totalSpace

\* Moving the far index on, short of a full turn, lengthens the way.
LEMMA DistanceGrows ==
  ASSUME NEW i \in Index, NEW j \in Index, NEW n \in Nat,
         Distance(i, j) + n <= totalSpace
  PROVE  Distance(i, Advance(j, n)) = Distance(i, j) + n
<1>1. n \in 0..QueSize
  BY DistanceFolds, QueSizeAssumption DEF totalSpace
<1>2. /\ Advance(j, n) \in Index
      /\ Advance(j, n) = IF j + n < QueSize THEN j + n ELSE j + n - QueSize
  BY <1>1, AdvanceFolds
<1>3. Distance(i, j) = IF i <= j THEN j - i ELSE j - i + QueSize
  BY DistanceFolds
<1>4. Distance(i, Advance(j, n)) =
        IF i <= Advance(j, n) THEN Advance(j, n) - i ELSE Advance(j, n) - i + QueSize
  BY <1>2, DistanceFolds
<1>5. QED
  BY <1>2, <1>3, <1>4, QueSizeAssumption DEF Index, totalSpace

\* Moving the near index on, up to the far one, shortens the way.
LEMMA DistanceShrinks ==
  ASSUME NEW i \in Index, NEW j \in Index, NEW n \in 0..Distance(i, j)
  PROVE  Distance(Advance(i, n), j) = Distance(i, j) - n
<1>1. n \in 0..QueSize
  BY DistanceFolds, QueSizeAssumption DEF totalSpace
<1>2. /\ Advance(i, n) \in Index
      /\ Advance(i, n) = IF i + n < QueSize THEN i + n ELSE i + n - QueSize
  BY <1>1, AdvanceFolds
<1>3. Distance(i, j) = IF i <= j THEN j - i ELSE j - i + QueSize
  BY DistanceFolds
<1>4. Distance(Advance(i, n), j) =
        IF Advance(i, n) <= j THEN j - Advance(i, n) ELSE j - Advance(i, n) + QueSize
  BY <1>2, DistanceFolds
<1>5. QED
  BY <1>1, <1>2, <1>3, <1>4, QueSizeAssumption DEF Index, totalSpace

\* freeSpace() is what the unread bytes leave of a ring one cell short.
LEMMA FreeSpaceComplementsUnread ==
  ASSUME FifoTypeOK
  PROVE  freeSpace = totalSpace - Unread
<1>1. read_ptr \in Index /\ m_uncommited_write_ptr \in Index
  BY DEF FifoTypeOK
<1>2. Unread = IF read_ptr <= m_uncommited_write_ptr
                 THEN m_uncommited_write_ptr - read_ptr
                 ELSE m_uncommited_write_ptr - read_ptr + QueSize
  BY <1>1, DistanceFolds DEF Unread
<1>3. QED
  BY <1>1, <1>2, QueSizeAssumption DEF freeSpace, totalSpace, Index

\* readyBytes() is the way from the read index to the commit index.
LEMMA ReadyBytesIsDistance ==
  ASSUME FifoTypeOK
  PROVE  readyBytes = Distance(read_ptr, m_committed_write_ptr)
<1>1. read_ptr \in Index /\ m_committed_write_ptr \in Index
  BY DEF FifoTypeOK
<1>2. Distance(read_ptr, m_committed_write_ptr) =
        IF read_ptr <= m_committed_write_ptr
          THEN m_committed_write_ptr - read_ptr
          ELSE m_committed_write_ptr - read_ptr + QueSize
  BY <1>1, DistanceFolds
<1>3. QED
  BY <1>1, <1>2, QueSizeAssumption DEF readyBytes, Index

\* What siphon2 offers without wrapping is among the bytes ready.
LEMMA ContiguousIsReady ==
  ASSUME FifoTypeOK
  PROVE  contiguous \in 0..readyBytes
  BY QueSizeAssumption, SMT DEF contiguous, readyBytes, FifoTypeOK, Index

\* Every string a push is given has a length, between 1 and totalSpace.
LEMMA ByteStringLength ==
  ASSUME NEW data \in ByteString
  PROVE  /\ data \in Seq(Byte)
         /\ Len(data) \in 1..totalSpace
         /\ data # <<>>
<1>1. PICK n \in 1..totalSpace : data \in [1..n -> Byte]
  BY DEF ByteString
<1>2. data \in Seq(Byte) /\ Len(data) = n
  BY <1>1, QueSizeAssumption DEF totalSpace
<1>3. QED
  BY <1>2, QueSizeAssumption DEF totalSpace

-----------------------------------------------------------------------------
(* The invariant. *)

\* Types of the two threads' indices and lengths, in the form the
\* arithmetic steps use them.
LEMMA LengthsAreNat ==
  ASSUME FifoTypeOK
  PROVE  /\ Len(source) \in Nat
         /\ Len(dest) \in Nat
  BY DEF FifoTypeOK

\* The unread bytes are those ready and those not yet sent, as a sum.
LEMMA UnreadIsSum ==
  ASSUME FifoTypeOK, PointersInOrder
  PROVE  /\ Unread = readyBytes + Distance(m_committed_write_ptr, m_uncommited_write_ptr)
         /\ readyBytes \in 0..totalSpace
         /\ Unread \in 0..totalSpace
         /\ Distance(m_committed_write_ptr, m_uncommited_write_ptr) \in 0..totalSpace
<1>1. /\ read_ptr \in Index
      /\ m_committed_write_ptr \in Index
      /\ m_uncommited_write_ptr \in Index
  BY DEF FifoTypeOK
<1>2. QED
  BY <1>1, DistanceFolds, ReadyBytesIsDistance DEF PointersInOrder, Unread, Unsent

\* The invariant holds in the initial states.
LEMMA InitEstablishesIInv == FifoInit => IInv
<1> SUFFICES ASSUME FifoInit PROVE IInv
  OBVIOUS
<1>1. FifoTypeOK
  BY QueSizeAssumption DEF FifoInit, FifoTypeOK, Index, totalSpace
<1>2. freeSpace = totalSpace /\ readyBytes = 0
  BY QueSizeAssumption DEF FifoInit, freeSpace, readyBytes, totalSpace
<1>3. Distance(0, 0) = 0
  BY DistanceFolds, QueSizeAssumption DEF Index
<1>4. PointersInOrder
  BY <1>2, <1>3 DEF FifoInit, PointersInOrder, Unread, Unsent
<1>5. SpaceIsConservative /\ ReadyIsConservative
  BY <1>2, QueSizeAssumption DEF FifoInit, SpaceIsConservative, ReadyIsConservative, totalSpace
<1>6. QED
  BY <1>1, <1>4, <1>5 DEF IInv

\* What the producer's own steps and the consumer's own steps leave alone.
LEMMA ReadyBytesUnchanged ==
  ASSUME UNCHANGED <<read_ptr, m_committed_write_ptr>>
  PROVE  readyBytes' = readyBytes
  BY DEF readyBytes

\* A step that moves neither the read nor the write index leaves freeSpace() alone.
LEMMA FreeSpaceUnchanged ==
  ASSUME UNCHANGED <<read_ptr, m_uncommited_write_ptr>>
  PROVE  freeSpace' = freeSpace
  BY DEF freeSpace

\* A step that moves no index leaves the indices in order.
LEMMA OrderUnchanged ==
  ASSUME PointersInOrder,
         UNCHANGED <<read_ptr, m_committed_write_ptr, m_uncommited_write_ptr>>
  PROVE  PointersInOrder'
  BY DEF PointersInOrder, Unread, Unsent, readyBytes, Distance

\* A producer step that moves neither shared index keeps the invariant if it
\* keeps the promise of the space snapshot.
LEMMA QueryFreeSpaceKeepsIInv == IInv /\ QueryFreeSpace => IInv'
<1> SUFFICES ASSUME IInv, QueryFreeSpace PROVE IInv'
  OBVIOUS
<1> USE DEF IInv
<1>1. freeSpace \in 0..totalSpace
  BY FreeSpaceComplementsUnread, UnreadIsSum, QueSizeAssumption DEF totalSpace
<1>2. FifoTypeOK'
  BY <1>1 DEF QueryFreeSpace, FifoTypeOK, consumerVars
<1>3. PointersInOrder'
  BY OrderUnchanged DEF QueryFreeSpace, consumerVars
<1>4. SpaceIsConservative'
  <2>1. freeSpace' = freeSpace
    BY FreeSpaceUnchanged DEF QueryFreeSpace, consumerVars
  <2>2. Len(source') = 0
    BY DEF QueryFreeSpace
  <2>3. QED
    BY <1>1, <2>1, <2>2 DEF QueryFreeSpace, SpaceIsConservative, totalSpace
<1>5. ReadyIsConservative'
  BY ReadyBytesUnchanged DEF QueryFreeSpace, consumerVars, ReadyIsConservative
<1>6. QED
  BY <1>2, <1>3, <1>4, <1>5

\* A push is charged to the snapshot before its first byte is copied.
LEMMA BeginPushKeepsIInv ==
  ASSUME IInv, NEW data \in ByteString, BeginPush(data)
  PROVE  IInv'
<1> USE DEF IInv
<1>1. data \in Seq(Byte) /\ Len(data) \in 1..totalSpace
  BY ByteStringLength
<1>2. FifoTypeOK'
  BY <1>1, QueSizeAssumption DEF BeginPush, FifoTypeOK, consumerVars, totalSpace
<1>3. PointersInOrder'
  BY OrderUnchanged DEF BeginPush, consumerVars
<1>4. SpaceIsConservative'
  <2>1. freeSpace' = freeSpace
    BY FreeSpaceUnchanged DEF BeginPush, consumerVars
  <2>2. Len(source) = 0
    BY DEF BeginPush
  <2>3. space \in Nat
    BY DEF FifoTypeOK, totalSpace
  <2>4. QED
    BY <1>1, <2>1, <2>2, <2>3 DEF BeginPush, SpaceIsConservative, totalSpace
<1>5. ReadyIsConservative'
  BY ReadyBytesUnchanged DEF BeginPush, consumerVars, ReadyIsConservative
<1>6. QED
  BY <1>2, <1>3, <1>4, <1>5

\* A byte copied in changes the array only.
LEMMA CopyInKeepsIInv == IInv /\ CopyIn => IInv'
<1> SUFFICES ASSUME IInv, CopyIn PROVE IInv'
  OBVIOUS
<1> USE DEF IInv
<1>1. FifoTypeOK'
  <2>1. source[copied + 1] \in Byte
    BY DEF CopyIn, FifoTypeOK
  <2>2. m_que' \in [Index -> Byte]
    BY <2>1 DEF CopyIn, FifoTypeOK
  <2>3. copied' \in 0..Len(source')
    BY LengthsAreNat DEF CopyIn, FifoTypeOK
  <2>4. QED
    BY <2>2, <2>3 DEF CopyIn, FifoTypeOK, consumerVars
<1>2. PointersInOrder'
  BY OrderUnchanged DEF CopyIn, consumerVars
<1>3. SpaceIsConservative'
  BY FreeSpaceUnchanged DEF CopyIn, consumerVars, SpaceIsConservative
<1>4. ReadyIsConservative'
  BY ReadyBytesUnchanged DEF CopyIn, consumerVars, ReadyIsConservative
<1>5. QED
  BY <1>1, <1>2, <1>3, <1>4

\* The write index moves on by what was charged to the snapshot.
LEMMA EndPushKeepsIInv == IInv /\ EndPush => IInv'
<1> SUFFICES ASSUME IInv, EndPush PROVE IInv'
  OBVIOUS
<1> USE DEF IInv
<1> DEFINE L == Len(source)
<1>1. /\ read_ptr \in Index
      /\ m_committed_write_ptr \in Index
      /\ m_uncommited_write_ptr \in Index
      /\ space \in Nat
  BY DEF FifoTypeOK, totalSpace
<1>2. /\ L \in Nat
      /\ L + space <= totalSpace - Unread
  BY <1>1, LengthsAreNat, FreeSpaceComplementsUnread DEF SpaceIsConservative
<1>3. /\ Unread \in 0..totalSpace
      /\ readyBytes \in 0..totalSpace
      /\ Distance(m_committed_write_ptr, m_uncommited_write_ptr) \in 0..totalSpace
      /\ Unread = readyBytes + Distance(m_committed_write_ptr, m_uncommited_write_ptr)
  BY UnreadIsSum
<1>4. L \in 0..QueSize /\ totalSpace \in Nat
  BY <1>1, <1>2, <1>3, QueSizeAssumption DEF totalSpace
<1>5. m_uncommited_write_ptr' \in Index
  BY <1>1, <1>4, AdvanceFolds DEF EndPush
<1>6. FifoTypeOK'
  BY <1>5 DEF EndPush, FifoTypeOK, consumerVars
<1>7. Unread' = Unread + L
  BY <1>1, <1>2, <1>3, <1>4, DistanceGrows DEF EndPush, consumerVars, Unread
<1>8. Distance(m_committed_write_ptr, m_uncommited_write_ptr)'
        = Distance(m_committed_write_ptr, m_uncommited_write_ptr) + L
  <2>1. Distance(m_committed_write_ptr, m_uncommited_write_ptr) + L <= totalSpace
    BY <1>1, <1>2, <1>3, <1>4
  <2>2. Distance(m_committed_write_ptr, Advance(m_uncommited_write_ptr, L))
          = Distance(m_committed_write_ptr, m_uncommited_write_ptr) + L
    BY <1>1, <1>2, <2>1, DistanceGrows
  <2>3. QED
    BY <2>2 DEF EndPush
<1>9. PointersInOrder'
  BY <1>2, <1>3, <1>7, <1>8, ReadyBytesUnchanged DEF EndPush, consumerVars, PointersInOrder, Unsent
<1>10. SpaceIsConservative'
  <2>1. freeSpace' = totalSpace - Unread'
    <3>1. (FifoTypeOK => freeSpace = totalSpace - Unread)'
      BY FreeSpaceComplementsUnread, PTL
    <3>2. QED
      BY <1>6, <3>1 DEF totalSpace
  <2>2. Len(source') = 0
    BY DEF EndPush
  <2>3. space' = space /\ L \in Nat /\ space \in Nat /\ Unread \in Int /\ totalSpace \in Int
    BY <1>1, <1>2, <1>3, <1>4 DEF EndPush
  <2>4. L + space <= totalSpace - Unread /\ Unread' = Unread + L
    BY <1>2, <1>7
  <2>5. space' + Len(source') <= freeSpace'
    BY <2>1, <2>2, <2>3, <2>4
  <2>6. QED
    BY <2>5 DEF SpaceIsConservative
<1>11. ReadyIsConservative'
  BY ReadyBytesUnchanged DEF EndPush, consumerVars, ReadyIsConservative
<1>12. QED
  BY <1>6, <1>9, <1>10, <1>11

\* Sending turns all unsent bytes into ready ones.
LEMMA SendKeepsIInv == IInv /\ Send => IInv'
<1> SUFFICES ASSUME IInv, Send PROVE IInv'
  OBVIOUS
<1> USE DEF IInv
<1>1. /\ read_ptr \in Index
      /\ m_uncommited_write_ptr \in Index
  BY DEF FifoTypeOK
<1>2. FifoTypeOK'
  BY DEF Send, FifoTypeOK, consumerVars
<1>3. readyBytes' = Unread
  <2>1. (FifoTypeOK => readyBytes = Distance(read_ptr, m_committed_write_ptr))'
    BY ReadyBytesIsDistance, PTL
  <2>2. QED
    BY <1>2, <2>1 DEF Send, consumerVars, Unread
<1>4. Distance(m_uncommited_write_ptr, m_uncommited_write_ptr) = 0
  BY <1>1, DistanceFolds DEF Index
<1>5. Unread' = Unread /\ Unread \in Nat
  BY UnreadIsSum DEF Send, consumerVars, Unread, totalSpace
<1>6. PointersInOrder'
  BY <1>3, <1>4, <1>5 DEF Send, PointersInOrder, Unsent
<1>7. SpaceIsConservative'
  BY FreeSpaceUnchanged DEF Send, consumerVars, SpaceIsConservative
<1>8. ReadyIsConservative'
  BY <1>3, UnreadIsSum DEF Send, consumerVars, ReadyIsConservative, FifoTypeOK, totalSpace
<1>9. QED
  BY <1>2, <1>6, <1>7, <1>8

\* A new readyBytes() snapshot promises what is there.
LEMMA QueryReadyBytesKeepsIInv == IInv /\ QueryReadyBytes => IInv'
<1> SUFFICES ASSUME IInv, QueryReadyBytes PROVE IInv'
  OBVIOUS
<1> USE DEF IInv
<1>1. readyBytes \in 0..totalSpace
  BY UnreadIsSum
<1>2. FifoTypeOK'
  BY <1>1 DEF QueryReadyBytes, FifoTypeOK, producerVars
<1>3. PointersInOrder'
  BY OrderUnchanged DEF QueryReadyBytes, producerVars
<1>4. SpaceIsConservative'
  BY FreeSpaceUnchanged DEF QueryReadyBytes, producerVars, SpaceIsConservative
<1>5. ReadyIsConservative'
  BY <1>1, ReadyBytesUnchanged DEF QueryReadyBytes, producerVars, ReadyIsConservative, totalSpace
<1>6. QED
  BY <1>2, <1>3, <1>4, <1>5

\* A pop is charged to the snapshot before its first byte is copied.
LEMMA BeginPopKeepsIInv ==
  ASSUME IInv, NEW n \in 1..totalSpace, BeginPop(n)
  PROVE  IInv'
<1> USE DEF IInv
<1>1. ready \in 0..totalSpace /\ n <= ready
  BY DEF BeginPop, FifoTypeOK
<1>2. FifoTypeOK'
  <2>1. Len(dest') <= wanted'
    BY LengthsAreNat DEF BeginPop, FifoTypeOK, totalSpace
  <2>2. QED
    BY <1>1, <2>1, QueSizeAssumption DEF BeginPop, FifoTypeOK, producerVars, totalSpace
<1>3. PointersInOrder'
  BY OrderUnchanged DEF BeginPop, producerVars
<1>4. SpaceIsConservative'
  BY FreeSpaceUnchanged DEF BeginPop, producerVars, SpaceIsConservative
<1>5. ReadyIsConservative'
  BY <1>1, ReadyBytesUnchanged, QueSizeAssumption DEF BeginPop, producerVars, ReadyIsConservative, totalSpace
<1>6. QED
  BY <1>2, <1>3, <1>4, <1>5

\* A siphon takes no more than is ready.
LEMMA BeginSiphonKeepsIInv ==
  ASSUME IInv, NEW n \in 1..totalSpace, BeginSiphon(n)
  PROVE  IInv'
<1> USE DEF IInv
<1>1. n <= readyBytes /\ readyBytes \in 0..totalSpace
  BY ContiguousIsReady, UnreadIsSum, QueSizeAssumption DEF BeginSiphon, totalSpace
<1>2. FifoTypeOK'
  <2>1. Len(dest') <= wanted'
    BY LengthsAreNat DEF BeginSiphon, FifoTypeOK, totalSpace
  <2>2. QED
    BY <2>1, QueSizeAssumption DEF BeginSiphon, FifoTypeOK, producerVars, totalSpace
<1>3. PointersInOrder'
  BY OrderUnchanged DEF BeginSiphon, producerVars
<1>4. SpaceIsConservative'
  BY FreeSpaceUnchanged DEF BeginSiphon, producerVars, SpaceIsConservative
<1>5. ReadyIsConservative'
  BY <1>1, ReadyBytesUnchanged, QueSizeAssumption DEF BeginSiphon, producerVars, ReadyIsConservative, totalSpace
<1>6. QED
  BY <1>2, <1>3, <1>4, <1>5

\* A byte copied out changes the consumer's own variables only.
LEMMA CopyOutKeepsIInv == IInv /\ CopyOut => IInv'
<1> SUFFICES ASSUME IInv, CopyOut PROVE IInv'
  OBVIOUS
<1> USE DEF IInv
<1>1. FifoTypeOK'
  <2>1. Len(dest) \in 0..QueSize
    BY LengthsAreNat, QueSizeAssumption DEF CopyOut, FifoTypeOK, totalSpace
  <2>2. m_que[Advance(read_ptr, Len(dest))] \in Byte
    BY <2>1, AdvanceFolds DEF FifoTypeOK
  <2>3. dest' \in Seq(Byte) /\ Len(dest') = Len(dest) + 1
    BY <2>2 DEF CopyOut, FifoTypeOK
  <2>4. Len(dest') <= wanted'
    BY <2>1, <2>3 DEF CopyOut, FifoTypeOK, totalSpace
  <2>5. QED
    BY <2>3, <2>4 DEF CopyOut, FifoTypeOK, producerVars
<1>2. PointersInOrder'
  BY OrderUnchanged DEF CopyOut, producerVars
<1>3. SpaceIsConservative'
  BY FreeSpaceUnchanged DEF CopyOut, producerVars, SpaceIsConservative
<1>4. ReadyIsConservative'
  BY ReadyBytesUnchanged DEF CopyOut, producerVars, ReadyIsConservative
<1>5. QED
  BY <1>1, <1>2, <1>3, <1>4

\* The read index moves on by no more than the ready bytes.
LEMMA EndPopKeepsIInv == IInv /\ EndPop => IInv'
<1> SUFFICES ASSUME IInv, EndPop PROVE IInv'
  OBVIOUS
<1> USE DEF IInv
<1>1. /\ read_ptr \in Index
      /\ m_committed_write_ptr \in Index
      /\ m_uncommited_write_ptr \in Index
      /\ wanted \in Nat
      /\ ready \in Nat
      /\ space \in Nat
      /\ Len(source) \in Nat
  BY LengthsAreNat DEF FifoTypeOK, totalSpace
<1>2. /\ readyBytes = Distance(read_ptr, m_committed_write_ptr)
      /\ readyBytes \in 0..totalSpace
      /\ Unread \in 0..totalSpace
      /\ Unread = readyBytes + Distance(m_committed_write_ptr, m_uncommited_write_ptr)
      /\ Distance(m_committed_write_ptr, m_uncommited_write_ptr) \in 0..totalSpace
      /\ totalSpace \in Nat
  BY ReadyBytesIsDistance, UnreadIsSum, QueSizeAssumption DEF totalSpace
<1>3. ready + wanted <= readyBytes
  BY DEF ReadyIsConservative
<1>4. wanted \in 0..readyBytes /\ wanted \in 0..Unread /\ wanted \in 0..QueSize
  BY <1>1, <1>2, <1>3, QueSizeAssumption DEF totalSpace
<1>5. FifoTypeOK'
  <2>1. read_ptr' \in Index
    BY <1>1, <1>4, AdvanceFolds DEF EndPop
  <2>2. Len(dest') <= wanted'
    BY DEF EndPop
  <2>3. QED
    BY <2>1, <2>2, <1>2 DEF EndPop, FifoTypeOK, producerVars
<1>6. readyBytes' = readyBytes - wanted
  <2>1. (FifoTypeOK => readyBytes = Distance(read_ptr, m_committed_write_ptr))'
    BY ReadyBytesIsDistance, PTL
  <2>2. Distance(Advance(read_ptr, wanted), m_committed_write_ptr) = readyBytes - wanted
    BY <1>1, <1>2, <1>4, DistanceShrinks
  <2>3. QED
    BY <1>5, <2>1, <2>2 DEF EndPop, producerVars
<1>7. Unread' = Unread - wanted
  <2>1. Distance(Advance(read_ptr, wanted), m_uncommited_write_ptr) = Unread - wanted
    BY <1>1, <1>4, DistanceShrinks DEF Unread
  <2>2. QED
    BY <2>1 DEF EndPop, producerVars, Unread
<1>8. PointersInOrder'
  BY <1>1, <1>2, <1>6, <1>7 DEF EndPop, producerVars, PointersInOrder, Unsent
<1>9. SpaceIsConservative'
  <2>1. (FifoTypeOK => freeSpace = totalSpace - Unread)'
    BY FreeSpaceComplementsUnread, PTL
  <2>2. freeSpace' = freeSpace + wanted
    BY <1>1, <1>2, <1>5, <1>7, <2>1, FreeSpaceComplementsUnread DEF totalSpace
  <2>3. space + Len(source) <= freeSpace /\ freeSpace \in Int
    BY <1>2, FreeSpaceComplementsUnread DEF SpaceIsConservative
  <2>4. QED
    BY <1>1, <2>2, <2>3 DEF EndPop, producerVars, SpaceIsConservative
<1>10. ReadyIsConservative'
  BY <1>1, <1>2, <1>3, <1>6 DEF EndPop, ReadyIsConservative
<1>11. QED
  BY <1>5, <1>8, <1>9, <1>10

\* Clearing moves the read index up to the commit index, not past it.
LEMMA ClearKeepsIInv == IInv /\ clear => IInv'
<1> SUFFICES ASSUME IInv, clear PROVE IInv'
  OBVIOUS
<1> USE DEF IInv
<1>1. /\ m_committed_write_ptr \in Index
      /\ space \in Nat
      /\ Len(source) \in Nat
  BY LengthsAreNat DEF FifoTypeOK, totalSpace
<1>2. /\ readyBytes \in 0..totalSpace
      /\ Unread \in 0..totalSpace
      /\ Unread = readyBytes + Distance(m_committed_write_ptr, m_uncommited_write_ptr)
      /\ Distance(m_committed_write_ptr, m_uncommited_write_ptr) \in 0..totalSpace
      /\ totalSpace \in Nat
  BY UnreadIsSum, QueSizeAssumption DEF totalSpace
<1>3. FifoTypeOK'
  BY <1>1, <1>2 DEF clear, FifoTypeOK, producerVars
<1>4. readyBytes' = 0
  BY <1>1 DEF clear, producerVars, readyBytes, Index
<1>5. Unread' = Distance(m_committed_write_ptr, m_uncommited_write_ptr)
  BY DEF clear, producerVars, Unread
<1>6. PointersInOrder'
  BY <1>2, <1>4, <1>5 DEF clear, producerVars, PointersInOrder, Unsent
<1>7. SpaceIsConservative'
  <2>1. (FifoTypeOK => freeSpace = totalSpace - Unread)'
    BY FreeSpaceComplementsUnread, PTL
  <2>2. freeSpace' = freeSpace + readyBytes
    BY <1>2, <1>3, <1>5, <2>1, FreeSpaceComplementsUnread DEF totalSpace
  <2>3. space + Len(source) <= freeSpace /\ freeSpace \in Int
    BY <1>2, FreeSpaceComplementsUnread DEF SpaceIsConservative
  <2>4. QED
    BY <1>1, <1>2, <2>2, <2>3 DEF clear, producerVars, SpaceIsConservative
<1>8. ReadyIsConservative'
  BY <1>4 DEF clear, ReadyIsConservative
<1>9. QED
  BY <1>3, <1>6, <1>7, <1>8

\* Resetting empties the ring and both snapshots.
LEMMA ResetKeepsIInv == IInv /\ Reset => IInv'
<1> SUFFICES ASSUME IInv, Reset PROVE IInv'
  OBVIOUS
<1> USE DEF IInv
<1>1. FifoTypeOK'
  BY QueSizeAssumption DEF Reset, FifoTypeOK, Index, totalSpace
<1>2. freeSpace' = totalSpace /\ readyBytes' = 0
  BY QueSizeAssumption DEF Reset, freeSpace, readyBytes, totalSpace
<1>3. Distance(0, 0) = 0
  BY DistanceFolds, QueSizeAssumption DEF Index
<1>4. PointersInOrder'
  BY <1>2, <1>3 DEF Reset, PointersInOrder, Unread, Unsent
<1>5. SpaceIsConservative' /\ ReadyIsConservative'
  BY <1>2, QueSizeAssumption DEF Reset, SpaceIsConservative, ReadyIsConservative, totalSpace
<1>6. QED
  BY <1>1, <1>4, <1>5

\* A stuttering step keeps the invariant.
LEMMA StutterKeepsIInv == IInv /\ UNCHANGED fifoVars => IInv'
<1> SUFFICES ASSUME IInv, UNCHANGED fifoVars PROVE IInv'
  OBVIOUS
<1> USE DEF IInv, fifoVars, producerVars, consumerVars
<1>1. FifoTypeOK'
  BY DEF FifoTypeOK
<1>2. PointersInOrder'
  BY OrderUnchanged
<1>3. SpaceIsConservative'
  BY FreeSpaceUnchanged DEF SpaceIsConservative
<1>4. ReadyIsConservative'
  BY ReadyBytesUnchanged DEF ReadyIsConservative
<1>5. QED
  BY <1>1, <1>2, <1>3, <1>4

\* Every step of the specification keeps the invariant.
LEMMA StepKeepsIInv == IInv /\ [FifoNext]_fifoVars => IInv'
<1> SUFFICES ASSUME IInv, [FifoNext]_fifoVars PROVE IInv'
  OBVIOUS
<1>1. CASE QueryFreeSpace
  BY <1>1, QueryFreeSpaceKeepsIInv
<1>2. CASE \E data \in ByteString : BeginPush(data)
  BY <1>2, BeginPushKeepsIInv
<1>3. CASE CopyIn
  BY <1>3, CopyInKeepsIInv
<1>4. CASE EndPush
  BY <1>4, EndPushKeepsIInv
<1>5. CASE Send
  BY <1>5, SendKeepsIInv
<1>6. CASE QueryReadyBytes
  BY <1>6, QueryReadyBytesKeepsIInv
<1>7. CASE \E n \in 1..totalSpace : BeginPop(n)
  BY <1>7, BeginPopKeepsIInv
<1>8. CASE \E n \in 1..totalSpace : BeginSiphon(n)
  BY <1>8, BeginSiphonKeepsIInv
<1>9. CASE CopyOut
  BY <1>9, CopyOutKeepsIInv
<1>10. CASE EndPop
  BY <1>10, EndPopKeepsIInv
<1>11. CASE clear
  BY <1>11, ClearKeepsIInv
<1>12. CASE Reset
  BY <1>12, ResetKeepsIInv
<1>13. CASE UNCHANGED fifoVars
  BY <1>13, StutterKeepsIInv
<1>14. QED
  BY <1>1, <1>2, <1>3, <1>4, <1>5, <1>6, <1>7, <1>8, <1>9, <1>10, <1>11, <1>12, <1>13
     DEF FifoNext, Producer, Consumer

-----------------------------------------------------------------------------
(* What follows from the invariant. *)

\* Whatever the two threads do and however their steps interleave, the types,
\* the order of the three indices and the promises of the freeSpace() and
\* readyBytes() snapshots hold.
THEOREM InvariantHolds == FifoSpec => []IInv
<1>1. FifoInit => IInv
  BY InitEstablishesIInv
<1>2. IInv /\ [FifoNext]_fifoVars => IInv'
  BY StepKeepsIInv
<1>3. QED
  BY <1>1, <1>2, PTL DEF FifoSpec

\* The variables of the ring keep their types: no index ever leaves the array.
THEOREM TypeCorrect == FifoSpec => []FifoTypeOK
<1>1. IInv => FifoTypeOK
  BY DEF IInv
<1>2. QED
  BY <1>1, InvariantHolds, PTL

\* Neither thread passes the other: the sent bytes lie between the read and
\* the commit index, the unsent ones between the commit and the write index.
THEOREM PointersStayInOrder == FifoSpec => []PointersInOrder
<1>1. IInv => PointersInOrder
  BY DEF IInv
<1>2. QED
  BY <1>1, InvariantHolds, PTL

\* A producer that pushes against one freeSpace() snapshot, however old, never
\* pushes more than is free, and a consumer that pops against one readyBytes()
\* snapshot never pops a byte that was not sent.
THEOREM SnapshotsAreSafe == FifoSpec => []SnapshotsAreConservative
<1>1. IInv => SnapshotsAreConservative
  BY DEF IInv, SnapshotsAreConservative
<1>2. QED
  BY <1>1, InvariantHolds, PTL

\* The cells the producer may fill and the cells that hold unread bytes are
\* different cells.
LEMMA FreeCellIsNotUnread ==
  ASSUME IInv, NEW k \in Nat, k < freeSpace, NEW m \in Nat, m < Unread
  PROVE  Advance(m_uncommited_write_ptr, k) # Advance(read_ptr, m)
<1>1. read_ptr \in Index /\ m_uncommited_write_ptr \in Index
  BY DEF IInv, FifoTypeOK
<1>2. /\ freeSpace = totalSpace - Unread
      /\ Unread \in 0..totalSpace
  BY FreeSpaceComplementsUnread, UnreadIsSum DEF IInv
<1>3. k \in 0..QueSize /\ m \in 0..QueSize
  BY <1>2, QueSizeAssumption DEF totalSpace
<1>4. Unread = IF read_ptr <= m_uncommited_write_ptr
                 THEN m_uncommited_write_ptr - read_ptr
                 ELSE m_uncommited_write_ptr - read_ptr + QueSize
  BY <1>1, DistanceFolds DEF Unread
<1>5. Advance(m_uncommited_write_ptr, k) =
        IF m_uncommited_write_ptr + k < QueSize
          THEN m_uncommited_write_ptr + k
          ELSE m_uncommited_write_ptr + k - QueSize
  BY <1>1, <1>3, AdvanceFolds
<1>6. Advance(read_ptr, m) =
        IF read_ptr + m < QueSize THEN read_ptr + m ELSE read_ptr + m - QueSize
  BY <1>1, <1>3, AdvanceFolds
<1>7. QED
  BY <1>1, <1>2, <1>4, <1>5, <1>6, QueSizeAssumption DEF Index, totalSpace

\* The two threads never touch a cell at the same time: what pushString is
\* filling holds no byte the consumer has yet to read.
THEOREM NeverOverwrites == FifoSpec => []NoOverwrite
<1>1. IInv => NoOverwrite
  <2> SUFFICES ASSUME IInv,
                      NEW k \in 0 .. Len(source) - 1, NEW m \in 0 .. Unread - 1
               PROVE  Advance(m_uncommited_write_ptr, k) # Advance(read_ptr, m)
    BY DEF NoOverwrite, Cells
  <2>1. k \in Nat /\ k < freeSpace
    <3>1. Len(source) \in Nat /\ space \in Nat /\ space + Len(source) <= freeSpace
      BY LengthsAreNat DEF IInv, SpaceIsConservative, FifoTypeOK, totalSpace
    <3>2. freeSpace \in Int
      BY FreeSpaceComplementsUnread, UnreadIsSum, QueSizeAssumption DEF IInv, totalSpace
    <3>3. QED
      BY <3>1, <3>2
  <2>2. m \in Nat /\ m < Unread
    BY UnreadIsSum DEF IInv, totalSpace
  <2>3. QED
    BY <2>1, <2>2, FreeCellIsNotUnread
<1>2. QED
  BY <1>1, InvariantHolds, PTL

\* The assertion that ends pushString always holds.
THEOREM PushAssertionHolds == FifoSpec => PushNeverMeetsRead
<1>1. IInv /\ [FifoNext]_fifoVars => [EndPush => m_uncommited_write_ptr' # read_ptr]_fifoVars
  <2> SUFFICES ASSUME IInv, EndPush
               PROVE  m_uncommited_write_ptr' # read_ptr
    OBVIOUS
  <2>1. /\ read_ptr \in Index
        /\ m_uncommited_write_ptr \in Index
        /\ Len(source) \in Nat
        /\ space \in Nat
    BY LengthsAreNat DEF IInv, FifoTypeOK, totalSpace
  <2>2. Len(source) # 0
    BY DEF EndPush, IInv, FifoTypeOK
  <2>3. /\ freeSpace = totalSpace - Unread
        /\ Unread \in 0..totalSpace
        /\ space + Len(source) <= freeSpace
    BY FreeSpaceComplementsUnread, UnreadIsSum DEF IInv, SpaceIsConservative
  <2>4. Unread + Len(source) <= totalSpace /\ totalSpace \in Nat
    BY <2>1, <2>3, QueSizeAssumption DEF totalSpace
  <2>5. Distance(read_ptr, m_uncommited_write_ptr') = Unread + Len(source)
    BY <2>1, <2>4, DistanceGrows DEF EndPush, Unread
  <2>6. Distance(read_ptr, read_ptr) = 0
    BY <2>1, DistanceFolds DEF Index
  <2>7. QED
    BY <2>1, <2>2, <2>3, <2>5, <2>6
<1>2. QED
  BY <1>1, InvariantHolds, PTL DEF FifoSpec, PushNeverMeetsRead

-----------------------------------------------------------------------------
(* lock_free_fifo implements a channel of bytes.                            *)

\* What pushString has copied in is in its cells.
CopiedIn ==
  \A k \in 1..copied : m_que[Advance(m_uncommited_write_ptr, k - 1)] = source[k]

\* What popString has copied out is still what the cells hold.
CopiedOut ==
  \A k \in 1..Len(dest) : dest[k] = m_que[Advance(read_ptr, k - 1)]

RInv == IInv /\ CopiedIn /\ CopiedOut

-----------------------------------------------------------------------------
(* Windows: the bytes of a stretch of the ring, as a sequence. *)

\* Two moves round the ring are one move by their sum.
LEMMA AdvanceTwice ==
  ASSUME NEW i \in Index, NEW a \in Nat, NEW b \in Nat, a + b <= QueSize
  PROVE  Advance(Advance(i, a), b) = Advance(i, a + b)
<1>1. /\ Advance(i, a) \in Index
      /\ Advance(i, a) = IF i + a < QueSize THEN i + a ELSE i + a - QueSize
  BY AdvanceFolds, QueSizeAssumption
<1>2. Advance(Advance(i, a), b) =
        IF Advance(i, a) + b < QueSize THEN Advance(i, a) + b ELSE Advance(i, a) + b - QueSize
  BY <1>1, AdvanceFolds, QueSizeAssumption
<1>3. Advance(i, a + b) = IF i + (a + b) < QueSize THEN i + (a + b) ELSE i + (a + b) - QueSize
  BY AdvanceFolds, QueSizeAssumption
<1>4. QED
  BY <1>1, <1>2, <1>3, QueSizeAssumption DEF Index

\* Going the way from one index to another arrives there.
LEMMA AdvanceByDistance ==
  ASSUME NEW i \in Index, NEW j \in Index
  PROVE  Advance(i, Distance(i, j)) = j
<1> DEFINE d == Distance(i, j)
<1>1. d \in 0..QueSize
  BY DistanceFolds, QueSizeAssumption DEF totalSpace
<1>2. d = IF i <= j THEN j - i ELSE j - i + QueSize
  BY DistanceFolds
<1>3. Advance(i, d) = IF i + d < QueSize THEN i + d ELSE i + d - QueSize
  BY <1>1, AdvanceFolds
<1> HIDE DEF d
<1>4. Advance(i, d) = j
  BY <1>1, <1>2, <1>3, QueSizeAssumption DEF Index
<1>5. QED
  BY <1>4 DEF d

\* A window is a sequence of as many bytes as asked for.
LEMMA WindowIsSeq ==
  ASSUME m_que \in [Index -> Byte], NEW i \in Index, NEW n \in 0..QueSize
  PROVE  /\ Window(i, n) \in Seq(Byte)
         /\ Len(Window(i, n)) = n
<1>1. \A k \in 1..n : m_que[Advance(i, k - 1)] \in Byte
  BY AdvanceFolds, QueSizeAssumption
<1>2. Window(i, n) \in [1..n -> Byte]
  BY <1>1 DEF Window
<1>3. QED
  BY <1>2, QueSizeAssumption

\* A window followed by the window after it is one longer window.
LEMMA WindowConcat ==
  ASSUME m_que \in [Index -> Byte], NEW i \in Index,
         NEW a \in Nat, NEW b \in Nat, a + b <= QueSize
  PROVE  Window(i, a) \o Window(Advance(i, a), b) = Window(i, a + b)
<1> DEFINE j == Advance(i, a)
<1>0. a \in 0..QueSize /\ b \in 0..QueSize /\ a + b \in 0..QueSize
  BY QueSizeAssumption
<1>1. j \in Index
  BY <1>0, AdvanceFolds
<1> DEFINE first == Window(i, a)
           second == Window(j, b)
           whole == Window(i, a + b)
<1>2. /\ first \in Seq(Byte) /\ Len(first) = a
      /\ second \in Seq(Byte) /\ Len(second) = b
      /\ whole \in Seq(Byte) /\ Len(whole) = a + b
  BY <1>0, <1>1, WindowIsSeq
<1>3. \A k \in 1..a : first[k] = whole[k]
  BY DEF Window
<1>4. ASSUME NEW k \in 1..b
      PROVE  second[k] = whole[a + k]
  <2> DEFINE m == k - 1
  <2>1. m \in Nat /\ a + m <= QueSize /\ a + m = (a + k) - 1
    BY <1>0, QueSizeAssumption
  <2>2. Advance(j, m) = Advance(i, a + m)
    BY <2>1, AdvanceTwice
  <2>3. second[k] = m_que[Advance(j, m)]
    BY DEF Window
  <2>4. whole[a + k] = m_que[Advance(i, (a + k) - 1)]
    BY <1>0 DEF Window
  <2>5. QED
    BY <2>1, <2>2, <2>3, <2>4
<1> HIDE DEF first, second, whole
<1>5. /\ first \o second \in Seq(Byte)
      /\ Len(first \o second) = a + b
      /\ \A k \in 1 .. a + b : (first \o second)[k] = IF k <= a THEN first[k] ELSE second[k - a]
  BY <1>2, ConcatProperties
<1>6. \A k \in 1 .. a + b : (first \o second)[k] = whole[k]
  <2> SUFFICES ASSUME NEW k \in 1 .. a + b PROVE (first \o second)[k] = whole[k]
    OBVIOUS
  <2>1. CASE k <= a
    BY <1>3, <1>5, <2>1
  <2>2. CASE k > a
    <3>1. k - a \in 1..b /\ a + (k - a) = k
      BY <2>2
    <3>2. second[k - a] = whole[a + (k - a)]
      BY <1>4, <3>1
    <3>3. QED
      BY <1>5, <2>2, <3>1, <3>2
  <2>3. k <= a \/ k > a
    OBVIOUS
  <2>4. QED
    BY <2>1, <2>2, <2>3, Zenon
<1>7. first \o second = whole
  BY <1>2, <1>5, <1>6, SeqEqual
<1>8. QED
  BY <1>7 DEF first, second, whole

\* The front of a window is a window.
LEMMA WindowFront ==
  ASSUME m_que \in [Index -> Byte], NEW i \in Index,
         NEW n \in 0..QueSize, NEW a \in 0..n
  PROVE  SubSeq(Window(i, n), 1, a) = Window(i, a)
<1> DEFINE front == Window(i, a)
           whole == Window(i, n)
<1>1. /\ front \in Seq(Byte) /\ Len(front) = a
      /\ whole \in Seq(Byte) /\ Len(whole) = n
  BY WindowIsSeq, QueSizeAssumption
<1>2. \A k \in 1..a : whole[k] = front[k]
  BY DEF Window
<1> HIDE DEF front, whole
<1>3. \A k \in 1..a : whole[k] \in Byte
  BY <1>1
<1>4. /\ SubSeq(whole, 1, a) \in Seq(Byte)
      /\ Len(SubSeq(whole, 1, a)) = IF 1 <= a THEN a - 1 + 1 ELSE 0
      /\ \A k \in 1 .. a - 1 + 1 : SubSeq(whole, 1, a)[k] = whole[1 + k - 1]
  BY <1>3, SubSeqProperties
<1>5. Len(SubSeq(whole, 1, a)) = a /\ \A k \in 1..a : SubSeq(whole, 1, a)[k] = front[k]
  BY <1>2, <1>4
<1>6. SubSeq(whole, 1, a) = front
  BY <1>1, <1>4, <1>5, SeqEqual
<1>7. QED
  BY <1>6 DEF front, whole

\* The rest of a window is a window.
LEMMA WindowRest ==
  ASSUME m_que \in [Index -> Byte], NEW i \in Index,
         NEW n \in 0..QueSize, NEW a \in 0..n
  PROVE  SubSeq(Window(i, n), a + 1, n) = Window(Advance(i, a), n - a)
<1> DEFINE j == Advance(i, a)
           rest == Window(j, n - a)
           whole == Window(i, n)
<1>1. j \in Index /\ n - a \in 0..QueSize
  BY AdvanceFolds, QueSizeAssumption
<1>2. /\ rest \in Seq(Byte) /\ Len(rest) = n - a
      /\ whole \in Seq(Byte) /\ Len(whole) = n
  BY <1>1, WindowIsSeq
<1>3. ASSUME NEW k \in 1..(n - a)
      PROVE  whole[a + k] = rest[k]
  <2> DEFINE m == k - 1
  <2>1. m \in Nat /\ a + m <= QueSize /\ a + m = (a + k) - 1
    BY QueSizeAssumption
  <2>2. Advance(j, m) = Advance(i, a + m)
    BY <2>1, AdvanceTwice
  <2>3. rest[k] = m_que[Advance(j, m)]
    BY DEF Window
  <2>4. whole[a + k] = m_que[Advance(i, (a + k) - 1)]
    BY DEF Window
  <2>5. QED
    BY <2>1, <2>2, <2>3, <2>4
<1> HIDE DEF rest, whole
<1>4. \A k \in (a + 1)..n : whole[k] \in Byte
  BY <1>2
<1>5. /\ SubSeq(whole, a + 1, n) \in Seq(Byte)
      /\ Len(SubSeq(whole, a + 1, n)) = IF a + 1 <= n THEN n - (a + 1) + 1 ELSE 0
      /\ \A k \in 1 .. n - (a + 1) + 1 : SubSeq(whole, a + 1, n)[k] = whole[(a + 1) + k - 1]
  BY <1>4, SubSeqProperties
<1>6. /\ Len(SubSeq(whole, a + 1, n)) = n - a
      /\ \A k \in 1 .. n - a : SubSeq(whole, a + 1, n)[k] = rest[k]
  <2>1. \A k \in 1 .. n - a : (a + 1) + k - 1 = a + k
    OBVIOUS
  <2>2. n - (a + 1) + 1 = n - a
    OBVIOUS
  <2>3. QED
    BY <1>3, <1>5, <2>1, <2>2
<1>7. SubSeq(whole, a + 1, n) = rest
  BY <1>2, <1>5, <1>6, SeqEqual
<1>8. QED
  BY <1>7 DEF rest, whole

\* An empty window is the empty sequence.
LEMMA WindowEmpty ==
  ASSUME NEW i
  PROVE  Window(i, 0) = <<>>
  BY DEF Window

-----------------------------------------------------------------------------
(* The two copies in progress. *)

\* A byte the producer copies in lands in none of the unread cells.
LEMMA CopyInSparesUnread ==
  ASSUME IInv, CopyIn, NEW m \in Nat, m < Unread
  PROVE  m_que'[Advance(read_ptr, m)] = m_que[Advance(read_ptr, m)]
<1>1. /\ copied \in Nat
      /\ copied < freeSpace
  BY LengthsAreNat, FreeSpaceComplementsUnread, UnreadIsSum, QueSizeAssumption
     DEF IInv, SpaceIsConservative, FifoTypeOK, CopyIn, totalSpace
<1>2. Advance(m_uncommited_write_ptr, copied) # Advance(read_ptr, m)
  BY <1>1, FreeCellIsNotUnread
<1>3. Advance(read_ptr, m) \in Index
  BY UnreadIsSum, AdvanceFolds, QueSizeAssumption DEF IInv, FifoTypeOK, totalSpace
<1>4. QED
  BY <1>2, <1>3 DEF CopyIn, IInv, FifoTypeOK

\* Nor in a cell of the string it copied in before.
LEMMA CopyInSparesCopied ==
  ASSUME IInv, CopyIn, NEW k \in 1..copied
  PROVE  m_que'[Advance(m_uncommited_write_ptr, k - 1)] = m_que[Advance(m_uncommited_write_ptr, k - 1)]
<1> DEFINE u == m_uncommited_write_ptr
           m == k - 1
<1>1. /\ u \in Index
      /\ copied \in Nat
      /\ copied < totalSpace
      /\ totalSpace = QueSize - 1
  BY LengthsAreNat, FreeSpaceComplementsUnread, UnreadIsSum, QueSizeAssumption
     DEF IInv, SpaceIsConservative, FifoTypeOK, CopyIn, totalSpace
<1>2. /\ m \in 0..QueSize
      /\ copied \in 0..QueSize
      /\ m < copied
  BY <1>1, QueSizeAssumption
<1>3. /\ Advance(u, m) = IF u + m < QueSize THEN u + m ELSE u + m - QueSize
      /\ Advance(u, m) \in Index
      /\ Advance(u, copied) = IF u + copied < QueSize THEN u + copied ELSE u + copied - QueSize
  BY <1>1, <1>2, AdvanceFolds
<1>4. Advance(u, m) # Advance(u, copied)
  BY <1>1, <1>2, <1>3, QueSizeAssumption DEF Index
<1>5. QED
  BY <1>3, <1>4 DEF CopyIn, IInv, FifoTypeOK

\* The copies are right in every reachable state.
LEMMA StepKeepsRInv == RInv /\ [FifoNext]_fifoVars => RInv'
<1> SUFFICES ASSUME RInv, [FifoNext]_fifoVars PROVE RInv'
  OBVIOUS
<1>1. IInv'
  BY StepKeepsIInv DEF RInv
<1>2. IInv /\ FifoTypeOK /\ CopiedIn /\ CopiedOut
  BY DEF RInv, IInv
<1>3. CASE UNCHANGED <<m_que, m_uncommited_write_ptr, source, copied, read_ptr, dest>>
  BY <1>1, <1>2, <1>3 DEF RInv, CopiedIn, CopiedOut, Advance
<1>4. CASE \E data \in ByteString : BeginPush(data)
  <2>1. UNCHANGED <<m_que, m_uncommited_write_ptr, copied, read_ptr, dest>> /\ source = <<>>
    BY <1>4 DEF BeginPush, consumerVars
  <2>2. copied = 0
    BY <1>2, <2>1 DEF FifoTypeOK
  <2>3. CopiedIn' /\ CopiedOut'
    BY <1>2, <2>1, <2>2 DEF CopiedIn, CopiedOut, Advance
  <2>4. QED
    BY <1>1, <2>3 DEF RInv
<1>5. CASE CopyIn
  <2>1. /\ UNCHANGED <<m_uncommited_write_ptr, source, read_ptr, dest>>
        /\ copied' = copied + 1
        /\ copied \in Nat
        /\ m_que'[Advance(m_uncommited_write_ptr, copied)] = source[copied + 1]
    <3>1. copied \in 0..QueSize /\ m_uncommited_write_ptr \in Index
      BY <1>2, <1>5, LengthsAreNat, FreeSpaceComplementsUnread, UnreadIsSum, QueSizeAssumption
         DEF IInv, SpaceIsConservative, FifoTypeOK, CopyIn, totalSpace
    <3>2. Advance(m_uncommited_write_ptr, copied) \in Index
      BY <3>1, AdvanceFolds
    <3>3. QED
      BY <1>2, <1>5, <3>1, <3>2 DEF CopyIn, consumerVars, FifoTypeOK
  <2>2. CopiedIn'
    <3> SUFFICES ASSUME NEW k \in 1..(copied + 1)
                 PROVE  m_que'[Advance(m_uncommited_write_ptr, k - 1)] = source[k]
      BY <2>1 DEF CopiedIn, Advance
    <3>1. CASE k = copied + 1
      BY <2>1, <3>1
    <3>2. CASE k \in 1..copied
      BY <1>2, <1>5, <3>2, CopyInSparesCopied DEF CopiedIn
    <3>3. QED
      BY <2>1, <3>1, <3>2
  <2>3. CopiedOut'
    <3> SUFFICES ASSUME NEW k \in 1..Len(dest)
                 PROVE  dest[k] = m_que'[Advance(read_ptr, k - 1)]
      BY <2>1 DEF CopiedOut, Advance
    <3>1. k - 1 \in Nat /\ k - 1 < Unread
      BY <1>2, LengthsAreNat, UnreadIsSum
         DEF IInv, FifoTypeOK, ReadyIsConservative, totalSpace
    <3>2. QED
      BY <1>2, <1>5, <3>1, CopyInSparesUnread DEF CopiedOut
  <2>4. QED
    BY <1>1, <2>2, <2>3 DEF RInv
<1>6. CASE EndPush
  <2>1. UNCHANGED <<m_que, read_ptr, dest>> /\ copied' = 0
    BY <1>6 DEF EndPush, consumerVars
  <2>2. CopiedIn' /\ CopiedOut'
    BY <1>2, <2>1 DEF CopiedIn, CopiedOut, Advance
  <2>3. QED
    BY <1>1, <2>2 DEF RInv
<1>7. CASE CopyOut
  <2>1. /\ UNCHANGED <<m_que, m_uncommited_write_ptr, source, copied, read_ptr>>
        /\ Len(dest) \in Nat
        /\ Len(dest') = Len(dest) + 1
        /\ \A k \in 1..Len(dest) : dest'[k] = dest[k]
        /\ dest'[Len(dest) + 1] = m_que[Advance(read_ptr, Len(dest))]
    BY <1>2, <1>7, LengthsAreNat DEF CopyOut, producerVars, FifoTypeOK
  <2>2. CopiedIn'
    BY <1>2, <2>1 DEF CopiedIn, Advance
  <2>3. CopiedOut'
    <3> SUFFICES ASSUME NEW k \in 1..(Len(dest) + 1)
                 PROVE  dest'[k] = m_que[Advance(read_ptr, k - 1)]
      BY <2>1 DEF CopiedOut, Advance
    <3>1. CASE k = Len(dest) + 1
      BY <2>1, <3>1
    <3>2. CASE k \in 1..Len(dest)
      BY <1>2, <2>1, <3>2 DEF CopiedOut
    <3>3. QED
      BY <2>1, <3>1, <3>2
  <2>4. QED
    BY <1>1, <2>2, <2>3 DEF RInv
<1>8. CASE dest' = <<>> /\ UNCHANGED <<m_que, m_uncommited_write_ptr, source, copied>>
  BY <1>1, <1>2, <1>8 DEF RInv, CopiedIn, CopiedOut, Advance
<1>9. CASE Reset
  <2>1. source = <<>> /\ wanted = 0 /\ UNCHANGED <<copied, dest>>
    BY <1>9 DEF Reset
  <2>2. copied = 0 /\ Len(dest) = 0
    BY <1>2, <2>1, LengthsAreNat DEF FifoTypeOK
  <2>3. CopiedIn' /\ CopiedOut'
    BY <2>1, <2>2 DEF CopiedIn, CopiedOut
  <2>4. QED
    BY <1>1, <2>3 DEF RInv
<1>10. CASE clear
  <2>1. wanted = 0 /\ UNCHANGED <<m_que, m_uncommited_write_ptr, source, copied, dest>>
    BY <1>10 DEF clear, producerVars
  <2>2. Len(dest) = 0
    BY <1>2, <2>1, LengthsAreNat DEF FifoTypeOK
  <2>3. CopiedIn' /\ CopiedOut'
    BY <1>2, <2>1, <2>2 DEF CopiedIn, CopiedOut, Advance
  <2>4. QED
    BY <1>1, <2>3 DEF RInv
<1>11. QED
  BY <1>3, <1>4, <1>5, <1>6, <1>7, <1>8, <1>9, <1>10
     DEF FifoNext, Producer, Consumer, QueryFreeSpace, Send, QueryReadyBytes, BeginPop,
         BeginSiphon, EndPop, fifoVars, producerVars, consumerVars

\* The initial states satisfy the strengthened invariant.
LEMMA InitEstablishesRInv == FifoInit => RInv
<1>1. FifoInit => IInv
  BY InitEstablishesIInv
<1>2. FifoInit => CopiedIn /\ CopiedOut
  BY DEF FifoInit, CopiedIn, CopiedOut
<1>3. QED
  BY <1>1, <1>2 DEF RInv

-----------------------------------------------------------------------------
(* The channel, step by step. *)

pendingBytes == Window(m_committed_write_ptr, Unsent)
sentBytes == Window(read_ptr, readyBytes)

\* Sizes of the two windows the channel is made of.
LEMMA WindowSizes ==
  ASSUME IInv
  PROVE  /\ m_que \in [Index -> Byte]
         /\ read_ptr \in Index
         /\ m_committed_write_ptr \in Index
         /\ m_uncommited_write_ptr \in Index
         /\ readyBytes \in 0..QueSize
         /\ Unsent \in 0..QueSize
         /\ readyBytes + Unsent = Unread
         /\ Unread \in 0..totalSpace
         /\ totalSpace \in Nat
         /\ Advance(read_ptr, readyBytes) = m_committed_write_ptr
         /\ Advance(m_committed_write_ptr, Unsent) = m_uncommited_write_ptr
<1>1. FifoTypeOK /\ PointersInOrder
  BY DEF IInv
<1>2. /\ m_que \in [Index -> Byte]
      /\ read_ptr \in Index
      /\ m_committed_write_ptr \in Index
      /\ m_uncommited_write_ptr \in Index
  BY <1>1 DEF FifoTypeOK
<1>3. /\ readyBytes \in 0..totalSpace
      /\ Unsent \in 0..totalSpace
      /\ Unread = readyBytes + Unsent
      /\ Unread \in 0..totalSpace
      /\ totalSpace \in Nat
      /\ totalSpace < QueSize
  BY <1>1, UnreadIsSum, QueSizeAssumption DEF Unsent, totalSpace
<1>4. /\ Advance(read_ptr, readyBytes) = m_committed_write_ptr
      /\ Advance(m_committed_write_ptr, Unsent) = m_uncommited_write_ptr
  BY <1>1, <1>2, ReadyBytesIsDistance, AdvanceByDistance DEF Unsent
<1>5. QED
  BY <1>2, <1>3, <1>4, QueSizeAssumption

\* The initial states of the fifo are the channel's.
LEMMA InitRefines == FifoInit => Channel!Init
<1> SUFFICES ASSUME FifoInit PROVE Channel!Init
  OBVIOUS
<1>1. readyBytes = 0
  BY QueSizeAssumption DEF FifoInit, readyBytes
<1>2. Unsent = 0
  BY DistanceFolds, QueSizeAssumption DEF FifoInit, Unsent, Index
<1>3. QED
  BY <1>1, <1>2, WindowEmpty DEF FifoInit, Channel!Init

\* The end of a push is the channel's Push.
LEMMA EndPushRefines ==
  ASSUME RInv, IInv', EndPush
  PROVE  \E data \in Channel!ByteString : Channel!Push(data)
<1> DEFINE L == Len(source)
           c == m_committed_write_ptr
           u == m_uncommited_write_ptr
<1>1. IInv /\ CopiedIn
  BY DEF RInv
<1>2. /\ source \in Seq(Byte)
      /\ copied = L
      /\ L \in Nat \ {0}
      /\ L + Unread <= totalSpace
  <2>1. /\ source \in Seq(Byte) /\ source # <<>> /\ copied = L /\ space \in Nat
    BY <1>1 DEF EndPush, IInv, FifoTypeOK, totalSpace
  <2>2. freeSpace = totalSpace - Unread /\ space + L <= freeSpace
    BY <1>1, FreeSpaceComplementsUnread DEF IInv, SpaceIsConservative
  <2>3. L \in Nat \ {0}
    BY <2>1, EmptySeq
  <2>4. QED
    BY <1>1, <2>1, <2>2, <2>3, WindowSizes
<1>3. /\ UNCHANGED <<m_que, read_ptr, m_committed_write_ptr, popped>>
      /\ u' = Advance(u, L)
  BY DEF EndPush, consumerVars
<1>4. Unsent' = Unsent + L
  <2>1. Distance(c, u) + L <= totalSpace
    BY <1>1, <1>2, WindowSizes DEF Unsent
  <2>2. Distance(c, Advance(u, L)) = Distance(c, u) + L
    BY <1>1, <1>2, <2>1, DistanceGrows, WindowSizes
  <2>3. QED
    BY <1>3, <2>2 DEF Unsent
<1>5. Window(u, L) = source
  <2>1. L \in 0..QueSize
    BY <1>1, <1>2, WindowSizes, QueSizeAssumption DEF totalSpace
  <2>2. Window(u, L) \in Seq(Byte) /\ Len(Window(u, L)) = L
    BY <1>1, <2>1, WindowSizes, WindowIsSeq
  <2>3. \A k \in 1..L : Window(u, L)[k] = source[k]
    BY <1>1, <1>2 DEF Window, CopiedIn
  <2>4. QED
    BY <1>2, <2>2, <2>3, SeqEqual
<1>6. pendingBytes' = pendingBytes \o source
  <2>1. Unsent \in Nat /\ Unsent + L <= QueSize
    BY <1>1, <1>2, WindowSizes, QueSizeAssumption DEF totalSpace
  <2>2. Window(c, Unsent) \o Window(Advance(c, Unsent), L) = Window(c, Unsent + L)
    BY <1>1, <1>2, <2>1, WindowSizes, WindowConcat
  <2>3. pendingBytes' = Window(c, Unsent + L)
    BY <1>3, <1>4 DEF pendingBytes, Window, Advance
  <2>4. QED
    BY <1>1, <1>5, <2>2, <2>3, WindowSizes DEF pendingBytes
<1>7. sentBytes' = sentBytes
  BY <1>3 DEF sentBytes, Window, Advance, readyBytes
<1>8. /\ Len(pendingBytes) = Unsent
      /\ Len(sentBytes) = readyBytes
  BY <1>1, WindowSizes, WindowIsSeq DEF pendingBytes, sentBytes
<1>9. source \in Channel!ByteString
  <2>1. L \in 1..totalSpace /\ source \in [1..L -> Byte]
    BY <1>1, <1>2, LenProperties, WindowSizes
  <2>2. QED
    BY <2>1 DEF Channel!ByteString
<1>10. Len(pendingBytes) + Len(sentBytes) + Len(source) <= totalSpace
  BY <1>1, <1>2, <1>8, WindowSizes
<1>11. Channel!Push(source)
  BY <1>3, <1>6, <1>7, <1>10 DEF Channel!Push, pendingBytes, sentBytes
<1>12. QED
  BY <1>9, <1>11

\* Storing the commit index is the channel's Send.
LEMMA SendRefines ==
  ASSUME RInv, IInv', Send
  PROVE  Channel!Send
<1>1. IInv
  BY DEF RInv
<1>2. /\ UNCHANGED <<m_que, read_ptr, m_uncommited_write_ptr, popped>>
      /\ m_committed_write_ptr' = m_uncommited_write_ptr
  BY DEF Send, consumerVars
<1>3. readyBytes' = Unread
  <2>1. (FifoTypeOK => readyBytes = Distance(read_ptr, m_committed_write_ptr))'
    BY ReadyBytesIsDistance, PTL
  <2>2. QED
    BY <1>2, <2>1 DEF IInv, Unread, Distance
<1>4. Unsent' = 0
  BY <1>1, <1>2, DistanceFolds, WindowSizes DEF Unsent, Index
<1>5. pendingBytes' = <<>>
  BY <1>4, WindowEmpty DEF pendingBytes, Window
<1>6. sentBytes' = sentBytes \o pendingBytes
  <2>0. readyBytes \in Nat /\ Unsent \in Nat /\ readyBytes + Unsent <= QueSize
    BY <1>1, WindowSizes, QueSizeAssumption DEF totalSpace
  <2>1. Window(read_ptr, readyBytes) \o Window(Advance(read_ptr, readyBytes), Unsent)
          = Window(read_ptr, readyBytes + Unsent)
    BY <1>1, <2>0, WindowSizes, WindowConcat
  <2>2. sentBytes' = Window(read_ptr, Unread)
    BY <1>2, <1>3 DEF sentBytes, Window, Advance
  <2>3. QED
    BY <1>1, <2>1, <2>2, WindowSizes DEF sentBytes, pendingBytes
<1>7. QED
  BY <1>2, <1>5, <1>6 DEF Channel!Send, pendingBytes, sentBytes

\* The end of a pop is the channel's Take.
LEMMA EndPopRefines ==
  ASSUME RInv, IInv', EndPop
  PROVE  \E n \in 1..totalSpace : Channel!Take(n)
<1> DEFINE w == wanted
           r == read_ptr
<1>1. IInv /\ CopiedOut
  BY DEF RInv
<1>2. /\ UNCHANGED <<m_que, m_committed_write_ptr, m_uncommited_write_ptr>>
      /\ r' = Advance(r, w)
      /\ popped' = dest
      /\ Len(dest) = w
      /\ dest \in Seq(Byte)
  BY <1>1 DEF EndPop, producerVars, IInv, FifoTypeOK
<1>3. w \in 1..readyBytes /\ w \in 1..totalSpace
  <2>1. w \in Nat \ {0} /\ ready \in Nat /\ ready + w <= readyBytes /\ readyBytes \in 0..totalSpace
    BY <1>1, UnreadIsSum DEF EndPop, IInv, FifoTypeOK, ReadyIsConservative, totalSpace
  <2>2. QED
    BY <2>1, QueSizeAssumption DEF totalSpace
<1>4. readyBytes' = readyBytes - w
  <2>1. (FifoTypeOK => readyBytes = Distance(read_ptr, m_committed_write_ptr))'
    BY ReadyBytesIsDistance, PTL
  <2>2. readyBytes = Distance(r, m_committed_write_ptr)
    BY <1>1, ReadyBytesIsDistance DEF IInv
  <2>3. w \in 0..Distance(r, m_committed_write_ptr)
    BY <1>1, <1>3, <2>2, WindowSizes
  <2>4. Distance(Advance(r, w), m_committed_write_ptr) = Distance(r, m_committed_write_ptr) - w
    BY <1>1, <2>3, WindowSizes, DistanceShrinks
  <2>5. QED
    BY <1>2, <2>1, <2>2, <2>4 DEF IInv
<1>5. readyBytes \in 0..QueSize /\ w \in 0..readyBytes
  BY <1>1, <1>3, WindowSizes
<1>6. popped' = SubSeq(sentBytes, 1, w)
  <2>1. SubSeq(sentBytes, 1, w) = Window(r, w)
    BY <1>1, <1>5, WindowSizes, WindowFront DEF sentBytes
  <2>2. w \in 0..QueSize
    BY <1>5, QueSizeAssumption
  <2>3. Window(r, w) \in Seq(Byte) /\ Len(Window(r, w)) = w
    BY <1>1, <2>2, WindowSizes, WindowIsSeq
  <2>4. \A k \in 1..w : Window(r, w)[k] = dest[k]
    BY <1>1, <1>2 DEF Window, CopiedOut
  <2>5. Window(r, w) = dest
    BY <1>2, <2>3, <2>4, SeqEqual
  <2>6. QED
    BY <1>2, <2>1, <2>5
<1>7. Len(sentBytes) = readyBytes
  BY <1>1, WindowSizes, WindowIsSeq DEF sentBytes
<1>8. sentBytes' = SubSeq(sentBytes, w + 1, Len(sentBytes))
  <2>1. SubSeq(sentBytes, w + 1, readyBytes) = Window(Advance(r, w), readyBytes - w)
    BY <1>1, <1>5, WindowSizes, WindowRest DEF sentBytes
  <2>2. sentBytes' = Window(Advance(r, w), readyBytes - w)
    BY <1>2, <1>4 DEF sentBytes, Window, Advance
  <2>3. QED
    BY <1>7, <2>1, <2>2
<1>9. pendingBytes' = pendingBytes
  BY <1>2 DEF pendingBytes, Window, Advance, Unsent, Distance
<1>10. w <= Len(sentBytes)
  BY <1>3, <1>5, <1>7
<1>11. Channel!Take(w)
  BY <1>6, <1>8, <1>9, <1>10 DEF Channel!Take, pendingBytes, sentBytes
<1>12. QED
  BY <1>3, <1>11

\* clear() is the channel's Clear.
LEMMA ClearRefines ==
  ASSUME RInv, clear
  PROVE  Channel!Clear
<1>1. m_committed_write_ptr \in Index
  BY DEF RInv, IInv, FifoTypeOK
<1>2. readyBytes' = 0
  BY <1>1 DEF clear, producerVars, readyBytes, Index
<1>3. sentBytes' = <<>>
  BY <1>2 DEF sentBytes, Window
<1>4. pendingBytes' = pendingBytes
  BY DEF clear, producerVars, pendingBytes, Window, Advance, Unsent, Distance
<1>5. QED
  BY <1>3, <1>4 DEF clear, Channel!Clear, pendingBytes, sentBytes

\* Reset() is the channel's Reset.
LEMMA ResetRefines ==
  ASSUME RInv, Reset
  PROVE  Channel!Reset
<1>1. readyBytes' = 0
  BY QueSizeAssumption DEF Reset, readyBytes
<1>2. Unsent' = 0
  BY DistanceFolds, QueSizeAssumption DEF Reset, Unsent, Index
<1>3. sentBytes' = <<>> /\ pendingBytes' = <<>>
  BY <1>1, <1>2 DEF sentBytes, pendingBytes, Window
<1>4. QED
  BY <1>3 DEF Reset, Channel!Reset, pendingBytes, sentBytes

\* Copying a byte in changes no byte of the channel.
LEMMA CopyInStutters ==
  ASSUME RInv, CopyIn
  PROVE  UNCHANGED <<pendingBytes, sentBytes, popped>>
<1>1. IInv
  BY DEF RInv
<1>2. UNCHANGED <<read_ptr, m_committed_write_ptr, m_uncommited_write_ptr, popped>>
  BY DEF CopyIn, consumerVars
<1>3. UNCHANGED <<readyBytes, Unsent>>
  BY <1>2 DEF readyBytes, Unsent, Distance
<1>4. \A k \in 1..readyBytes : m_que'[Advance(read_ptr, k - 1)] = m_que[Advance(read_ptr, k - 1)]
  <2> SUFFICES ASSUME NEW k \in 1..readyBytes
               PROVE  m_que'[Advance(read_ptr, k - 1)] = m_que[Advance(read_ptr, k - 1)]
    OBVIOUS
  <2>1. k - 1 \in Nat /\ k - 1 < Unread
    BY <1>1, WindowSizes
  <2>2. QED
    BY <1>1, <2>1, CopyInSparesUnread
<1>5. \A k \in 1..Unsent : m_que'[Advance(m_committed_write_ptr, k - 1)]
                             = m_que[Advance(m_committed_write_ptr, k - 1)]
  <2> SUFFICES ASSUME NEW k \in 1..Unsent
               PROVE  m_que'[Advance(m_committed_write_ptr, k - 1)]
                        = m_que[Advance(m_committed_write_ptr, k - 1)]
    OBVIOUS
  <2> DEFINE m == readyBytes + (k - 1)
  <2>1. m \in Nat /\ m < Unread /\ readyBytes \in Nat /\ k - 1 \in Nat /\ m <= QueSize
    BY <1>1, WindowSizes, QueSizeAssumption DEF totalSpace
  <2>2. Advance(Advance(read_ptr, readyBytes), k - 1) = Advance(read_ptr, m)
    BY <1>1, <2>1, WindowSizes, AdvanceTwice
  <2>3. m_que'[Advance(read_ptr, m)] = m_que[Advance(read_ptr, m)]
    BY <1>1, <2>1, CopyInSparesUnread
  <2>4. QED
    BY <1>1, <2>2, <2>3, WindowSizes
<1>6. sentBytes' = sentBytes
  BY <1>2, <1>3, <1>4 DEF sentBytes, Window, Advance
<1>7. pendingBytes' = pendingBytes
  BY <1>2, <1>3, <1>5 DEF pendingBytes, Window, Advance
<1>8. QED
  BY <1>2, <1>6, <1>7

\* Every step of the fifo is a step of the channel or leaves it as it was.
LEMMA StepRefines == RInv /\ RInv' /\ [FifoNext]_fifoVars => [Channel!Next]_(Channel!vars)
<1> SUFFICES ASSUME RInv, RInv', [FifoNext]_fifoVars
             PROVE  Channel!Next \/ UNCHANGED <<pendingBytes, sentBytes, popped>>
  BY DEF Channel!vars, pendingBytes, sentBytes
<1>1. IInv'
  BY DEF RInv
<1>2. CASE UNCHANGED <<m_que, read_ptr, m_committed_write_ptr, m_uncommited_write_ptr, popped>>
  BY <1>2 DEF pendingBytes, sentBytes, Window, Advance, readyBytes, Unsent, Distance
<1>3. CASE CopyIn
  BY <1>3, CopyInStutters
<1>4. CASE EndPush
  BY <1>1, <1>4, EndPushRefines DEF Channel!Next
<1>5. CASE Send
  BY <1>1, <1>5, SendRefines DEF Channel!Next
<1>6. CASE EndPop
  BY <1>1, <1>6, EndPopRefines DEF Channel!Next
<1>7. CASE clear
  BY <1>7, ClearRefines DEF Channel!Next
<1>8. CASE Reset
  BY <1>8, ResetRefines DEF Channel!Next
<1>9. QED
  BY <1>2, <1>3, <1>4, <1>5, <1>6, <1>7, <1>8
     DEF FifoNext, Producer, Consumer, QueryFreeSpace, BeginPush, QueryReadyBytes, BeginPop,
         BeginSiphon, CopyOut, fifoVars, producerVars, consumerVars

\* The lock-free ring is a first-in first-out channel: whatever the
\* interleaving of its two threads' memory accesses, the consumer gets the
\* bytes that were pushed and sent, in order, unchanged, each exactly once,
\* and never a byte before its Send.
THEOREM FifoImplementsChannel == FifoSpec => ImplementsByteChannel
<1>1. FifoInit => RInv /\ Channel!Init
  BY InitEstablishesRInv, InitRefines
<1>2. RInv /\ [FifoNext]_fifoVars => RInv'
  BY StepKeepsRInv
<1>3. RInv /\ RInv' /\ [FifoNext]_fifoVars => [Channel!Next]_(Channel!vars)
  BY StepRefines
<1>4. QED
  BY <1>1, <1>2, <1>3, PTL DEF FifoSpec, ImplementsByteChannel, Channel!Spec

=============================================================================
