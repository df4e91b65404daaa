---------------------------- MODULE ByteChannel ----------------------------
(***************************************************************************)
(* What lock_free_fifo promises its two threads: a bounded first-in        *)
(* first-out channel of bytes.  A producer pushes strings that stay        *)
(* private until it Sends them; the consumer takes bytes off the front of  *)
(* what was sent, in the order pushed, unchanged, each exactly once.       *)
(* Nothing here knows of rings, indices or partly copied strings.          *)
(***************************************************************************)
EXTENDS Integers, Sequences

CONSTANTS
  Byte,      \* the values of a byte
  Capacity   \* the most bytes the channel holds, sent or not

VARIABLES
  pending,   \* pushed, not yet sent
  sent,      \* sent, not yet taken
  taken      \* what the consumer's last pop returned

vars == <<pending, sent, taken>>

\* The strings of 1 to Capacity bytes.
ByteString == UNION { [1..n -> Byte] : n \in 1..Capacity }

Init ==
  /\ pending = <<>>
  /\ sent = <<>>
  /\ taken = <<>>

Push(data) ==
  /\ Len(pending) + Len(sent) + Len(data) <= Capacity
  /\ pending' = pending \o data
  /\ UNCHANGED <<sent, taken>>

Send ==
  /\ sent' = sent \o pending
  /\ pending' = <<>>
  /\ UNCHANGED taken

Take(n) ==
  /\ n <= Len(sent)
  /\ taken' = SubSeq(sent, 1, n)
  /\ sent' = SubSeq(sent, n + 1, Len(sent))
  /\ UNCHANGED pending

\* The consumer throws away all that was sent.
Clear ==
  /\ sent' = <<>>
  /\ UNCHANGED <<pending, taken>>

Reset ==
  /\ pending' = <<>>
  /\ sent' = <<>>
  /\ UNCHANGED taken

Next ==
  \/ Send
  \/ Clear
  \/ Reset
  \/ \E n \in 1..Capacity : Take(n)
  \/ \E data \in ByteString : Push(data)

Spec == Init /\ [][Next]_vars

=============================================================================
