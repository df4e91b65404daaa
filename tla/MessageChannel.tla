--------------------------- MODULE MessageChannel ---------------------------
(***************************************************************************)
(* What interThreadQue promises: whole messages come out in the order they *)
(* were completely written, unchanged, each exactly once, however they     *)
(* were cut into chunks and whenever their bytes became visible.           *)
(***************************************************************************)
EXTENDS Integers, Sequences

CONSTANTS
  Message,
  NoMessage   \* not a Message: nothing has been delivered yet

VARIABLES
  queue,      \* written, not yet delivered
  delivered   \* what onQueMessageReady was given last

vars == <<queue, delivered>>

Init ==
  /\ queue = <<>>
  /\ delivered = NoMessage

Write(m) ==
  /\ queue' = Append(queue, m)
  /\ UNCHANGED delivered

Deliver ==
  /\ queue # <<>>
  /\ delivered' = Head(queue)
  /\ queue' = Tail(queue)

Reset ==
  /\ queue' = <<>>
  /\ UNCHANGED delivered

Next ==
  \/ \E m \in Message : Write(m)
  \/ Deliver
  \/ Reset

Spec == Init /\ [][Next]_vars

=============================================================================
