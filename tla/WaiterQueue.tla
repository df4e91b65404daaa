---------------------------- MODULE WaiterQueue ----------------------------
(***************************************************************************)
(* What QueuedUsers promises the objects that wait for room in a message   *)
(* queue: a client that has something new waits in a first-come            *)
(* first-served line, is there at most once, and keeps its place until the *)
(* end of the GUI frame in which it was serviced.  A client that changes   *)
(* after it was serviced goes back to the end of the line instead of being *)
(* forgotten.  No pointers, no frame counting, no bytes.                   *)
(***************************************************************************)
EXTENDS Integers, Sequences

CONSTANT Clients

VARIABLES
  waiting,   \* the line, first come first
  serviced,  \* how many at its front were serviced in this GUI frame
  dirty      \* the clients whose newest value was not sent

vars == <<waiting, serviced, dirty>>

InLine == { waiting[i] : i \in 1..Len(waiting) }

Init ==
  /\ waiting = <<>>
  /\ serviced = 0
  /\ dirty = {}

\* Client c has a new value.
Add(c) ==
  /\ dirty' = dirty \cup {c}
  /\ waiting' = IF c \in InLine THEN waiting ELSE Append(waiting, c)
  /\ UNCHANGED serviced

\* The first client not yet serviced is given its message.
Service ==
  /\ serviced < Len(waiting)
  /\ dirty' = dirty \ {waiting[serviced + 1]}
  /\ serviced' = serviced + 1
  /\ UNCHANGED waiting

\* A serviced client leaves the line, or goes to its end.
Remove ==
  /\ serviced > 0
  /\ waiting' = IF Head(waiting) \in dirty
                  THEN Append(Tail(waiting), Head(waiting))
                  ELSE Tail(waiting)
  /\ serviced' = serviced - 1
  /\ UNCHANGED dirty

\* The clients were deleted; the new ones have never asked for anything.
Reset ==
  /\ waiting' = <<>>
  /\ serviced' = 0
  /\ dirty' = {}

Next ==
  \/ \E c \in Clients : Add(c)
  \/ Service
  \/ Remove
  \/ Reset

Spec == Init /\ [][Next]_vars

-----------------------------------------------------------------------------
(* Properties *)

\* Every variable has its type.
TypeOK ==
  /\ waiting \in Seq(Clients)
  /\ serviced \in 0..Len(waiting)
  /\ dirty \subseteq Clients

\* No client is in line twice.
NoDuplicates ==
  \A i, j \in 1..Len(waiting) : waiting[i] = waiting[j] => i = j

\* No update is lost: a client whose newest value was not sent is in line.
DirtyIsInLine == dirty \subseteq InLine

\* No turn is wasted: everyone still to be serviced has something new.
UnservicedIsDirty ==
  \A i \in 1..Len(waiting) : i > serviced => waiting[i] \in dirty

\* First come, first served: of two clients that wait for their turn the one
\* ahead stays ahead, whatever changes, until the line is thrown away.
KeepsItsPlace ==
  [][\A i, j \in 1..Len(waiting) :
       serviced < i /\ i < j =>
         \/ Reset
         \/ \E k, m \in 1..Len(waiting') :
              k < m /\ waiting'[k] = waiting[i] /\ waiting'[m] = waiting[j]]_vars

=============================================================================
