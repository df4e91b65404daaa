----------------------------- MODULE SharedBlobs -----------------------------
(***************************************************************************)
(* A pool of SharedBlobView (Helpers/SharedBlob.h) whose pointers go from  *)
(* one module's ObjectOutPin to the ObjectInPins of others (Core/          *)
(* Processor.h).  "The view does NOT own the bytes it points at": the      *)
(* sender reuses a view, and the storage under it, once inUse() is false.  *)
(*                                                                         *)
(* The host between the pins is external.  It carries pointers, not data,  *)
(* and holds a reference for each pointer on its way, which the pin that   *)
(* gets it releases when the next one comes.                               *)
(***************************************************************************)
EXTENDS Integers, Sequences, FiniteSets

CONSTANTS
  Views,     \* the sender's pool
  Pins,      \* input pins
  First,     \* the pin the sender is wired to; it forwards to the others
  Contents,  \* what can be in the storage
  Nothing,
  QueueBound \* pointers on the way to one pin

SharedBlobsAssumption ==
  /\ IsFiniteSet(Pins) /\ First \in Pins
  /\ Nothing \notin Views
  /\ QueueBound \in Nat \ {0}

VARIABLES
  data_,       \* what each view points at
  refCount2_,
  wire,        \* for each pin the pointers on their way, with what was sent
  value_       \* for each pin the pointer it has, with what was sent

vars == <<data_, refCount2_, wire, value_>>

Pointer(v) == [view |-> v, content |-> data_[v]]
Null == [view |-> Nothing, content |-> Nothing]

counted(counts, v, change) == IF v = Nothing THEN counts ELSE [counts EXCEPT ![v] = @ + change]

-----------------------------------------------------------------------------
Init ==
  /\ data_ = [v \in Views |-> Nothing]
  /\ refCount2_ = [v \in Views |-> 1]
  /\ wire = [p \in Pins |-> <<>>]
  /\ value_ = [p \in Pins |-> Null]

\* Mutant of inUse: the first reference is not seen.
inUseByTwo(v) == refCount2_[v] > 2

inUse(v) == refCount2_[v] > 1

\* The pool's owner tries a view for fresh data; set refuses one in flight.
set(v, content) ==
  /\ ~inUse(v)
  /\ data_' = [data_ EXCEPT ![v] = content]
  /\ UNCHANGED <<refCount2_, wire, value_>>

\* ObjectOutPin's operator=, through the host's setPin.
Send(p, pointer) ==
  /\ Len(wire[p]) < QueueBound
  /\ wire' = [wire EXCEPT ![p] = Append(@, pointer)]
  /\ refCount2_' = counted(refCount2_, pointer.view, 1)
  /\ UNCHANGED <<data_, value_>>

send(v) == Send(First, Pointer(v))

sendNull == Send(First, Null)

\* "Forward an object arriving on any input pin, preserving its original
\* identity."
forward(p) == Send(p, [value_[First] EXCEPT !.content =
                         IF value_[First].view = Nothing THEN Nothing ELSE data_[value_[First].view]])

\* preProcessEvent of ObjectInPin.  What queryInterface adds for typed_ is
\* released at once: "value_ keeps the object alive".
preProcessEvent(p) ==
  /\ wire[p] # <<>>
  /\ refCount2_' = counted(refCount2_, value_[p].view, -1)
  /\ value_' = [value_ EXCEPT ![p] = Head(wire[p])]
  /\ wire' = [wire EXCEPT ![p] = Tail(@)]
  /\ UNCHANGED data_

Next ==
  \/ \E v \in Views : send(v) \/ \E content \in Contents : set(v, content)
  \/ sendNull
  \/ \E p \in Pins \ {First} : forward(p)
  \/ \E p \in Pins : preProcessEvent(p)

Spec == Init /\ [][Next]_vars

-----------------------------------------------------------------------------
(* Properties *)

PointerType == [view : Views \cup {Nothing}, content : Contents \cup {Nothing}]

\* Every variable has its type.
TypeOK ==
  /\ data_ \in [Views -> Contents \cup {Nothing}]
  /\ refCount2_ \in [Views -> Nat \ {0}]
  /\ wire \in [Pins -> Seq(PointerType)]
  /\ value_ \in [Pins -> PointerType]

\* "the caller keeps the storage alive for as long as the blob is still
\* referenced by a downstream module": whoever has a pointer to a view, or is
\* about to get one, first or second hand, reads through it what was sent.
\* And a view that nobody can reach is free for the pool again.
BlobsStayWhileReferenced ==
  /\ TypeOK
  /\ \A p \in Pins :
       /\ value_[p].view # Nothing => data_[value_[p].view] = value_[p].content
       /\ \A i \in DOMAIN wire[p] :
            wire[p][i].view # Nothing => data_[wire[p][i].view] = wire[p][i].content
  /\ \A v \in Views :
       (\A p \in Pins : value_[p].view # v /\ \A i \in DOMAIN wire[p] : wire[p][i].view # v)
         => ~inUse(v)

=============================================================================
