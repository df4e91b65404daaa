------------------------------ MODULE EventQue ------------------------------
(***************************************************************************)
(* The list of events that a host fills between two calls of process()     *)
(* (Hosting/processor_holder.h, class EventQue): sorted by time, in the    *)
(* order pushed at one time, and with one value for a pin at one time.     *)
(***************************************************************************)
EXTENDS Integers, Sequences, FiniteSets

\* Mutant of upper_bound: the events are kept in the order pushed.
pushOrder(events, time) == Len(events)

\* How many events are due no later than time.
upper_bound(events, time) == Cardinality({ i \in 1..Len(events) : events[i].timeDelta <= time })

\* The places of the older values for the pin, at the same time.
supersededBy(event, events) ==
  { i \in 1..Len(events) :
      /\ events[i].eventType = "PinSet" /\ event.eventType = "PinSet"
      /\ events[i].timeDelta = event.timeDelta
      /\ events[i].pinIdx = event.pinIdx }

push(events, event) ==
  LET before == upper_bound(events, event.timeDelta)
      older  == supersededBy(event, events)
  IN  IF older # {}
        THEN [events EXCEPT ![CHOOSE i \in older : \A j \in older : j <= i] = event]
        ELSE SubSeq(events, 1, before) \o <<event>> \o SubSeq(events, before + 1, Len(events))

\* "Insert in sorted order ... A newer PinSet on the same pin at the same time
\* supersedes the older one".
Sorted(events) ==
  \A i, j \in 1..Len(events) : i < j => events[i].timeDelta <= events[j].timeDelta

OneValueAtATime(events) ==
  \A i \in 1..Len(events) : supersededBy(events[i], events) \subseteq {i}

=============================================================================
