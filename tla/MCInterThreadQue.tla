-------------------------- MODULE MCInterThreadQue --------------------------
(* InterThreadQue with a fifo of some bytes, headers of two, a small message *)
(* and one or two that only go in chunks.                                   *)
EXTENDS InterThreadQue

CONSTANTS note, blob, text

MCLength == [m \in Message |-> IF m = note THEN 1 ELSE IF m = blob THEN 7 ELSE 11]

=============================================================================
