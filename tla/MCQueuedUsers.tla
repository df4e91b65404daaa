--------------------------- MODULE MCQueuedUsers ---------------------------
(* QueuedUsers with a header of one byte and a fifo of nine.                *)
EXTENDS QueuedUsers, TLC

ClientSymmetry == Permutations(Clients)

=============================================================================
