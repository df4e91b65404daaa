---------------------------- MODULE MCTwoThreads ----------------------------
(* What the audio thread and the user interface share, one in each          *)
(* behaviour: the bytes of a fifo (a ring of four cells, two-valued bytes)  *)
(* and the two stores of parameters.                                        *)
EXTENDS LockFreeFifo, ParameterSync

CONSTANTS knob, scope, patch

VARIABLE shared

MCInit ==
  /\ shared \in {"bytes", "parameters"}
  /\ FifoInit
  /\ shared = "parameters" => m_que = [i \in Index |-> CHOOSE b \in Byte : TRUE]
  /\ Init

MCNext ==
  /\ UNCHANGED shared
  /\ \/ shared = "bytes" /\ FifoNext /\ UNCHANGED vars
     \/ shared = "parameters" /\ Next /\ UNCHANGED fifoVars

MCSpec == MCInit /\ [][MCNext]_<<shared, fifoVars, vars>>

=============================================================================
