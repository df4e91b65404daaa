--------------------------- MODULE MCParameterSync ---------------------------
(* ParameterSync with a parameter of each kind a configuration asks for.      *)
EXTENDS ParameterSync

CONSTANTS knob, scope, patch

=============================================================================
