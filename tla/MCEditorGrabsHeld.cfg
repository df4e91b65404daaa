\* Two editors, one of which closes mid-drag.
CONSTANTS
  Editors = {e1, e2}
  Parameters = {p1, p2}
  DawParameters = {p1}
SPECIFICATION Spec
INVARIANT GestureIsHeld
