---------------------------- MODULE EditorGrabs ----------------------------
(***************************************************************************)
(* The grabs of gmpi_controller_holder: a user who presses the mouse on a  *)
(* control of an editor grabs its parameter (Field::Grab), and the wrapper *)
(* brackets the edits up to the release as one gesture for the host.       *)
(* Several editors may be open; a parameter has one flag for them all.     *)
(* Setting a Grab pin in setPinFromUi and in setParameter is the same.     *)
(***************************************************************************)
EXTENDS Integers

CONSTANTS
  Editors,
  Parameters,
  DawParameters  \* dawTag > -1: the host is told of their gestures

EditorGrabsAssumption == DawParameters \subseteq Parameters

VARIABLES
  m_editors,  \* the open editors
  isGrabbed,  \* the parameters whose flag is set
  gestures,   \* host: for each parameter, the gestures begun less those ended
  held        \* the editors the user holds the mouse down in, with the parameter

vars == <<m_editors, isGrabbed, gestures, held>>

Init ==
  /\ m_editors = {}
  /\ isGrabbed = {}
  /\ gestures = [p \in Parameters |-> 0]
  /\ held = {}

\* setGrab for each of ps: notifyDawGrab is called for those whose flag changes.
setGrab(ps, grabbed) ==
  LET changed == IF grabbed THEN ps \ isGrabbed ELSE ps \cap isGrabbed
      told == changed \cap DawParameters
  IN  /\ isGrabbed' = IF grabbed THEN isGrabbed \cup changed ELSE isGrabbed \ changed
      /\ gestures' = [p \in Parameters |->
                     IF p \in told THEN gestures[p] + (IF grabbed THEN 1 ELSE -1) ELSE gestures[p]]

initUi(e) ==
  /\ e \notin m_editors
  /\ m_editors' = m_editors \cup {e}
  /\ UNCHANGED <<isGrabbed, gestures, held>>

Press(e, p) ==
  /\ e \in m_editors
  /\ <<e, p>> \notin held
  /\ held' = held \cup {<<e, p>>}
  /\ setGrab({p}, TRUE)
  /\ UNCHANGED m_editors

Release(e, p) ==
  /\ <<e, p>> \in held
  /\ held' = held \ {<<e, p>>}
  /\ setGrab({p}, FALSE)
  /\ UNCHANGED m_editors

\* Mutant of unRegisterGui: what the closed editor held stays grabbed.
unRegisterGuiHolding(e) ==
  /\ e \in m_editors
  /\ m_editors' = m_editors \ {e}
  /\ held' = { h \in held : h[1] # e }
  /\ UNCHANGED <<isGrabbed, gestures>>

\* An editor closes, perhaps mid-drag; with the last one every grab ends.
unRegisterGui(e) ==
  /\ e \in m_editors
  /\ m_editors' = m_editors \ {e}
  /\ held' = { h \in held : h[1] # e }
  /\ IF m_editors = {e} THEN setGrab(Parameters, FALSE) ELSE UNCHANGED <<isGrabbed, gestures>>

Next ==
  \/ \E e \in Editors : initUi(e)
  \/ \E e \in Editors, p \in Parameters : Press(e, p)
  \/ \E e \in Editors, p \in Parameters : Release(e, p)
  \/ \E e \in Editors : unRegisterGui(e)

Spec == Init /\ [][Next]_vars

-----------------------------------------------------------------------------
(* Properties *)

\* The host's account of gestures is in balance whoever presses and releases:
\* one is open for each of its parameters that is grabbed, none is begun or
\* ended twice, and none is left without an editor ("which would leave the
\* host's gesture open").
GesturesBalance ==
  /\ gestures = [p \in Parameters |-> IF p \in isGrabbed \cap DawParameters THEN 1 ELSE 0]
  /\ m_editors = {} => isGrabbed = {}

\* "an editor closed mid-drag never sends the release": a gesture lasts no
\* longer than a user holds the parameter in an open editor.
GestureIsHeld ==
  \A p \in Parameters : gestures[p] > 0 => \E e \in m_editors : <<e, p>> \in held

=============================================================================
