--------------------------- MODULE FilterSettling ---------------------------
(***************************************************************************)
(* FilterBase (Helpers/FilterBase.h): a filter whose input has gone silent *)
(* is watched until its outputs no longer change, and from then on a       *)
(* constant is put out, so that the plugin can be put to sleep.            *)
(*                                                                         *)
(* The filter itself is external: any samples.  Samples that differ by no  *)
(* more than INSIGNIFICANT_SAMPLE are one level.  A slice is a call of the *)
(* sub-process; Processor has where slices come from.                      *)
(***************************************************************************)
EXTENDS Integers, FiniteSets

CONSTANTS
  outputPins,
  Levels,
  Quiet,         \* the level of a buffer nobody has written
  historyCount,  \* 32 in the code
  SliceLengths

FilterSettlingAssumption ==
  /\ historyCount \in Nat \ {0}
  /\ SliceLengths \subseteq Nat \ {0}
  /\ Quiet \in Levels

VARIABLES
  inputStreams,
  subProcess,        \* "filter", "settling" or "static"
  actualSubProcess,
  historyIdx,
  staticOutputs,
  streaming,         \* the status of the output pins
  heard,             \* the last sample of each output
  held               \* for how many samples no output has changed, to historyCount

vars == <<inputStreams, subProcess, actualSubProcess, historyIdx, staticOutputs,
          streaming, heard, held>>

AtMost(n, bound) == IF n < bound THEN n ELSE bound

Samples(n) == [1..n -> [outputPins -> Levels]]

\* The samples at the end of a slice that are all alike.
tail(samples, n) ==
  Cardinality({ i \in 1..n : \A j \in i..n : samples[j] = samples[n] })

\* What the listener knows after a slice.
Hear(samples, n) ==
  /\ heard' = samples[n]
  /\ held' = AtMost(tail(samples, n) + (IF tail(samples, n) = n /\ heard = samples[n] THEN held ELSE 0),
                    historyCount)

-----------------------------------------------------------------------------
Init ==
  /\ inputStreams = TRUE
  /\ subProcess = "filter"
  /\ actualSubProcess = "none"
  /\ historyIdx = 0
  /\ staticOutputs = [p \in outputPins |-> Quiet]
  /\ streaming = TRUE
  /\ heard = [p \in outputPins |-> Quiet]
  /\ held = 0

\* Mutant of initSettling: the count goes on where it was.
initSettlingKeepingCount(current) ==
  IF inputStreams'
    THEN subProcess' = current /\ UNCHANGED <<actualSubProcess, historyIdx>>
    ELSE /\ actualSubProcess' = (IF current # "settling" THEN current ELSE actualSubProcess)
         /\ subProcess' = "settling"
         /\ UNCHANGED historyIdx

\* isFilterSettling() is that the input does not stream.
initSettling(current) ==
  IF inputStreams'
    THEN subProcess' = current /\ UNCHANGED <<actualSubProcess, historyIdx>>
    ELSE /\ actualSubProcess' = (IF current # "settling" THEN current ELSE actualSubProcess)
         /\ subProcess' = "settling"
         /\ historyIdx' = historyCount

\* The filter's onSetPins: "usual stuff first", which sets the sub-process and
\* has the outputs stream, unless it is settling still and goes on; then
\* initSettling.
onSetPins ==
  /\ inputStreams' \in BOOLEAN
  /\ \/ streaming' = TRUE /\ initSettling("filter")
     \/ /\ subProcess = "settling" /\ ~inputStreams'
        /\ initSettling("settling")
        /\ UNCHANGED streaming
  /\ UNCHANGED <<staticOutputs, heard, held>>

\* A slice of the filter's own sub-process.
subProcessFilter(n) ==
  /\ subProcess = "filter"
  /\ \E samples \in Samples(n) : Hear(samples, n)
  /\ UNCHANGED <<inputStreams, subProcess, actualSubProcess, historyIdx, staticOutputs, streaming>>

\* The count after the last todo samples of a slice: a sample at which some
\* output is not where it ends restarts it.
counted(samples, n) ==
  LET todo == AtMost(historyIdx, n)
      moving == { i \in n - todo + 1..n : samples[i] # samples[n] }
  IN  IF moving = {}
        THEN historyIdx - todo
        ELSE historyCount - 1 - (n - CHOOSE i \in moving : \A j \in moving : j <= i)

subProcessSettling(n) ==
  /\ subProcess = "settling"
  /\ historyIdx > 0
  /\ \E samples \in Samples(n) :
       /\ Hear(samples, n)
       /\ staticOutputs' = samples[n]
       /\ historyIdx' = counted(samples, n)
  /\ UNCHANGED <<inputStreams, subProcess, actualSubProcess, streaming>>

Constant(n) == [i \in 1..n |-> staticOutputs]

\* OnFilterSettled, and the slice is the first static one.
OnFilterSettled(n) ==
  /\ subProcess = "settling"
  /\ historyIdx <= 0
  /\ subProcess' = "static"
  /\ streaming' = FALSE
  /\ Hear(Constant(n), n)
  /\ UNCHANGED <<inputStreams, actualSubProcess, historyIdx, staticOutputs>>

subProcessStatic(n) ==
  /\ subProcess = "static"
  /\ Hear(Constant(n), n)
  /\ UNCHANGED <<inputStreams, subProcess, actualSubProcess, historyIdx, staticOutputs, streaming>>

Next ==
  \/ onSetPins
  \/ \E n \in SliceLengths :
       \/ subProcessFilter(n)
       \/ subProcessSettling(n)
       \/ OnFilterSettled(n)
       \/ subProcessStatic(n)

Spec == Init /\ [][Next]_vars

-----------------------------------------------------------------------------
(* Properties *)

\* An output that is said not to stream does not move: what it puts out from
\* then on is the last sample the filter computed, however often the input
\* came and went before.  (A jump would be heard as a click, and the modules
\* downstream sleep.)
SettledOutputsStandStill ==
  [][~streaming' => /\ heard' = heard
                    /\ ~inputStreams' /\ subProcess' # "filter"]_vars

\* "Once EVERY output has held its final value for 'historyCount' samples the
\* filter is settled", and not before.
SettledMeansHeld ==
  [][streaming /\ ~streaming' => held >= historyCount]_vars

=============================================================================
