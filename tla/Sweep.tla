------------------------------- MODULE Sweep --------------------------------
(***************************************************************************)
(* What every sweep driver promises, whatever it measures: the records of *)
(* the grid's rows are printed one at a time, in order, none rewritten    *)
(* once printed, never more than the grid has, and once all are printed   *)
(* the driver cleans up and ends.  A per-sample failure shows in a record *)
(* and never ends the sweep early (the error model of the Experiment      *)
(* Orchestrator: per-sample kinds are downgraded to a recorded failure).  *)
(***************************************************************************)
EXTENDS Integers, Sequences

CONSTANT NumRows

VARIABLES
  printed,    \* the records on stdout/the log, in order
  finished    \* the driver has run net.stop() and exited

vars == <<printed, finished>>

Init == printed = << >> /\ finished = FALSE

(* One more record, whatever it holds, after the ones already printed.   *)
PrintRow ==
  /\ ~finished
  /\ Len(printed) < NumRows
  /\ Len(printed') = Len(printed) + 1
  /\ SubSeq(printed', 1, Len(printed)) = printed
  /\ UNCHANGED finished

Finish ==
  /\ ~finished
  /\ Len(printed) = NumRows
  /\ finished' = TRUE
  /\ UNCHANGED printed

Next == PrintRow \/ Finish

(* The driver is one thread whose every command returns, so it keeps     *)
(* going until it has finished.  A record is any value, so the liveness   *)
(* is stated as that outcome rather than as fairness on PrintRow.        *)
Spec == Init /\ [][Next]_vars /\ <>finished
=============================================================================
