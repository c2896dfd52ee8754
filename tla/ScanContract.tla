---------------------------- MODULE ScanContract ----------------------------
(***************************************************************************)
(* What Engine.Execute promises its caller, with no goroutine, channel or  *)
(* batch in sight: every job of the target x port space that the resume    *)
(* file does not already cover is reported exactly once, the ones it does  *)
(* cover are not scanned again, and the call returns only when nothing is  *)
(* left to report.  ScanEngine implements this specification.              *)
(***************************************************************************)
EXTENDS Naturals

CONSTANT Jobs            \* the flattened target x port indices

VARIABLES
  skipped,               \* jobs the checkpoint already holds a result for
  reports,               \* reports[j]: results delivered for job j
  finished               \* the call has returned

contractVars == <<skipped, reports, finished>>

Init ==
  /\ skipped \in SUBSET Jobs
  /\ reports = [j \in Jobs |-> 0]
  /\ finished = FALSE

Report(j) ==
  /\ j \notin skipped
  /\ reports[j] = 0
  /\ ~finished
  /\ reports' = [reports EXCEPT ![j] = 1]
  /\ UNCHANGED <<skipped, finished>>

Finish ==
  /\ ~finished
  /\ \A j \in Jobs \ skipped : reports[j] = 1
  /\ finished' = TRUE
  /\ UNCHANGED <<skipped, reports>>

Next == Finish \/ \E j \in Jobs : Report(j)

SafetySpec == Init /\ [][Next]_contractVars
=============================================================================
