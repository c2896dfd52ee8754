---------------------------- MODULE MCScanEngine ----------------------------
(* The instance of ScanEngine for TLC. *)
EXTENDS ScanEngine

\* Five jobs, one more than a channel of two workers holds; one address is
\* listed twice.
DupTargets == <<"a", "b", "a", "c", "d">>
OnePort    == <<443>>

\* The pipeline treats every state alike; GuardedScan's run has more of them.
OneVerdict == {"filtered"}
=============================================================================
