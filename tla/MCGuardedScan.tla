--------------------------- MODULE MCGuardedScan ---------------------------
(* The instance of GuardedScan for TLC. *)
EXTENDS GuardedScan

\* Four probes of one target, two of another between them.
DupTargets  == <<"a", "b", "a">>
TwoPorts    == <<22, 502>>
\* A state the Progress has a count for, and one it has none for.
TwoVerdicts == {"filtered", "unfiltered"}

\* Against a baseline of 20, 23 is exactly +15% and 24 above it; 0
\* stands for a reply whose time was not measured.
Times == {0, 20, 23, 24}
=============================================================================
