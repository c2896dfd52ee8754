--------------------------- MODULE MCProbeWaiters ---------------------------
(* Instances of ProbeWaiters for TLC. *)
EXTENDS ProbeWaiters, TLC

CONSTANTS p1, p2, d1

\* The same port of two hosts: what tells the replies apart is the address.
TwoHosts == p1 :> <<"a", 80>> @@ p2 :> <<"b", 80>>
\* A probe and a decoy of it.
OneHost  == p1 :> <<"a", 80>> @@ d1 :> <<"a", 80>>
=============================================================================
