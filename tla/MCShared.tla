------------------------------ MODULE MCShared ------------------------------
(* An instance of SharedParts for TLC. *)
EXTENDS SharedParts, TLC

CONSTANTS p1, p2, d1

\* The same port of two hosts: what tells the replies apart is the address.
\* Over AF_XDP a decoy probes the first host too, which is behind the gateway;
\* the other host is on the scanner's own network.
TwoHosts == p1 :> <<"a", 80>> @@ d1 :> <<"a", 80>> @@ p2 :> <<"b", 80>>
=============================================================================
