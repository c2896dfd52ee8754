----------------------------- MODULE SharedParts -----------------------------
(* What the workers of one scan share, each component on its own: which is  *)
(* the one that a behaviour is about, and the variables of the others are   *)
(* Unused.  The components do not touch each other's state; a variable here *)
(* stands for the one of that name in each module that has it.              *)
EXTENDS Integers, Sequences, FiniteSets

CONSTANTS
  Workers,
  BatchSlots, Interval, Horizon,                    \* of the pacer
  Conns, Addrs, MaxSize,                            \* of the connection pool
  Latencies, RateLimit, WindowSize, MaxProbes,      \* of the rate controller
  Jobs, OpenPorts, IDs, MaxNoise, Starts,           \* of an idle scan
  Probes, Remote, ScanTypes, RawDecoys,             \* of raw probes
  XDPDecoys, OnLink, Fragments,                     \* of those over AF_XDP
  Attempts, UDPAttempts,
  Unused          \* a variable that the behaviour is not about

VARIABLES
  which,
  pc, sent, attempt, state, answered,     \* in more than one of them
  now, lastTick, batchRemaining, rem, last, seen, wake, refills, windows, since,
  idle, expired, open, peer, addr, conn,
  srtt, rttvar, inited, ratePPS, lost, job, loaded, losses, history,
  counter, waiter, receiving, acks, rsts, initialID, unanswered, noise,
  disturbed, raisers, retried,
  scanType, port, net, waiters, rx, rxChan, buffered, unheard,
  nextHops, alive,
  named, spoofed, sockErr, service, inTime

probing == <<attempt, state, answered>>
pacing  == <<now, lastTick, batchRemaining, rem, last, seen, wake, refills, windows, since>>
pooling == <<idle, expired, open, peer, addr, conn>>
rating  == <<srtt, rttvar, inited, ratePPS, lost, job, loaded, losses, history>>
idling  == <<counter, waiter, receiving, acks, rsts, initialID, unanswered,
             noise, disturbed, raisers, retried>>
waiting == <<scanType, port, net, waiters, rx, rxChan, buffered, unheard>>
hopping == <<nextHops, alive>>
asking  == <<named, spoofed, sockErr, service, inTime>>
vars == <<which, pc, sent, probing, pacing, pooling, rating, idling, waiting, hopping,
          asking>>

Pace == INSTANCE PacerProofs
Pool == INSTANCE ConnPool
Rate == INSTANCE RateController
Idle == INSTANCE IdleScan
Wait == INSTANCE ProbeWaiters WITH Decoys <- RawDecoys
XDP == INSTANCE XDPProbes WITH Probes <- Probes \cup XDPDecoys, Decoys <- XDPDecoys
UDP == INSTANCE UDPProbe WITH Attempts <- UDPAttempts
ASSUME SharedAssumption ==
  /\ Pace!PacerAssumption /\ Pool!PoolAssumption /\ Rate!RateAssumption
  /\ Idle!IdleAssumption /\ Wait!ProbeAssumption /\ XDP!XDPProbeAssumption
  /\ UDP!UDPAssumption

\* The variables of the components a behaviour is not about.
NoProbing ==
  /\ attempt = Unused /\ state = Unused /\ answered = Unused
NoPacing ==
  /\ now = Unused /\ lastTick = Unused /\ batchRemaining = Unused
  /\ rem = Unused /\ last = Unused /\ seen = Unused /\ wake = Unused
  /\ refills = Unused /\ windows = Unused /\ since = Unused
NoRating ==
  /\ srtt = Unused /\ rttvar = Unused /\ inited = Unused /\ ratePPS = Unused
  /\ lost = Unused /\ job = Unused /\ loaded = Unused /\ losses = Unused
  /\ history = Unused
NoIdling ==
  /\ counter = Unused /\ waiter = Unused /\ receiving = Unused
  /\ acks = Unused /\ rsts = Unused /\ initialID = Unused
  /\ unanswered = Unused /\ noise = Unused /\ disturbed = Unused
  /\ raisers = Unused /\ retried = Unused
NoWaiting ==
  /\ scanType = Unused /\ port = Unused /\ net = Unused /\ waiters = Unused
  /\ rx = Unused /\ rxChan = Unused /\ buffered = Unused /\ unheard = Unused
NoHopping == nextHops = Unused /\ alive = Unused
NoAsking ==
  /\ named = Unused /\ spoofed = Unused /\ sockErr = Unused
  /\ service = Unused /\ inTime = Unused
NoPooling ==
  /\ idle = Unused /\ expired = {} /\ open = Unused /\ peer = Unused
  /\ addr = Unused /\ conn = Unused

Init ==
  \/ /\ which = "pacer" /\ Pace!Init
     /\ NoProbing /\ NoRating /\ NoIdling /\ NoWaiting
     /\ NoPooling /\ NoHopping /\ NoAsking
  \/ /\ which = "pool" /\ Pool!Init
     /\ sent = Unused /\ NoProbing /\ NoPacing /\ NoRating /\ NoIdling /\ NoWaiting
     /\ NoHopping /\ NoAsking
  \/ /\ which = "rate" /\ Rate!Init
     /\ NoProbing /\ NoPacing /\ NoIdling /\ NoWaiting
     /\ NoPooling /\ NoHopping /\ NoAsking
  \/ /\ which = "idle" /\ Idle!Init
     /\ sent = Unused /\ NoPacing /\ NoRating /\ NoWaiting
     /\ NoPooling /\ NoHopping /\ NoAsking
  \/ /\ which = "probes" /\ Wait!Init
     /\ sent = Unused /\ NoPacing /\ NoRating /\ NoIdling
     /\ NoPooling /\ NoHopping /\ NoAsking
  \/ /\ which = "xdp probes" /\ XDP!Init
     /\ NoPacing /\ NoRating /\ NoIdling /\ NoPooling
     /\ NoAsking
  \/ /\ which = "udp" /\ UDP!Init
     /\ sent = Unused /\ answered = Unused
     /\ scanType = Unused /\ waiters = Unused /\ rxChan = Unused
     /\ buffered = Unused /\ unheard = Unused
     /\ NoPacing /\ NoRating /\ NoIdling /\ NoPooling /\ NoHopping

Next ==
  /\ UNCHANGED which
  /\ \/ /\ which = "pacer" /\ Pace!Next
        /\ UNCHANGED <<probing, pooling, rating, idling, waiting, hopping,
                       asking>>
     \/ /\ which = "pool" /\ Pool!Next
        /\ UNCHANGED <<sent, probing, pacing, rating, idling, waiting, hopping,
                       asking>>
     \/ /\ which = "rate" /\ Rate!Next
        /\ UNCHANGED <<probing, pacing, pooling, idling, waiting, hopping,
                       asking>>
     \/ /\ which = "idle" /\ Idle!Next
        /\ UNCHANGED <<sent, pacing, pooling, rating, waiting, hopping,
                       asking>>
     \/ /\ which = "probes" /\ Wait!Next
        /\ UNCHANGED <<sent, pacing, pooling, rating, idling, hopping,
                       asking>>
     \/ /\ which = "xdp probes" /\ XDP!Next
        /\ UNCHANGED <<pacing, pooling, rating, idling, asking>>
     \/ /\ which = "udp" /\ UDP!Next
        /\ UNCHANGED <<sent, answered, pacing, pooling, rating, idling, hopping,
                       scanType, waiters, rxChan, buffered, unheard>>

Spec == Init /\ [][Next]_vars

-----------------------------------------------------------------------------
(* Properties *)

\* Every batch's send slots are spent once each, whoever refills
\* (adaptive_rate.go's acquireBatched).
SlotsConserved == which = "pacer" => Pace!TypeOK /\ Pace!SlotsConserved

\* The workers together keep to the average rate, but for a batch of each that
\* is under way: the windows they reserve do not overlap, and no idle time is
\* banked (adaptive_rate.go's WaitN).
AverageRate == which = "pacer" => Pace!WindowsDisjoint /\ Pace!AverageRate

\* No two workers of the connection pool have the same connection, nor one to
\* another address than theirs; none is used after it is closed, or left open
\* with no owner (connpool/pool.go, connect.go).
OneOwner ==
  which = "pool" => /\ Pool!TypeOK /\ Pool!OneOwner
                    /\ Pool!OpenExactlyWhileOwned /\ Pool!ReusedForItsAddress

\* No report to the adaptive limiter and no loss is dropped or counted twice,
\* and the shared estimate of the round-trip time stays among the samples
\* (adaptive_rate.go's Report and Sample).
LossesConserved ==
  which = "rate" => Rate!LossesConserved /\ Rate!SettledWithinSamples

\* A job of an idle scan is misled by nothing but another packet of the zombie's
\* between its two readings, or a reading that is itself late; and one that has
\* the zombie to itself and times out never is not misled at all (idle.go).
OnlyDisturbedMislead == which = "idle" => Idle!OnlyDisturbedMislead

\* A probe's verdict is what the probed host itself answered, over raw sockets
\* (raw_tcp.go), over AF_XDP, where a next hop is resolved once and before the
\* first frame (xdp.go), and over a connected UDP socket (udp.go).
VerdictIsTheHosts ==
  /\ which = "probes"     => Wait!TypeOK /\ Wait!VerdictIsTheHosts
  /\ which = "xdp probes" => XDP!VerdictIsTheHosts
  /\ which = "udp"        => UDP!VerdictIsTheHosts

\* No reply is missed by a probe that waits for it: without decoys over raw
\* sockets, and with them over AF_XDP, where they register no waiter
\* (raw_tcp.go:212-221, xdp_waiters.go); over UDP, also one that answers an
\* earlier attempt (udp.go).
NoReplyUnheard ==
  /\ which = "probes"     => Wait!NoReplyUnheard
  /\ which = "xdp probes" => XDP!NoReplyUnheard
  /\ which = "udp"        => UDP!NoReplyUnheard

\* No reply buffered during one attempt is taken for a later attempt's
\* (raw_tcp.go:241, xdp.go:865-870).
DrainDiscards ==
  [][ /\ which = "probes"     => Wait!TakesOnlyFresh
      /\ which = "xdp probes" => XDP!TakesOnlyFresh ]_vars
=============================================================================
