------------------------------ MODULE XDPProbes ------------------------------
(* Probes over the AF_XDP engine: ScanXDPPort and ScanXDPUDPPort of           *)
(* scan/xdp.go, the table of waiters of xdp_waiters.go, and the next hop's    *)
(* address, which a frame the engine builds itself must carry (nexthop.go).   *)
(* As the raw sockets' probes (ProbeWaiters) they register, send and wait;    *)
(* the decoys, which there register too, here only send.                      *)
EXTENDS Naturals, Sequences

CONSTANTS
  Probes, Decoys,   \* the goroutines that send, those from a decoy's address
  Remote,           \* Remote[p]: the <<host, port>> p probes
  OnLink,           \* hosts of the interface's own network
  Fragments,        \* the frames a probe is sent in
  Attempts          \* probeAttempts(opts)

XDPProbeAssumption ==
  /\ Decoys \subseteq Probes
  /\ Fragments \in Nat \ {0} /\ Attempts \in Nat \ {0}

Remotes == { Remote[p] : p \in Probes }
NoOne == "no one"

VARIABLES
  scanType,       \* "syn" or "udp", the same for every probe of a scan
  port,           \* port[r]: "open", "closed" or "silent"
  net,            \* replies on their way, [to, attempt, says]
  waiters,        \* xdpWaiters: the probe registered under each key
  rx,             \* what the RX loop holds: <<>> or <<reply, probe found>>
  rxChan,         \* rxChan[p]: p's channel of capacity 1
  pc, attempt, state,
  sent,           \* sent[p]: frames of the attempt queued
  nextHops,       \* nextHopMACs: "none", "resolving", "known" or "broadcast"
  alive,          \* xdpDiscovery: hosts a reply has come from
  answered, buffered, unheard   \* histories, as in ProbeWaiters

env == <<scanType, port>>
receiving == <<net, waiters, rx, rxChan, alive, buffered, unheard>>
vars == <<env, receiving, pc, attempt, state, sent, nextHops, answered>>

\* The target itself on its own network, the gateway elsewhere.
nextHopIP(p) == IF Remote[p][1] \in OnLink THEN Remote[p][1] ELSE "gateway"
Hops == { nextHopIP(p) : p \in Probes }
Resolved(p) == nextHops[nextHopIP(p)] \in {"known", "broadcast"}

\* What a port says to a probe, and what the loop makes of a frame: of TCP only
\* a SYN/ACK or a RST, of ICMP only a port that is unreachable.
Reply(status) ==
  CASE status = "silent" -> {}
    [] status = "open"   -> IF scanType = "syn" THEN {"synack"} ELSE {"udp", "nothing"}
    [] status = "closed" -> IF scanType = "syn" THEN {"rst"} ELSE {"unreachable"}
Delivers(says) == says \in {"synack", "rst", "udp", "unreachable"}
Classify(says) == IF says \in {"synack", "udp"} THEN "open" ELSE "closed"
NoReply == IF scanType = "syn" THEN "filtered" ELSE "open|filtered"

Init ==
  /\ scanType \in {"syn", "udp"}
  /\ port \in [Remotes -> {"open", "closed", "silent"}]
  /\ net = {} /\ rx = <<>> /\ alive = {}
  /\ waiters = [k \in Remotes |-> NoOne]
  /\ rxChan = [p \in Probes |-> <<>>]
  /\ pc = [p \in Probes |-> "new"]
  /\ attempt = [p \in Probes |-> 0] /\ sent = [p \in Probes |-> 0]
  /\ state = [p \in Probes |-> ""]
  /\ nextHops = [h \in Hops |-> "none"]
  /\ answered = [p \in Probes |-> 0] /\ buffered = [p \in Probes |-> 0]
  /\ unheard = {}

\* dstMACFor: the first probe to a next hop asks for its address, the others
\* wait for the one answer, which is kept: broadcast, if there was none.
Ask(p) ==
  /\ pc[p] = "new" /\ nextHops[nextHopIP(p)] = "none"
  /\ nextHops' = [nextHops EXCEPT ![nextHopIP(p)] = "resolving"]
  /\ pc' = [pc EXCEPT ![p] = "asking"]
  /\ UNCHANGED <<env, receiving, attempt, state, sent, answered>>

Answer(p) ==
  /\ pc[p] = "asking"
  /\ \E found \in {"known", "broadcast"} :
       nextHops' = [nextHops EXCEPT ![nextHopIP(p)] = found]
  /\ pc' = [pc EXCEPT ![p] = "new"]
  /\ UNCHANGED <<env, receiving, attempt, state, sent, answered>>

\* A decoy's frame goes out from its own goroutine, with no waiter: its reply
\* goes to the decoy.
SendDecoy(p) ==
  /\ p \in Decoys /\ pc[p] = "new" /\ Resolved(p)
  /\ pc' = [pc EXCEPT ![p] = "done"]
  /\ UNCHANGED <<env, receiving, attempt, state, sent, nextHops, answered>>

\* registerXDPWaiter, before the first frame.
Register(p) ==
  /\ p \notin Decoys /\ pc[p] = "new" /\ Resolved(p)
  /\ waiters' = [waiters EXCEPT ![Remote[p]] = p]
  /\ pc' = [pc EXCEPT ![p] = "drain"]
  /\ UNCHANGED <<env, net, rx, rxChan, alive, buffered, unheard, attempt, state, sent,
                 nextHops, answered>>

Emptied(p) == [rxChan EXCEPT ![p] = <<>>]

\* An attempt begins without what an earlier one left, and waits its turn.
Begin(p) ==
  /\ pc[p] = "drain"
  /\ attempt' = [attempt EXCEPT ![p] = @ + 1]
  /\ rxChan' = Emptied(p)
  /\ sent' = [sent EXCEPT ![p] = 0]
  /\ pc' = [pc EXCEPT ![p] = "xmit"]
  /\ UNCHANGED <<env, net, waiters, rx, alive, buffered, unheard, state, nextHops, answered>>

\* transmitXDPFrames queues a frame; when the last is out the port may answer,
\* unless the frames went to the broadcast address.
Queue(p) ==
  /\ pc[p] = "xmit"
  /\ sent' = [sent EXCEPT ![p] = @ + 1]
  /\ \/ net' = net
     \/ /\ sent'[p] = Fragments /\ nextHops[nextHopIP(p)] = "known"
        /\ \E says \in Reply(port[Remote[p]]) \cup {"other"} :
             net' = net \cup {[to |-> p, attempt |-> attempt[p], says |-> says]}
  /\ pc' = [pc EXCEPT ![p] = IF sent'[p] = Fragments THEN "wait" ELSE @]
  /\ UNCHANGED <<env, waiters, rx, rxChan, alive, buffered, unheard, attempt, state, nextHops,
                 answered>>

\* The queue is full: the probe ends here, whatever of it was sent.
Congested(p) ==
  /\ pc[p] = "xmit"
  /\ state' = [state EXCEPT ![p] = "filtered"]
  /\ pc' = [pc EXCEPT ![p] = "release"]
  /\ UNCHANGED <<env, receiving, attempt, sent, nextHops, answered>>

Receive(p) ==
  /\ pc[p] = "wait" /\ rxChan[p] # <<>>
  /\ state' = [state EXCEPT ![p] = Classify(Head(rxChan[p]).says)]
  /\ answered' = [answered EXCEPT ![p] = Head(rxChan[p]).attempt]
  /\ rxChan' = [rxChan EXCEPT ![p] = <<>>]
  /\ pc' = [pc EXCEPT ![p] = "release"]
  /\ UNCHANGED <<env, net, waiters, rx, alive, buffered, unheard, attempt, sent, nextHops>>

Timeout(p) ==
  /\ pc[p] = "wait"
  /\ state' = [state EXCEPT ![p] = IF attempt[p] < Attempts THEN @ ELSE NoReply]
  /\ pc' = [pc EXCEPT ![p] = IF attempt[p] < Attempts THEN "drain" ELSE "release"]
  /\ UNCHANGED <<env, receiving, attempt, sent, nextHops, answered>>

\* The deferred release deletes whatever is registered under the key.
Release(p) ==
  /\ pc[p] = "release"
  /\ waiters' = [waiters EXCEPT ![Remote[p]] = NoOne]
  /\ pc' = [pc EXCEPT ![p] = "done"]
  /\ UNCHANGED <<env, net, rx, rxChan, alive, buffered, unheard, attempt, state, sent, nextHops,
                 answered>>

\* handleXDPFrame: any TCP frame shows its host to be alive; what says nothing
\* of a port, or finds no waiter, is dropped.
HandleFrame ==
  /\ rx = <<>>
  /\ \E r \in net :
       LET p == waiters[Remote[r.to]] IN
       /\ net' = net \ {r}
       /\ alive' = IF scanType = "syn" THEN alive \cup {Remote[r.to][1]} ELSE alive
       /\ rx' = IF Delivers(r.says) /\ p # NoOne THEN <<r, p>> ELSE <<>>
       /\ unheard' = IF Delivers(r.says) /\ p # r.to /\ pc[r.to] = "wait"
                     THEN unheard \cup {r.to} ELSE unheard
  /\ UNCHANGED <<env, waiters, rxChan, buffered, pc, attempt, state, sent, nextHops, answered>>

\* deliverXDPResult's send, which never blocks the loop.
Deliver ==
  /\ rx # <<>>
  /\ LET p == rx[2] IN
     IF rxChan[p] = <<>>
     THEN /\ rxChan' = [rxChan EXCEPT ![p] = <<rx[1]>>]
          /\ buffered' = [buffered EXCEPT ![p] = attempt[p]]
     ELSE UNCHANGED <<rxChan, buffered>>
  /\ rx' = <<>>
  /\ UNCHANGED <<env, net, waiters, alive, unheard, pc, attempt, state, sent, nextHops, answered>>

Lose ==
  /\ \E r \in net : net' = net \ {r}
  /\ UNCHANGED <<env, waiters, rx, rxChan, alive, buffered, unheard, pc, attempt, state, sent,
                 nextHops, answered>>

Probe(p) ==
  \/ Ask(p) \/ Answer(p) \/ SendDecoy(p) \/ Register(p) \/ Begin(p) \/ Queue(p)
  \/ Congested(p) \/ Receive(p) \/ Timeout(p) \/ Release(p)

Next == (\E p \in Probes : Probe(p)) \/ HandleFrame \/ Deliver \/ Lose
Spec == Init /\ [][Next]_vars

-----------------------------------------------------------------------------
(* Properties *)

\* A verdict is what the probed port itself answered, on whichever attempt, and
\* a host is alive only if it answered; one probe resolves a next hop, and
\* none sends before it is resolved (xdp.go:194-221, 556-657, 801-1053).
VerdictIsTheHosts ==
  /\ \A p \in Probes \ Decoys :
       /\ state[p] = "open"   => port[Remote[p]] = "open"
       /\ (state[p] = "open" /\ scanType = "syn") => Remote[p][1] \in alive
       /\ state[p] = "closed" => port[Remote[p]] = "closed"
       /\ state[p] = "open|filtered" => scanType = "udp"
       /\ attempt[p] > 0 => Resolved(p)
  /\ \A h \in Hops : \A p, q \in Probes :
       (pc[p] = "asking" /\ pc[q] = "asking" /\ nextHopIP(p) = h /\ nextHopIP(q) = h) => p = q

\* No reply comes to a waiting probe's port and finds another's waiter or none,
\* also with decoys: they register nothing (xdp_waiters.go:26-30).
NoReplyUnheard == unheard = {}

\* A reply buffered during one attempt is not taken for a later one's
\* (xdp.go:865-870).
TakesOnlyFresh ==
  \A p \in Probes : answered'[p] # answered[p] => buffered[p] = attempt[p]
=============================================================================
