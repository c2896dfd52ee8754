---------------------------- MODULE ProbeWaiters ----------------------------
(***************************************************************************)
(* Stateless probes over one shared receive loop: internal/scan/raw_tcp.go *)
(* and the scans built on it (syn.go, ack_window.go, stealth.go), and the  *)
(* same scheme in xdp_waiters.go and ScanXDPPort.  A probe registers a     *)
(* one-place channel under a key, sends, and waits for a reply or a        *)
(* timeout, for a number of attempts; the loop looks a reply's key up and  *)
(* puts the reply into the channel it finds, or drops it.                  *)
(*                                                                         *)
(* The key is remote address, remote port and local port.  The local port  *)
(* is the same for every probe of a process, so a key here is a pair of    *)
(* host and port.                                                          *)
(***************************************************************************)
EXTENDS Naturals, Sequences

CONSTANTS
  Probes,         \* the scanners created: for jobs, and for their decoys
  Decoys,         \* those that send from a decoy's address and never receive
  Remote,         \* Remote[p]: the <<host, port>> p probes
  ScanTypes,      \* the scan types: "syn", "ack", "window" or "stealth"
  Attempts        \* probeAttempts(opts)

NoOne == "no one"
ProbeAssumption ==
  /\ NoOne \notin Probes /\ Decoys \subseteq Probes
  /\ ScanTypes \subseteq {"syn", "ack", "window", "stealth"}
  /\ Attempts \in Nat \ {0}

Remotes == { Remote[p] : p \in Probes }
PortOnlyKey(p) == Remote[p][2]
rawRxKey(p) == Remote[p]
Keys == { rawRxKey(p) : p \in Probes }

VARIABLES
  scanType,       \* opts.ScanType, the same for every probe of a process
  port,           \* port[r]: "open", "closed" or "silent" (firewalled)
  net,            \* replies on their way, [to, attempt, flags]
  waiters,        \* rawRxWaiters: the scanner registered under each key
  rx,             \* what rawRxLoop holds: <<>> or <<reply, scanner found>>
  rxChan,         \* rxChan[p]: p's channel of capacity 1
  pc,             \* "new", "drain", "xmit", "wait", "close", "done"
  attempt,        \* attempt[p]: attempts begun
  state,          \* state[p]: res.State so far, "" before any
  answered,       \* history: answered[p], the attempt whose reply p took
  buffered,       \* history: the attempt under way when it was buffered
  unheard         \* history: waiting probes whose reply found another waiter

loopVars == <<rx, rxChan, buffered>>
env == <<scanType, port>>
vars == <<env, net, waiters, loopVars, pc, attempt, state, answered, unheard>>

-----------------------------------------------------------------------------
(* The target's stack and the network. *)

Reply(status) ==
  IF status = "silent" THEN {}
  ELSE CASE scanType = "syn"     -> {IF status = "open" THEN "synack" ELSE "rst"}
         [] scanType = "ack"     -> {"rst"}
         [] scanType = "window"  -> {IF status = "open" THEN "rst+window" ELSE "rst"}
         [] scanType = "stealth" -> IF status = "open" THEN {} ELSE {"rst"}

\* A reply to p's attempt; a middlebox may answer with flags of its own.
RepliesTo(p) ==
  { [to |-> p, attempt |-> attempt[p], flags |-> f] :
      f \in Reply(port[Remote[p]]) \cup {"other"} }

\* The state a reply sets; flags no branch tests for leave it as it was.
Classify(flags, before) ==
  IF flags \notin {"rst", "rst+window"}
  THEN IF flags = "synack" /\ scanType = "syn" THEN "open" ELSE before
  ELSE CASE scanType = "ack"    -> "unfiltered"
         [] scanType = "window" -> IF flags = "rst+window" THEN "open" ELSE "closed"
         [] OTHER               -> "closed"

NoReply == IF scanType = "stealth" THEN "open|filtered" ELSE "filtered"

Init ==
  /\ scanType \in ScanTypes
  /\ port \in [Remotes -> {"open", "closed", "silent"}]
  /\ net = {} /\ rx = <<>>
  /\ waiters = [k \in Keys |-> NoOne]
  /\ rxChan = [p \in Probes |-> <<>>]
  /\ pc = [p \in Probes |-> "new"]
  /\ attempt = [p \in Probes |-> 0]
  /\ state = [p \in Probes |-> ""]
  /\ answered = [p \in Probes |-> 0] /\ buffered = [p \in Probes |-> 0]
  /\ unheard = {}

\* The table once p is in it.
NotRegistered(p) == waiters
Registered(p) == [waiters EXCEPT ![rawRxKey(p)] = p]

\* newRawTCPScanner: the waiter is stored before anything is sent.
Register(p) ==
  /\ pc[p] = "new"
  /\ waiters' = Registered(p)
  /\ pc' = [pc EXCEPT ![p] = "drain"]
  /\ UNCHANGED <<env, net, loopVars, attempt, state, answered, unheard>>

\* p's channel once what it held is discarded.
Undrained(p) == rxChan
Drained(p) == [rxChan EXCEPT ![p] = <<>>]

\* Send begins by discarding what an earlier attempt left in the channel.
Drain(p) ==
  /\ pc[p] = "drain"
  /\ attempt' = [attempt EXCEPT ![p] = @ + 1]
  /\ rxChan' = Drained(p)
  /\ pc' = [pc EXCEPT ![p] = "xmit"]
  /\ UNCHANGED <<env, net, waiters, rx, buffered, state, answered, unheard>>

\* The packet goes out.  A decoy's reply goes to the decoy's address.
Transmit(p) ==
  /\ pc[p] = "xmit"
  /\ \/ net' = net
     \/ p \notin Decoys /\ \E r \in RepliesTo(p) : net' = net \cup {r}
  /\ pc' = [pc EXCEPT ![p] = IF p \in Decoys THEN "close" ELSE "wait"]
  /\ UNCHANGED <<env, waiters, loopVars, attempt, state, answered, unheard>>

SendFailed(p) ==
  /\ pc[p] = "xmit"
  /\ state' = [state EXCEPT ![p] = "filtered"]
  /\ pc' = [pc EXCEPT ![p] = "close"]
  /\ UNCHANGED <<env, net, waiters, loopVars, attempt, answered, unheard>>

\* Receive returns a reply; the scan classifies it and is done.
Receive(p) ==
  /\ pc[p] = "wait" /\ rxChan[p] # <<>>
  /\ LET r == Head(rxChan[p])
     IN  /\ state' = [state EXCEPT ![p] = Classify(r.flags, @)]
         /\ answered' = [answered EXCEPT ![p] = r.attempt]
  /\ rxChan' = [rxChan EXCEPT ![p] = <<>>]
  /\ pc' = [pc EXCEPT ![p] = "close"]
  /\ UNCHANGED <<env, net, waiters, rx, buffered, attempt, unheard>>

\* Receive times out.  A reply that came at the same instant may lose: select
\* chooses among ready cases at random.
Timeout(p) ==
  /\ pc[p] = "wait"
  /\ state' = [state EXCEPT ![p] = NoReply]
  /\ pc' = [pc EXCEPT ![p] = IF attempt[p] < Attempts THEN "drain" ELSE "close"]
  /\ UNCHANGED <<env, net, waiters, loopVars, attempt, answered, unheard>>

\* Close deletes whatever is registered under the key.
Close(p) ==
  /\ pc[p] = "close"
  /\ waiters' = [waiters EXCEPT ![rawRxKey(p)] = NoOne]
  /\ pc' = [pc EXCEPT ![p] = "done"]
  /\ UNCHANGED <<env, net, loopVars, attempt, state, answered, unheard>>

Probe(p) == \/ Register(p) \/ Drain(p) \/ Transmit(p) \/ SendFailed(p)
            \/ Receive(p) \/ Timeout(p) \/ Close(p)

\* rawRxLoop reads a packet and looks for its waiter; the key it computes is
\* the one the probe that provoked the reply has computed.
RxLookup ==
  /\ rx = <<>>
  /\ \E r \in net :
       /\ net' = net \ {r}
       /\ LET p == waiters[rawRxKey(r.to)]
          IN  /\ rx' = IF p = NoOne THEN <<>> ELSE <<r, p>>
              /\ unheard' = IF p # r.to /\ pc[r.to] = "wait"
                               THEN unheard \cup {r.to} ELSE unheard
  /\ UNCHANGED <<env, waiters, rxChan, buffered, pc, attempt, state, answered>>

\* p's channel has room for a reply: it has a capacity of one.
Room(p) == Len(rxChan[p]) < 1

\* The non-blocking send into the channel that was found.
RxPut ==
  /\ rx # <<>>
  /\ LET r == rx[1]
         p == rx[2]
     IN  IF Room(p)
           THEN /\ rxChan' = [rxChan EXCEPT ![p] = Append(@, r)]
                /\ buffered' = [buffered EXCEPT ![p] = attempt[p]]
           ELSE UNCHANGED <<rxChan, buffered>>
  /\ rx' = <<>>
  /\ UNCHANGED <<env, net, waiters, pc, attempt, state, answered, unheard>>

\* A reply is lost, or comes so late that the process has gone.
Lose ==
  /\ \E r \in net : net' = net \ {r}
  /\ UNCHANGED <<env, waiters, loopVars, pc, attempt, state, answered, unheard>>

AllDone == (\A p \in Probes : pc[p] = "done") /\ net = {} /\ rx = <<>>
Next == \/ \E p \in Probes : Probe(p)
        \/ RxLookup \/ RxPut \/ Lose
        \/ AllDone /\ UNCHANGED vars

Spec == Init /\ [][Next]_vars

-----------------------------------------------------------------------------
(* Properties *)

\* Types; a channel never holds more than its capacity.
TypeOK ==
  /\ waiters \in [Keys -> Probes \cup {NoOne}]
  /\ pc \in [Probes -> {"new", "drain", "xmit", "wait", "close", "done"}]
  /\ attempt \in [Probes -> 0 .. Attempts]
  /\ \A p \in Probes : Len(rxChan[p]) <= 1
  /\ state \in [Probes -> {"", "open", "closed", "filtered", "unfiltered",
                           "open|filtered"}]
  /\ unheard \subseteq Probes

\* A verdict other than filtered is what the probed host itself has answered,
\* never a reply from another host on the same port (raw_tcp.go:73-79), one
\* that comes after a retry or one that comes when its probe is gone.
VerdictIsTheHosts ==
  \A p \in Probes \ Decoys :
    LET s == port[Remote[p]]
    IN  /\ state[p] = "open"   => s = "open"
        /\ state[p] = "closed" => s = "closed"
        /\ state[p] = "unfiltered" => s # "silent"

\* Without decoys, and with one probe to a key, no reply that reaches the
\* process while its probe waits finds no waiter, or another's: registering
\* before sending closes the race of raw_tcp.go:212-218 ("silently losing a
\* real reply to a race, not a timeout").
NoReplyUnheard == unheard = {}

\* A reply buffered during one attempt is never returned by a later one's
\* Receive: the drain at the head of Send (raw_tcp.go:238-240).
TakesOnlyFresh ==
  \A p \in Probes :
    pc[p] = "wait" /\ pc'[p] = "close" /\ answered'[p] # answered[p]
      => buffered[p] = attempt[p]
DrainDiscards == [][TakesOnlyFresh]_vars
=============================================================================
