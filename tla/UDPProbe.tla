------------------------------ MODULE UDPProbe ------------------------------
(***************************************************************************)
(* ScanUDPPort of internal/scan/udp.go: one connected socket a port, one   *)
(* datagram an attempt (no port of udp_payloads.go has two), and a read    *)
(* that waits for what comes to the socket, of whichever attempt.  A port  *)
(* that refuses does so by ICMP, which the system keeps as the socket's    *)
(* error: the next call on the socket returns it, a Write as well as a     *)
(* Read, and a Write that does has sent nothing.  Probes of different      *)
(* ports share nothing.                                                    *)
(***************************************************************************)
EXTENDS Naturals, Sequences

CONSTANT Attempts       \* probeAttempts(opts)

UDPAssumption == Attempts \in Nat \ {0}

VARIABLES
  port,           \* "open", "closed" or "silent"
  named,          \* is the probe one of a known protocol's?
  spoofed,        \* is a relay or another source address asked for?
  net,            \* attempts whose datagram is on its way
  sockErr,        \* is a refusal waiting on the socket?
  rx,             \* replies waiting on it: does each match the protocol?
  pc, attempt,
  state,          \* the result's State and Reason
  service,        \* is the result's Service the probe's protocol?
  inTime          \* history: what arrived while a read could still return it

vars == <<port, named, spoofed, net, sockErr, rx, pc, attempt, state, service,
          inTime>>
question == <<port, named, spoofed>>

Init ==
  /\ port \in {"open", "closed", "silent"}
  /\ named \in BOOLEAN /\ spoofed \in BOOLEAN
  /\ net = {} /\ sockErr = FALSE /\ rx = <<>>
  /\ pc = "dial" /\ attempt = 0
  /\ state = <<"", "">> /\ service = FALSE /\ inTime = {}

Ends(s, why) == pc' = "done" /\ state' = <<s, why>>

Dial ==
  /\ pc = "dial"
  /\ \/ Ends("closed", "socket error")
     \/ spoofed /\ Ends("filtered", "no spoofing")
     \/ ~ spoofed /\ pc' = "write" /\ UNCHANGED state
  /\ UNCHANGED <<question, net, sockErr, rx, attempt, service, inTime>>

\* The pacer's turn, and a Write whose error is not looked at.
Write ==
  /\ pc = "write"
  /\ attempt' = attempt + 1
  /\ net' = IF sockErr THEN net ELSE net \cup {attempt'}
  /\ sockErr' = FALSE
  /\ pc' = "read"
  /\ UNCHANGED <<question, rx, state, service, inTime>>

\* A refusal is about the port, whichever attempt it answers.
Refused ==
  /\ pc = "read" /\ sockErr
  /\ sockErr' = FALSE
  /\ Ends("closed", "unreachable")
  /\ UNCHANGED <<question, net, rx, attempt, service, inTime>>

Reply ==
  /\ pc = "read" /\ ~ sockErr /\ rx # <<>>
  /\ rx' = Tail(rx)
  /\ Ends("open", "response")
  /\ service' = (named /\ Head(rx))
  /\ UNCHANGED <<question, net, sockErr, attempt, inTime>>

\* The deadline passes before anything comes.
Timeout ==
  /\ pc = "read" /\ ~ sockErr /\ rx = <<>>
  /\ IF attempt < Attempts THEN pc' = "write" /\ UNCHANGED state
                           ELSE Ends("open|filtered", "timeout")
  /\ UNCHANGED <<question, net, sockErr, rx, attempt, service, inTime>>

\* A datagram reaches the host, which answers as its port is, and the answer
\* the socket; or one of them is lost, or the host says nothing.
Answer ==
  /\ pc # "done"
  /\ \E a \in net :
       /\ net' = net \ {a}
       /\ \/ UNCHANGED <<sockErr, rx, inTime>>
          \/ /\ port = "closed"
             /\ sockErr' = TRUE
             /\ inTime' = IF pc = "read" THEN inTime \cup {"refusal"} ELSE inTime
             /\ UNCHANGED rx
          \/ /\ port = "open"
             /\ \E matches \in BOOLEAN : rx' = Append(rx, matches)
             /\ inTime' = IF attempt < Attempts \/ pc = "read"
                          THEN inTime \cup {"reply"} ELSE inTime
             /\ UNCHANGED sockErr
  /\ UNCHANGED <<question, pc, attempt, state, service>>

Next == Dial \/ Write \/ Refused \/ Reply \/ Timeout \/ Answer
Spec == Init /\ [][Next]_vars

-----------------------------------------------------------------------------
(* Properties *)

\* A port is open only if it replied and closed only if it refused or no
\* socket could be had, and it has a service only if its reply was one of the
\* protocol asked for (udp.go:58-151).
VerdictIsTheHosts ==
  /\ state[1] = "open"   => port = "open"
  /\ state[1] = "closed" => port = "closed" \/ state[2] = "socket error"
  /\ service => named /\ state[1] = "open"
  /\ spoofed => attempt = 0

\* A port of which nothing is known has neither replied before the last read
\* ended, to whichever attempt, nor refused during a read: a reply that is late
\* for one attempt is in time for the next.  A refusal between two reads is
\* not: the Write takes it (udp.go:61).
NoReplyUnheard == state[1] = "open|filtered" => inTime = {}
=============================================================================
