------------------------------ MODULE Exposure ------------------------------
(***************************************************************************)
(* What tcpcat says of a change in what is reachable: the comparison of a  *)
(* scan with an earlier one (internal/compare, internal/notify), of two    *)
(* inventories of a host (internal/drift, cmd drift.go), and of a host's   *)
(* inventory with a scan of it from outside (internal/explain, cmd         *)
(* explain.go, internal/remediate).                                        *)
(*                                                                         *)
(* A scan result is [ip, port, state, service, vulns], a listener is       *)
(* [port, address, owner], a Kubernetes service [port, nodePort, type].    *)
(* What the reports are sorted by, and how they read, is left out: a       *)
(* report is the set of its entries, save that of a comparison, which may  *)
(* have an entry twice.                                                    *)
(***************************************************************************)
EXTENDS Naturals, Sequences, FiniteSets, SequencesExt

CONSTANTS
  V4Addresses, V6Addresses,  \* addresses of hosts
  PrivateAddresses,          \* those outside explain.IsPublic, loopback apart
  SensitivePorts,            \* sensitivePorts
  Candidates                 \* candidates of CanaryPorts, in their order

Addresses == V4Addresses \cup V6Addresses

ExposureAssumption ==
  /\ {"", "127.0.0.1"} \cap Addresses = {}
  /\ Candidates \in Seq(Nat \ {0})

Any4     == "0.0.0.0"
Any6     == "::"
Loopback == "127.0.0.1"
Nobody   == "nobody"        \* a listener whose owner is not known

-----------------------------------------------------------------------------
(* compare.Compare.                                                        *)

At(results, r) == { i \in DOMAIN results :
                      results[i].ip = r.ip /\ results[i].port = r.port }
\* baselineByAddress: the last result of an address and port.
Previous(results, r) ==
  results[CHOOSE i \in At(results, r) : \A j \in At(results, r) : j <= i]

IsOpen(r) == r.state = "open"
OpenBefore(baseline, r) == At(baseline, r) # {} /\ IsOpen(Previous(baseline, r))

\* Each list of the report as the places of the current results it has an
\* entry for, in their order: an address and port that is there twice is
\* reported on twice.
Compare(current, baseline) ==
  [newOpenPorts |->
     { i \in DOMAIN current : IsOpen(current[i]) /\ ~ OpenBefore(baseline, current[i]) },
   serviceChanges |->
     { i \in DOMAIN current :
         /\ IsOpen(current[i]) /\ OpenBefore(baseline, current[i])
         /\ Previous(baseline, current[i]).service # current[i].service },
   newVulnerabilities |->
     UNION { { <<i, v>> : v \in current[i].vulns \
                 (IF At(baseline, current[i]) = {} THEN {}
                  ELSE Previous(baseline, current[i]).vulns) } :
             i \in DOMAIN current }]

\* notify.HasChanges.
HasChanges(c) ==
  c.newOpenPorts # {} \/ c.serviceChanges # {} \/ c.newVulnerabilities # {}

-----------------------------------------------------------------------------
(* drift.Diff and runDrift.                                                *)

reach(address) ==
  IF address \in {Any4, Any6} THEN 2 ELSE IF address = Loopback THEN 0 ELSE 1

\* fold: of the listeners of a port the first of those that reach furthest.
fold(listeners, port) ==
  LET mine == { i \in DOMAIN listeners : listeners[i].port = port }
  IN listeners[CHOOSE i \in mine : \A j \in mine \ {i} :
       \/ reach(listeners[i].address) > reach(listeners[j].address)
       \/ i < j /\ reach(listeners[j].address) <= reach(listeners[i].address)]

PortsOf(listeners) == { l.port : l \in ToSet(listeners) }

\* The difference of one port, or none.
Difference(before, after, port) ==
  LET a == fold(after, port)
      b == fold(before, port)
      ra == reach(a.address)
      change(kind, severity) == { [kind |-> kind, port |-> port, severity |-> severity] }
      wide(kind) == change(kind, IF ra = 2 THEN "high" ELSE "medium")
  IN IF port \notin PortsOf(before) THEN wide("appeared")
     ELSE IF port \notin PortsOf(after) THEN change("disappeared", "info")
     ELSE IF ra > reach(b.address) THEN wide("widened")
     ELSE IF ra < reach(b.address) THEN change("narrowed", "info")
     ELSE IF a.owner # b.owner
          THEN change("owner_changed", IF ra = 2 THEN "medium" ELSE "info")
     ELSE {}

Diff(before, after) ==
  UNION { Difference(before, after, p) : p \in PortsOf(before) \cup PortsOf(after) }

NewlyExposed(changes) == Cardinality({ c \in changes : c.severity = "high" })
runDrift(before, after) == IF NewlyExposed(Diff(before, after)) > 0 THEN 1 ELSE 0

-----------------------------------------------------------------------------
(* explain.Explain: inv is [addresses, listeners, services].               *)

\* A socket bound to bound takes what is sent to target.
covers(bound, target) ==
  \/ bound = target \/ bound = Any6
  \/ bound = Any4 /\ target \in V4Addresses

kubeServiceFor(services, port) ==
  \E s \in services : s.nodePort = port \/ (s.type = "LoadBalancer" /\ s.port = port)

\* The state the scan found the port in, the last one reported.
StateOf(results, target, port) ==
  LET mine == At(results, [ip |-> target, port |-> port])
  IN IF mine = {} THEN "not probed"
     ELSE Previous(results, [ip |-> target, port |-> port]).state

\* An entry's class, from what listens on the port and what the scan found.
Class(inv, results, target, port) ==
  LET state == StateOf(results, target, port)
      reachable == \E l \in ToSet(inv.listeners) :
                     l.port = port /\ covers(l.address, target)
  IN CASE state = "open" /\ kubeServiceFor(inv.services, port) -> "FORWARDED"
       [] state = "open" /\ reachable /\ ~ kubeServiceFor(inv.services, port) -> "EXPOSED"
       [] state = "open" /\ ~ reachable
            /\ ~ kubeServiceFor(inv.services, port)            -> "FORWARDED"
       [] state = "closed" /\ reachable                        -> "REFUSED"
       [] state \notin {"open", "closed", "not probed"} /\ reachable -> "SHIELDED"
       [] state = "not probed" /\ reachable                    -> "UNTESTED"
       [] OTHER                                                -> "LOCAL"

severity(class, expected, port) ==
  IF class \in {"EXPOSED", "FORWARDED"} /\ ~ expected
  THEN IF port \in SensitivePorts THEN "high" ELSE "medium"
  ELSE IF class = "SHIELDED" /\ port \in SensitivePorts THEN "low" ELSE "info"

\* One entry for each port that listens or answers.
Explain(inv, results, target, expected) ==
  LET answered == { r.port : r \in { q \in ToSet(results) :
                      q.ip = target /\ StateOf(results, target, q.port) = "open" } }
      entry(p) == LET class == Class(inv, results, target, p) IN
                  [port |-> p, class |-> class, expected |-> p \in expected,
                   severity |-> severity(class, p \in expected, p)]
  IN { entry(p) : p \in PortsOf(inv.listeners) \cup answered }

\* What Problems counts is what remediate.FromReport writes a bundle for.
actionable(e) == e.class \in {"EXPOSED", "FORWARDED"} /\ ~ e.expected
Problems(entries) == { e.port : e \in { x \in entries : actionable(x) } }

\* Which scanned address is the host: the one given, or the only one of its
\* own that was scanned; "" is an error.
SelectTarget(inv, results, given) ==
  LET scanned == { r.ip : r \in ToSet(results) }
      matches == ToSet(inv.addresses) \cap scanned
  IN IF given # "" THEN IF given \in scanned THEN given ELSE ""
     ELSE IF Cardinality(matches) = 1 THEN CHOOSE a \in matches : TRUE
     ELSE ""

\* The first of PublicAddresses, which has the IPv4 ones first; "" if there is
\* none.
PublicAddress(inv) ==
  LET public(family) == { i \in DOMAIN inv.addresses :
                            inv.addresses[i] \in family \ PrivateAddresses }
      first(places) == inv.addresses[CHOOSE i \in places : \A j \in places : i <= j]
  IN IF public(V4Addresses) # {} THEN first(public(V4Addresses))
     ELSE IF public(V6Addresses) # {} THEN first(public(V6Addresses)) ELSE ""

\* Every port that something beyond loopback listens on, every port of a
\* service, and those asked for.
BoundToAll(l) == l.address \in {Any4, Any6}
BeyondLoopback(l) == l.address # Loopback
PortsToProbe(inv, extra) ==
  { l.port : l \in { x \in ToSet(inv.listeners) : BeyondLoopback(x) } }
    \cup { s.port : s \in inv.services }
    \cup { s.nodePort : s \in { x \in inv.services : x.nodePort > 0 } }
    \cup extra

\* The first three candidates where nothing listens and nothing was probed.
CanaryPorts(inv, avoid) ==
  LET used == PortsOf(inv.listeners) \cup avoid
                \cup UNION { {s.port, s.nodePort} : s \in inv.services }
      free == { i \in DOMAIN Candidates : Candidates[i] \notin used }
  IN { Candidates[i] : i \in { k \in free : Cardinality({ j \in free : j < k }) < 3 } }

\* runExplain without a scan report: scanFromHere, Explain and the exit
\* status.  here: the addresses of this machine; states[p]: what a probe of p
\* finds; interposed: something on the path completes every handshake.
ScanFromHere(inv, given, here, extra, expected, states, interposed) ==
  LET target == IF given # "" THEN given ELSE PublicAddress(inv)
      ports  == PortsToProbe(inv, extra \cup expected)
      found(p) == [ip |-> target, port |-> p, service |-> "", vulns |-> {},
                   state |-> IF interposed THEN "open" ELSE states[p]]
      canaries == CanaryPorts(inv, ports)
  IN IF target = "" \/ target \in here \/ \E p \in canaries : IsOpen(found(p))
     THEN [exit |-> 2, target |-> target, entries |-> {}]
     ELSE LET results == SetToSeq({ found(p) : p \in ports })
              entries == Explain(inv, results, target, expected)
          IN [exit |-> IF Problems(entries) # {} THEN 1 ELSE 0,
              target |-> target, entries |-> entries]

-----------------------------------------------------------------------------
(* What the reports promise.                                               *)

\* A target that is given twice is scanned twice.  The results of an address
\* and port may then disagree, when an answer was lost or came late.
Agree(results, r) ==
  \A i, j \in At(results, r) :
    /\ results[i].state = results[j].state /\ results[i].service = results[j].service
    /\ results[i].vulns = results[j].vulns

\* The addresses and ports of the results at places, of those that are open, of
\* those whose last result is, and of those whose results agree.
Told(results, places) == { <<results[i].ip, results[i].port>> : i \in places }
OpenPlaces(results) == { i \in DOMAIN results : IsOpen(results[i]) }
OpenAtLast(results) ==
  Told(results, { i \in OpenPlaces(results) : \A j \in At(results, results[i]) : j <= i })
Settled(results) == Told(results, { i \in DOMAIN results : Agree(results, results[i]) })

\* Told as new are the ports that are open and were not in the last result
\* before, and one that is told at all is told for each of its results that
\* found it open, so once if it was scanned once.  A scan whose results agree
\* raises no alert against itself; and an address and port whose results agree
\* in either scan is not new both ways, and changes service both ways or neither.
ComparesExactly(current, baseline) ==
  LET there == Compare(current, baseline)
      back  == Compare(baseline, current)
      both  == Settled(current) \cap Settled(baseline)
  IN /\ Told(current, there.newOpenPorts) =
          Told(current, OpenPlaces(current)) \ OpenAtLast(baseline)
     /\ \A i \in there.newOpenPorts :
          At(current, current[i]) \cap OpenPlaces(current) \subseteq there.newOpenPorts
     /\ (\A i \in DOMAIN current : Agree(current, current[i])) =>
          ~ HasChanges(Compare(current, current))
     /\ Told(current, there.newOpenPorts) \cap Told(baseline, back.newOpenPorts) \cap both = {}
     /\ Told(current, there.serviceChanges) \cap both =
          Told(baseline, back.serviceChanges) \cap both

\* Where a port reaches, over all its listeners.
Widest(listeners, p) ==
  LET all == { reach(l.address) : l \in { x \in ToSet(listeners) : x.port = p } }
  IN IF 2 \in all THEN 2 ELSE IF 1 \in all THEN 1 ELSE IF 0 \in all THEN 0 ELSE 3

\* "0 nothing became externally reachable, 1 something did": drift fails
\* exactly when some port is bound to every interface that was not, in
\* whatever order the listeners come, and reports a port at most once.
DriftsExactly(before, after) ==
  LET ports == PortsOf(before) \cup PortsOf(after)
      wide(ls) == { p \in ports : Widest(ls, p) = 2 }
  IN /\ runDrift(before, after) = 1 <=> wide(after) \ wide(before) # {}
     /\ \A p \in ports : Cardinality({ c \in Diff(before, after) : c.port = p }) <= 1
     /\ \A p \in ports : Widest(before, p) # Widest(after, p) =>
          \E c \in Diff(before, after) : c.port = p

\* tcpcat explain says 0 or 1 only of a host this machine is not, over a path
\* nothing interposes on; 1 exactly when something that it probed is
\* reachable and not expected; and it has probed every port that a process
\* listens on for that address.
ExplainsExactly(inv, given, here, extra, expected, states, interposed) ==
  LET run == ScanFromHere(inv, given, here, extra, expected, states, interposed)
      answers(p) == states[p] = "open"
      probed == PortsToProbe(inv, extra \cup expected)
      used == PortsOf(inv.listeners) \cup probed
  IN run.exit # 2 =>
       /\ run.target \notin here /\ (interposed => ToSet(Candidates) \subseteq used)
       /\ (~ interposed => (run.exit = 1 <=>
             \E p \in probed : answers(p) /\ p \notin expected))
       /\ \A e \in run.entries : e.class # "UNTESTED"

\* A comparison, a drift or an explanation reports exactly the change or the
\* exposure there is.
ReportsExact(report) ==
  CASE report.of = "compare" -> ComparesExactly(report.current, report.baseline)
    [] report.of = "drift"   -> DriftsExactly(report.before, report.after)
    [] report.of = "explain" ->
         ExplainsExactly(report.inv, report.given, report.here, report.extra,
                         report.expected, report.states, report.interposed)
=============================================================================
