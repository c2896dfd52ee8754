--------------------------- MODULE AlgorithmParts ---------------------------
(***************************************************************************)
(* The algorithms that decide what is probed and what is reported, each on *)
(* its own: a behaviour chooses an input of one and stays with it, and an  *)
(* invariant compares what the algorithm makes of it with what it promises.*)
(* The job permutation is the exception, and walks.                        *)
(*                                                                         *)
(* Here are the algorithms whose promises are also proved, for every input;*)
(* MCAlgorithms has those that are checked on its families of inputs only. *)
(***************************************************************************)
EXTENDS Integers, Sequences, FiniteSets

CONSTANTS
  MaxJobs, Word,                            \* of the job permutation
  Octets, OctetBits, MaxPort, Failed,       \* of target expansion
  V4Addresses, V6Addresses, PrivateAddresses,
  SensitivePorts, Candidates,               \* of the reports
  Endless,                                  \* of the fragmenter
  NoIntel,                                  \* of the vulnerability lookup
  Panics, Signatures,                       \* of service detection
  Reports,        \* the inputs tried: what is reported on,
  Decisions,      \* the options, target and answers of a scan of one port,
  Frames,         \* datagrams that are cut,
  Draws,          \* generators of a random order,
  Lookups,        \* versions, feeds, answers about a port, rows that are ranked,
  Services,       \* open ports as they answer, certificates,
  Others,         \* and those of algorithms that are not here
  NoInput         \* none chosen

VARIABLES
  about,          \* which kind of input is chosen, "none" before
  input,          \* the input chosen
  n, m, a, c, currentX, steps, emitted, out      \* a walk, while there is none

walk == <<n, m, a, c, currentX, steps, emitted, out>>
vars == <<about, input, walk>>

P    == INSTANCE JobPermutation
T    == INSTANCE TargetExpansion
X    == INSTANCE Exposure
O    == INSTANCE ScanOptions
Frag == INSTANCE Fragmenter
V    == INSTANCE VulnLookup
Detect == INSTANCE ServiceDetection

-----------------------------------------------------------------------------
(* Inputs: what the algorithms are handed in the program.                  *)

Listed(s) == s \in Seq({ s[i] : i \in DOMAIN s })

\* Two scans, in which a target given twice is twice, two lists of listeners, or an inventory and what a scan of the
\* host from here finds: the machine owns its loopback address, and each port
\* that is probed gets a state.
IsReport(report) ==
  /\ report.of \in {"compare", "drift", "explain"}
  /\ report.of = "compare" =>
       Listed(report.current) /\ Listed(report.baseline)
  /\ report.of = "drift" => Listed(report.before) /\ Listed(report.after)
  /\ report.of = "explain" =>
       /\ Listed(report.inv.addresses) /\ Listed(report.inv.listeners)
       /\ IsFiniteSet(report.inv.services)
       /\ \A s \in report.inv.services : s.nodePort \in Nat
       /\ IsFiniteSet(report.extra) /\ IsFiniteSet(report.expected)
       /\ report.given # X!Loopback \/ X!Loopback \in report.here
       /\ report.interposed \in BOOLEAN
       /\ \A p \in X!PortsToProbe(report.inv, report.extra \cup report.expected) :
            report.states[p] # "not probed"

\* The options a command line was parsed into.
IsOptions(given) ==
  given \in [flags : SUBSET STRING, timing : Int, rate : Int, workers : Int, batch : Int,
             retries : Int, ports : STRING, topPorts : Int, evasion : STRING,
             profile : STRING]

\* A header and a payload of size bytes, which an IPv4 packet can hold.
IsFrame(frame) ==
  /\ frame.header \in [1 .. 10 -> 0 .. Frag!Words16 - 1]
  /\ frame.size \in Nat \ {0} /\ Frag!HeaderBytes + frame.size < Frag!Words16
  /\ frame.mtu \in Nat \ {0} /\ (frame.mtu >= 8 \/ frame.size <= frame.mtu)

\* What was drawn for an IPv4 network, the size of which a word can hold.
IsGenerator(g) ==
  \E e \in 0 .. 32 : P!Doubled[e] <= Word /\ g \in T!Generators(P!Doubled[e], Word)

\* A version is its tokens, of digits or of letters; what is not there has none.
Version == Seq({1, 2} \X Nat)
Event   == [introduced : Version, fixed : Version]

IsFeed(entries) ==
  /\ entries \in Seq(V!Range(entries))
  /\ \A e \in V!Range(entries) : e.scores \in Seq(Int)

\* Rows; a source on the network says nothing of their confidence, the file of
\* the offline database may.
IsRows(rows) ==
  /\ rows \in Seq(V!Range(rows)) /\ \A v \in V!Range(rows) : v.cvss \in Int
IsAnswer(source) ==
  \/ source = Failed
  \/ IsRows(source) /\ \A v \in V!Range(source) : v.confidence = V!Unsaid

\* The open ports of a scan in their order, and the database, of each software.
IsPorts(ports, answers, db) ==
  /\ Listed(ports) /\ DOMAIN answers = DOMAIN ports
  /\ \A k \in DOMAIN ports :
       /\ IsAnswer(answers[k].upstream) /\ IsAnswer(answers[k].distro)
       /\ db = Failed \/ IsRows(db[ports[k].software])

IsRanking(rows, intel) ==
  /\ rows \in Seq(V!Range(rows)) /\ \A v \in V!Range(rows) : v.cvss \in Int
  /\ \A id \in DOMAIN intel.epss : intel.epss[id] \in Int

IsLookup(lookup) ==
  /\ lookup.of \in {"order", "window", "feed", "ports", "ranks"}
  /\ lookup.of = "order"  => {lookup.u, lookup.v, lookup.w} \subseteq Version
  /\ lookup.of = "window" => lookup.v \in Version /\ lookup.events \in Seq(Event)
  /\ lookup.of = "feed"   => IsFeed(lookup.entries)
  /\ lookup.of = "ports"  => IsPorts(lookup.ports, lookup.answers, lookup.db)
  /\ lookup.of = "ranks"  => IsRanking(lookup.rows, lookup.intel) /\ lookup.size \in Nat \ {0}

Certificate == [id : STRING \ {Detect!Unsaid}, hoursLeft : Int, issuer : STRING, subject : STRING,
                names : SUBSET STRING]

\* A server as it answers a probe of each kind, in TLS for all of them or none.
IsServer(s) ==
  /\ s.tls # Failed =>
       /\ s.tls.version \in Nat /\ s.tls.accepts \subseteq Nat
       /\ s.tls.certs \in Seq(Certificate)
  /\ s.greeting # Failed =>
       /\ s.greeting.matches \subseteq DOMAIN Signatures
       /\ s.greeting.version \in STRING
  /\ s.page # Failed =>
       /\ s.page.tls = (s.tls # Failed) /\ s.page.http1 \in BOOLEAN
       /\ s.page.server \in Detect!Header \cup {Failed} /\ s.page.body \in Detect!Header \cup {Failed}
       /\ DOMAIN s.page.paths \subseteq STRING
  /\ s.port = 502 /\ s.ot # Failed =>
       /\ s.ot.n \in Nat /\ s.ot.count \in Nat
       /\ s.ot.objects \in Seq([id : 1 .. 3, len : Nat, text : STRING])

IsService(p) ==
  /\ p.of \in {"service", "certificates"}
  /\ p.of = "service" => IsServer(p.server)
  /\ p.of = "certificates" =>
       /\ {p.one, p.other} \subseteq Certificate
       /\ Listed(p.servers) /\ \A k \in DOMAIN p.servers : IsServer(p.servers[k])

ASSUME AlgorithmAssumption ==
  /\ P!PermutationAssumption /\ T!ExpansionAssumption /\ X!ExposureAssumption
  /\ Detect!ServiceAssumption
  /\ \A r \in Reports : IsReport(r)
  /\ \A d \in Decisions : IsOptions(d.given)
  /\ \A f \in Frames : IsFrame(f)
  /\ \A g \in Draws : IsGenerator(g)
  /\ \A l \in Lookups : IsLookup(l)
  /\ \A s \in Services : IsService(s)

-----------------------------------------------------------------------------
Init == about = "none" /\ input = NoInput /\ P!Init

Choose ==
  /\ about = "none" /\ n = 0
  /\ \/ about' = "report"   /\ input' \in Reports
     \/ about' = "decision" /\ input' \in Decisions
     \/ about' = "frame"    /\ input' \in Frames
     \/ about' = "draw"     /\ input' \in Draws
     \/ about' = "lookup"   /\ input' \in Lookups
     \/ about' = "service"  /\ input' \in Services
     \/ about' = "other"    /\ input' \in Others
  /\ UNCHANGED walk

Walk == about = "none" /\ P!Next /\ UNCHANGED <<about, input>>

Next == Choose \/ Walk

Spec == Init /\ [][Next]_vars

-----------------------------------------------------------------------------
(* Properties *)

\* A random order leaves nothing out and has nothing twice, whatever was drawn
\* and although multiplications wrap: the job permutation at any point of any
\* walk (permute.go:8-9), and the addresses of a network (generator.go).
VisitsEachOnce ==
  /\ P!TypeOK /\ P!VisitsEachOnce
  /\ about = "draw" =>
       LET order == T!RandomOrder(input, Word)
           size  == input.m
       IN /\ order \in [1 .. size -> 0 .. size - 1]
          /\ \A v \in 0 .. size - 1 : \E i \in 1 .. size : order[i] = v
          /\ \A i, j \in 1 .. size : order[i] = order[j] => i = j

\* A comparison, a drift and an explanation report exactly the change or the
\* exposure there is: compare.go's new ports and services, drift's exit
\* status (cmd/drift.go), explain's classes and exit status, with the canary
\* probes that keep it from believing a middlebox (explain/auto.go).
ReportsExact == about = "report" => X!ReportsExact(input)

\* A scan sends the kind of probe that was asked for, and nothing crafted under
\* a profile or -sT (options.go:641-835, engine.go:418-553); and in whichever
\* fragments, it is the same datagram (evasion/fragment.go).
SendsAsAsked ==
  /\ about = "decision" =>
       O!SendsAsAsked(input.given, input.xsk, input.loopback, input.answers)
  /\ about = "frame" =>
       Frag!Reassembles(input.header, [i \in 1 .. input.size |-> i], input.mtu)

\* However many entries, aliases and ranges of a feed state it, a
\* vulnerability of the version is one row with the highest of its scores
\* (osv.go), and versions compare as the ranges need: a total order, in which
\* a version is affected in the window a range describes (version.go).  The
\* headline of a port is the worst row that applies to its system; a row is
\* confirmed by the distribution that has it, or inherits that from the offline
\* database and an earlier port; and the ranking by exploitation keeps every row
\* (main.go:655-850, prioritize.go, distro.go).
OneRowAndTheWorst == about = "lookup" => V!LookupRight(input)

\* What is reported of a port is what the port said of itself (AnsweredService);
\* certificates are graded by the time they have left, and reported as shared
\* exactly when two hosts showed them (service/engine.go, tls.go,
\* cert_registry.go).
ServicesAsAnswered ==
  about = "service" =>
    CASE input.of = "service" -> Detect!AnsweredService(input.server, input.o)
      [] input.of = "certificates" ->
           /\ Detect!ExpiryOrdered(input.one, input.other)
           /\ Detect!SharedExactly(input.servers, input.o)
=============================================================================
