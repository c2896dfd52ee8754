# A TLA+ model of tcpcat

tcpcat is a network scanner written in Go: it expands targets and ports into
jobs, probes them from a pool of workers, classifies the replies, identifies
the services behind open ports and their vulnerabilities, and compares, signs or
checks what it found.  This directory holds TLA+ modules for the parts of it
that are hard to test, the TLC runs that check them on small instances, and
theorems, for instances of every size, whose proofs TLAPS has checked: they state
every invariant of the runs but two, of algorithms that walk over bytes (section 4).
`PROJECT.json` lists the components, the runs, the hazards, for each property a
mutant of the code that breaks it, and for each definition the lines it models.

    tlc -workers 2 -config MCScanEngine.cfg MCScanEngine     # a run
    for m in *Proofs.tla; do tlapm $m; done                  # the proofs, an hour at most

## 1. The system

| Part | State it keeps | Operations | What is hard, and what makes it correct |
|---|---|---|---|
| scan engine, `internal/scan/engine.go` | two bounded channels, a batch, the permutation, worker locals, `allResults`, `Progress` | dispatch, flush, receive, scan, send, close, collect | four kinds of goroutine: every job scanned and reported once, channels closed in order, the call returns |
| checkpoint, `scan/checkpoint.go` | the JSON Lines file, a `bufio.Writer`, `done`, `results` | open, isDone, record, close | interruption, disk failure: nothing recorded is scanned again, nothing torn passes for a result |
| raw probes, `scan/raw_tcp.go`, `syn.go`, `ack_window.go`, `stealth.go` | `rawRxWaiters`, a channel for each probe | register, drain, send, receive, time out, close; the receive loop | late, lost and foreign replies, retries, decoys: the verdict is the host's own |
| AF_XDP engine, `scan/xdp*.go`, `nexthop.go` | sockets, rings, link, collection, `xdpRunning`, waiters, TX queue, next-hop table | init, RX loops, TX flusher, shutdown, both kinds of probe | shutdown from two goroutines while loops run; partial failure of the init; frames shared with the kernel |
| pacer and rate controller, `scan/adaptive_rate.go` | `lastTick`, `batchRemaining`, `ratePPS`, `sent`, `lost`, `srtt`, `rttvar` | WaitN, acquireBatched, Report, Sample | lock-free: slots and losses conserved, windows disjoint, idle time not banked |
| OT breaker, `internal/otguard` | per-target counters under a mutex | Observe, Tripped | long histories: trips exactly when it should, and then the device is left alone |
| connection pool, `internal/connpool` | idle lists under a mutex | Get, Put, reaper | tests connections with the mutex released: one owner, no leak |
| permutation, `scan/permute.go` | LCG state | next | off-by-one and wrap-around: each index once |
| idle scan, `scan/idle.go` | a third host's counter | read, spoof, read | concurrent jobs share that counter, which wraps, and the channel its replies come to; a reply may answer an attempt given up |
| session, `cmd/tcpcat/main.go` | targets, results, state file | load, scope, exclude, trace, discover, scan, dual stack, detect, look up, export, compare | order of filters and of files, discovery's concurrency; only authorized hosts are sent to |
| web server, `internal/web` | one scan's status under a mutex | guard, start, status | one scan at a time, results never another's |
| options, `config/options.go` | none | separate, validate, apply profile | order of arguments, profiles that must win over flags |
| target expansion, scope, ports | none | expand, filter, exclude, parse | wrap-around of addresses, names with several addresses |
| service detection, `internal/service` | the certificate registry | stages of `DetectService`, TLS, JARM | stages that return early; lengths a peer supplies; a registry over all ports |
| OS detection, clusters, `internal/osdetect`, `fingerprint` | none | walk options, match, cluster | short and odd options, iteration order of maps |
| vulnerability lookup, `internal/vuln` | a cache, a database | query, fold, refine, rank | one flaw under several names; versions; which score is the headline |
| compare, drift, explain, `internal/compare`, `drift`, `explain`, `remediate`, `notify` | none | diff, classify, probe canaries | each change once and for what it is; exit status |
| policy, `internal/policy` | a report | plan, check, save, merge | exit status is the verdict, though rules are scanned one after the other |
| evidence, `internal/evidence` | bundle, digest, signature, keys | seal, keygen, verify, replay | several files, commands killed between them, files edited or moved |
| self update, script hub | files | download, verify, rename, clean up | a crash between two steps, several at once |
| UDP probes, `scan/udp.go` | a connected socket | write, read, retry | a socket that keeps a late refusal or reply for the next call |
| script engine, `internal/scripting` | compiled scripts, a run's channel and budgets | RunAll, probe | a goroutine for each script that may fail or panic: nothing lost, nothing on another port's result |
| fragmenter, `internal/evasion` | none | cut, checksum | offsets, flags and carries: the receiver gets the same datagram |
| the rest of evasion, outputs, inventory, passive | little or none | sequential | bytes, formats and I/O (section 5) |

`main` drives everything: it resolves and filters the targets, starts the
AF_XDP engine, calls the scan engine, whose workers call a scan type through the
pacer, the connection pool or the tables of waiters, and hands the results to the
later phases.  The web server calls the same engine from a goroutine; the signal
handler ends the process wherever it is, which the checkpoint and the AF_XDP hook
must survive.

## 2. The modules

    ScanContract        what Execute promises                     (abstract)
       ^ refined by                ^ used by
    ScanEngine ----------- ResumableScan
       ^ extended by
    GuardedScan --INSTANCE--> OTGuard

    sum of              which instantiates                  checked by     proved in
    XDPParts            XDPEngine | XDPRings                itself         XDPEngineProofs
    SharedParts         Pacer | ConnPool | RateController   MCShared       SharedProofs
                          | IdleScan | ProbeWaiters
                          | XDPProbes | UDPProbe
    CommandParts        Session | WebScanServer             MCCommands     CommandProofs
                          | ResumableScan | Installers
                          | EvidenceBundle | PolicyCheck
                          | ScriptRunner
    AlgorithmParts      JobPermutation | TargetExpansion    MCAlgorithms   AlgorithmProofs
                          | Exposure | ScanOptions
                          | Fragmenter                                   LookupProofs
                          | VulnLookup
                          | ServiceDetection

    MCScanEngine, MCGuardedScan, MCProbeWaiters     one component each
    MCAlgorithms EXTENDS AlgorithmParts and adds Fingerprints and
                 the rest of TargetExpansion and ScanOptions, checked only

    ScanEngineProofs EXTENDS GuardedScan
    LookupProofs EXTENDS AlgorithmProofs, and has the two last of its parts
    PacerProofs, XDPRingsProofs
                 each EXTENDS its component and is instantiated by the sum

`XDPParts`, `SharedParts` and `CommandParts` are sums: the variable `which` says
which component a behaviour is about, and the others' variables stay `Unused`
(`XDPParts` keeps the engine's and the socket's side by side, and a step is one of
either).  Each component keeps its own specification, and a property reads
`which = "pool" => ...`; a sum lets several instances be checked in one run, and
its properties follow from the components' since a behaviour stays with the
component it is about.  Where a component has a proof module of its own, the sum
instantiates that, so that its theorems can be cited.  `MCShared` and `MCCommands`
give the constants of a run.

`AlgorithmParts` is a sum too, of algorithms: the first step chooses an `input` of one
of them, `about` says which, and the behaviour stays with it, so that an invariant
compares what the algorithm makes of any of its inputs with a reference definition.
The job permutation alone takes steps of its own (`Walk`).  The families of inputs
are constants, of which `AlgorithmAssumption` says no more than what the program
hands to the algorithm (`IsReport`, `IsOptions`, `IsFrame`, `IsGenerator`,
`IsLookup`, `IsService`): the theorems are about every such input, and `MCAlgorithms` has small
families of them.  `Others` are the inputs of the algorithms that are checked and not
proved about.

### The worker pool

**ScanContract.**  What a caller sees of `Engine.Execute`: a set of jobs is
skipped, each of the others is reported once, then the call returns.  It is the
specification `ScanEngine` implements, and `ResumableScan` is built on it.

**ScanEngine.**  `ExecuteWithProgress`.  The goroutines are the dispatcher
(`Dispatch`, `SendJob`, `EndFlush`, `LastFlush`; `dpc` is where it stands), the
workers (`Recv`, `Check`, `Scan`, `Send`, `Exit`), the closer (`CloseResults`)
and the caller, who collects (`Collect`, `Finish`).  `jobs` and `results` are
the channels; a send is enabled while there is room, a receive while there is
something, `Exit` and `Finish` when the channel is closed and empty.  A job is
its index in the flattened space, as in the code, so that an address listed
twice makes two jobs with one key.  `cp` is the checkpoint as it was loaded: `done`
has the keys among this scan's that it holds a result for, and `loaded` counts every
line of it, which may be of another target or port, or of a key that is there twice
(at most `MaxOther` lines more than keys).  The engine counts them all as completed.
`Scan` lets `dispatchScan` return any state, a panic included; which technique
it tries is `ScanOptions`'.

**GuardedScan** extends it with the breaker's own state: where `ScanEngine` lets
any observed result trip its target, here the result is handed to
`OTGuard!Observe`, and `tripped` is what that module says.  **OTGuard** has one
action, as a call holds the mutex throughout; it keeps the history of what was
observed, and states what such a history calls for independently of the
counters.  A reply the code treats as unmeasured (`rtt <= 0`) leaves the breaker
as it was.

**ResumableScan.**  The command run several times over one file.  `WriteData`,
`WriteNewline` and `FlushBuffer` follow `bufio.Writer`: what does not fit tops
the buffer up and goes to disk, so the file may end anywhere in a line.
`Interrupt` is `os.Exit` in the signal handler, a hang-up or a crash at any
point.  With `DiskMayFail` a write may be cut short; the writer's error is
sticky, as in the library, and `cp.close` reports it.

**JobPermutation.**  The draws of `newJobPermutation` are the initial states, a
turn of the loop in `next` is a step, and arithmetic is modulo a word.

### What workers share

**ProbeWaiters.**  The register, drain, send, receive or time out, retry, close
cycle of a raw probe, and the receive loop, whose look-up of a waiter and put
into its channel are two steps (`RxLookup`, `RxPut`).  The network delays, loses
and reorders replies, and may add replies of its own.  Decoys are scanners that
send and never receive, under the key of the probe they cover.

**XDPProbes.**  The same over AF_XDP: `Register` before the first frame, `Queue`
for each frame of a fragmented probe (`Congested` when the queue is full),
`Receive`, `Timeout`, `Release`; `HandleFrame` and `Deliver` are the receive
loop.  Decoys only send.  `Ask` and `Answer` resolve a next hop, once for all
probes that share it; a probe may not send while it is being resolved.

**UDPProbe.**  `Dial`, then `Write` and a read that ends as `Refused`, `Reply` or
`Timeout`, for each attempt.  `sockErr` and `rx` are what the system keeps on the
socket between the calls: an ICMP refusal, which the next call returns whichever
it is, and datagrams.  A `Write` that returns a refusal has sent nothing, and the
code does not look.  `inTime` remembers what arrived when a read could still
have returned it.

**Pacer.**  `pacedWait`: every load and every compare-and-swap of
`acquireBatched` and `WaitN` is a step, the clock moves by `Tick`.  A history
variable `since` picks an earlier instant at will, so that the rate is bounded
over every interval and not just from the start.

**RateController.**  What a worker does with a result: `FirstSample`,
`StoreMean`, `StoreVar`, `LoadMean`, `FoldMean`, `FoldVar` for the round-trip
time, `Count`, `AddLoss`, `ClaimWindow`, `TakeLosses`, `AdjustRate` for the rate;
each atomic operation is a step.  `history` records what should have been
counted.

**ConnPool.**  Get (`Pop`, `Check` with the mutex released, `Drop`, `Dial`), Put,
and the reaper.  The liveness test reads with a deadline of a nanosecond and may
come out either way whether or not the peer is there.

**IdleScan.**  A reading of the zombie's counter is `Listen`, then `SendACK` and
`Timeout` or `Read` for each attempt; all readings have one key, so that the last to
listen gets the replies, and whoever ends deletes it.  `SendSpoofedSYN` is the packet
in the zombie's name.  The zombie answers an ACK (`ZombieAnswers`) or the target
(`Answer`) early, late or never, and talks to others (`Noise`); each packet raises
its counter, and each RST to an ACK carries the identifier it had then and may be
read at any later time, by a later attempt or another job.  What the zombie has sent
that could mislead a job is history: `clean` and `answered` of an RST, `disturbed`,
`raisers`, and `retried`, the jobs an attempt of which has timed out.

### The AF_XDP engine

**XDPEngine.**  The engine's life.  Main runs `InitXDPEngine` (`Load` to
`Publish`, each step with the failures it handles), then the scan, then its
deferred `ShutdownXDPEngine`; a panic of main runs the deferred call and then
the recovery, which calls it again.  The signal handler may run the same
function at any moment, and then exits.  `ShutdownXDPEngine(t)` is therefore a
sequence of steps for each of the two goroutines, with the tests of `xdpRunning`
and `xdpColl` apart from what is done after them; `pc[t]` is where `t` stands.
`rx[q]` and `flusher` are the loops.  Two things the code leaves open are
choices here: a loop that uses a closed socket may get away with it or kill the
process, and closing the link succeeds (on an error the code only logs it).
Socket, map, link and collection are the kernel's; what a call of the libraries
does to them is taken from how `xdp.go` uses it.

**XDPRings.**  What the loops do while the engine runs: the queue from the
scanners (`TransmitFrame`, which never waits), the flusher (`Coalesce`,
`xdpFlushBatch`), the receive loop (`Refill`, `Take`, `Handle`), the senders of
decoys, and the kernel at the other end of the four rings (`KernelReceive`,
`KernelSend`).  `xdpSockLock` is held from the first step of a pair to the
second, as in the code.  The library is external: `GetDescs` looks free frames up
and does not take them, which is why the lock must cover the look-up and the use.

### Commands

**Session.**  `phase` walks through main: `Load`, `Scope`, `Exclude`,
`Traceroute`, `Discover` (the ARP sweep), `Ping` and `Pinged` (one goroutine for
each host left, as many at a time as there are workers), `Waited`, `Scan`,
`DualStack`, `Inspect`, `Services`, `Vulns`, `LoadBaseline`, `Export`, `Compare`;
`Exit` at every early return, `Interrupt` at any point, `Again` for the next run
over the same state file.  `probed` collects whom each phase has sent to.  What is
up changes between runs.

**WebScanServer.**  `Request` to `Answer` or `Check`, then `Start`, which takes
the mutex; the scan's goroutine calls `Progress` and `Finish`; `Status` is a
poll.  A request is the set of its faults, and `Checks` is the order the code
looks for them in.

**Installers.**  `Begin`, `Fetch`, `Verify`, `Create`, `Write` (which may be
short), `Rename`, `DropTemp`, `Cleanup` for an update or an installation,
`BeginRemove`, `Stat`, `Remove` for a removal, several commands at once, `Kill`
at any step, and `Load`, the start of a scan or of tcpcat itself.

**EvidenceBundle.**  `Generate`, `WriteKey`, `WritePub` for keygen; `Record`,
`WriteBundle`, `WriteDigest`, `WriteSig` for a scan; `verifyBundle`, `VerifyOnly`,
`BeginReplay`, `Probe`, `EndReplay`; `Kill`, and between commands `Edit`,
`MoveKey` and `MovePub`.  `TCPProbe` is the probe that the command uses, which never
gives an error, and `Result` what `Replay` makes of a probe's answer, errors
included.

**PolicyCheck.**  `Begin`, `PlanChecks`, `ScanRule` for each rule in the order of
the file, with what the network then lets through, `Save`, which may fail, and
`Matrix` over saved reports.  Checks and results are indexed by the place of their
rule in the file.

**ScriptRunner.**  The loop over the results at the end of a scan
(`NextResult`, `Return`) and `RunAll`: `Probe`, `Finish` and `Done` are the steps
of a script's goroutine, `Collect` what main does once all are done.  What a
script computes is an outcome that names the port it ran on.  The histories `asked`
and `said` remember for which result of the list a script ran, as a port may be in
the list twice.

### Algorithms

**TargetExpansion** (addresses as sequences of octets, with `incIP` and its
carry), **ScanOptions** (tokens of a command line, options as a set of flags, the
precedence of techniques), **Fragmenter** (a payload cut into fragments under
headers of ten words), **VulnLookup** (versions as tokens, feed entries with
aliases, scores and ranges; a scan's ports are looked up one after the other, and
`OfflineAt` is the offline database's list as a port finds it, with what an earlier
one has written into it), **Exposure** (compare, drift, explain; a comparison's
report is by place of the result, since an address that is given twice is reported
twice),
**ServiceDetection** (a port as what it answers to each stage, the stages as
functions that return what `ServiceInfo` then holds, each early return of
`DetectService` a case of `Passive`; `IsServer` says that a port speaks TLS to all
who ask or to none), **Fingerprints** (JARM's
orders, the walk over a hello's extensions and over TCP options byte by byte,
clusters).  Rows are put in order by `InOrder`, which gives an element the place that
the number of those before it says; `Selected` and `StableSort` are instances.  They
are operators without state, so that a definition stands for a
function of the code, and its properties relate it to what it is for.  `Panics`
is what a stage returns that reads past the end of an answer, and what then becomes
of `DetectService`, `Failed` an error,
`Endless` a loop that does not stop.

## 3. What the runs show

| Run | Bounds, and why they are enough | Shows |
|---|---|---|
| `engine` | 2 workers, 5 jobs, batch 2: a channel holds 4, so both can be full and the dispatcher, the workers and the collector can all be blocked on one another; a duplicated address, all sets of keys in the resume file, with and without a line that is not this scan's, dispatch in every order | no job is lost or doubled; channels are closed in order; the call returns; the pool implements the contract |
| `guarded` | 1 worker and batch 1 (what `--profile ot` forces), 3 x 2 jobs of 2 targets, baseline of 1 reply, streak 2, 2 losses, replies at, above and below the threshold and unmeasured | trips exactly when due; a device in distress gets no further probe; the counts are those of the results on top of the lines loaded |
| `xdp` | 2 queues: the first, which the engine cannot do without, and one it can; any step fails or not, one signal at any moment, a panic or none. Rings of 1 and the 4 frames that `xdpSocketOptions` gives them, so that frames run out; a probe of 3 fragments over a queue of 2 and batches of 2, so that it may be cut short; a decoy and 2 replies | the hook redirects to open sockets only; without a signal nothing is left behind; a scan starts with all it needs; no frame has two uses; what is sent or parsed is what it was |
| `shared` | pacer: 2 workers (lost races need two), batches of 2, 6 ticks: three windows, or an idle stretch and a burst. Pool: 2 workers, 2 addresses, 3 connections, 2 idle to an address. Rate: 4 probes of 2 workers over windows of 2. Idle: 2 jobs of which one's port is open, 2 attempts, so that an RST is read late, 4 identifiers, so that the counter wraps, 1 packet of noise. Probes: one port of two hosts, 2 attempts, 4 kinds; over AF_XDP also a decoy, and 2 fragments. UDP: 3 attempts, so that what is late for one can be late for the next | what workers share is conserved, has one owner, and gives the verdict of the host that was asked |
| `commands` | two runs of a session with six kinds of command over two IPv4 addresses and an IPv6 one; 2 clients and 2 scans of the web server; 3 runs over a checkpoint of 3 records, shorter than, as long as and longer than the buffer; 2 installers of one executable and one module in 2 versions, 3 starts; 4 evidence commands, 2 keys; 3 policy commands from 2 vantages; 2 scripts, 3 results of which 2 open and of one port, a budget of 1 probe | who is sent to; what is compared with what; one scan at a time; what survives an interruption; what verifies; what exit statuses mean; commands and scans end |
| `algorithms` | addresses of 2 octets of 2 bits (every prefix length, range and carry); scope and exclusions of up to 2 entries; command lines of up to 4 phrases in every order; 512 sets of options x 3 profiles; payloads of 1 to 41 bytes cut at 8 to 20 under headers with no, one and two carries; versions of up to 2 tokens; feeds of up to 3 entries; a lookup of up to 3 ports with one offline database, whose rows say nothing yet or something, with room to append or not; 2 scans of up to 3 results, the same target twice among them, or inventories of up to 2 ports; every stage's answers, short, exact and long; certificates around each boundary of expiry; hellos around each length the parser tests; n up to 9 jobs (over the powers of two 1 to 16), all draws | each algorithm is what its reference definition says |
| `resume_refused` | as `commands` | a violation: see 6 |
| `dual_stack` | as `commands` | a violation: see 6 |
| `probe_unheard` | a raw probe and a decoy | a violation: see 6 |
| `xdp_exit` | as `xdp` | a violation: see 6 |
| `ot_profile` | as `algorithms` | a violation: see 6 |
| `ot_reply` | as `algorithms` | a violation: see 6 |

`shared`, `commands` and `algorithms` do not check for deadlock: probes end, the
pacer's clock stops at `Horizon`, commands are run a bounded number of times and
an input is looked at once.  In `engine`, `guarded`, `xdp` and `probe_unheard` a
state that should not stop would be reported; those modules say with a step of
their own when they are through.  Bounds are constants of the modules (`MaxRuns`,
`MaxCommands`, `MaxStarts`, `MaxScans`, `Horizon`, `MaxProbes`, `MaxNoise`, `MaxOther`,
`Attempts`, `MaxJobs`, `MaxLoaded`).

**Fairness.**  `ScanEngine` assumes weak fairness of the dispatcher, each worker,
the closer and the collector.  The Go scheduler preempts and starves no
goroutine, a channel serves those blocked on it in order, and a probe ends by
its timeout, so a step that stays enabled is taken.  Weak fairness of a worker as
a whole is enough, as it is at one place at a time.  `Session` assumes it of main
and of the goroutines that ping, `WebScanServer` of the scan's goroutine, for the
same reasons as the engine, and `ScriptRunner` of the loop and of the scripts, taken
to end; neither of the next run of a command, of a request
or of a poll.  No property needs strong fairness.

## 4. What is proved

Every state invariant the passing runs check, but for two of `algorithms`, is a
theorem, and so are the refinement of `ScanContract` and the action
properties `DistressEndsProbing`, `DrainDiscards` and `NothingUndone`: for every
number of workers, queues, scanners, targets, files and commands, every size of
rings, buffers and batches, and without the bounds of the runs.  Each rests on an
inductive invariant, found with TLC and proved to hold at first and to be kept by
each action.

**The worker pool, `ScanEngineProofs`.**

* `TypeCorrect`, `Partition` (`NoJobLostOrDuplicated`), `OrderlyShutdown`,
  `Complete` (at return there is a result for each address and port asked for),
  `ImplementsContract` (the refinement) rest on `IInv`: the types, the partition
  of the jobs over the stages of the pipeline (unvisited, batch, jobs channel, in
  a worker's hand, results channel, reported) and the facts about shutdown.  The
  partition is not inductive alone: that a worker's hand is empty exactly at
  `recv` and `exit` is needed for a job not to be overwritten, that a stage holds
  a job once for a move not to leave a copy behind, and the order of shutdown for
  `Finish` to imply that no stage but the last holds a job.
* `ProgressIsExact` (`ProgressConsistent`): the counts of the progress are those of
  sets of jobs, and each collected result adds one to one of them.  It holds for
  every file: the count ends off the total by the difference of the lines loaded and
  the jobs skipped, so beyond it when the file has lines of another scan (section 6).
* `GuardStops` (`NoProbeAfterTrip`) needs that there is a single worker when the
  breaker is installed, an assumption of the module (`EngineAssumption`), which is
  what `ApplyProfile("ot")` sets (`config/options.go:756-791`).
* `GuardedIsAScan`: with the breaker's own state in place of an arbitrary verdict,
  the pool is still a `ScanEngine`, so that all of the above holds of it.
* `TripsExactlyWhenDue` (`TripsWhenDue`): a target is tripped if and only if its
  history calls for it.  `BreakerInv` says of each counter that it is the length
  of the run of losses, or of slow replies, at the end of the history, and of the
  baseline that it was made of the first samples.  `DistressIsLeftAlone` follows.

**The AF_XDP engine, `XDPEngineProofs` and `XDPRingsProofs`.**

* `RedirectsToOpenAlways` (`RedirectsToOpen`) holds because whoever is past the
  detaching in `ShutdownXDPEngine` has taken the hook off (`DetachedFirst`), and
  because nobody closes a socket while main attaches and binds: until `xdpRunning`
  is set the handler's call returns at once (`BootsAlone`).  That the socket main
  has just bound is the one after those it has mapped keeps a failure to map it
  from closing one that is.
* `ExitReleases` (`UninterruptedExitReleases`): for each place main can be at, the
  invariant says which sockets can be open and whether hook and collection are
  held (`MainHolds`); that the loops use mapped sockets only (`LoopsAreMapped`)
  gives, with the first theorem, that a crash on a closed socket finds the hook
  off.  `ScanHasWhatItNeeds` (`ReadyToScan`) says the same of the scan that begins.
* `FramesAreInOnePlace` and `FramesCarryWhatTheyShould`, and over the sum
  `EachFrameStaysInOnePlace` and `FramesStayIntact`.  `GetDescs` leaves the frames it
  hands out in the table of free frames, so that what it returned is true only
  while no one else uses the table: the invariant says who holds `xdpSockLock`,
  that whoever has frames in hand holds it, that these are free and different, and
  for each ring which frames are where.  The descriptors in flight are bounded by
  the frames, hence by what the rings have room for.
* `PartsImplementEngine` and `PartsImplementRings`: the sum implements both.

**What workers share, `PacerProofs` and `SharedProofs`.**

* Pacer: `SlotsAreConserved` counts what the refiller in progress still owes;
  `WindowsAreDisjoint`; `KeepsTheAverageRate` counts, for an instant in the past, the
  batches begun since: each belongs to a worker that has not reserved its window,
  to one that sleeps until it begins, or to a window since then, of which the time
  elapsed has room for so many.
* Connection pool: `ConnectionsHaveOneOwner`, `NoneLeaksOrIsUsedClosed` and
  `ReuseIsToTheSameAddress` hold each other up: Put may append because the connection
  it holds is in no list, and a dialled one is nobody's because those in use have a
  peer.
* Rate controller: `EveryLossIsJudgedOnce`, `EstimateIsAmongTheSamples`; the first
  sample may be folded into before it is stored, so that the invariant is about
  nobody being at the store, not about the estimator being marked initialised.
* Probes: `VerdictsAreTheHosts`, `RepliesTakenAreFresh`, `NoReplyIsUnheard` and their
  counterparts over AF_XDP and UDP.  A reply stays with the key of the host and port
  it comes from all the way from the wire to the channel, since the table has only
  probes of that key under it; whoever takes it, at whatever attempt, learns what
  that host is.  That no reply is dropped assumes that no two scanners share a key
  (`OneProbeAKey`); section 6 has what happens when they do.
* Idle scan: `TheUndisturbedAreRight` and `TheAloneAreUndisturbed`.  An RST that is
  the zombie's first packet since a job's first reading, but for the answer to its
  SYN, is one past that reading, or two past it if the answer came: the invariant
  says so of every RST that may still be read.  And a job that has the zombie to
  itself and none of whose attempts timed out has one ACK on the wire at most, so
  that the only RST there is to read is the one it asked for.  This needs three
  identifiers at least, or two packets would look like none.
* The sum's theorems: `SlotsAreSpentOnce`, `TheAverageRateIsKept`,
  `ConnectionsAreOwned`, `LossesAreJudgedOnce`, `OnlyDisturbedAreMisled`,
  `EveryVerdictIsTheHosts`, `EveryReplyIsHeard`, `StaleRepliesAreDiscarded`.

**Commands, `CommandProofs`.**

* Web server: `OneScanRunsAtATime`, `ResultsAreTheLastScans`, `PollsGoOn`; the scan that
  runs is the last started, and what is shown is all of it or nothing.
* Installers: `ScansLoadWholeFiles`, `NoTemporaryFileStays`, `FilesAreReplacedWhole`; the
  invariant says for each place a command can be at what its temporary file holds.
* Evidence: `VerifiedEvidenceIsAScans`, `SigningKeysAreKept`; every bundle, digest and
  signature on disk that fits is of some scan, and every key that has signed is kept.
  Of replay's status it says what answered probes imply: nothing is claimed of one
  that failed on the scanner's own side (section 6).
* Checkpoint: `LoadedResultsAreGenuine`, `AQuietCloseIsComplete`, `NoResultIsMadeAgain`.  The
  invariant is about the stream of units that file, buffer and the record in
  progress form together: the first unit of a job's record is written once at most,
  so that a line that parses has one only, and what is dropped by an error of the
  disk leaves `werr` set.
* Session: `OnlyTargetsAreSentTo`, `DiscoveryFindsThemAll`, `ComparesWithTheRunBefore`.
  The phases that filter come before those that send (`PhaseOrder`), and narrowing
  keeps an address as often as it was listed.  While pings run, each target is
  counted once over those found, those that wait and those being pinged.  The state
  file is the one read until the export, which comes after.
* Policy: `ExitStatusIsTheVerdict`.  The checks are those of all rules of the vantage,
  each result is judged by what was reachable when its rule was scanned, and a saved
  report says what held then.
* Scripts: `ScriptResults`.  The results gone through are in the list in their order
  (a shown result's place is the number of those shown up to it), and while scripts
  run the channel holds what they have said of this result and nothing else; it is
  open because whoever sends is counted by the wait group.
* The sum's theorems: `OnlyTargetsAreSentTo`, `DiscoveryFindsThemAll`,
  `ComparesWithTheRunBefore`, `ResultsAreThisScans`, `OnlyGenuineResultsLoad`,
  `NoWarningNothingMissing`, `WholeFilesAreLoaded`, `VerifiedWasRecorded`,
  `ExitStatusIsTheVerdict`, `NoStepUndoes`.

**Algorithms, `AlgorithmProofs` and `LookupProofs`.**

* `EverythingVisitedOnce` (`VisitsEachOnce`).  The permutation and the random order of a
  network are both a linear congruential generator modulo a power of two.  In 2^e
  steps it moves by 2^e but for a multiple of 2^(e+1), by induction over e, which
  needs the multiplier to be one more than a multiple of four and the increment odd;
  so two equal values are a whole modulus of steps apart, and as many different values
  as there are leave none out.  A machine word that wraps is a multiple of the
  modulus, so that wrapping takes nothing away from the remainder: `4 * MaxJobs <=
  Word` is what an index of 64 bits gives.  For the permutation the invariant
  (`PermutationInv`) says of each step how far the walk is and which values it has
  passed over.  `RandomOrderVisitsEachOnce` has the network's part alone.
* `ReportsAreExact` (`ReportsExact`).  Each fold of `compare`, `drift` and `explain` is
  shown to be the set it stands for.  A comparison looks a result up in a map by
  address and port, which keeps the last of several (`PreviousIsLast`): what is told as
  new is what is open and was not in that one (`OpenBeforeIs`), and where the results
  of an address and port agree the last is as good as any (`SettledIs`), so that a
  difference one way is none the other.  The widest binding of a port is that of some
  listener and no narrower than any, and a class of `explain` follows from the state
  of its port and from whether a canary was answered.
* `SentAsAsked` (`SendsAsAsked`), of the technique and of fragments.  Profiles are
  applied after the flags, so that what a profile turns off stays off; the list of
  techniques to try is finite, and what is sent is the first that decides and those
  before it, each of a kind that was asked for.  `FragmentsReassemble` has the cuts at
  multiples of eight octets, the offsets and flags, and the checksum: folding a sum of
  ten words twice leaves no carry, and adding the complement gives all ones.
* `LookupsAreRight` (`OneRowAndTheWorst`).  A comparison of versions is that of their
  first different tokens, which is a total order; the last event a version has reached
  tells its window, by induction over the events; after any number of entries a feed's
  rows have one row an identifier with the highest score stated (`FoldedSoFar`); a
  sort is a one-to-one assignment of places, so that no row is lost or doubled, and
  the first row without a note has the highest score of those; a port's rows are
  confirmed by its own distribution, or, where it names none, by the offline database
  as the ports before it have left it; the requests for
  predictions join to the list that was asked about.  `sort.Slice` promises no order
  of equal scores where the model has one; what is told of them is the same.
* `ServicesAreAnswered` (`ServicesAsAnswered`), of a detection that comes to an end.
  What is found of TLS is attached before any stage can end the detection, and no
  stage but `activeProbe`, which makes a report of its own, takes it away again
  (`KeepsTLS`): none of its ports is among those known for TLS, so that the claim is
  made for these, and for others under `--jarm` if they had no question of its to
  answer.  For each stage the name and version it gives are among those announced,
  or for RDP the security layer that was picked, which its test asks for.  A device's identification is read
  object by object, and once the first runs past the end nothing is said, by
  induction over the objects (`FirstObjectFits`).  The registry after k servers is
  what the first k showed (`RegistryIs`), so that a certificate has two hosts in it
  exactly if two showed it.  Days are hours divided and truncated towards zero: that
  the grades are in order for negative hours too is arithmetic (`ExpiryIsOrdered`).

**Assumptions** are on the constants only, and TLC evaluates them in the runs:
at least one worker and finitely many; batch sizes, windows, rings, queues, buffers
and records of at least one; targets and ports as sequences; "filtered" among the
states a scan may return; four frames for each place of a ring, as
`xdpSocketOptions` has them; decoys apart from the receive loop and the flusher; a
rise of more than 100 percent and streaks of at least one for the breaker
(`BreakerAssumption`, which also has the guard in use); more than two IP
identifiers; a command that has targets (`SessionAssumption`: `ParseTarget` fails or
gives an address); results with a port and a state; a word of a power of two that has
room for four times the jobs; at least one octet of an address, bit of an octet and
port; no loopback address among those of a host's interfaces; "failed" apart from what a
stage of service detection finds, and a table of greetings with a name in each row
(`ServiceAssumption`); inputs as described with
`AlgorithmParts` in section 2.  What no assumption can be made
of is left open: what the network does, what a scan returns, when a process dies.

**Model-checked only.**

* `Returns` and `Ends`: liveness under fairness is out of TLAPS's reach.
* `ExpansionExact` and `FingerprintsFit`.  They walk over the octets of an address and
  over the options of a packet byte by byte, each from where the one before ended.
  Induction over numbers is within reach (by the least number for which a claim
  would fail: so go the folds, the events of a range and the generator's leaps
  above); these need an invariant over several nested walks at once, and for
  `FingerprintsFit` over sets of clusters that merge, and over the longest common
  subsequence of any two orders.  They also use `SelectSeq` and `FoldLeft`, whose
  parameter is an operator, and the provers expand neither.

## 5. What is not modelled

* **Bytes of packets**: TCP headers, payload tables, the UDP and QUIC payloads and
  their recognition, the eBPF program.  No property here tells them apart; unit
  tests reach them well.
* **The evasion orchestrator** and what it is made of (`FragmentationEngine`,
  mutations, timing), with `scan/evasion.go`, `evasion_integration.go` and
  `optimization.go`: nothing in the program calls them.  Of the package a scan uses
  the fragmenter, which is modelled, and the parsing of decoys and payloads and a
  dialer that sets source port and TTL, which are not.
* **I/O**: interfaces, inventory and passive capture, AWS, and what an HTTP API
  answers (its answer is an input).
* **The WebAssembly runtime**, a library, and what scripts compute in it.
  `scripting/advanced.go` is called by tests only.
* **The DNS cache**: nothing in the program calls it.
* **Formats and wording** of reports, pages and reasons; configuration's table of
  flags; the remote vulnerability APIs' formats and the arithmetic of CVSS.
* **`Pool.Close` and `DiscoverHostsXDP`**: nothing calls them.
* A power failure between a write and its reaching the disk: `update.go` and
  `hub.go` never sync, so that nothing is promised.

## 6. Where code and documentation disagree

Shown by a run:

* **An interrupted scan may refuse to resume** (`resume_refused`).  The signal
  handler exits (`cmd/tcpcat/main.go:478`) with the checkpoint's buffer where it
  stands; the file ends in a torn line, and the next run reports it corrupt
  (`scan/checkpoint.go:57-60`), though resuming after Ctrl-C is what the file is
  for (`checkpoint.go:11-15`).
* **A decoy can make its probe deaf** (`probe_unheard`).  Its scanner stores and
  deletes the same key (`raw_tcp.go:219-221`, `348`), so the reply is dropped as
  in the race `raw_tcp.go:212-218` guards against.  Over AF_XDP decoys register
  nothing, and `shared` shows that no reply is dropped there.
* **The XDP hook may outlive the program's own detaching** (`xdp_exit`).
  `docs/SECURITY_ASSESSMENT.md:50-53` says it "is detached deterministically on
  exit".  A signal during `InitXDPEngine` finds `xdpRunning` not set, one during
  main's own shutdown finds it cleared already, and in both cases the handler
  exits with the hook attached: it goes when the kernel closes the descriptors,
  which `xdp.go:31-44` calls non-deterministic.
* **`--dual-stack` scans beyond scope and exclusions** (`dual_stack`).  The IPv6
  counterparts are looked up and scanned (`dualstack.go:29-62`) after both filters
  have been applied to the targets (`main.go:261-282`; README.md:671, 673).
  `TargetsAuthorized` shows that every other phase keeps to them.
* **`--profile ot -sI` is an idle scan** (`ot_profile`).  The profile leaves
  `ZombieHost` as given (`options.go:756-791`), and the engine looks at it before
  connect scans (`engine.go:526`); README.md:310 has connect scans only.
* **A short Modbus reply ends the command** (`ot_reply`).  `ot_probe.go:25-27` says
  that after a probe without a useful answer "the device is no worse off than without
  --ot-probe".  `modbusIdentify` asks for six bytes (`ot_probe.go:104`) and reads the
  seventh (`ot_probe.go:110`); the panic is main's own, whose handler prints "Fatal
  error" and exits with 1 (`main.go:109-117`), so that nothing of the scan is exported.

Kept apart from the properties, which say what the code does:

* **The pacer's burst** is up to a batch for each worker that waits, and not the "small
  burst (up to 64 packets back-to-back)" of `adaptive_rate.go:102-103`: a refiller's
  batch may be spent before its sleep.  `AverageRate` is about the long-run rate and
  has room for these batches; it is not that comment's claim.
* **Progress may end beyond its total.**  Prior results "already count as completed
  against the full target*port total" (`engine.go:286-288`), and so does every line of
  the file (`checkpoint.go:61-62`, `engine.go:289`), of other targets and ports too.
  With an address listed twice and one result loaded it stops short of the total.
  `ProgressConsistent` says by how much.
* **An idle scan may take a closed port for an open one with nobody else about.**  Send
  drains "a stale reply left over from an earlier retry attempt" so that it is not
  returned (`raw_tcp.go:237-240`), but an RST to an attempt given up may come after the
  drain, and its ACK may reach the zombie after the first reading: the counter then
  moves by two with no answer from the target.  `OnlyDisturbedMislead` has such a job
  as disturbed.
* **An error of replay's probe.**  `Replay` counts one as not fixed
  (`evidence/replay.go:49-50`, `evidence_test.go:106`, `119`, `122`), but the probe of
  the command never gives one (`replay.go:26-39`): a dial that fails on the scanner's
  own side counts as fixed.  `VerifiedIsRecorded` says nothing of such a replay.
* **A port may inherit another's confirmation.**  The refinement by distribution
  (`main.go:746-751`) writes into the list of the offline database
  (`offline.go:163-168`), so that a later port with the same software and no packaging
  suffix has "distro-backport-confirmed" rows, though that is "only meaningful" where a
  suffix is recognised (`main.go:728-730`).  `OneRowAndTheWorst` says exactly when.
* **A target that is given twice is reported twice** (`target/parser.go:83-96` never
  removes one), and if its two results disagree, a scan compared with itself may raise
  an alert, though "No alert is sent when nothing changed" (README.md:361).
  `ReportsExact` promises silence only where results agree.
* **TLS that `activeProbe` drops.**  `service/engine.go:124-126` attaches it "for every
  TLS port"; a port that is asked for TLS only because of `--jarm` and then answers a
  question of `activeProbe` is reported by that answer alone (`engine.go:352-354`).
  `ServicesAsAnswered` does not claim TLS of such a port.

Met while reading, without a run:

* a reply to attempt k that arrives in attempt k+1 is taken for its reply; the
  drain only covers those already in the channel, and over AF_XDP it comes before the
  wait for the pacer (`xdp.go:865-872`), so that one which comes during that wait is
  there when the frames are sent: `DrainDiscards` counts an attempt from its drain;
* `flagTakesValue` (`policy.go:242-248`) does not list replay's `-timeout`, so that in
  `replay --timeout 500 audit.json` the bundle is taken to be 500 and the flag's value
  audit.json, which is no number: the usage is printed (`cmd/tcpcat/evidence.go:138-144`);
* below 20 pps the AIMD increase is zero (`adaptive_rate.go:258`), so that a
  limiter halved to less stays there; a window's loss rate may exceed 100%
  (`247-251`); with `--adaptive-rate` the rate of `--profile ot` may rise to 20;
* a port skipped by the breaker is recorded as scanned (`engine.go:200-203`,
  `292`), so that a resumed scan leaves it out;
* `expandCIDR("0.0.0.0/0")` and a range whose end is below its start never stop
  where they should (`target/parser.go:152`, `184`);
* shutdown closes AF_XDP sockets while loops may be using them
  (`xdp.go:441-460`), and the plain boolean they test is not synchronised; the
  collection stays loaded when the interface is not found (`xdp.go:296-299`),
  until the process exits, which it does next; two shutdowns at once may both
  find `xdpColl` set, and the slower calls `Close` on nothing (`xdp.go:474-480`);
* a next hop that missed its one ARP answer stays broadcast for the whole run
  (`xdp.go:199-216`); `-sI` together with `--ebpf` sends the SYN from the
  scanner's own address (`engine.go:516-524`); a safe-production scan asked for
  over the web may get a raw scan type after its profile was applied;
* `ScanXDPPort` without a socket reports "closed" and not an error;
* keygen leaves an orphan `.key` when the `.pub` exists; a required port that a policy rule does
  not allow fails it always (`policy.go:165`, `report.go`);
* a listener that widens from loopback to one interface is not counted as newly
  exposed (`drift.go:63-73`);
* RDP and RFB put a protocol's security layer or version where the software's
  version belongs, and the system read from a banner depends on a map's order;
  `GenerateSignature` panics on a header length below 20, a `Panics` here; a window
  scale of 255 reads as absent;
* an archive's executable beyond 128 MB is cut silently
  (`update.go:166`, `198`), and rejected by nothing, its digest being the archive's;
* a refusal that comes between two reads of a UDP probe is taken by the next
  `Write`, whose error is discarded (`udp.go:61`), so that a closed port may read
  open|filtered; a reply to an earlier attempt gives the round-trip time of the
  later (`udp.go:88-90`).  The UDP part of `NoReplyUnheard` is about refusals that a
  read could still return, and this is not one;
* the WebAssembly runtime is made without closing modules when their context is
  done (`scripting/engine.go:76`), so that a script that loops is not stopped by
  its time limit, and the scan waits for it; `--quiet` skips the scripts
  altogether (`scan/engine.go:360-362`);
* `--fragment` acts over AF_XDP only (`xdp.go:843`, `985`), where it leaves a relay
  out; without `--ebpf` the fragmented attempt of a bypass sends the plain probe
  again; a fragment size below 8 would never end (`fragment.go:20-28`), but 8 is
  the only one asked for.

## 7. Plan

The system's components that keep state, and the algorithms on which their
results rest, are modelled, and what the runs check of state machines is proved.
To come:

1. The algorithms that walk: `TargetExpansion`'s addresses, ranges and exclusions over
   all lengths of octets and the options in `Fingerprints`, as `VulnLookup` and
   `ServiceDetection` are, with folds that are functions on numbers.
2. Refinement: the pool of `Session`'s pings and `ScriptRunner`'s collection as
   instances of one contract, as `ScanEngine` is of `ScanContract`.
3. Safety halves of the liveness properties: where each component can stop, and
   that nothing waits for what cannot come.
