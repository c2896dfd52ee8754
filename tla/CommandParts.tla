---------------------------- MODULE CommandParts ----------------------------
(* What outlives a command, or is asked of it from outside, each part on its *)
(* own: the session of a scan, the web server, the resume checkpoint, the    *)
(* installers, evidence bundles, policy checks and a scan's scripts.  which  *)
(* is the one that a behaviour is about; the variables of the others are     *)
(* Unused.  A variable here stands for the one of that name in each module   *)
(* that has it.                                                              *)
EXTENDS Integers, Sequences, FiniteSets

CONSTANTS
  V4, V6, Commands, MaxWorkers, MaxSessions,                   \* of Session
  Clients, Requests, Total, MaxScans,                          \* WebScanServer
  Jobs, Size, Cap, MaxRuns, DiskMayFail,                       \* ResumableScan
  Processes, Executable, Modules, Versions, MaxStarts,         \* Installers
  Listeners, Keys, MaxCommands, NotThere, CutShort, None,      \* EvidenceBundle
  Policies, Vantages, Resolves, Scopes, NetPorts, MaxChecks,   \* PolicyCheck
  Scripts, AllResults, MaxProbes,                              \* ScriptRunner
  Unused          \* a variable that the behaviour is not about

VARIABLES
  which,
  phase, results, asked, reports, file, pc, data, exit, commands,   \* in more than one of them
  opts, up, aaaa, code, targets, pending, pinging, active, baseline,
  stateFile, run, probed, before, compared,
  admitted, status, running, progress, shown, scanners, started, served, seen,
  skipped, finished, buf, pend, werr, warned, runs, produced, ragged, failed,
  temp, path, want, left, starts, loaded,
  key, pub, bundle, digest, sig, new, withPub, todo, still, used, recorded,
  moved, last,
  policy, vantage, scope, checks, nets, truth,
  flags, at, finalResults, resultsChan, open, probes, said, panicked

sessionVars == <<opts, up, aaaa, code, targets, pending, pinging, active,
                baseline, stateFile, run, probed, before, compared>>
webVars == <<admitted, status, running, progress, shown, scanners, started,
                served, seen>>
resumeVars == <<skipped, finished, buf, pend, werr, warned, runs, produced,
                ragged, failed>>
installVars == <<temp, path, want, left, starts, loaded>>
evidenceVars == <<key, pub, bundle, digest, sig, new, withPub, todo, still,
                used, recorded, moved, last>>
policyVars == <<policy, vantage, scope, checks, nets, truth>>
scriptVars == <<flags, at, finalResults, resultsChan, open, probes, said,
                panicked>>
vars == <<which, phase, results, asked, reports, file, pc, data, exit,
          commands,
          sessionVars, webVars, resumeVars, installVars, evidenceVars, policyVars,
          scriptVars>>

Sess == INSTANCE Session WITH MaxRuns <- MaxSessions
Web  == INSTANCE WebScanServer
Resume == INSTANCE ResumableScan
Install == INSTANCE Installers WITH Commands <- Processes
Evid == INSTANCE EvidenceBundle WITH Endpoints <- Listeners
Policy == INSTANCE PolicyCheck WITH Ports <- NetPorts, MaxCommands <- MaxChecks
Script == INSTANCE ScriptRunner
ASSUME CommandAssumption ==
  /\ Sess!SessionAssumption /\ Web!WebAssumption
  /\ Resume!ResumableAssumption /\ Script!ScriptAssumption

\* The variables of the parts a behaviour is not about.
NoSession ==
  /\ opts = Unused /\ up = Unused /\ aaaa = Unused /\ code = Unused
  /\ targets = Unused /\ pending = Unused /\ pinging = Unused
  /\ active = Unused /\ baseline = Unused /\ stateFile = Unused
  /\ run = Unused /\ probed = Unused /\ before = Unused /\ compared = Unused
NoWeb ==
  /\ admitted = Unused /\ status = Unused /\ running = FALSE
  /\ progress = Unused /\ shown = Unused /\ scanners = Unused
  /\ started = Unused /\ served = Unused /\ seen = Unused
NoResume ==
  /\ skipped = Unused /\ finished = Unused /\ buf = Unused /\ pend = Unused
  /\ werr = Unused /\ warned = Unused /\ runs = Unused /\ produced = Unused
  /\ ragged = Unused /\ failed = Unused
NoInstall ==
  /\ temp = Unused /\ path = Unused /\ want = Unused /\ left = Unused
  /\ starts = Unused /\ loaded = Unused
NoEvidence ==
  /\ key = Unused /\ pub = Unused /\ bundle = Unused /\ digest = Unused
  /\ sig = Unused /\ new = Unused /\ withPub = Unused /\ todo = Unused
  /\ still = Unused /\ used = Unused /\ recorded = Unused /\ moved = Unused
  /\ last = Unused
NoPolicy ==
  /\ policy = Unused /\ vantage = Unused /\ scope = Unused /\ checks = Unused
  /\ nets = Unused /\ truth = Unused
NoScript ==
  /\ flags = Unused /\ at = Unused /\ finalResults = Unused
  /\ resultsChan = Unused /\ open = Unused /\ probes = Unused
  /\ said = Unused /\ panicked = Unused

Init ==
  \/ /\ which = "session" /\ Sess!Init
     /\ NoScript /\ NoWeb /\ NoResume /\ NoInstall /\ NoEvidence /\ NoPolicy
     /\ asked = Unused /\ reports = Unused /\ file = Unused /\ pc = Unused
     /\ data = Unused /\ exit = Unused /\ commands = Unused
  \/ /\ which = "web" /\ Web!Init
     /\ NoScript /\ NoSession /\ NoResume /\ NoInstall /\ NoEvidence /\ NoPolicy
     /\ phase = Unused /\ results = Unused /\ reports = Unused
     /\ file = Unused /\ pc = Unused /\ data = Unused /\ exit = Unused
     /\ commands = Unused
  \/ /\ which = "resume" /\ Resume!Init
     /\ NoScript /\ NoSession /\ NoWeb /\ NoInstall /\ NoEvidence /\ NoPolicy
     /\ results = Unused /\ asked = Unused /\ pc = Unused /\ data = Unused
     /\ exit = Unused /\ commands = Unused
  \/ /\ which = "install" /\ Install!Init
     /\ NoScript /\ NoSession /\ NoWeb /\ NoResume /\ NoEvidence /\ NoPolicy
     /\ phase = Unused /\ results = Unused /\ asked = Unused
     /\ reports = Unused /\ exit = Unused /\ commands = Unused
  \/ /\ which = "evidence" /\ Evid!Init
     /\ NoScript /\ NoSession /\ NoWeb /\ NoResume /\ NoInstall /\ NoPolicy
     /\ phase = Unused /\ results = Unused /\ asked = Unused
     /\ reports = Unused /\ file = Unused
  \/ /\ which = "policy" /\ Policy!Init
     /\ NoScript /\ NoSession /\ NoWeb /\ NoResume /\ NoInstall /\ NoEvidence
     /\ phase = Unused /\ file = Unused /\ data = Unused
  \/ /\ which = "scripts" /\ Script!Init
     /\ NoSession /\ NoWeb /\ NoResume /\ NoInstall /\ NoEvidence /\ NoPolicy
     /\ reports = Unused /\ file = Unused /\ data = Unused /\ exit = Unused
     /\ commands = Unused

Next ==
  /\ UNCHANGED which
  /\ \/ /\ which = "session" /\ Sess!Next
        /\ UNCHANGED <<scriptVars, webVars, resumeVars, installVars, evidenceVars,
                       policyVars, asked, reports, file, pc, data, exit,
                       commands>>
     \/ /\ which = "web" /\ Web!Next
        /\ UNCHANGED <<scriptVars, sessionVars, resumeVars, installVars, evidenceVars,
                       policyVars, phase, results, reports, file, pc, data,
                       exit, commands>>
     \/ /\ which = "resume" /\ Resume!Next
        /\ UNCHANGED <<scriptVars, sessionVars, webVars, installVars, evidenceVars,
                       policyVars, results, asked, pc, data, exit, commands>>
     \/ /\ which = "install" /\ Install!Next
        /\ UNCHANGED <<scriptVars, sessionVars, webVars, resumeVars, evidenceVars,
                       policyVars, phase, results, asked, reports, exit,
                       commands>>
     \/ /\ which = "evidence" /\ Evid!Next
        /\ UNCHANGED <<scriptVars, sessionVars, webVars, resumeVars, installVars,
                       policyVars, phase, results, asked, reports, file>>
     \/ /\ which = "policy" /\ Policy!Next
        /\ UNCHANGED <<scriptVars, sessionVars, webVars, resumeVars, installVars,
                       evidenceVars, phase, file, data>>
     \/ /\ which = "scripts" /\ Script!Next
        /\ UNCHANGED <<sessionVars, webVars, resumeVars, installVars,
                       evidenceVars, policyVars, reports, file, data, exit,
                       commands>>

\* The fairness of Session, WebScanServer and ScriptRunner: main, the goroutines
\* that ping, that of a web scan and those of the scripts get to run.
MainRuns ==
  /\ which = "session" /\ Sess!Main
  /\ UNCHANGED <<which, scriptVars, webVars, resumeVars, installVars, evidenceVars,
                 policyVars, asked, reports, file, pc, data, exit, commands>>
GoroutineRuns ==
  /\ which = "session" /\ Sess!Goroutine
  /\ UNCHANGED <<which, scriptVars, webVars, resumeVars, installVars, evidenceVars,
                 policyVars, asked, reports, file, pc, data, exit, commands>>
ScannerRuns ==
  /\ which = "web" /\ Web!Scanner
  /\ UNCHANGED <<which, scriptVars, sessionVars, resumeVars, installVars, evidenceVars,
                 policyVars, phase, results, reports, file, pc, data, exit,
                 commands>>
LoopRuns ==
  /\ which = "scripts" /\ Script!Main
  /\ UNCHANGED <<which, sessionVars, webVars, resumeVars, installVars,
                 evidenceVars, policyVars, reports, file, data, exit, commands>>
ScriptRuns ==
  /\ which = "scripts" /\ Script!Goroutine
  /\ UNCHANGED <<which, sessionVars, webVars, resumeVars, installVars,
                 evidenceVars, policyVars, reports, file, data, exit, commands>>

Spec == /\ Init /\ [][Next]_vars
        /\ WF_vars(MainRuns) /\ WF_vars(GoroutineRuns) /\ WF_vars(ScannerRuns)
        /\ WF_vars(LoopRuns) /\ WF_vars(ScriptRuns)

-----------------------------------------------------------------------------
(* Properties *)

\* The traceroute, the ARP sweep, the pings, the scan and what follows it send
\* only to targets in the scope file and not excluded, the IPv6 counterparts of
\* --dual-stack apart (cmd/tcpcat/main.go).
TargetsAuthorized == which = "session" => Sess!TargetsAuthorized

\* The hosts to scan are exactly the targets that are up, each as often as it
\* was listed, whatever the order the goroutines that ping them end in
\* (main.go:355-440).
DiscoveryExact == which = "session" => Sess!DiscoveryExact

\* A run is compared with what the state file held as it began, never with its
\* own results, and a port open on IPv6 alone is reported as such (main.go,
\* cmd/tcpcat/dualstack.go).
ComparedWithPrevious ==
  which = "session" => Sess!ComparedWithPrevious /\ Sess!GapsReported

\* Every command ends, and so does every scan of the web server, which then
\* takes another (cmd/tcpcat/main.go, web.go).
Ends ==
  /\ which = "session" /\ phase # "exited" ~> phase = "exited"
  /\ Web!GetsFree

\* One scan of the web server runs at a time, its results are never shown with
\* another's progress (internal/web/web.go); each result carries what the
\* scripts found on its own port (scan/engine.go, scripting/engine.go).
ResultsOfThisScan ==
  /\ which = "web"     => Web!OneScanAtATime /\ Web!ResultsOfThisScan
  /\ which = "scripts" => Script!ScriptsOnTheirResult

\* A line of a resume file that parses is a genuine result, once
\* (internal/scan/checkpoint.go).
LoadedIsGenuine == which = "resume" => Resume!TypeOK /\ Resume!LoadedIsGenuine

\* A checkpoint closed without a warning is complete, whatever of its writes
\* failed or was cut short (checkpoint.go).
QuietCloseIsComplete == which = "resume" => Resume!QuietCloseIsComplete

\* However updates and installs are interrupted, there is a whole executable to
\* run, a scan loads whole modules only, and only a killed command leaves its
\* temporary file (internal/update/update.go, internal/scripthub/hub.go).
LoadsWholeFiles ==
  which = "install" => Install!LoadsWholeFiles /\ Install!NothingLeftBehind

\* A bundle that verifies is one a scan wrote, and no signing key is ever
\* overwritten (internal/evidence).
VerifiedIsRecorded == which = "evidence" => Evid!VerifiedIsRecorded /\ Evid!KeysKept

\* The exit status of policy check and policy matrix is the verdict over every
\* rule and address they were to check (internal/policy).
ExitIsTheVerdict == which = "policy" => Policy!ExitIsTheVerdict

\* What no step may undo: a result that is on disk is not scanned again, a file
\* is replaced only by a whole content of the expected digest, and no poll sees
\* a scan go back (checkpoint.go, update.go and scripthub/hub.go, web.go).
NothingUndone ==
  [][/\ which = "resume"  => Resume!NotAgain
     /\ which = "install" => Install!Whole
     /\ which = "web"     => Web!GoesOn]_vars

\* What the documents say of --scope-file and --exclude, of every address of
\* a scan (README.md:671, README.md:673).
OnlyAuthorizedProbed == which = "session" => Sess!OnlyAuthorizedProbed

\* What checkpoint.go:14-15 says of a run that was interrupted.
ResumeNeverRefused == which = "resume" => Resume!ResumeNeverRefused
=============================================================================
