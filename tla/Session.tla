------------------------------- MODULE Session -------------------------------
(***************************************************************************)
(* One scan from the command line (cmd/tcpcat/main.go): the targets, their *)
(* scope and exclusions, host discovery, the scan, its IPv6 counterpart,   *)
(* service detection and vulnerability lookup, the exports and the         *)
(* comparison with a baseline; and the same command run again.  A host has *)
(* one port.  The scan proper is ScanEngine's, the AF_XDP engine's life    *)
(* XDPEngine's, and the expansion of targets TargetExpansion's.            *)
(***************************************************************************)
EXTENDS Naturals, Sequences, FiniteSets, SequencesExt

CONSTANTS
  V4, V6,         \* addresses
  Commands,       \* the commands considered: their options
  MaxWorkers,     \* hosts pinged at a time, without --unsafe-no-limits
  MaxRuns         \* bound: times the command is run

All == V4 \cup V6

\* A command names addresses, of which every target it is given has one.
SessionAssumption ==
  /\ MaxWorkers \in Nat \ {0} /\ MaxRuns \in Nat \ {0}
  /\ \A c \in Commands : c.targets \in Seq(All) /\ c.targets # <<>>

VARIABLES
  opts,           \* the options of the command
  up,             \* the addresses that are up, with their port open
  aaaa,           \* aaaa[a]: the IPv6 address published for a's name, if any
  phase,          \* what main does next, or "exited"
  code,           \* the exit code
  targets,        \* targetIPs
  pending,        \* pendingIPs not yet handed to a goroutine
  pinging,        \* the goroutines: indices of what they ping in targets
  active,         \* activeTargets
  results,        \* the results, by address
  baseline,       \* the run whose results were loaded to compare with, or 0
  stateFile,      \* the run whose results the file of -j holds, 0, or Torn
  run,            \* history: the number of this run
  probed,         \* history: the addresses packets were sent to
  before,         \* history: what stateFile held as the run began
  compared        \* history: the run this one was compared with, or 0

world == <<opts, up, aaaa>>
history == <<run, probed, before, compared>>
vars == <<world, phase, code, targets, pending, pinging, active, results,
          baseline, stateFile, history>>

NoAddr == "none"
NoFile == {"none"}
Torn == MaxRuns + 1     \* what a file holds when its writing was cut short
ExportFirst ==
  <<"load", "scope", "exclude", "traceroute", "discover", "ping", "ports",
    "scan", "dualstack", "inspect", "services", "vulns", "gaps",
    "export", "baseline", "compare">>
\* The order of main.
Phases ==
  <<"load", "scope", "exclude", "traceroute", "discover", "ping", "ports",
    "scan", "dualstack", "inspect", "services", "vulns", "gaps",
    "baseline", "export", "compare">>

Index(p) == CHOOSE i \in 1 .. Len(Phases) : Phases[i] = p
Done == phase' = IF phase = Phases[Len(Phases)] THEN "exited"
                 ELSE Phases[Index(phase) + 1]
Exit(c) == phase' = "exited" /\ code' = c

Fresh ==
  /\ phase = "load" /\ code = 0 /\ targets = <<>> /\ pending = {}
  /\ pinging = {} /\ active = <<>> /\ results = <<>> /\ baseline = 0
  /\ probed = {} /\ compared = 0

Init ==
  /\ opts \in Commands
  /\ up \in SUBSET (V4 \cup V6)
  /\ aaaa \in [V4 -> V6 \cup {NoAddr}]
  /\ Fresh /\ stateFile = 0 /\ before = 0 /\ run = 1

\* The targets of the command line, a file and AWS; an error if one fails.
Load ==
  /\ phase = "load"
  /\ \/ Exit(1) /\ UNCHANGED targets
     \/ targets' = opts.targets /\ Done /\ UNCHANGED code
  /\ UNCHANGED <<world, pending, pinging, active, results, baseline,
                 stateFile, history>>

\* The elements of s that are in S, in their order.
Among(s, S) ==
  LET among[n \in 0 .. Len(s)] ==
        IF n = 0 THEN <<>>
        ELSE IF s[n] \in S THEN Append(among[n - 1], s[n]) ELSE among[n - 1]
  IN  among[Len(s)]

\* Keep those a filter lets through; with none left the command ends.
NarrowNothing(to) == Done /\ UNCHANGED <<targets, code>>
Narrow(to) ==
  /\ targets' = Among(targets, to)
  /\ IF targets' = <<>> THEN Exit(1) ELSE Done /\ UNCHANGED code

Scope ==
  /\ phase = "scope"
  /\ \/ opts.scope = NoFile /\ Done /\ UNCHANGED <<targets, code>>
     \/ opts.scope # NoFile /\ Narrow(opts.scope)
     \/ opts.scope # NoFile /\ Exit(1) /\ UNCHANGED targets   \* unreadable
  /\ UNCHANGED <<world, pending, pinging, active, results, baseline,
                 stateFile, history>>

\* opts.exclude: what the exclusions that can be resolved stand for.
Exclude ==
  /\ phase = "exclude"
  /\ \/ opts.exclude = {} /\ Done /\ UNCHANGED <<targets, code>>
     \/ opts.exclude # {} /\ Narrow(All \ opts.exclude)
  /\ UNCHANGED <<world, pending, pinging, active, results, baseline,
                 stateFile, history>>

\* --traceroute probes the first target, and is all the command does.
Traceroute ==
  /\ phase = "traceroute"
  /\ IF opts.traceroute THEN Exit(0) /\ probed' = probed \cup {targets[1]}
     ELSE Done /\ UNCHANGED <<code, probed>>
  /\ UNCHANGED <<world, targets, pending, pinging, active, results, baseline,
                 stateFile, run, before, compared>>

\* The indices of the targets that are pinged when ARP cannot be used.
NoFallback(local) == DOMAIN targets \ local
WithFallback(local) == DOMAIN targets

\* -Pn takes all targets for up.  Otherwise those of the local subnet are asked
\* for by ARP, whose answer is final, unless the raw socket fails and they are
\* pinged with the rest.
Discover ==
  /\ phase = "discover"
  /\ LET local == { i \in DOMAIN targets : targets[i] \in opts.local }
     IN  \/ /\ opts.skip
            /\ active' = targets
            /\ phase' = "ports"
            /\ UNCHANGED <<pending, probed>>
         \/ /\ ~opts.skip
            /\ active' = Among(targets, opts.local \cap up)
            /\ pending' = DOMAIN targets \ local
            /\ probed' = probed \cup { targets[i] : i \in local }
            /\ Done
         \/ /\ ~opts.skip /\ local # {}
            /\ pending' = WithFallback(local)
            /\ Done
            /\ UNCHANGED <<active, probed>>
  /\ UNCHANGED <<world, code, targets, pinging, results, baseline, stateFile,
                 run, before, compared>>

\* The semaphore of the pool has a slot.
HasSlotAndOne == Cardinality(pinging) + 1 < MaxWorkers
HasSlot == Cardinality(pinging) < MaxWorkers

\* The pool of pings: a semaphore of MaxWorkers, or none.
Ping ==
  /\ phase = "ping" /\ pending # {}
  /\ opts.unlimited \/ HasSlot
  /\ LET i == CHOOSE i \in pending : \A k \in pending : i <= k
     IN  /\ pending' = pending \ {i}
         /\ pinging' = pinging \cup {i}
         /\ probed' = probed \cup {targets[i]}
  /\ UNCHANGED <<world, phase, code, targets, active, results, baseline,
                 stateFile, run, before, compared>>

\* DiscoverHost returns; the list of the active is appended to with its lock
\* held.
Pinged(i) ==
  /\ pinging' = pinging \ {i}
  /\ active' = IF targets[i] \in up THEN Append(active, targets[i]) ELSE active
  /\ UNCHANGED <<world, phase, code, targets, pending, results, baseline,
                 stateFile, history>>

AllPinged   == pending = {} /\ pinging = {}

\* WaitGroup.Wait, and the end of the command if nothing is up.
Waited ==
  /\ phase = "ping" /\ AllPinged
  /\ IF active = <<>> THEN Exit(0) ELSE Done /\ UNCHANGED code
  /\ UNCHANGED <<world, targets, pending, pinging, active, results, baseline,
                 stateFile, history>>

\* -sn ends here; so does an error in the ports, or of the AF_XDP engine.
Ports ==
  /\ phase = "ports"
  /\ IF opts.pingOnly THEN Exit(0)
     ELSE Exit(1) \/ (Done /\ UNCHANGED code)
  /\ UNCHANGED <<world, targets, pending, pinging, active, results, baseline,
                 stateFile, history>>

\* What a scan finds of an address.
Result(a) == [open |-> a \in up, service |-> FALSE, findings |-> {}, risk |-> 0]
ResultsOf(as) == [a \in as |-> Result(a)]

\* Engine.Execute.
Scan ==
  /\ phase = "scan"
  /\ results' = ResultsOf(Range(active))
  /\ probed' = probed \cup Range(active)
  /\ Done
  /\ UNCHANGED <<world, code, targets, pending, pinging, active, baseline,
                 stateFile, run, before, compared>>

\* runDualStackScan: the IPv6 addresses published for the active IPv4 targets
\* are scanned, those the scan has results of excepted.
Pairs == { p \in V4 \X V6 : p[1] \in Range(active) /\ aaaa[p[1]] = p[2] }
V6Targets == { p[2] : p \in Pairs }
DualStack ==
  /\ phase = "dualstack"
  /\ LET toScan == IF opts.dualStack /\ ~opts.udp
                     THEN V6Targets \ DOMAIN results ELSE {}
     IN  /\ results' = [a \in DOMAIN results \cup toScan |->
                          IF a \in toScan THEN Result(a) ELSE results[a]]
         /\ probed' = probed \cup toScan
  /\ Done
  /\ UNCHANGED <<world, code, targets, pending, pinging, active, baseline,
                 stateFile, run, before, compared>>

Open == { a \in DOMAIN results : results[a].open }

\* Deep packet inspection of the open ports.
Inspect ==
  /\ phase = "inspect"
  /\ probed' = IF opts.inspect THEN probed \cup Open ELSE probed
  /\ Done
  /\ UNCHANGED <<world, code, targets, pending, pinging, active, results,
                 baseline, stateFile, run, before, compared>>

\* -sV: each open port's service, or none that is known; its findings replace
\* those the result had.
Services ==
  /\ phase = "services"
  /\ IF opts.services
       THEN \E known \in SUBSET Open :
              results' = [a \in DOMAIN results |->
                IF a \in Open
                  THEN [results[a] EXCEPT !.service = a \in known, !.findings = {}]
                  ELSE results[a]]
       ELSE UNCHANGED results
  /\ Done
  /\ UNCHANGED <<world, code, targets, pending, pinging, active, probed,
                 baseline, stateFile, run, before, compared>>

\* The vulnerabilities of each service that is known, and the headline risk of
\* its result: that of one of them.
Vulns ==
  /\ phase = "vulns"
  /\ IF opts.services
       THEN \E risky \in SUBSET { a \in Open : results[a].service } :
              results' = [a \in DOMAIN results |->
                IF a \in risky THEN [results[a] EXCEPT !.risk = 2] ELSE results[a]]
       ELSE UNCHANGED results
  /\ Done
  /\ UNCHANGED <<world, code, targets, pending, pinging, active, probed,
                 baseline, stateFile, run, before, compared>>

\* A pair whose IPv6 address alone has the port open.
GapOf(a) == \E p \in Pairs : p[2] = a /\ a \in Open /\ p[1] \notin Open

\* reportDualStackGaps: the results behind an IPv6-only exposure get a finding,
\* and its severity if theirs is lower.
Gaps ==
  /\ phase = "gaps"
  /\ results' = IF opts.dualStack /\ ~opts.udp
       THEN [a \in DOMAIN results |->
               IF GapOf(a)
                 THEN [results[a] EXCEPT !.findings = @ \cup {"ipv6-only"},
                                         !.risk = IF @ = 0 THEN 1 ELSE @]
                 ELSE results[a]]
       ELSE results
  /\ Done
  /\ UNCHANGED <<world, code, targets, pending, pinging, active, probed,
                 baseline, stateFile, run, before, compared>>

\* The baseline is read: no file, or one that does not parse, is none.
LoadBaseline ==
  /\ phase = "baseline"
  /\ baseline' = IF opts.baseline /\ stateFile # Torn THEN stateFile ELSE 0
  /\ Done
  /\ UNCHANGED <<world, code, targets, pending, pinging, active, results,
                 stateFile, history>>

\* The exports.  A failing one is only reported; WriteFile, cut short, has
\* truncated the file.
Export ==
  /\ phase = "export"
  /\ stateFile' \in IF opts.json THEN {run, Torn, stateFile} ELSE {stateFile}
  /\ Done
  /\ UNCHANGED <<world, code, targets, pending, pinging, active, results,
                 baseline, history>>

\* compare.Compare, its report and the alert.
Compare ==
  /\ phase = "compare"
  /\ compared' = baseline
  /\ Done
  /\ UNCHANGED <<world, code, targets, pending, pinging, active, results,
                 baseline, stateFile, run, before, probed>>

\* Ctrl-C or SIGTERM, handled or not, wherever main is.
Interrupt ==
  /\ phase # "exited"
  /\ Exit(1)
  /\ stateFile' \in IF phase = "export" /\ opts.json THEN {stateFile, Torn}
                    ELSE {stateFile}
  /\ UNCHANGED <<world, targets, pending, pinging, active, results, baseline,
                 history>>

\* The same command again, as a scheduler would, on a network that has changed.
Again ==
  /\ phase = "exited" /\ run < MaxRuns
  /\ run' = run + 1 /\ before' = stateFile
  /\ up' \in SUBSET (V4 \cup V6)
  /\ phase' = "load" /\ code' = 0 /\ targets' = <<>> /\ pending' = {}
  /\ pinging' = {} /\ active' = <<>> /\ results' = <<>> /\ baseline' = 0
  /\ probed' = {} /\ compared' = 0
  /\ UNCHANGED <<opts, aaaa, stateFile>>

Main ==
  \/ Load \/ Scope \/ Exclude \/ Traceroute \/ Discover \/ Ping \/ Waited
  \/ Ports \/ Scan \/ DualStack \/ Inspect \/ Services \/ Vulns \/ Gaps
  \/ LoadBaseline \/ Export \/ Compare
Goroutine == \E i \in pinging : phase # "exited" /\ Pinged(i)

Next == Main \/ Goroutine \/ Interrupt \/ Again

SafetySpec == Init /\ [][Next]_vars

\* main and the goroutines run until the process ends.
Spec == SafetySpec /\ WF_vars(Main) /\ WF_vars(Goroutine)

-----------------------------------------------------------------------------
(* Properties *)

Past(p) == phase # "exited" /\ Index(phase) > Index(p)

\* What the operator allows to be probed.
Authorized ==
  (IF opts.scope = NoFile THEN All ELSE opts.scope) \ opts.exclude

\* --scope-file "Restrict resolved targets to authorized CIDRs, IPs, or
\* hostnames" (README.md:671), --exclude names what is "to leave out of the
\* scan" (README.md:673): the traceroute, the ARP sweep, the pings, the scan, the
\* inspection and service detection send to no other address.
OnlyAuthorizedProbed == probed \subseteq Authorized

\* The same, without the IPv6 counterparts --dual-stack looks up by itself.
TargetsAuthorized == probed \ V6Targets \subseteq Authorized

\* After host discovery, the hosts to scan are exactly the targets that are up,
\* each as often as it was listed, whether ARP or a ping found them, whatever
\* the order the goroutines answer in and whether the raw socket works.
DiscoveryExact ==
  Past("ping") /\ ~opts.skip =>
    \A a \in All :
      Cardinality({ k \in DOMAIN active : active[k] = a })
        = IF a \in up THEN Cardinality({ i \in DOMAIN targets : targets[i] = a })
          ELSE 0

\* A run is compared with the results the state file held as it began, never
\* with its own, though -j and --baseline name the same file; and once it is
\* done, unless nothing could be read.
ComparedWithPrevious ==
  /\ compared # 0 => compared = before
  /\ phase = "compare" /\ opts.baseline /\ before \notin {0, Torn}
       => baseline = before

\* Every port open on the IPv6 address alone is reported as such to the end,
\* though service detection rewrites the findings.
GapsReported ==
  Past("gaps") /\ opts.dualStack /\ ~opts.udp =>
    \A a \in DOMAIN results :
      ("ipv6-only" \in results[a].findings <=> GapOf(a))
        /\ (GapOf(a) => results[a].risk > 0)

\* The command ends: the pool of pings never waits on itself.
Ends == phase # "exited" ~> phase = "exited"
=============================================================================
