---------------------------- MODULE WebScanServer ----------------------------
(***************************************************************************)
(* The web interface of internal/web/web.go: requests to start a scan race *)
(* for the one scan the server runs at a time, others poll its status      *)
(* while the scan's goroutine writes its progress and results.             *)
(*                                                                         *)
(* A request is the set of its faults: what the guard in front of the      *)
(* handlers and the checks of handleScan would object to.                  *)
(***************************************************************************)
EXTENDS Naturals, Sequences

CONSTANTS
  Clients,
  Requests,       \* bound: the sets of faults a request may have
  Total,          \* jobs of a scan
  MaxScans        \* bound: scans accepted

VARIABLES
  asked,          \* asked[c]: the faults of c's request, or NoRequest
  admitted,       \* the clients whose request has passed every check
  status,         \* status[c]: the code c's request was answered with, or 0
  running,        \* scanState.running
  progress,       \* scanState.progress: jobs done, of which scan
  shown,          \* scanState.results: the scan they are of, or 0
  scanners,       \* the scans with a goroutine, and where each is
  started,        \* history: scans started
  served,         \* history: the faults of the requests of those scans
  seen            \* history: seen[c]: the scan and progress c was last shown

vars == <<asked, admitted, status, running, progress, shown, scanners,
          started, served, seen>>

NoRequest == {"none"}
Idle == [scan |-> 0, done |-> 0]

\* The checks in their order, and the code each answers with.
Checks == <<
  <<"host", 403>>, <<"origin", 403>>, <<"token", 401>>, <<"method", 405>>,
  <<"body", 400>>, <<"target", 400>>, <<"workers", 400>>, <<"rate", 400>>,
  <<"profile", 400>>, <<"scan type", 400>>, <<"unresolved", 400>>,
  <<"scope file", 400>>, <<"out of scope", 403>>, <<"ports", 400>> >>

\* A request is a set of faults that the checks know, and a scan has an end.
CheckNames == { Checks[i][1] : i \in 1 .. Len(Checks) }
WebAssumption == Requests \subseteq SUBSET CheckNames /\ Total \in Nat

\* The answer to the first fault, or 0 if there is none.
Verdict(faults) ==
  LET hit == { i \in 1 .. Len(Checks) : Checks[i][1] \in faults }
  IN  IF hit = {} THEN 0
      ELSE Checks[CHOOSE i \in hit : \A k \in hit : i <= k][2]

Init ==
  /\ asked = [c \in Clients |-> NoRequest]
  /\ admitted = {} /\ status = [c \in Clients |-> 0]
  /\ running = FALSE /\ progress = Idle /\ shown = 0
  /\ scanners = {} /\ started = 0 /\ served = {}
  /\ seen = [c \in Clients |-> Idle]

\* POST /api/scan arrives.
Request(c) ==
  /\ asked[c] = NoRequest
  /\ \E faults \in Requests : asked' = [asked EXCEPT ![c] = faults]
  /\ status' = [status EXCEPT ![c] = 0]
  /\ UNCHANGED <<admitted, running, progress, shown, scanners, started, served,
                 seen>>

Answer(c, as) ==
  /\ status' = [status EXCEPT ![c] = as]
  /\ asked' = [asked EXCEPT ![c] = NoRequest]
  /\ admitted' = admitted \ {c}

\* The guard and handleScan up to the lock, targets and scope resolved.
Check(c) ==
  /\ asked[c] # NoRequest /\ c \notin admitted
  /\ IF Verdict(asked[c]) = 0
       THEN admitted' = admitted \cup {c} /\ UNCHANGED <<asked, status>>
       ELSE Answer(c, Verdict(asked[c]))
  /\ UNCHANGED <<running, progress, shown, scanners, started, served, seen>>

\* With the lock held: a scan is running, or this one starts.
NeverBusy == FALSE
Busy == running
Start(c) ==
  /\ c \in admitted
  /\ IF Busy
       THEN /\ Answer(c, 409)
            /\ UNCHANGED <<running, progress, shown, scanners, started, served>>
       ELSE /\ started < MaxScans
            /\ started' = started + 1
            /\ served' = served \cup {asked[c]}
            /\ running' = TRUE
            /\ progress' = [scan |-> started', done |-> 0]
            /\ shown' = 0
            /\ scanners' = scanners \cup {[scan |-> started', done |-> 0]}
            /\ Answer(c, 202)
  /\ UNCHANGED seen

\* The engine's callback: one more job is done.
Progress(s) ==
  /\ s.done < Total
  /\ LET next == [s EXCEPT !.done = @ + 1]
     IN  scanners' = (scanners \ {s}) \cup {next} /\ progress' = next
  /\ UNCHANGED <<asked, admitted, status, running, shown, started, served, seen>>

\* With the lock held, once the services are detected: results and the end.
Finish(s) ==
  /\ s.done = Total
  /\ scanners' = scanners \ {s}
  /\ shown' = s.scan
  /\ running' = FALSE
  /\ UNCHANGED <<asked, admitted, status, progress, started, served, seen>>

\* GET /api/status, with the read lock held.
Shown == progress
Status(c) ==
  /\ seen' = [seen EXCEPT ![c] = Shown]
  /\ UNCHANGED <<asked, admitted, status, running, progress, shown, scanners,
                 started, served>>

Scanner == \E s \in scanners : Progress(s) \/ Finish(s)
Next ==
  \/ \E c \in Clients : Request(c) \/ Check(c) \/ Start(c) \/ Status(c)
  \/ Scanner

SafetySpec == Init /\ [][Next]_vars

\* The scan's goroutine gets to run, and Execute returns (ScanEngine).
Spec == SafetySpec /\ WF_vars(Scanner)

-----------------------------------------------------------------------------
(* Properties *)

\* However the requests interleave, one scan runs at a time, for a request
\* without fault, and the flag says whether it does ("a scan is already
\* running").
OneScanAtATime ==
  /\ \A r, s \in scanners : r = s
  /\ running = (scanners # {})
  /\ served \subseteq {{}}
  /\ \A c \in Clients : status[c] = 409 => started > 0

\* The results shown are those of the last scan, complete, or none while it
\* runs: no poll sees those of another scan beside its progress.
ResultsOfThisScan ==
  /\ shown # 0 => shown = started /\ ~running
  /\ ~running /\ started > 0 => shown = started /\ progress.done = Total

\* A client that polls never sees a scan go back, nor an older one again.
GoesOn ==
  \A c \in Clients :
    \/ seen'[c].scan > seen[c].scan
    \/ seen'[c].scan = seen[c].scan /\ seen'[c].done >= seen[c].done
StatusNeverGoesBack == [][GoesOn]_vars

\* A server that is busy gets free again.
GetsFree == running ~> ~running
=============================================================================
