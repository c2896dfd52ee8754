----------------------------- MODULE ScanEngine -----------------------------
(***************************************************************************)
(* Engine.ExecuteWithProgress (internal/scan/engine.go): a dispatcher      *)
(* goroutine walks the target x port space, drops what the checkpoint      *)
(* already holds and feeds the rest, a batch at a time, into a bounded     *)
(* channel; a pool of workers takes jobs from it, consults the OT circuit  *)
(* breaker, scans, and sends the result into a second bounded channel; a   *)
(* closer goroutine closes that channel when the last worker has left; the *)
(* calling goroutine collects until it is closed.                          *)
(*                                                                         *)
(* Pacing (limiter.WaitN, Report) only delays a worker and is Pacer; what  *)
(* a scan puts on the wire is ProbeWaiters; the rule by which the breaker  *)
(* trips is OTGuard: here a target may trip after any observed result.     *)
(***************************************************************************)
EXTENDS Integers, Sequences, FiniteSets

CONSTANTS
  Workers,        \* the worker goroutines, opts.MaxWorkers of them
  TargetList,     \* the targets as given: an address may be listed twice
  PortList,       \* the ports, without duplicates (ports.ParsePorts)
  BatchSize,      \* opts.BatchSize
  NoRandomize,    \* opts.NoRandomize: list order instead of permuted order
  UseGuard,       \* --profile ot: the circuit breaker is installed
  Verdicts,       \* the result states a scan may return
  MaxOther        \* bound: lines of the resume file beyond one for each key

\* ApplyProfile("ot") forces MaxWorkers = 1 and BatchSize = 1, so the breaker
\* is never shared between workers.
ASSUME EngineAssumption ==
  /\ Workers # {} /\ IsFiniteSet(Workers)
  /\ TargetList \in Seq(STRING) /\ PortList \in Seq(Nat)
  /\ BatchSize \in Nat \ {0}
  /\ NoRandomize \in BOOLEAN /\ UseGuard \in BOOLEAN
  /\ UseGuard => \A v, w \in Workers : v = w
  /\ "filtered" \in Verdicts
  /\ MaxOther \in Nat

-----------------------------------------------------------------------------
(* The job space: index idx stands for targets[idx/n] and ports[idx%n].    *)

NumPorts == Len(PortList)
NumJobs  == Len(TargetList) * NumPorts
Jobs     == 0 .. NumJobs - 1
TargetOf(j) == TargetList[(j \div NumPorts) + 1]
KeyOf(j)    == <<TargetOf(j), PortList[(j % NumPorts) + 1]>>
Keys     == { KeyOf(j) : j \in Jobs }
Targets  == { TargetOf(j) : j \in Jobs }

NoJob  == -1
\* make(chan ScanJob, workerCount*2), and the same for the results.
QueueSize == 2 * Cardinality(Workers)

VARIABLES
  cp,             \* the checkpoint loaded: .done, its keys among this scan's,
                  \* and .loaded, how many results it holds in all
  todo,           \* indices the dispatcher has not visited
  dpc,            \* dispatcher: "gen", "flush", "final" (last flush), "closed"
  batch,          \* jobs collected, or not yet sent by the flush under way
  jobs,           \* the jobs channel
  wpc,            \* worker: "recv", "check", "scan", "send", "exit"
  hand,           \* the job a worker holds
  verdict,        \* verdict[j]: the state in j's result, once it has one
  results,        \* the results channel: results, named by their jobs
  resultsClosed,  \* close(resultsChan) has happened
  reports,        \* reports[j]: results of job j taken by the collector
  progress,       \* the Progress record handed to onProgress
  finished,       \* the collector has left its loop
  tripped         \* targets the circuit breaker has tripped

dispVars == <<todo, dpc, batch>>
workVars == <<wpc, hand, verdict>>
collVars == <<reports, progress, finished>>
vars == <<cp, dispVars, jobs, workVars, results, resultsClosed, collVars,
          tripped>>

Elems(s) == { s[i] : i \in 1 .. Len(s) }
Held     == { hand[w] : w \in Workers } \ {NoJob}
Reported == { j \in Jobs : reports[j] > 0 }
Skipped  == { j \in Jobs : KeyOf(j) \in cp.done }

\* checkpoint.isDone, asked of each job before it is dispatched.
AlwaysRescan(j) == FALSE
isDone(j) == j \in Skipped

\* A send on a buffered channel does not block.
HasRoom(ch) == Len(ch) < QueueSize

-----------------------------------------------------------------------------
\* openCheckpoint takes every line of the file: besides one for each key in
\* done it may hold further results of that key, of a list that names it twice,
\* and results of addresses or ports that this scan does not ask for.
Init ==
  /\ \E keys \in SUBSET Keys, others \in 0 .. MaxOther :
       cp = [done |-> keys, loaded |-> Cardinality(keys) + others]
  /\ todo = Jobs /\ dpc = "gen" /\ batch = <<>>
  /\ jobs = <<>>
  /\ wpc = [w \in Workers |-> "recv"]
  /\ hand = [w \in Workers |-> NoJob]
  /\ verdict = [j \in Jobs |-> "none"]
  /\ results = <<>> /\ resultsClosed = FALSE
  /\ reports = [j \in Jobs |-> 0]
  /\ progress = [completed |-> cp.loaded, open |-> 0, closed |-> 0,
                 filtered |-> 0]
  /\ finished = FALSE
  /\ tripped = {}

\* The index the dispatcher visits next: the permutation visits each index
\* once in an order of its own, the nested loops visit them in list order.
NextIndex(j) == j \in todo /\ (NoRandomize => \A i \in todo : j <= i)

Dispatch ==
  /\ dpc = "gen"
  /\ \E j \in Jobs :
       /\ NextIndex(j)
       /\ todo' = todo \ {j}
       /\ batch' = IF isDone(j) THEN batch ELSE Append(batch, j)
  /\ dpc' = IF Len(batch') >= BatchSize THEN "flush" ELSE "gen"
  /\ UNCHANGED <<cp, jobs, workVars, results, resultsClosed, collVars,
                 tripped>>

LastFlush ==
  /\ dpc = "gen" /\ todo = {}
  /\ dpc' = "final"
  /\ UNCHANGED <<cp, todo, batch, jobs, workVars, results, resultsClosed,
                 collVars, tripped>>

\* jobs <- j, one job of the batch; it blocks while the channel is full.
SendJob ==
  /\ dpc \in {"flush", "final"} /\ batch # <<>>
  /\ HasRoom(jobs)
  /\ jobs' = Append(jobs, Head(batch)) /\ batch' = Tail(batch)
  /\ UNCHANGED <<cp, todo, dpc, workVars, results, resultsClosed, collVars,
                 tripped>>

\* flush returns: back to the walk, or, after the last one, close(jobs).
NeverClosed == "gen"
AfterFlush == IF dpc = "flush" THEN "gen" ELSE "closed"
EndFlush ==
  /\ dpc \in {"flush", "final"} /\ batch = <<>>
  /\ dpc' = AfterFlush
  /\ UNCHANGED <<cp, todo, batch, jobs, workVars, results, resultsClosed,
                 collVars, tripped>>

Dispatcher == Dispatch \/ LastFlush \/ SendJob \/ EndFlush

-----------------------------------------------------------------------------
Recv(w) ==
  /\ wpc[w] = "recv" /\ jobs # <<>>
  /\ hand' = [hand EXCEPT ![w] = Head(jobs)] /\ jobs' = Tail(jobs)
  /\ wpc' = [wpc EXCEPT ![w] = "check"]
  /\ UNCHANGED <<cp, dispVars, verdict, results, resultsClosed, collVars,
                 tripped>>

\* range jobs ends: the channel is closed and drained.
Exit(w) ==
  /\ wpc[w] = "recv" /\ jobs = <<>> /\ dpc = "closed"
  /\ wpc' = [wpc EXCEPT ![w] = "exit"]
  /\ UNCHANGED <<cp, dispVars, jobs, hand, verdict, results, resultsClosed,
                 collVars, tripped>>

\* The breaker is installed and has tripped the target of w's job.
NeverAborted(w) == FALSE
Aborted(w) == UseGuard /\ TargetOf(hand[w]) \in tripped

\* A tripped target is not probed: its port is reported FILTERED.
Check(w) ==
  /\ wpc[w] = "check"
  /\ IF Aborted(w)
       THEN /\ wpc' = [wpc EXCEPT ![w] = "send"]
            /\ verdict' = [verdict EXCEPT ![hand[w]] = "filtered"]
       ELSE /\ wpc' = [wpc EXCEPT ![w] = "scan"]
            /\ UNCHANGED verdict
  /\ UNCHANGED <<cp, dispVars, jobs, hand, results, resultsClosed,
                 collVars, tripped>>

\* dispatchScan returns a state, or panics and is recovered as FILTERED; the
\* guard observes the result and may trip its target.
Scan(w) ==
  /\ wpc[w] = "scan"
  /\ \E v \in Verdicts : verdict' = [verdict EXCEPT ![hand[w]] = v]
  /\ tripped' \in {tripped} \cup
                  (IF UseGuard THEN {tripped \cup {TargetOf(hand[w])}} ELSE {})
  /\ wpc' = [wpc EXCEPT ![w] = "send"]
  /\ UNCHANGED <<cp, dispVars, jobs, hand, results, resultsClosed, collVars>>

\* resultsChan <- res; it blocks while the channel is full.
Send(w) ==
  /\ wpc[w] = "send"
  /\ HasRoom(results)
  /\ results' = Append(results, hand[w])
  /\ hand' = [hand EXCEPT ![w] = NoJob]
  /\ wpc' = [wpc EXCEPT ![w] = "recv"]
  /\ UNCHANGED <<cp, dispVars, jobs, verdict, resultsClosed, collVars,
                 tripped>>

Worker(w) == Recv(w) \/ Exit(w) \/ Check(w) \/ Scan(w) \/ Send(w)

-----------------------------------------------------------------------------
\* wg.Wait() returns.
OneWorkerDone == \E w \in Workers : wpc[w] = "exit"
WorkersDone   == \A w \in Workers : wpc[w] = "exit"

\* wg.Wait(); close(resultsChan)
CloseResults ==
  /\ WorkersDone
  /\ ~resultsClosed
  /\ resultsClosed' = TRUE
  /\ UNCHANGED <<cp, dispVars, jobs, workVars, results, collVars, tripped>>

\* A count that takes every result it does not know for a filtered port.
CountedElse(p, v) ==
  [completed |-> p.completed + 1,
   open      |-> p.open + (IF v = "open" THEN 1 ELSE 0),
   closed    |-> p.closed + (IF v = "closed" THEN 1 ELSE 0),
   filtered  |-> p.filtered + (IF v \in {"open", "closed"} THEN 0 ELSE 1)]

\* The Progress after one more result of state v.
Counted(p, v) ==
  [completed |-> p.completed + 1,
   open      |-> p.open + (IF v = "open" THEN 1 ELSE 0),
   closed    |-> p.closed + (IF v = "closed" THEN 1 ELSE 0),
   filtered  |-> p.filtered
                 + (IF v \in {"filtered", "open|filtered"} THEN 1 ELSE 0)]

Collect ==
  /\ results # <<>>
  /\ reports' = [reports EXCEPT ![Head(results)] = @ + 1]
  /\ progress' = Counted(progress, verdict[Head(results)])
  /\ results' = Tail(results)
  /\ UNCHANGED <<cp, dispVars, jobs, workVars, resultsClosed, finished,
                 tripped>>

Finish ==
  /\ resultsClosed /\ results = <<>> /\ ~finished
  /\ finished' = TRUE
  /\ UNCHANGED <<cp, dispVars, jobs, workVars, results, resultsClosed,
                 reports, progress, tripped>>

Collector == Collect \/ Finish

\* The call has returned; nothing is left to run.
Returned == finished /\ UNCHANGED vars

Next ==
  \/ Dispatcher
  \/ \E w \in Workers : Worker(w)
  \/ CloseResults
  \/ Collector
  \/ Returned

SafetySpec == Init /\ [][Next]_vars

\* Every goroutine runs: the Go scheduler starves none, a probe ends by its
\* timeout, and a receiver blocked on a channel that stays ready is woken.
Fairness ==
  /\ WF_vars(Dispatcher)
  /\ \A w \in Workers : WF_vars(Worker(w))
  /\ WF_vars(CloseResults)
  /\ WF_vars(Collector)

Spec == SafetySpec /\ Fairness

-----------------------------------------------------------------------------
(* Properties *)

Injective(s) == \A a, b \in 1 .. Len(s) : s[a] = s[b] => a = b

\* Type of every variable of the worker pool.
TypeOK ==
  /\ cp \in [done : SUBSET Keys, loaded : Nat]
  /\ todo \subseteq Jobs
  /\ dpc \in {"gen", "flush", "final", "closed"}
  /\ batch \in Seq(Jobs) /\ jobs \in Seq(Jobs) /\ results \in Seq(Jobs)
  /\ Len(batch) <= BatchSize
  /\ Len(jobs) <= QueueSize /\ Len(results) <= QueueSize
  /\ wpc \in [Workers -> {"recv", "check", "scan", "send", "exit"}]
  /\ hand \in [Workers -> Jobs \cup {NoJob}]
  /\ verdict \in [Jobs -> Verdicts \cup {"none"}]
  /\ reports \in [Jobs -> Nat]
  /\ progress \in [completed : Nat, open : Nat, closed : Nat, filtered : Nat]
  /\ resultsClosed \in BOOLEAN /\ finished \in BOOLEAN
  /\ tripped \subseteq Targets

\* No stage holds a job twice.
NoStageRepeats ==
  /\ Injective(batch) /\ Injective(jobs) /\ Injective(results)
  /\ \A v, w \in Workers : hand[v] = hand[w] /\ hand[v] # NoJob => v = w
  /\ \A j \in Jobs : reports[j] <= 1

\* No two stages of the pipeline share a job.
StagesDisjoint ==
  /\ todo \cap (Elems(batch) \cup Elems(jobs) \cup Held \cup Elems(results)
                \cup Reported) = {}
  /\ Elems(batch) \cap (Elems(jobs) \cup Held \cup Elems(results)
                        \cup Reported) = {}
  /\ Elems(jobs) \cap (Held \cup Elems(results) \cup Reported) = {}
  /\ Held \cap (Elems(results) \cup Reported) = {}
  /\ Elems(results) \cap Reported = {}

\* The stages together hold the jobs to scan, and no job to skip.
StagesCover ==
  (todo \ Skipped) \cup Elems(batch) \cup Elems(jobs) \cup Held
    \cup Elems(results) \cup Reported = Jobs \ Skipped

\* Every job the checkpoint does not cover is in exactly one place, so that
\* none is lost between two goroutines, scanned twice or reported twice,
\* however the dispatcher, the workers and the collector interleave.
NoJobLostOrDuplicated == NoStageRepeats /\ StagesDisjoint /\ StagesCover

\* A channel is closed only after its last sender has stopped (a send on a
\* closed channel panics), and the call returns with nothing in flight.
ShutdownOrder ==
  /\ dpc = "closed" => todo = {} /\ batch = <<>>
  /\ (\E w \in Workers : wpc[w] = "exit") => dpc = "closed" /\ jobs = <<>>
  /\ resultsClosed => \A w \in Workers : wpc[w] = "exit"
  /\ finished => resultsClosed /\ results = <<>>

\* The counts given to onProgress are those of the results collected so far, on
\* top of every line that was loaded (engine.go:286-297).  They stay within
\* target x port if the file has no more lines than this scan skips jobs, and
\* at the return they are off the total by just that difference: a file that
\* also holds another scan's results ends beyond it.
ProgressConsistent ==
  LET Among(vs) == Cardinality({ j \in Reported : verdict[j] \in vs })
      skips     == Cardinality(Skipped)
  IN  /\ progress.completed = cp.loaded + Cardinality(Reported)
      /\ cp.loaded <= skips => progress.completed <= NumJobs
      /\ finished => progress.completed - NumJobs = cp.loaded - skips
      /\ progress.open = Among({"open"})
      /\ progress.closed = Among({"closed"})
      /\ progress.filtered = Among({"filtered", "open|filtered"})

\* Once the circuit breaker has tripped a target, no worker probes it ("once a
\* target has tripped, stop probing it"), and what is reported of it from
\* there on is FILTERED.
NoProbeAfterTrip ==
  \A w \in Workers : wpc[w] = "scan" => TargetOf(hand[w]) \notin tripped

\* The call delivers a result for every address and port asked for, its own
\* or one from the resume file.
CompleteAtReturn ==
  finished => \A k \in Keys : k \in cp.done \/ \E j \in Reported : KeyOf(j) = k

\* Execute always returns: no goroutine waits for ever on a full or an empty
\* channel, nor on one nobody closes.
Returns == <>finished

\* The worker pool implements the contract of Execute: seen from outside, each
\* job that is not skipped is reported once, and the call returns after that.
Contract == INSTANCE ScanContract WITH skipped <- Skipped
Implements == Contract!SafetySpec
=============================================================================
