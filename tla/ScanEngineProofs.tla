-------------------------- MODULE ScanEngineProofs --------------------------
(***************************************************************************)
(* Theorems about ScanEngine, for every number of workers, every list of   *)
(* targets and ports, every batch size and both dispatch orders; and about *)
(* GuardedScan, for every rise factor, streak, number of baseline samples  *)
(* and of losses.                                                          *)
(*                                                                         *)
(* The inductive invariant IInv is the type invariant, the partition of    *)
(* the jobs among the stages of the pipeline, the order of shutdown and    *)
(* what ties a goroutine's position to the job it holds.  That the worker  *)
(* pool implements ScanContract follows from it, and so do the counts of   *)
(* the progress.  BreakerInv says of each counter of the breaker which     *)
(* outcomes of the history it has counted.                                 *)
(***************************************************************************)
EXTENDS GuardedScan, FiniteSetTheorems, WellFoundedInduction, TLAPS

-----------------------------------------------------------------------------
(* Sequences used as channels. *)

\* Sending adds one element.
LEMMA AppendElems ==
  ASSUME NEW S, NEW s \in Seq(S), NEW x \in S
  PROVE  /\ Append(s, x) \in Seq(S)
         /\ Len(Append(s, x)) = Len(s) + 1
         /\ Elems(Append(s, x)) = Elems(s) \cup {x}
         /\ Injective(s) /\ x \notin Elems(s) => Injective(Append(s, x))
  BY DEF Elems, Injective

\* Receiving removes the first element, and, where none repeats, all of it.
LEMMA TailElems ==
  ASSUME NEW S, NEW s \in Seq(S), s # <<>>
  PROVE  /\ Head(s) \in S /\ Tail(s) \in Seq(S)
         /\ Len(Tail(s)) = Len(s) - 1 /\ Len(s) \in Nat \ {0}
         /\ Head(s) \in Elems(s)
         /\ Injective(s) => /\ Injective(Tail(s))
                            /\ Elems(Tail(s)) = Elems(s) \ {Head(s)}
<1>1. Len(s) \in Nat \ {0} /\ Head(s) = s[1] /\ Head(s) \in S
  OBVIOUS
<1>2. /\ Tail(s) \in Seq(S) /\ Len(Tail(s)) = Len(s) - 1
      /\ \A i \in 1 .. Len(s) - 1 : Tail(s)[i] = s[i + 1]
  OBVIOUS
<1>3. Head(s) \in Elems(s)
  BY <1>1 DEF Elems
<1>4. ASSUME Injective(s) PROVE Injective(Tail(s))
  BY <1>1, <1>2, <1>4 DEF Injective
<1>5. ASSUME Injective(s) PROVE Elems(Tail(s)) = Elems(s) \ {Head(s)}
  <2>1. ASSUME NEW x \in Elems(Tail(s)) PROVE x \in Elems(s) \ {Head(s)}
    <3>1. PICK i \in 1 .. Len(s) - 1 : x = s[i + 1]
      BY <1>1, <1>2 DEF Elems
    <3> QED BY <3>1, <1>1, <1>5 DEF Elems, Injective
  <2>2. ASSUME NEW x \in Elems(s) \ {Head(s)} PROVE x \in Elems(Tail(s))
    <3>1. PICK i \in 1 .. Len(s) : x = s[i]
      BY DEF Elems
    <3>2. i # 1 /\ i - 1 \in 1 .. Len(s) - 1
      BY <3>1, <1>1, <2>2
    <3>3. Tail(s)[i - 1] = x
      BY <3>1, <3>2, <1>2, <1>1
    <3> QED BY <3>2, <3>3, <1>2 DEF Elems
  <2> QED BY <2>1, <2>2
<1> QED BY <1>1, <1>2, <1>3, <1>4, <1>5

LEMMA EmptyElems == Elems(<<>>) = {} /\ Injective(<<>>)
  BY DEF Elems, Injective

-----------------------------------------------------------------------------
(* Type correctness. *)

\* A batch is flushed as soon as it is full.
BatchRoom == dpc = "gen" => Len(batch) < BatchSize

\* A worker holds a job from receiving it to sending its result.
HandMatches ==
  \A w \in Workers : wpc[w] \in {"recv", "exit"} <=> hand[w] = NoJob

TypeInv == TypeOK /\ BatchRoom /\ HandMatches

LEMMA Constants ==
  /\ NumJobs \in Nat /\ Jobs \subseteq Int /\ NoJob \notin Jobs
  /\ QueueSize \in Nat
  /\ \A j \in Jobs : KeyOf(j) \in Keys /\ TargetOf(j) \in Targets
<1>1. Len(TargetList) \in Nat /\ NumPorts \in Nat
  BY EngineAssumption DEF NumPorts
<1>2. NumJobs \in Nat
  BY <1>1 DEF NumJobs
<1>3. Jobs \subseteq Int /\ NoJob \notin Jobs
  BY <1>2 DEF Jobs, NoJob
<1>4. QueueSize \in Nat
  BY FS_CardinalityType, EngineAssumption DEF QueueSize
<1>5. \A j \in Jobs : KeyOf(j) \in Keys /\ TargetOf(j) \in Targets
  BY DEF Keys, Targets
<1> QED BY <1>2, <1>3, <1>4, <1>5

LEMMA JobsFinite == IsFiniteSet(Jobs) /\ Cardinality(Jobs) = NumJobs
<1>1. 0 \in Int /\ NumJobs - 1 \in Int /\ NumJobs \in Nat
  BY Constants
<1>2. /\ IsFiniteSet(0 .. NumJobs - 1)
      /\ Cardinality(0 .. NumJobs - 1) =
           IF 0 > NumJobs - 1 THEN 0 ELSE (NumJobs - 1) - 0 + 1
  BY <1>1, FS_Interval
<1> QED BY <1>1, <1>2 DEF Jobs

LEMMA KeysFinite == IsFiniteSet(Keys)
<1> DEFINE f == [j \in Jobs |-> KeyOf(j)]
<1>1. f \in Surjection(Jobs, Keys)
  BY DEF Surjection, Keys
<1> HIDE DEF f
<1> QED BY <1>1, JobsFinite, FS_Surjection

LEMMA TypeInit == Init => TypeInv
<1> SUFFICES ASSUME Init PROVE TypeInv
  OBVIOUS
<1>1. cp \in [done : SUBSET Keys, loaded : Nat]
  <2>1. PICK keys \in SUBSET Keys, others \in 0 .. MaxOther :
          cp = [done |-> keys, loaded |-> Cardinality(keys) + others]
    BY DEF Init
  <2>2. Cardinality(keys) \in Nat /\ others \in Nat
    BY <2>1, KeysFinite, FS_Subset, FS_CardinalityType, EngineAssumption
  <2> QED BY <2>1, <2>2
<1>2. progress \in [completed : Nat, open : Nat, closed : Nat, filtered : Nat]
  BY <1>1 DEF Init
<1>3. /\ Len(batch) = 0 /\ Len(jobs) = 0 /\ Len(results) = 0
      /\ batch \in Seq(Jobs) /\ jobs \in Seq(Jobs) /\ results \in Seq(Jobs)
  BY DEF Init
<1>4. /\ wpc \in [Workers -> {"recv", "check", "scan", "send", "exit"}]
      /\ hand \in [Workers -> Jobs \cup {NoJob}]
      /\ verdict \in [Jobs -> Verdicts \cup {"none"}]
      /\ reports \in [Jobs -> Nat]
  BY DEF Init
<1>5. TypeOK
  <2>1. /\ todo \subseteq Jobs /\ dpc = "gen" /\ tripped \subseteq Targets
        /\ resultsClosed \in BOOLEAN /\ finished \in BOOLEAN
    BY DEF Init
  <2>2. Len(batch) <= BatchSize /\ Len(jobs) <= QueueSize
        /\ Len(results) <= QueueSize
    BY <1>3, Constants, EngineAssumption
  <2> QED BY <1>1, <1>2, <1>3, <1>4, <2>1, <2>2 DEF TypeOK
<1>6. BatchRoom /\ HandMatches
  BY <1>3, EngineAssumption DEF Init, BatchRoom, HandMatches
<1> QED BY <1>5, <1>6 DEF TypeInv

LEMMA TypeStep == TypeInv /\ [Next]_vars => TypeInv'
<1> SUFFICES ASSUME TypeInv, [Next]_vars PROVE TypeInv'
  OBVIOUS
<1> USE DEF TypeInv
<1> USE Constants, EngineAssumption
<1>1. CASE Dispatch
  <2>1. PICK j \in Jobs :
          /\ NextIndex(j)
          /\ todo' = todo \ {j}
          /\ batch' = IF j \in Skipped THEN batch ELSE Append(batch, j)
    BY <1>1 DEF Dispatch, isDone
  <2>2. batch' \in Seq(Jobs) /\ Len(batch') <= BatchSize
    BY <1>1, <2>1, AppendElems DEF Dispatch, isDone, TypeOK, BatchRoom
  <2>3. TypeOK'
    BY <1>1, <2>1, <2>2 DEF Dispatch, isDone, TypeOK, workVars, collVars
  <2>4. BatchRoom'
    <3>1. Len(batch') \in Nat
      BY <2>2
    <3> QED BY <1>1, <3>1 DEF Dispatch, isDone, BatchRoom
  <2>5. HandMatches'
    BY <1>1 DEF Dispatch, isDone, HandMatches, workVars
  <2> QED BY <2>3, <2>4, <2>5
<1>2. CASE LastFlush
  BY <1>2 DEF LastFlush, TypeOK, BatchRoom, HandMatches, workVars, collVars
<1>3. CASE SendJob
  <2>1. /\ Head(batch) \in Jobs
        /\ batch' \in Seq(Jobs) /\ Len(batch') <= BatchSize
    BY <1>3, TailElems DEF SendJob, HasRoom, TypeOK
  <2>2. jobs' \in Seq(Jobs) /\ Len(jobs') <= QueueSize
    BY <1>3, <2>1, AppendElems DEF SendJob, HasRoom, TypeOK
  <2> QED BY <1>3, <2>1, <2>2
          DEF SendJob, HasRoom, TypeOK, BatchRoom, HandMatches, workVars, collVars
<1>4. CASE EndFlush
  BY <1>4 DEF EndFlush, AfterFlush, TypeOK, BatchRoom, HandMatches, workVars, collVars
<1>5. CASE \E w \in Workers : Recv(w)
  <2>1. PICK w \in Workers : Recv(w)
    BY <1>5
  <2>2. Head(jobs) \in Jobs /\ jobs' \in Seq(Jobs) /\ Len(jobs') <= QueueSize
    BY <2>1, TailElems DEF Recv, TypeOK
  <2> QED BY <2>1, <2>2
          DEF Recv, TypeOK, BatchRoom, HandMatches, dispVars, collVars
<1>6. CASE \E w \in Workers : Exit(w)
  BY <1>6 DEF Exit, TypeOK, BatchRoom, HandMatches, dispVars, collVars
<1>7. CASE \E w \in Workers : Check(w)
  <2>1. PICK w \in Workers : Check(w)
    BY <1>7
  <2>2. hand[w] \in Jobs
    BY <2>1 DEF Check, Aborted, TypeOK, HandMatches
  <2>3. /\ wpc' \in [Workers -> {"recv", "check", "scan", "send", "exit"}]
        /\ \A v \in Workers : wpc'[v] \in {"recv", "exit"}
                               <=> wpc[v] \in {"recv", "exit"}
    BY <2>1 DEF Check, Aborted, TypeOK
  <2>4. verdict' \in [Jobs -> Verdicts \cup {"none"}]
    <3>1. verdict \in [Jobs -> Verdicts \cup {"none"}]
      BY DEF TypeOK
    <3>2. verdict' \in {verdict, [verdict EXCEPT ![hand[w]] = "filtered"]}
      BY <2>1 DEF Check, Aborted
    <3> QED BY <3>1, <3>2
  <2> QED BY <2>1, <2>3, <2>4
          DEF Check, Aborted, TypeOK, BatchRoom, HandMatches, dispVars, collVars
<1>8. CASE \E w \in Workers : Scan(w)
  <2>1. PICK w \in Workers : Scan(w)
    BY <1>8
  <2>2. hand[w] \in Jobs
    BY <2>1 DEF Scan, TypeOK, HandMatches
  <2>3. tripped' \subseteq Targets
    <3>1. TargetOf(hand[w]) \in Targets
      BY <2>2
    <3>2. tripped' = tripped \/ tripped' = tripped \cup {TargetOf(hand[w])}
      BY <2>1 DEF Scan
    <3> QED BY <3>1, <3>2 DEF TypeOK
  <2>4. verdict' \in [Jobs -> Verdicts \cup {"none"}]
    <3>1. verdict \in [Jobs -> Verdicts \cup {"none"}]
      BY DEF TypeOK
    <3>2. PICK v \in Verdicts : verdict' = [verdict EXCEPT ![hand[w]] = v]
      BY <2>1 DEF Scan
    <3> QED BY <3>1, <3>2
  <2> QED BY <2>1, <2>3, <2>4
          DEF Scan, TypeOK, BatchRoom, HandMatches, dispVars, collVars
<1>9. CASE \E w \in Workers : Send(w)
  <2>1. PICK w \in Workers : Send(w)
    BY <1>9
  <2>2. hand[w] \in Jobs
    BY <2>1 DEF Send, HasRoom, TypeOK, HandMatches
  <2>3. results' \in Seq(Jobs) /\ Len(results') <= QueueSize
    BY <2>1, <2>2, AppendElems DEF Send, HasRoom, TypeOK
  <2> QED BY <2>1, <2>3
          DEF Send, HasRoom, TypeOK, BatchRoom, HandMatches, dispVars, collVars
<1>10. CASE CloseResults
  BY <1>10 DEF CloseResults, WorkersDone, TypeOK, BatchRoom, HandMatches, dispVars,
               workVars, collVars
<1>11. CASE Collect
  <2>1. /\ Head(results) \in Jobs
        /\ results' \in Seq(Jobs) /\ Len(results') <= QueueSize
    BY <1>11, TailElems DEF Collect, TypeOK
  <2>2. reports' \in [Jobs -> Nat]
    <3>1. /\ reports \in [Jobs -> Nat]
          /\ reports' = [reports EXCEPT ![Head(results)] = @ + 1]
      BY <1>11 DEF Collect, TypeOK
    <3>2. reports[Head(results)] \in Nat
      BY <3>1, <2>1
    <3>3. reports[Head(results)] + 1 \in Nat
      BY <3>2
    <3> QED BY <3>1, <3>3
  <2>3. progress' \in [completed : Nat, open : Nat, closed : Nat,
                       filtered : Nat]
    <3>1. progress \in [completed : Nat, open : Nat, closed : Nat,
                        filtered : Nat]
      BY DEF TypeOK
    <3>2. progress' = Counted(progress, verdict[Head(results)])
      BY <1>11 DEF Collect
    <3> QED BY <3>1, <3>2 DEF Counted
  <2> QED BY <1>11, <2>1, <2>2, <2>3
          DEF Collect, TypeOK, BatchRoom, HandMatches, dispVars, workVars
<1>12. CASE Finish
  BY <1>12 DEF Finish, TypeOK, BatchRoom, HandMatches, dispVars, workVars
<1>13. CASE UNCHANGED vars
  BY <1>13 DEF vars, TypeOK, BatchRoom, HandMatches, dispVars, workVars,
               collVars
<1> QED BY <1>1, <1>2, <1>3, <1>4, <1>5, <1>6, <1>7, <1>8, <1>9, <1>10, <1>11,
           <1>12, <1>13
        DEF Next, Dispatcher, Worker, Collector, Returned

\* Every variable of the worker pool keeps its type; in particular neither
\* channel ever holds more than its capacity.
THEOREM TypeCorrect == SafetySpec => []TypeOK
<1>1. Init => TypeInv
  BY TypeInit
<1>2. TypeInv /\ [Next]_vars => TypeInv'
  BY TypeStep
<1>3. TypeInv => TypeOK
  BY DEF TypeInv
<1> QED BY <1>1, <1>2, <1>3, PTL DEF SafetySpec

-----------------------------------------------------------------------------
(* The partition of the jobs. *)

\* Nobody else holds a job: the part of NoStageRepeats about the workers.
HandsDiffer ==
  \A v, w \in Workers : hand[v] = hand[w] /\ hand[v] # NoJob => v = w

LEMMA PartitionInit == Init => NoJobLostOrDuplicated
<1> SUFFICES ASSUME Init PROVE NoJobLostOrDuplicated
  OBVIOUS
<1>1. /\ Elems(batch) = {} /\ Elems(jobs) = {} /\ Elems(results) = {}
      /\ Injective(batch) /\ Injective(jobs) /\ Injective(results)
  BY EmptyElems DEF Init
<1>2. Held = {} /\ Reported = {}
  BY DEF Init, Held, Reported
<1>3. NoStageRepeats
  BY <1>1 DEF Init, NoStageRepeats
<1>4. StagesDisjoint
  BY <1>1, <1>2 DEF StagesDisjoint
<1>5. StagesCover
  BY <1>1, <1>2 DEF StagesCover, Init
<1> QED BY <1>3, <1>4, <1>5 DEF NoJobLostOrDuplicated

\* A worker that held nothing takes a job.
LEMMA HandTakes ==
  ASSUME TypeOK, NEW w \in Workers, hand[w] = NoJob, NEW j \in Jobs,
         hand' = [hand EXCEPT ![w] = j], HandsDiffer, j \notin Held
  PROVE  Held' = Held \cup {j} /\ HandsDiffer'
<1>1. hand \in [Workers -> Jobs \cup {NoJob}] /\ j # NoJob
  BY Constants DEF TypeOK
<1>2. /\ hand'[w] = j
      /\ \A v \in Workers : v # w => hand'[v] = hand[v] /\ hand[v] # j
  BY <1>1 DEF Held
<1>3. Held' = Held \cup {j}
  BY <1>1, <1>2 DEF Held
<1>4. HandsDiffer'
  BY <1>1, <1>2 DEF HandsDiffer
<1> QED BY <1>3, <1>4

\* A worker gives away the job it held.
LEMMA HandGives ==
  ASSUME TypeOK, NEW w \in Workers, hand[w] # NoJob,
         hand' = [hand EXCEPT ![w] = NoJob], HandsDiffer
  PROVE  hand[w] \in Held /\ Held' = Held \ {hand[w]} /\ HandsDiffer'
<1>1. hand \in [Workers -> Jobs \cup {NoJob}]
  BY DEF TypeOK
<1>2. /\ hand'[w] = NoJob
      /\ \A v \in Workers : v # w => hand'[v] = hand[v] /\ hand[v] # hand[w]
  BY <1>1 DEF HandsDiffer
<1>3. hand[w] \in Held /\ Held' = Held \ {hand[w]}
  BY <1>1, <1>2 DEF Held
<1>4. HandsDiffer'
  BY <1>1, <1>2 DEF HandsDiffer
<1> QED BY <1>3, <1>4

LEMMA PartitionStep ==
  TypeInv /\ NoJobLostOrDuplicated /\ [Next]_vars => NoJobLostOrDuplicated'
<1> SUFFICES ASSUME TypeInv, NoJobLostOrDuplicated, [Next]_vars
             PROVE  NoJobLostOrDuplicated'
  OBVIOUS
<1> USE DEF NoJobLostOrDuplicated
<1>0. /\ batch \in Seq(Jobs) /\ jobs \in Seq(Jobs) /\ results \in Seq(Jobs)
      /\ reports \in [Jobs -> Nat] /\ TypeOK /\ HandsDiffer
  BY DEF TypeInv, TypeOK, NoStageRepeats, HandsDiffer
<1>1. CASE Dispatch
  <2>1. PICK j \in Jobs :
          /\ j \in todo
          /\ todo' = todo \ {j}
          /\ batch' = IF j \in Skipped THEN batch ELSE Append(batch, j)
    BY <1>1 DEF Dispatch, isDone, NextIndex
  <2>2. /\ Held' = Held /\ Reported' = Reported /\ Skipped' = Skipped
        /\ jobs' = jobs /\ results' = results
        /\ hand' = hand /\ reports' = reports
    BY <1>1 DEF Dispatch, isDone, workVars, collVars, Held, Reported, Skipped
  <2>3. /\ Injective(batch')
        /\ Elems(batch') = Elems(batch) \cup ({j} \ Skipped)
    BY <2>1, <1>0, AppendElems DEF NoStageRepeats, StagesDisjoint
  <2>4. NoStageRepeats'
    BY <2>2, <2>3 DEF NoStageRepeats
  <2>5. StagesDisjoint'
    BY <2>1, <2>2, <2>3 DEF StagesDisjoint
  <2>6. StagesCover'
    BY <2>1, <2>2, <2>3 DEF StagesCover
  <2> QED BY <2>4, <2>5, <2>6
<1>2. CASE SendJob
  <2>1. batch # <<>> /\ jobs' = Append(jobs, Head(batch))
        /\ batch' = Tail(batch)
    BY <1>2 DEF SendJob, HasRoom
  <2>2. /\ Held' = Held /\ Reported' = Reported /\ Skipped' = Skipped
        /\ todo' = todo /\ results' = results
        /\ hand' = hand /\ reports' = reports
    BY <1>2 DEF SendJob, HasRoom, workVars, collVars, Held, Reported, Skipped
  <2>3. /\ Head(batch) \in Jobs /\ Head(batch) \in Elems(batch)
        /\ Injective(batch') /\ Elems(batch') = Elems(batch) \ {Head(batch)}
    BY <2>1, <1>0, TailElems DEF NoStageRepeats
  <2>4. /\ Injective(jobs') /\ Elems(jobs') = Elems(jobs) \cup {Head(batch)}
    BY <2>1, <2>3, <1>0, AppendElems DEF NoStageRepeats, StagesDisjoint
  <2>5. NoStageRepeats'
    BY <2>2, <2>3, <2>4 DEF NoStageRepeats
  <2>6. StagesDisjoint'
    BY <2>2, <2>3, <2>4 DEF StagesDisjoint
  <2>7. StagesCover'
    BY <2>2, <2>3, <2>4 DEF StagesCover
  <2> QED BY <2>5, <2>6, <2>7
<1>3. CASE \E w \in Workers : Recv(w)
  <2>1. PICK w \in Workers : Recv(w)
    BY <1>3
  <2>2. /\ Reported' = Reported /\ Skipped' = Skipped /\ todo' = todo
        /\ results' = results /\ batch' = batch /\ reports' = reports
    BY <2>1 DEF Recv, dispVars, collVars, Reported, Skipped
  <2>3. /\ Head(jobs) \in Jobs /\ Head(jobs) \in Elems(jobs)
        /\ Injective(jobs') /\ Elems(jobs') = Elems(jobs) \ {Head(jobs)}
    BY <2>1, <1>0, TailElems DEF Recv, NoStageRepeats
  <2>4. Held' = Held \cup {Head(jobs)} /\ HandsDiffer'
    <3>1. hand[w] = NoJob
      BY <2>1 DEF Recv, TypeInv, HandMatches
    <3>2. Head(jobs) \notin Held
      BY <2>3 DEF StagesDisjoint
    <3>3. hand' = [hand EXCEPT ![w] = Head(jobs)]
      BY <2>1 DEF Recv
    <3> QED BY <3>1, <3>2, <3>3, <2>3, <1>0, HandTakes
  <2>5. NoStageRepeats'
    BY <2>2, <2>3, <2>4 DEF NoStageRepeats, HandsDiffer
  <2>6. StagesDisjoint'
    BY <2>2, <2>3, <2>4 DEF StagesDisjoint
  <2>7. StagesCover'
    BY <2>2, <2>3, <2>4 DEF StagesCover
  <2> QED BY <2>5, <2>6, <2>7
<1>4. CASE \E w \in Workers : Send(w)
  <2>1. PICK w \in Workers : Send(w)
    BY <1>4
  <2>2. /\ Reported' = Reported /\ Skipped' = Skipped /\ todo' = todo
        /\ jobs' = jobs /\ batch' = batch /\ reports' = reports
    BY <2>1 DEF Send, HasRoom, dispVars, collVars, Reported, Skipped
  <2>3. /\ hand[w] \in Held /\ Held' = Held \ {hand[w]} /\ HandsDiffer'
        /\ hand[w] \in Jobs
    <3>1. hand[w] # NoJob /\ hand[w] \in Jobs
      BY <2>1 DEF Send, HasRoom, TypeInv, TypeOK, HandMatches
    <3>2. hand' = [hand EXCEPT ![w] = NoJob]
      BY <2>1 DEF Send, HasRoom
    <3> QED BY <3>1, <3>2, <1>0, HandGives
  <2>4. /\ Injective(results')
        /\ Elems(results') = Elems(results) \cup {hand[w]}
    <3>1. hand[w] \notin Elems(results)
      BY <2>3 DEF StagesDisjoint
    <3> QED BY <3>1, <2>1, <2>3, <1>0, AppendElems DEF Send, HasRoom, NoStageRepeats
  <2>5. NoStageRepeats'
    BY <2>2, <2>3, <2>4 DEF NoStageRepeats, HandsDiffer
  <2>6. StagesDisjoint'
    BY <2>2, <2>3, <2>4 DEF StagesDisjoint
  <2>7. StagesCover'
    BY <2>2, <2>3, <2>4 DEF StagesCover
  <2> QED BY <2>5, <2>6, <2>7
<1>5. CASE Collect
  <2>1. /\ results # <<>> /\ results' = Tail(results)
        /\ reports' = [reports EXCEPT ![Head(results)] = @ + 1]
    BY <1>5 DEF Collect
  <2>2. /\ Held' = Held /\ Skipped' = Skipped /\ todo' = todo
        /\ jobs' = jobs /\ batch' = batch /\ hand' = hand
    BY <1>5 DEF Collect, dispVars, workVars, Held, Skipped
  <2>3. /\ Head(results) \in Jobs /\ Head(results) \in Elems(results)
        /\ Injective(results')
        /\ Elems(results') = Elems(results) \ {Head(results)}
    BY <2>1, <1>0, TailElems DEF NoStageRepeats
  <2>4. reports[Head(results)] = 0
    BY <2>3, <1>0 DEF StagesDisjoint, Reported
  <2>5. /\ \A j \in Jobs : reports'[j] = IF j = Head(results) THEN 1
                                                             ELSE reports[j]
        /\ Reported' = Reported \cup {Head(results)}
    BY <2>1, <2>3, <2>4, <1>0 DEF Reported
  <2>6. NoStageRepeats'
    BY <2>2, <2>3, <2>5 DEF NoStageRepeats
  <2>7. StagesDisjoint'
    BY <2>2, <2>3, <2>5 DEF StagesDisjoint
  <2>8. StagesCover'
    BY <2>2, <2>3, <2>5 DEF StagesCover
  <2> QED BY <2>6, <2>7, <2>8
<1>6. ASSUME UNCHANGED <<cp, todo, batch, jobs, hand, results, reports>>
      PROVE  NoJobLostOrDuplicated'
  <2>1. Held' = Held /\ Reported' = Reported /\ Skipped' = Skipped
    BY <1>6 DEF Held, Reported, Skipped
  <2> QED BY <1>6, <2>1 DEF NoStageRepeats, StagesDisjoint, StagesCover
<1>7. CASE LastFlush \/ EndFlush
  BY <1>6, <1>7 DEF LastFlush, EndFlush, AfterFlush, workVars, collVars
<1>8. CASE \E w \in Workers : Exit(w) \/ Check(w) \/ Scan(w)
  BY <1>6, <1>8 DEF Exit, Check, Aborted, Scan, dispVars, collVars
<1>9. CASE CloseResults \/ Finish \/ UNCHANGED vars
  BY <1>6, <1>9 DEF CloseResults, WorkersDone, Finish, vars, dispVars, workVars, collVars
<1> QED BY <1>1, <1>2, <1>3, <1>4, <1>5, <1>7, <1>8, <1>9
        DEF Next, Dispatcher, Worker, Collector, Returned

\* Every job is in exactly one place at every moment of every execution: none
\* is lost between two goroutines, probed twice or reported twice.
THEOREM Partition == SafetySpec => []NoJobLostOrDuplicated
<1>1. Init => TypeInv /\ NoJobLostOrDuplicated
  BY TypeInit, PartitionInit
<1>2. /\ TypeInv /\ NoJobLostOrDuplicated
      /\ [Next]_vars
      => (TypeInv /\ NoJobLostOrDuplicated)'
  BY TypeStep, PartitionStep
<1> QED BY <1>1, <1>2, PTL DEF SafetySpec

-----------------------------------------------------------------------------
(* Shutting down. *)

\* The last flush begins when every index has been visited.
LastFlushIsLast == dpc = "final" => todo = {}
ShutdownInv == ShutdownOrder /\ LastFlushIsLast

LEMMA ShutdownInit == Init => ShutdownInv
  BY EngineAssumption DEF Init, ShutdownInv, ShutdownOrder, LastFlushIsLast

LEMMA ShutdownStep == TypeInv /\ ShutdownInv /\ [Next]_vars => ShutdownInv'
<1> SUFFICES ASSUME TypeInv, ShutdownInv, [Next]_vars PROVE ShutdownInv'
  OBVIOUS
<1> USE EngineAssumption DEF ShutdownInv, ShutdownOrder, LastFlushIsLast
<1>0. /\ wpc \in [Workers -> {"recv", "check", "scan", "send", "exit"}]
      /\ batch \in Seq(Jobs) /\ jobs \in Seq(Jobs) /\ results \in Seq(Jobs)
  BY DEF TypeInv, TypeOK
<1>1. CASE Dispatch \/ LastFlush
  BY <1>1 DEF Dispatch, isDone, LastFlush, workVars, collVars
<1>2. CASE SendJob \/ EndFlush
  BY <1>2 DEF SendJob, HasRoom, EndFlush, AfterFlush, workVars, collVars
<1>3. CASE \E w \in Workers : Recv(w)
  BY <1>0, <1>3 DEF Recv, dispVars, collVars
<1>4. CASE \E w \in Workers : Exit(w)
  BY <1>0, <1>4 DEF Exit, dispVars, collVars
<1>5. CASE \E w \in Workers : Check(w)
  <2>1. PICK w \in Workers : Check(w)
    BY <1>5
  <2>2. wpc[w] # "exit" /\ \A v \in Workers : wpc'[v] = "exit" => wpc[v] = "exit"
    BY <1>0, <2>1 DEF Check, Aborted
  <2> QED BY <2>1, <2>2 DEF Check, Aborted, dispVars, collVars
<1>6. CASE \E w \in Workers : Scan(w)
  <2>1. PICK w \in Workers : Scan(w)
    BY <1>6
  <2>2. wpc[w] # "exit" /\ \A v \in Workers : wpc'[v] = "exit" => wpc[v] = "exit"
    BY <1>0, <2>1 DEF Scan
  <2> QED BY <2>1, <2>2 DEF Scan, dispVars, collVars
<1>7. CASE \E w \in Workers : Send(w)
  <2>1. PICK w \in Workers : Send(w)
    BY <1>7
  <2>2. wpc[w] # "exit" /\ \A v \in Workers : wpc'[v] = "exit" => wpc[v] = "exit"
    BY <1>0, <2>1 DEF Send, HasRoom
  <2> QED BY <2>1, <2>2 DEF Send, HasRoom, dispVars, collVars
<1>8. CASE CloseResults
  BY <1>8 DEF CloseResults, WorkersDone, dispVars, workVars, collVars
<1>9. CASE Collect \/ Finish
  BY <1>9 DEF Collect, Finish, dispVars, workVars
<1>10. CASE UNCHANGED vars
  BY <1>10 DEF vars, dispVars, workVars, collVars
<1> QED BY <1>1, <1>2, <1>3, <1>4, <1>5, <1>6, <1>7, <1>8, <1>9, <1>10
        DEF Next, Dispatcher, Worker, Collector, Returned

\* No goroutine ever sends on a closed channel, and Execute returns with
\* nothing in flight.
THEOREM OrderlyShutdown == SafetySpec => []ShutdownOrder
<1>1. Init => TypeInv /\ ShutdownInv
  BY TypeInit, ShutdownInit
<1>2. TypeInv /\ ShutdownInv /\ [Next]_vars => (TypeInv /\ ShutdownInv)'
  BY TypeStep, ShutdownStep
<1>3. ShutdownInv => ShutdownOrder
  BY DEF ShutdownInv
<1> QED BY <1>1, <1>2, <1>3, PTL DEF SafetySpec

-----------------------------------------------------------------------------
(* The contract. *)

IInv == TypeInv /\ NoJobLostOrDuplicated /\ ShutdownInv

LEMMA InvInductive ==
  /\ Init => IInv
  /\ IInv /\ [Next]_vars => IInv'
  BY TypeInit, PartitionInit, ShutdownInit, TypeStep, PartitionStep,
     ShutdownStep DEF IInv

\* With the results channel closed and drained, every stage but the last is
\* empty, so that all that was to be scanned has been reported.
LEMMA AllReported ==
  ASSUME IInv, resultsClosed, results = <<>>
  PROVE  Reported = Jobs \ Skipped
<1>1. \A w \in Workers : wpc[w] = "exit" /\ hand[w] = NoJob
  BY DEF IInv, ShutdownInv, ShutdownOrder, TypeInv, HandMatches
<1>2. Held = {}
  BY <1>1 DEF Held
<1>3. todo = {} /\ batch = <<>> /\ jobs = <<>>
  BY <1>1, EngineAssumption DEF IInv, ShutdownInv, ShutdownOrder
<1> QED BY <1>2, <1>3, EmptyElems DEF IInv, NoJobLostOrDuplicated, StagesCover

\* Execute returns a result for every address and port it was asked for.
THEOREM Complete == SafetySpec => []CompleteAtReturn
<1>1. IInv => CompleteAtReturn
  <2> SUFFICES ASSUME IInv, finished, NEW k \in Keys
               PROVE  k \in cp.done \/ \E j \in Reported : KeyOf(j) = k
    BY DEF CompleteAtReturn
  <2>1. Reported = Jobs \ Skipped
    BY AllReported DEF IInv, ShutdownInv, ShutdownOrder
  <2>2. PICK j \in Jobs : KeyOf(j) = k
    BY DEF Keys
  <2> QED BY <2>1, <2>2 DEF Skipped
<1> QED BY <1>1, InvInductive, PTL DEF SafetySpec

LEMMA StepRefines == IInv /\ [Next]_vars => [Contract!Next]_Contract!contractVars
<1> SUFFICES ASSUME IInv, [Next]_vars
             PROVE  Contract!Next \/ UNCHANGED Contract!contractVars
  OBVIOUS
<1> USE DEF Contract!contractVars
<1>0. /\ reports \in [Jobs -> Nat] /\ results \in Seq(Jobs)
      /\ finished \in BOOLEAN
  BY DEF IInv, TypeInv, TypeOK
<1>1. ASSUME UNCHANGED <<cp, reports, finished>>
      PROVE  UNCHANGED Contract!contractVars
  BY <1>1 DEF Skipped
<1>2. CASE Collect
  <2>1. /\ Head(results) \in Jobs /\ Head(results) \in Elems(results)
    BY <1>0, <1>2, TailElems DEF Collect
  <2>2. Head(results) \notin Skipped /\ reports[Head(results)] = 0
    BY <2>1, <1>0 DEF IInv, NoJobLostOrDuplicated, StagesDisjoint, StagesCover,
                      Reported
  <2>3. ~finished
    BY <1>2 DEF Collect, IInv, ShutdownInv, ShutdownOrder
  <2>4. Skipped' = Skipped
    BY <1>2 DEF Collect, Skipped
  <2>5. reports' = [reports EXCEPT ![Head(results)] = 1] /\ finished' = finished
    BY <1>2, <2>2 DEF Collect
  <2>6. Contract!Report(Head(results))
    BY <2>2, <2>3, <2>4, <2>5 DEF Contract!Report
  <2> QED BY <2>1, <2>6 DEF Contract!Next
<1>3. CASE Finish
  <2>1. Reported = Jobs \ Skipped
    BY <1>3, AllReported DEF Finish
  <2>2. \A j \in Jobs \ Skipped : reports[j] = 1
    BY <2>1, <1>0 DEF Reported, IInv, NoJobLostOrDuplicated, NoStageRepeats
  <2>3. Skipped' = Skipped
    BY <1>3 DEF Finish, Skipped
  <2> QED BY <1>3, <2>2, <2>3 DEF Finish, Contract!Finish, Contract!Next
<1>4. CASE Dispatcher
  BY <1>1, <1>4
     DEF Dispatcher, Dispatch, isDone, LastFlush, SendJob, HasRoom, EndFlush,
         AfterFlush, collVars
<1>5. CASE \E w \in Workers : Worker(w)
  BY <1>1, <1>5 DEF Worker, Recv, Exit, Check, Aborted, Scan, Send, HasRoom, collVars
<1>6. CASE CloseResults \/ UNCHANGED vars
  BY <1>1, <1>6 DEF CloseResults, WorkersDone, vars, collVars
<1> QED BY <1>2, <1>3, <1>4, <1>5, <1>6 DEF Next, Collector, Returned

\* The worker pool, its channels, its batches and its breaker implement the
\* contract of Execute: every job not covered by the resume file is reported
\* exactly once, no other is, and the call returns only after the last.
THEOREM ImplementsContract == SafetySpec => Implements
<1>1. Init => Contract!Init
  <2> SUFFICES ASSUME Init PROVE Contract!Init
    OBVIOUS
  <2>1. Skipped \in SUBSET Jobs
    BY DEF Skipped
  <2> QED BY <2>1 DEF Init, Contract!Init
<1>2. IInv /\ [Next]_vars => [Contract!Next]_Contract!contractVars
  BY StepRefines
<1> QED BY <1>1, <1>2, InvInductive, PTL
        DEF SafetySpec, Implements, Contract!SafetySpec

-----------------------------------------------------------------------------
(* The circuit breaker. *)

\* Without the guard nothing is ever tripped.
GuardInv == NoProbeAfterTrip /\ (~UseGuard => tripped = {})

LEMMA GuardStep == TypeInv /\ GuardInv /\ [Next]_vars => GuardInv'
<1> SUFFICES ASSUME TypeInv, GuardInv, [Next]_vars PROVE GuardInv'
  OBVIOUS
<1> USE DEF GuardInv, NoProbeAfterTrip
<1>0. /\ wpc \in [Workers -> {"recv", "check", "scan", "send", "exit"}]
      /\ hand \in [Workers -> Jobs \cup {NoJob}]
  BY DEF TypeInv, TypeOK
<1>1. CASE \E w \in Workers : Recv(w)
  BY <1>0, <1>1 DEF Recv
<1>2. CASE \E w \in Workers : Exit(w)
  BY <1>0, <1>2 DEF Exit
<1>3. CASE \E w \in Workers : Check(w)
  BY <1>0, <1>3 DEF Check, Aborted
<1>4. CASE \E w \in Workers : Scan(w)
  <2>1. PICK w \in Workers : Scan(w)
    BY <1>4
  <2>2. wpc'[w] = "send" /\ hand' = hand
        /\ \A v \in Workers : v # w => wpc'[v] = wpc[v]
    BY <1>0, <2>1 DEF Scan
  <2>3. CASE UseGuard
    BY <2>2, <2>3, EngineAssumption
  <2>4. CASE ~UseGuard
    BY <2>1, <2>2, <2>4 DEF Scan
  <2> QED BY <2>3, <2>4
<1>5. CASE \E w \in Workers : Send(w)
  BY <1>0, <1>5 DEF Send, HasRoom
<1>6. CASE Dispatcher \/ CloseResults \/ Collector \/ UNCHANGED vars
  BY <1>6 DEF Dispatcher, Dispatch, isDone, LastFlush, SendJob, HasRoom, EndFlush, AfterFlush,
              CloseResults, WorkersDone, Collector, Collect, Finish, vars, workVars
<1> QED BY <1>1, <1>2, <1>3, <1>4, <1>5, <1>6 DEF Next, Worker, Returned

\* A target the circuit breaker has tripped is never probed again.
THEOREM GuardStops == SafetySpec => []NoProbeAfterTrip
<1>1. Init => TypeInv /\ GuardInv
  BY TypeInit DEF Init, GuardInv, NoProbeAfterTrip
<1>2. TypeInv /\ GuardInv /\ [Next]_vars => (TypeInv /\ GuardInv)'
  BY TypeStep, GuardStep
<1>3. GuardInv => NoProbeAfterTrip
  BY DEF GuardInv
<1> QED BY <1>1, <1>2, <1>3, PTL DEF SafetySpec

-----------------------------------------------------------------------------
(* The progress. *)

\* The results collected whose state is one of vs.
Among(vs) == { j \in Reported : verdict[j] \in vs }

\* What Collect adds to the counts, and that no worker can change the state of
\* a result that has been collected.
ProgressInv ==
  /\ progress.completed = cp.loaded + Cardinality(Reported)
  /\ progress.open = Cardinality(Among({"open"}))
  /\ progress.closed = Cardinality(Among({"closed"}))
  /\ progress.filtered = Cardinality(Among({"filtered", "open|filtered"}))

LEMMA ProgressInit == Init => ProgressInv
<1> SUFFICES ASSUME Init PROVE ProgressInv
  OBVIOUS
<1>1. Reported = {} /\ \A vs : Among(vs) = {}
  BY DEF Init, Reported, Among
<1>2. cp.loaded \in Nat /\ Cardinality({}) = 0
  BY TypeInit, FS_EmptySet DEF TypeInv, TypeOK
<1>3. /\ progress.completed = cp.loaded
      /\ progress.open = 0 /\ progress.closed = 0 /\ progress.filtered = 0
  BY DEF Init
<1>4. /\ Among({"open"}) = {} /\ Among({"closed"}) = {}
      /\ Among({"filtered", "open|filtered"}) = {}
  BY <1>1
<1>5. Cardinality(Reported) = 0
  BY <1>1, <1>2
<1> HIDE DEF Init
<1>6. progress.completed = cp.loaded + Cardinality(Reported)
  BY <1>2, <1>3, <1>5
<1> QED BY <1>2, <1>3, <1>4, <1>6 DEF ProgressInv

\* One more result is collected.
LEMMA AmongGrows ==
  ASSUME NEW S \in SUBSET Jobs, NEW h \in Jobs \ S, NEW T, NEW b \in BOOLEAN,
         T = S \cup (IF b THEN {h} ELSE {})
  PROVE  Cardinality(T) = Cardinality(S) + (IF b THEN 1 ELSE 0)
<1>1. IsFiniteSet(S) /\ Cardinality(S) \in Nat
  BY JobsFinite, FS_Subset, FS_CardinalityType
<1>2. CASE b
  BY <1>1, <1>2, FS_AddElement
<1>3. CASE ~ b
  BY <1>1, <1>3
<1> QED BY <1>2, <1>3

LEMMA ProgressStep ==
  TypeInv /\ NoJobLostOrDuplicated /\ ProgressInv /\ [Next]_vars => ProgressInv'
<1> SUFFICES ASSUME TypeInv, NoJobLostOrDuplicated, ProgressInv, [Next]_vars
             PROVE  ProgressInv'
  OBVIOUS
<1>0. /\ reports \in [Jobs -> Nat] /\ results \in Seq(Jobs)
      /\ verdict \in [Jobs -> Verdicts \cup {"none"}]
      /\ hand \in [Workers -> Jobs \cup {NoJob}]
      /\ progress \in [completed : Nat, open : Nat, closed : Nat, filtered : Nat]
      /\ Reported \subseteq Jobs /\ \A vs : Among(vs) \subseteq Jobs
      /\ cp.loaded \in Nat
  BY DEF TypeInv, TypeOK, Reported, Among
<1>1. CASE Collect
  <2> DEFINE h == Head(results)
  <2>1. results # <<>> /\ h \in Jobs /\ h \in Elems(results)
    BY <1>1, <1>0, TailElems DEF Collect
  <2>2. h \in Jobs \ Reported
    BY <2>1 DEF NoJobLostOrDuplicated, StagesDisjoint
  <2>3. reports' = [reports EXCEPT ![h] = @ + 1] /\ reports[h] = 0
    BY <1>0, <1>1, <2>2 DEF Collect, Reported
  <2>4. Reported' = Reported \cup {h} /\ verdict' = verdict /\ cp' = cp
    <3>1. \A j \in Jobs : reports'[j] = IF j = h THEN 1 ELSE reports[j]
      BY <1>0, <2>1, <2>3
    <3>2. Reported' = Reported \cup {h}
      BY <2>1, <3>1 DEF Reported
    <3> QED BY <3>2, <1>1 DEF Collect, workVars
  <2>5. ASSUME NEW vs
        PROVE  /\ h \notin Among(vs)
               /\ Among(vs)' = Among(vs) \cup (IF verdict[h] \in vs THEN {h} ELSE {})
    BY <2>2, <2>4 DEF Among
  <2>6. progress' = Counted(progress, verdict[h])
    BY <1>1 DEF Collect
  <2> HIDE DEF h
  <2>7. Cardinality(Reported') = Cardinality(Reported) + 1
    BY <2>2, <2>4, <1>0, JobsFinite, FS_Subset, FS_AddElement
  <2>8. ASSUME NEW vs
        PROVE  Cardinality(Among(vs)') =
                 Cardinality(Among(vs)) + (IF verdict[h] \in vs THEN 1 ELSE 0)
    <3>1. h \in Jobs \ Among(vs) /\ Among(vs) \in SUBSET Jobs
          /\ (verdict[h] \in vs) \in BOOLEAN
      BY <2>1, <2>5, <1>0
    <3> QED BY <3>1, <2>5, AmongGrows
  <2>9. /\ progress'.completed = progress.completed + 1
        /\ progress'.open = progress.open + (IF verdict[h] \in {"open"} THEN 1 ELSE 0)
        /\ progress'.closed =
             progress.closed + (IF verdict[h] \in {"closed"} THEN 1 ELSE 0)
        /\ progress'.filtered =
             progress.filtered
               + (IF verdict[h] \in {"filtered", "open|filtered"} THEN 1 ELSE 0)
    BY <2>6 DEF Counted
  <2>10. cp.loaded \in Nat /\ Cardinality(Reported) \in Nat
    BY <1>0, JobsFinite, FS_Subset, FS_CardinalityType
  <2> QED BY <2>4, <2>7, <2>8, <2>9, <2>10 DEF ProgressInv
<1>2. ASSUME UNCHANGED <<cp, reports, progress>>,
             \A j \in Reported : verdict'[j] = verdict[j]
      PROVE  ProgressInv'
  <2>1. Reported' = Reported
    BY <1>2 DEF Reported
  <2>2. \A vs : Among(vs)' = Among(vs)
    BY <1>2, <2>1 DEF Among
  <2> QED BY <1>2, <2>1, <2>2 DEF ProgressInv
<1>3. ASSUME NEW w \in Workers, Check(w) \/ Scan(w) PROVE ProgressInv'
  <2>1. hand[w] \in Held /\ hand[w] \in Jobs
    BY <1>0, <1>3 DEF Check, Scan, TypeInv, HandMatches, Held
  <2>2. \A j \in Jobs : j # hand[w] => verdict'[j] = verdict[j]
    BY <1>0, <1>3, <2>1 DEF Check, Scan
  <2>3. hand[w] \notin Reported
    BY <2>1 DEF NoJobLostOrDuplicated, StagesDisjoint
  <2>4. UNCHANGED <<cp, reports, progress>>
    BY <1>3 DEF Check, Scan, collVars
  <2> QED BY <1>0, <1>2, <2>2, <2>3, <2>4
<1>4. CASE \E w \in Workers : Recv(w) \/ Exit(w) \/ Send(w)
  BY <1>2, <1>4 DEF Recv, Exit, Send, collVars
<1>5. CASE Dispatcher \/ CloseResults \/ Finish \/ UNCHANGED vars
  BY <1>2, <1>5 DEF Dispatcher, Dispatch, LastFlush, SendJob, EndFlush,
    CloseResults, Finish, vars, workVars, collVars
<1> QED BY <1>1, <1>3, <1>4, <1>5 DEF Next, Worker, Collector, Returned

\* What is skipped is not dispatched: the count is over the total by no more
\* than the lines that no skipped job accounts for, and at the end by those.
LEMMA WithinTheScan ==
  ASSUME IInv, ProgressInv
  PROVE  /\ cp.loaded <= Cardinality(Skipped) => progress.completed <= NumJobs
         /\ finished =>
              progress.completed - NumJobs = cp.loaded - Cardinality(Skipped)
<1>1. Skipped \subseteq Jobs /\ Reported \subseteq Jobs \ Skipped
  BY DEF IInv, NoJobLostOrDuplicated, StagesCover, Skipped
<1>2. /\ IsFiniteSet(Skipped) /\ IsFiniteSet(Reported)
      /\ Skipped \cup Reported \subseteq Jobs /\ Skipped \cap Reported = {}
  BY <1>1, JobsFinite, FS_Subset
<1>3. /\ Cardinality(Skipped) \in Nat /\ Cardinality(Reported) \in Nat
      /\ cp.loaded \in Nat /\ NumJobs \in Nat
  BY <1>2, FS_CardinalityType, Constants DEF IInv, TypeInv, TypeOK
<1>4. Cardinality(Skipped \cup Reported) = Cardinality(Skipped) + Cardinality(Reported)
  <2>1. Cardinality(Skipped \cup Reported)
          = Cardinality(Skipped) + Cardinality(Reported)
            - Cardinality(Skipped \cap Reported)
    BY <1>2, FS_Union
  <2>2. Cardinality(Skipped \cap Reported) = 0
    BY <1>2, FS_EmptySet
  <2> QED BY <2>1, <2>2, <1>3
<1>5. Cardinality(Skipped \cup Reported) <= NumJobs
  BY <1>2, JobsFinite, FS_Subset
<1>6. finished => Cardinality(Skipped \cup Reported) = NumJobs
  <2> SUFFICES ASSUME finished PROVE Skipped \cup Reported = Jobs
    BY JobsFinite
  <2>1. Reported = Jobs \ Skipped
    BY AllReported DEF IInv, ShutdownInv, ShutdownOrder
  <2> QED BY <1>1, <2>1
<1>7. progress.completed = cp.loaded + Cardinality(Reported)
  BY DEF ProgressInv
<1> QED BY <1>3, <1>4, <1>5, <1>6, <1>7

\* What onProgress is told are the counts of the results collected so far on
\* top of all lines loaded: never more than there are ports to scan unless the
\* file has lines that no skipped job accounts for, and then by just those.
THEOREM ProgressIsExact == SafetySpec => []ProgressConsistent
<1>1. Init => IInv /\ ProgressInv
  BY InvInductive, ProgressInit
<1>2. IInv /\ ProgressInv /\ [Next]_vars => (IInv /\ ProgressInv)'
  BY InvInductive, ProgressStep DEF IInv
<1>3. IInv /\ ProgressInv => ProgressConsistent
  BY WithinTheScan DEF ProgressInv, ProgressConsistent, Among
<1> QED BY <1>1, <1>2, <1>3, PTL DEF SafetySpec

-----------------------------------------------------------------------------
(* Numbers. *)

\* A set of numbers that is not empty has a least element.
LEMMA LeastNumber ==
  ASSUME NEW S \in SUBSET Nat, S # {}
  PROVE  \E n \in S : \A m \in S : n <= m
<1> DEFINE R == { p \in Nat \X Nat : p[1] < p[2] }
<1>1. IsWellFoundedOn(R, Nat)
  BY NatLessThanWellFounded DEF OpToRel
<1>2. \A m, n \in Nat : m < n => <<m, n>> \in R
  OBVIOUS
<1> HIDE DEF R
<1>3. PICK n \in S : \A m \in S : ~ (<<m, n>> \in R)
  BY <1>1, WFMin
<1>4. \A m \in S : n <= m
  <2> TAKE m \in S
  <2>1. n \in Nat /\ m \in Nat
    OBVIOUS
  <2>2. ~ (m < n)
    BY <1>2, <1>3, <2>1
  <2> QED BY <2>1, <2>2
<1> QED BY <1>4

-----------------------------------------------------------------------------
(* What the breaker makes of a history. *)

Outcomes  == RTTs \cup {Guard!Lost}
Histories == Seq(Outcomes)

LEMMA Settings ==
  /\ UseGuard /\ Outcomes \subseteq Int /\ RisePercent \in Nat
  /\ \A o \in Outcomes : o = Guard!Lost \/ o = 0 \/ o > 0
  /\ Guard!Lost < 0 /\ Guard!Lost \in Int
  /\ RiseStreak \in Nat \ {0} /\ BaselineSamples \in Nat \ {0}
  /\ MaxConsecLoss \in Nat \ {0}
  BY BreakerAssumption DEF Guard!GuardAssumption, Outcomes, Guard!Lost

\* One more outcome.
LEMMA Longer ==
  ASSUME NEW h \in Histories, NEW o \in Outcomes
  PROVE  /\ Append(h, o) \in Histories /\ Len(Append(h, o)) = Len(h) + 1
         /\ Len(h) \in Nat
         /\ \A i \in 1 .. Len(h) : Append(h, o)[i] = h[i] /\ h[i] \in Outcomes
         /\ Append(h, o)[Len(h) + 1] = o
  BY DEF Histories

\* What adds the replies up, as far as the n-th outcome.
Adds(h, f, n) ==
  /\ f[0] = 0
  /\ \A k \in 1 .. n : f[k] = f[k - 1] + (IF h[k] > 0 THEN h[k] ELSE 0)

LEMMA TotalIs ==
  ASSUME NEW h \in Histories
  PROVE  /\ Guard!Total(h) \in [0 .. Len(h) -> Int]
         /\ Adds(h, Guard!Total(h), Len(h))
<1> DEFINE Summed(n) == \E f \in [0 .. n -> Int] : Adds(h, f, n)
           Bad == { n \in 0 .. Len(h) : ~ Summed(n) }
<1>0. Len(h) \in Nat /\ \A i \in 1 .. Len(h) : h[i] \in Int
  <2>1. Len(h) \in Nat /\ \A i \in 1 .. Len(h) : h[i] \in Outcomes
    BY DEF Histories
  <2> QED BY <2>1, Settings
<1>1. Summed(0)
  <2>1. [k \in 0 .. 0 |-> 0] \in [0 .. 0 -> Int]
    OBVIOUS
  <2>2. Adds(h, [k \in 0 .. 0 |-> 0], 0)
    BY DEF Adds
  <2> QED BY <2>1, <2>2
<1>2. ASSUME NEW n \in 0 .. Len(h) - 1, Summed(n) PROVE Summed(n + 1)
  <2>1. PICK f \in [0 .. n -> Int] : Adds(h, f, n)
    BY <1>2
  <2> DEFINE x == f[n] + (IF h[n + 1] > 0 THEN h[n + 1] ELSE 0)
             g == [k \in 0 .. n + 1 |-> IF k = n + 1 THEN x ELSE f[k]]
  <2>2. n \in Nat /\ n + 1 \in 1 .. Len(h) /\ n \in 0 .. n
    BY <1>0
  <2>3. x \in Int
    BY <2>2, <1>0
  <2>4. /\ g \in [0 .. n + 1 -> Int] /\ g[n + 1] = x
        /\ \A k \in 0 .. n : g[k] = f[k]
    <3> HIDE DEF x
    <3> QED BY <2>2, <2>3
  <2> HIDE DEF g
  <2>5. Adds(h, g, n + 1)
    <3>1. g[0] = 0
      BY <2>1, <2>2, <2>4 DEF Adds
    <3>2. ASSUME NEW k \in 1 .. n + 1
          PROVE  g[k] = g[k - 1] + (IF h[k] > 0 THEN h[k] ELSE 0)
      <4>1. CASE k = n + 1
        <5>1. k - 1 = n
          BY <4>1, <2>2
        <5> QED BY <4>1, <5>1, <2>4, <2>2
      <4>2. CASE k # n + 1
        <5>1. k \in 1 .. n /\ k \in 0 .. n /\ k - 1 \in 0 .. n
          BY <4>2, <2>2
        <5> QED BY <5>1, <2>1, <2>4 DEF Adds
      <4> QED BY <4>1, <4>2
    <3> QED BY <3>1, <3>2 DEF Adds
  <2> QED BY <2>4, <2>5
<1>3. Bad = {}
  <2> SUFFICES ASSUME Bad # {} PROVE FALSE
    OBVIOUS
  <2>1. Bad \in SUBSET Nat
    BY <1>0
  <2>2. PICK n \in Bad : \A m \in Bad : n <= m
    BY <2>1, LeastNumber
  <2> HIDE DEF Summed
  <2>3. n \in 0 .. Len(h) /\ ~ Summed(n) /\ n # 0
    BY <1>1
  <2>4. n - 1 \in 0 .. Len(h) - 1 /\ n - 1 \in 0 .. Len(h) /\ (n - 1) + 1 = n
        /\ ~ (n <= n - 1)
    BY <2>3, <1>0
  <2>5. Summed(n - 1)
    BY <2>2, <2>4
  <2>6. Summed((n - 1) + 1)
    BY <1>2, <2>4, <2>5
  <2> QED BY <2>3, <2>4, <2>6
<1>4. PICK f \in [0 .. Len(h) -> Int] : Adds(h, f, Len(h))
  <2> HIDE DEF Summed
  <2>1. Len(h) \in 0 .. Len(h)
    BY <1>0
  <2>2. Summed(Len(h))
    BY <1>3, <2>1
  <2> QED BY <2>2 DEF Summed
<1> DEFINE Eq(f1) == f1 = [n \in 0 .. Len(h) |->
                     IF n = 0 THEN 0 ELSE f1[n - 1] + (IF h[n] > 0 THEN h[n] ELSE 0)]
<1>5. Eq(f)
  <2>1. \A n \in 0 .. Len(h) :
          f[n] = IF n = 0 THEN 0 ELSE f[n - 1] + (IF h[n] > 0 THEN h[n] ELSE 0)
    BY <1>0, <1>4 DEF Adds
  <2> QED BY <2>1
<1> DEFINE T == Guard!Total(h)
<1>6. T = CHOOSE f1 : Eq(f1)
  BY DEF Guard!Total
<1> HIDE DEF T, Eq
<1>7. Eq(T)
  BY <1>5, <1>6
<1>8. T = [n \in 0 .. Len(h) |->
             IF n = 0 THEN 0 ELSE T[n - 1] + (IF h[n] > 0 THEN h[n] ELSE 0)]
  BY <1>7 DEF Eq
<1>9. Adds(h, T, Len(h))
  <2>1. T[0] = 0
    BY <1>8, <1>0
  <2>2. ASSUME NEW k \in 1 .. Len(h)
        PROVE  T[k] = T[k - 1] + (IF h[k] > 0 THEN h[k] ELSE 0)
    <3>1. k \in 0 .. Len(h) /\ k # 0
      BY <1>0
    <3> QED BY <1>8, <3>1
  <2> QED BY <2>1, <2>2 DEF Adds
<1>10. T \in [0 .. Len(h) -> Int]
  <2> DEFINE Odd == { n \in 0 .. Len(h) : T[n] \notin Int }
  <2>1. DOMAIN T = 0 .. Len(h)
    BY <1>8
  <2>2. Odd = {}
    <3> SUFFICES ASSUME Odd # {} PROVE FALSE
      OBVIOUS
    <3>1. Odd \in SUBSET Nat
      BY <1>0
    <3>2. PICK n \in Odd : \A m \in Odd : n <= m
      BY <3>1, LeastNumber
    <3>3. n \in 1 .. Len(h)
      BY <1>0, <1>9 DEF Adds
    <3>4. n - 1 \in 0 .. Len(h) /\ ~ (n <= n - 1)
      BY <1>0, <3>3
    <3>5. T[n - 1] \in Int
      BY <3>2, <3>4
    <3>6. T[n] = T[n - 1] + (IF h[n] > 0 THEN h[n] ELSE 0)
      BY <1>9, <3>3 DEF Adds
    <3> QED BY <1>0, <3>3, <3>5, <3>6
  <2>3. T = [n \in 0 .. Len(h) |-> T[n]]
    BY <1>8
  <2> QED BY <2>2, <2>3
<1> QED BY <1>9, <1>10 DEF T

\* Two that add the same up are equal.
LEMMA TotalGrows ==
  ASSUME NEW h \in Histories, NEW o \in Outcomes
  PROVE  /\ \A n \in 0 .. Len(h) : Guard!Total(Append(h, o))[n] = Guard!Total(h)[n]
         /\ Guard!Total(Append(h, o))[Len(h) + 1]
              = Guard!Total(h)[Len(h)] + (IF o > 0 THEN o ELSE 0)
<1> DEFINE T == Guard!Total(h)
           g == Append(h, o)
           U == Guard!Total(g)
           Odd == { n \in 0 .. Len(h) : U[n] # T[n] }
<1>1. /\ Len(h) \in Nat /\ Len(g) = Len(h) + 1 /\ g \in Histories
      /\ \A i \in 1 .. Len(h) : g[i] = h[i]
      /\ g[Len(h) + 1] = o
  BY Longer
<1>2. Adds(h, T, Len(h)) /\ Adds(g, U, Len(g))
  BY <1>1, TotalIs
<1> HIDE DEF T, U, g
<1>3. Odd = {}
  <2> SUFFICES ASSUME Odd # {} PROVE FALSE
    OBVIOUS
  <2>1. Odd \in SUBSET Nat
    BY <1>1
  <2>2. PICK n \in Odd : \A m \in Odd : n <= m
    BY <2>1, LeastNumber
  <2>3. n \in 1 .. Len(h) /\ n \in 1 .. Len(g)
    BY <1>1, <1>2 DEF Adds
  <2>4. n - 1 \in 0 .. Len(h) /\ ~ (n <= n - 1)
    BY <1>1, <2>3
  <2>5. U[n - 1] = T[n - 1]
    BY <2>2, <2>4
  <2>6. U[n] = U[n - 1] + (IF g[n] > 0 THEN g[n] ELSE 0)
        /\ T[n] = T[n - 1] + (IF h[n] > 0 THEN h[n] ELSE 0)
    BY <1>2, <2>3 DEF Adds
  <2>7. U[n] = T[n]
    BY <1>1, <2>3, <2>5, <2>6
  <2> QED BY <2>7
<1>4. U[Len(h) + 1] = U[Len(h)] + (IF o > 0 THEN o ELSE 0)
  <2>1. Len(h) + 1 \in 1 .. Len(g) /\ (Len(h) + 1) - 1 = Len(h)
    BY <1>1
  <2>2. U[Len(h) + 1] = U[(Len(h) + 1) - 1] + (IF g[Len(h) + 1] > 0 THEN g[Len(h) + 1] ELSE 0)
    BY <1>2, <2>1 DEF Adds
  <2> QED BY <1>1, <2>1, <2>2
<1>5. U[Len(h)] = T[Len(h)]
  BY <1>1, <1>3
<1>6. \A n \in 0 .. Len(h) : U[n] = T[n]
  BY <1>3
<1> QED BY <1>4, <1>5, <1>6 DEF T, U, g

-----------------------------------------------------------------------------
(* Replies, and the reply that completes the baseline. *)

\* The module's Cardinality is the library's.
LEMMA Counting == ASSUME NEW S PROVE Guard!Cardinality(S) = Cardinality(S)
  BY DEF Guard!Cardinality, Cardinality

LEMMA RepliesGrow ==
  ASSUME NEW h \in Histories, NEW o \in Outcomes
  PROVE  /\ Guard!Replies(h) \subseteq 1 .. Len(h) /\ IsFiniteSet(Guard!Replies(h))
         /\ Cardinality(Guard!Replies(h)) \in Nat
         /\ Guard!Replies(Append(h, o)) =
              IF o > 0 THEN Guard!Replies(h) \cup {Len(h) + 1} ELSE Guard!Replies(h)
         /\ o > 0 => Cardinality(Guard!Replies(Append(h, o)))
                       = Cardinality(Guard!Replies(h)) + 1
<1>1. /\ Len(h) \in Nat /\ Len(Append(h, o)) = Len(h) + 1
      /\ \A i \in 1 .. Len(h) : Append(h, o)[i] = h[i]
      /\ Append(h, o)[Len(h) + 1] = o
  BY Longer
<1>2. Guard!Replies(h) \subseteq 1 .. Len(h)
  BY DEF Guard!Replies
<1>3. IsFiniteSet(Guard!Replies(h)) /\ Cardinality(Guard!Replies(h)) \in Nat
  <2>1. IsFiniteSet(1 .. Len(h))
    <3>1. 1 \in Int /\ Len(h) \in Int
      BY <1>1
    <3> QED BY <3>1, FS_Interval
  <2> QED BY <1>2, <2>1, FS_Subset, FS_CardinalityType
<1>4. Guard!Replies(Append(h, o)) =
        IF o > 0 THEN Guard!Replies(h) \cup {Len(h) + 1} ELSE Guard!Replies(h)
  BY <1>1 DEF Guard!Replies
<1>5. Len(h) + 1 \notin Guard!Replies(h)
  BY <1>1, <1>2
<1> QED BY <1>2, <1>3, <1>4, <1>5, FS_AddElement

\* Once complete, a baseline is complete for good; it becomes so with the
\* reply that was missing.
LEMMA CompleteGrows ==
  ASSUME NEW h \in Histories, NEW o \in Outcomes
  PROVE  /\ Guard!Complete(h) \subseteq 1 .. Len(h)
         /\ Guard!Complete(h) # {} => Guard!Complete(Append(h, o)) = Guard!Complete(h)
         /\ Guard!Complete(h) = {} /\ Cardinality(Guard!Replies(h)) < BaselineSamples
              => Guard!Complete(Append(h, o)) =
                   IF o > 0 /\ Cardinality(Guard!Replies(h)) + 1 = BaselineSamples
                     THEN {Len(h) + 1} ELSE {}
<1> DEFINE R == Guard!Replies(h)
           g == Append(h, o)
           R2 == Guard!Replies(g)
           n == Len(h) + 1
<1>1. /\ R \subseteq 1 .. Len(h) /\ IsFiniteSet(R) /\ Cardinality(R) \in Nat
      /\ R2 = IF o > 0 THEN R \cup {n} ELSE R
      /\ o > 0 => Cardinality(R2) = Cardinality(R) + 1
      /\ Len(h) \in Nat
  BY RepliesGrow, Longer
<1>2. \A i \in R : { k \in R2 : k <= i } = { k \in R : k <= i }
  BY <1>1
<1>3. o > 0 => { k \in R2 : k <= n } = R2
  BY <1>1
<1>4. BaselineSamples \in Nat \ {0}
  BY Settings
<1> HIDE DEF R, R2, g, n
<1>5. /\ Guard!Complete(h) =
           { i \in R : Cardinality({ k \in R : k <= i }) = BaselineSamples }
      /\ Guard!Complete(g) =
           { i \in R2 : Cardinality({ k \in R2 : k <= i }) = BaselineSamples }
  BY Counting DEF Guard!Complete, R, R2
<1>6. n \notin R /\ n = Len(h) + 1
  BY <1>1 DEF n
<1>7. Guard!Complete(g) =
        IF o > 0 /\ Cardinality(R) + 1 = BaselineSamples
          THEN Guard!Complete(h) \cup {n} ELSE Guard!Complete(h)
  <2>1. \A i \in R : i \in Guard!Complete(g) <=> i \in Guard!Complete(h)
    BY <1>1, <1>2, <1>5
  <2>2. n \in Guard!Complete(g) <=> o > 0 /\ Cardinality(R) + 1 = BaselineSamples
    BY <1>1, <1>3, <1>5, <1>6
  <2>3. Guard!Complete(g) \subseteq R \cup {n} /\ Guard!Complete(h) \subseteq R
    BY <1>1, <1>5
  <2> QED BY <2>1, <2>2, <2>3, <1>6
<1>8. Guard!Complete(h) # {} => ~ (Cardinality(R) + 1 = BaselineSamples)
  <2> SUFFICES ASSUME NEW i \in Guard!Complete(h)
               PROVE  ~ (Cardinality(R) + 1 = BaselineSamples)
    OBVIOUS
  <2>1. { k \in R : k <= i } \subseteq R
    OBVIOUS
  <2>2. BaselineSamples <= Cardinality(R)
    BY <1>1, <1>5, <2>1, FS_Subset
  <2> QED BY <1>1, <1>4, <2>2
<1>9. Guard!Complete(h) \subseteq 1 .. Len(h)
  BY <1>1, <1>5
<1> QED BY <1>7, <1>8, <1>9 DEF R, g, n

\* Nor does a complete baseline change; completed, it is the mean of its sum.
LEMMA BaselineStays ==
  ASSUME NEW h \in Histories, NEW o \in Outcomes
  PROVE  /\ Guard!Complete(h) # {} => Guard!Baseline(Append(h, o)) = Guard!Baseline(h)
         /\ Guard!Complete(Append(h, o)) = {Len(h) + 1} /\ o > 0
              => Guard!Baseline(Append(h, o))
                   = (Guard!Total(h)[Len(h)] + o) \div BaselineSamples
<1> DEFINE c(a) == CHOOSE n \in Guard!Complete(a) : TRUE
<1>1. ASSUME Guard!Complete(h) # {}
      PROVE  Guard!Baseline(Append(h, o)) = Guard!Baseline(h)
  <2>1. Guard!Complete(Append(h, o)) = Guard!Complete(h)
    BY <1>1, CompleteGrows
  <2>2. c(Append(h, o)) = c(h) /\ c(h) \in Guard!Complete(h)
    BY <1>1, <2>1
  <2>3. c(h) \in 0 .. Len(h)
    <3>1. c(h) \in 1 .. Len(h) /\ Len(h) \in Nat
      BY <2>2, CompleteGrows, Longer
    <3> QED BY <3>1
  <2>4. Guard!Total(Append(h, o))[c(h)] = Guard!Total(h)[c(h)]
    BY <2>3, TotalGrows
  <2> QED BY <2>2, <2>4 DEF Guard!Baseline
<1>2. ASSUME Guard!Complete(Append(h, o)) = {Len(h) + 1}, o > 0
      PROVE  Guard!Baseline(Append(h, o))
               = (Guard!Total(h)[Len(h)] + o) \div BaselineSamples
  <2>1. c(Append(h, o)) = Len(h) + 1
    BY <1>2
  <2>2. Guard!Total(Append(h, o))[Len(h) + 1] = Guard!Total(h)[Len(h)] + o
    BY <1>2, TotalGrows
  <2> QED BY <2>1, <2>2 DEF Guard!Baseline
<1> QED BY <1>1, <1>2

\* The outcomes that follow the baseline.
LEMMA AfterGrows ==
  ASSUME NEW h \in Histories, NEW o \in Outcomes
  PROVE  /\ Guard!After(h) \subseteq 1 .. Len(h)
         /\ Guard!Complete(h) # {}
              => Guard!After(Append(h, o)) = Guard!After(h) \cup {Len(h) + 1}
         /\ Guard!Complete(h) = {} => Guard!After(h) = {}
         /\ Guard!Complete(Append(h, o)) = {Len(h) + 1} => Guard!After(Append(h, o)) = {}
         /\ \A i \in Guard!After(h), k \in 1 .. Len(h) : i <= k => k \in Guard!After(h)
<1>1. Len(h) \in Nat /\ Len(Append(h, o)) = Len(h) + 1
  BY Longer
<1>2. Guard!Complete(h) \subseteq 1 .. Len(h)
  BY CompleteGrows
<1>3. ASSUME Guard!Complete(h) # {}
      PROVE  Guard!After(Append(h, o)) = Guard!After(h) \cup {Len(h) + 1}
  <2>1. Guard!Complete(Append(h, o)) = Guard!Complete(h)
    BY <1>3, CompleteGrows
  <2>2. \E k \in Guard!Complete(h) : Len(h) + 1 > k
    BY <1>1, <1>2, <1>3
  <2> QED BY <1>1, <2>1, <2>2 DEF Guard!After
<1>4. Guard!Complete(h) = {} => Guard!After(h) = {}
  BY DEF Guard!After
<1>5. Guard!Complete(Append(h, o)) = {Len(h) + 1} => Guard!After(Append(h, o)) = {}
  BY <1>1 DEF Guard!After
<1>6. \A i \in Guard!After(h), k \in 1 .. Len(h) : i <= k => k \in Guard!After(h)
  BY <1>1, <1>2 DEF Guard!After
<1> QED BY <1>3, <1>4, <1>5, <1>6 DEF Guard!After

-----------------------------------------------------------------------------
(* The runs at the end of a history that the breaker's counters are about. *)

\* The losses since the last reply, and the replies, high ones, since the last
\* that was not; all of them after the baseline.
LossRun(h) ==
  { k \in Guard!After(h) : h[k] = Guard!Lost /\ \A m \in k .. Len(h) : h[m] <= 0 }
High(h, k) == 100 * h[k] > RisePercent * Guard!Baseline(h)
HighRun(h) ==
  { k \in Guard!After(h) \cap Guard!Replies(h) :
      \A m \in Guard!Replies(h) \cap (k .. Len(h)) : High(h, m) }

LEMMA RunsFinite ==
  ASSUME NEW h \in Histories
  PROVE  /\ IsFiniteSet(LossRun(h)) /\ Cardinality(LossRun(h)) \in Nat
         /\ IsFiniteSet(HighRun(h)) /\ Cardinality(HighRun(h)) \in Nat
         /\ LossRun(h) \subseteq 1 .. Len(h) /\ HighRun(h) \subseteq 1 .. Len(h)
<1>1. LossRun(h) \subseteq 1 .. Len(h) /\ HighRun(h) \subseteq 1 .. Len(h)
  BY DEF LossRun, HighRun, Guard!After
<1>2. 1 \in Int /\ Len(h) \in Int
  BY DEF Histories
<1>3. IsFiniteSet(1 .. Len(h))
  BY <1>2, FS_Interval
<1> QED BY <1>1, <1>3, FS_Subset, FS_CardinalityType

\* A target stops responding with the loss that makes the run long enough.
LEMMA LossStep ==
  ASSUME NEW h \in Histories, NEW o \in Outcomes, Guard!Complete(h) # {}
  PROVE  /\ LossRun(Append(h, o)) =
              IF o > 0 THEN {}
              ELSE IF o = Guard!Lost THEN LossRun(h) \cup {Len(h) + 1} ELSE LossRun(h)
         /\ Guard!StopsResponding(h) => Guard!StopsResponding(Append(h, o))
         /\ Guard!StopsResponding(Append(h, o))
              <=> Guard!StopsResponding(h)
                    \/ Cardinality(LossRun(Append(h, o))) >= MaxConsecLoss
<1> DEFINE n == Len(h) + 1
           g == Append(h, o)
           A == Guard!After(h)
           B == Guard!After(g)
           lost(s, i, j) == { k \in i .. j : s[k] = Guard!Lost }
<1>1. /\ Len(h) \in Nat /\ Len(g) = n /\ n = Len(h) + 1 /\ g \in Histories
      /\ \A i \in 1 .. Len(h) : g[i] = h[i] /\ h[i] \in Int
      /\ g[n] = o /\ o \in Int
  <2>1. \A i \in 1 .. Len(h) : h[i] \in Outcomes
    BY DEF Histories
  <2> QED BY <2>1, Longer, Settings
<1>2. /\ A \subseteq 1 .. Len(h) /\ B = A \cup {n}
      /\ \A i \in B, k \in 1 .. Len(g) : i <= k => k \in B
  <2>1. Guard!After(g) \subseteq 1 .. Len(g)
    BY <1>1, AfterGrows
  <2>2. \A i \in Guard!After(g), k \in 1 .. Len(g) : i <= k => k \in Guard!After(g)
    BY <1>1, AfterGrows
  <2> QED BY <2>2, AfterGrows
<1>3. Guard!Lost \in Int /\ Guard!Lost < 0 /\ MaxConsecLoss \in Nat \ {0}
  BY Settings
<1>4. /\ LossRun(h) = { k \in A : h[k] = Guard!Lost /\ \A m \in k .. Len(h) : h[m] <= 0 }
      /\ LossRun(g) = { k \in B : g[k] = Guard!Lost /\ \A m \in k .. Len(g) : g[m] <= 0 }
  BY DEF LossRun
<1>5. /\ Guard!StopsResponding(h) <=>
           \E i, j \in A : /\ i <= j /\ \A k \in i .. j : h[k] <= 0
                           /\ Cardinality(lost(h, i, j)) >= MaxConsecLoss
      /\ Guard!StopsResponding(g) <=>
           \E i, j \in B : /\ i <= j /\ \A k \in i .. j : g[k] <= 0
                           /\ Cardinality(lost(g, i, j)) >= MaxConsecLoss
  BY Counting DEF Guard!StopsResponding
<1>6. IsFiniteSet(LossRun(g)) /\ Cardinality(LossRun(g)) \in Nat
  BY <1>1, RunsFinite
<1> HIDE DEF n, g, A, B
<1>7. LossRun(g) = IF o > 0 THEN {}
                   ELSE IF o = Guard!Lost THEN LossRun(h) \cup {n} ELSE LossRun(h)
  <2>1. ASSUME o > 0 PROVE LossRun(g) = {}
    <3>1. \A k \in B : n \in k .. Len(g)
      BY <1>1, <1>2
    <3> QED BY <1>1, <1>4, <2>1, <3>1
  <2>2. ASSUME ~ (o > 0)
        PROVE  \A k \in A : k \in LossRun(g) <=> k \in LossRun(h)
    <3> TAKE k \in A
    <3>1. k \in B /\ k \in 1 .. Len(h) /\ g[k] = h[k]
      BY <1>1, <1>2
    <3>2. (\A m \in k .. Len(g) : g[m] <= 0) <=> (\A m \in k .. Len(h) : h[m] <= 0)
      <4>1. \A m \in k .. Len(h) : g[m] = h[m] /\ m \in k .. Len(g)
        BY <1>1, <3>1
      <4>2. \A m \in k .. Len(g) : m = n \/ m \in k .. Len(h)
        BY <1>1, <3>1
      <4>3. g[n] <= 0
        BY <1>1, <2>2
      <4> QED BY <4>1, <4>2, <4>3
    <3> QED BY <1>4, <3>1, <3>2
  <2>3. ASSUME ~ (o > 0) PROVE n \in LossRun(g) <=> o = Guard!Lost
    <3>1. \A m \in n .. Len(g) : m = n
      BY <1>1
    <3>2. g[n] <= 0
      BY <1>1, <2>3
    <3> QED BY <1>1, <1>2, <1>4, <3>1, <3>2
  <2>4. LossRun(g) \subseteq A \cup {n} /\ LossRun(h) \subseteq A /\ n \notin A
    BY <1>1, <1>2, <1>4
  <2>5. CASE o > 0
    BY <2>1, <2>5
  <2>6. CASE ~ (o > 0) /\ o = Guard!Lost
    BY <2>2, <2>3, <2>4, <2>6
  <2>7. CASE ~ (o > 0) /\ o # Guard!Lost
    BY <2>2, <2>3, <2>4, <2>7
  <2> QED BY <2>5, <2>6, <2>7
<1>8. ASSUME Guard!StopsResponding(h) PROVE Guard!StopsResponding(g)
  <2>1. PICK i \in A, j \in A : /\ i <= j /\ \A k \in i .. j : h[k] <= 0
                                /\ Cardinality(lost(h, i, j)) >= MaxConsecLoss
    BY <1>5, <1>8
  <2>2. \A k \in i .. j : g[k] = h[k]
    BY <1>1, <1>2
  <2>3. lost(g, i, j) = lost(h, i, j)
    BY <2>2
  <2> QED BY <1>2, <1>5, <2>1, <2>2, <2>3
<1>9. ASSUME Guard!StopsResponding(g)
      PROVE  Guard!StopsResponding(h) \/ Cardinality(LossRun(g)) >= MaxConsecLoss
  <2>1. PICK i \in B, j \in B : /\ i <= j /\ \A k \in i .. j : g[k] <= 0
                                /\ Cardinality(lost(g, i, j)) >= MaxConsecLoss
    BY <1>5, <1>9
  <2>2. CASE j = n
    <3>1. lost(g, i, j) \subseteq LossRun(g)
      <4> SUFFICES ASSUME NEW k \in i .. j, g[k] = Guard!Lost PROVE k \in LossRun(g)
        OBVIOUS
      <4>1. i \in 1 .. n /\ k \in 1 .. Len(g) /\ i <= k /\ k \in Int
        BY <1>1, <1>2, <2>2
      <4>2. k \in B
        BY <1>2, <4>1
      <4>3. \A m \in k .. Len(g) : m \in i .. j
        BY <1>1, <2>2, <4>1
      <4> QED BY <1>4, <2>1, <4>2, <4>3
    <3>2. Cardinality(lost(g, i, j)) <= Cardinality(LossRun(g))
          /\ Cardinality(lost(g, i, j)) \in Nat
      <4> HIDE DEF lost
      <4> QED BY <1>6, <3>1, FS_Subset, FS_CardinalityType
    <3> HIDE DEF lost
    <3> QED BY <1>3, <1>6, <2>1, <3>2
  <2>3. CASE j # n
    <3>1. i \in A /\ j \in A /\ i \in 1 .. Len(h) /\ j \in 1 .. Len(h)
      BY <1>1, <1>2, <2>1, <2>3
    <3>2. \A k \in i .. j : g[k] = h[k]
      BY <1>1, <3>1
    <3>3. lost(g, i, j) = lost(h, i, j)
      BY <3>2
    <3> QED BY <1>5, <2>1, <3>1, <3>2, <3>3
  <2> QED BY <2>2, <2>3
<1>10. ASSUME Cardinality(LossRun(g)) >= MaxConsecLoss
       PROVE  Guard!StopsResponding(g)
  <2>1. LossRun(g) \subseteq B /\ B \subseteq 1 .. n /\ n \in Nat
    <3>1. LossRun(g) \subseteq B
      BY <1>4
    <3>2. A \subseteq 1 .. n /\ n \in 1 .. n /\ n \in Nat
      BY <1>1, <1>2
    <3> QED BY <1>2, <3>1, <3>2
  <2>2. PICK i \in LossRun(g) : \A m \in LossRun(g) : i <= m
    <3>1. LossRun(g) # {}
      BY <1>3, <1>10, FS_EmptySet
    <3>2. LossRun(g) \in SUBSET Nat
      <4>1. \A k \in 1 .. n : k \in Nat
        BY <2>1
      <4> QED BY <2>1, <4>1
    <3> QED BY <3>1, <3>2, LeastNumber
  <2>3. i \in B /\ n \in B /\ i <= n /\ \A k \in i .. n : g[k] <= 0
    <3>1. i \in B /\ n \in B
      BY <1>2, <2>1
    <3>2. \A k \in i .. Len(g) : g[k] <= 0
      BY <1>4
    <3> QED BY <1>1, <2>1, <3>1, <3>2
  <2>4. LossRun(g) \subseteq lost(g, i, n)
    <3> SUFFICES ASSUME NEW k \in LossRun(g) PROVE k \in i .. n /\ g[k] = Guard!Lost
      OBVIOUS
    <3>1. g[k] = Guard!Lost /\ k \in 1 .. n /\ i \in 1 .. n /\ i <= k
      BY <1>4, <2>1, <2>2
    <3> QED BY <2>1, <3>1
  <2>5. lost(g, i, n) \subseteq LossRun(g)
    <3> SUFFICES ASSUME NEW k \in i .. n, g[k] = Guard!Lost PROVE k \in LossRun(g)
      OBVIOUS
    <3>1. i \in 1 .. n
      BY <1>1, <1>2, <2>3
    <3>2. k \in 1 .. Len(g) /\ i <= k /\ \A m \in k .. Len(g) : m \in i .. n
      BY <1>1, <3>1
    <3> QED BY <1>2, <1>4, <2>3, <3>2
  <2>6. lost(g, i, n) = LossRun(g)
    BY <2>4, <2>5
  <2> QED BY <1>5, <1>10, <2>3, <2>6
<1> QED BY <1>7, <1>8, <1>9, <1>10 DEF n, g

\* And its replies rise and stay high with the one that makes that run long
\* enough; an outcome that is no reply leaves it as it was.
LEMMA HighStep ==
  ASSUME NEW h \in Histories, NEW o \in Outcomes, Guard!Complete(h) # {}
  PROVE  /\ HighRun(Append(h, o)) =
              IF ~ (o > 0) THEN HighRun(h)
              ELSE IF 100 * o > RisePercent * Guard!Baseline(h)
                     THEN HighRun(h) \cup {Len(h) + 1} ELSE {}
         /\ Guard!RisesAndStays(h) => Guard!RisesAndStays(Append(h, o))
         /\ Guard!RisesAndStays(Append(h, o))
              <=> Guard!RisesAndStays(h)
                    \/ Cardinality(HighRun(Append(h, o))) >= RiseStreak
<1> DEFINE n == Len(h) + 1
           g == Append(h, o)
           A == Guard!After(h) \cap Guard!Replies(h)
           B == Guard!After(g) \cap Guard!Replies(g)
           replies(s, i, j) == Guard!Replies(s) \cap (i .. j)
<1>1. /\ Len(h) \in Nat /\ Len(g) = n /\ n = Len(h) + 1 /\ g \in Histories
      /\ \A i \in 1 .. Len(h) : g[i] = h[i]
      /\ g[n] = o
  BY Longer
<1>2. /\ Guard!Replies(g) = IF o > 0 THEN Guard!Replies(h) \cup {n} ELSE Guard!Replies(h)
      /\ Guard!Replies(h) \subseteq 1 .. Len(h)
  BY RepliesGrow
<1>3. /\ B = IF o > 0 THEN A \cup {n} ELSE A
      /\ A \subseteq 1 .. Len(h)
      /\ A \subseteq Guard!Replies(h) /\ B \subseteq Guard!Replies(g)
  BY <1>1, <1>2, AfterGrows
<1>4. /\ \A k \in 1 .. Len(h) : High(g, k) <=> High(h, k)
      /\ High(g, n) <=> 100 * o > RisePercent * Guard!Baseline(h)
  BY <1>1, BaselineStays DEF High
<1>5. /\ HighRun(h) = { k \in A : \A m \in replies(h, k, Len(h)) : High(h, m) }
      /\ HighRun(g) = { k \in B : \A m \in replies(g, k, Len(g)) : High(g, m) }
  BY DEF HighRun
<1>6. /\ Guard!RisesAndStays(h) <=>
           \E i, j \in A : /\ Cardinality(replies(h, i, j)) >= RiseStreak
                           /\ \A k \in replies(h, i, j) : High(h, k)
      /\ Guard!RisesAndStays(g) <=>
           \E i, j \in B : /\ Cardinality(replies(g, i, j)) >= RiseStreak
                           /\ \A k \in replies(g, i, j) : High(g, k)
  BY Counting DEF Guard!RisesAndStays, High
<1>7. IsFiniteSet(HighRun(g)) /\ Cardinality(HighRun(g)) \in Nat
      /\ RiseStreak \in Nat \ {0}
  BY <1>1, RunsFinite, Settings
<1>8. \A i \in B : \A k \in replies(g, i, Len(g)) : k \in B
  <2> TAKE i \in B
  <2> TAKE k \in replies(g, i, Len(g))
  <2>1. Guard!Replies(g) \subseteq 1 .. Len(g)
    BY <1>1, RepliesGrow
  <2>2. k \in 1 .. Len(g) /\ i \in 1 .. Len(g) /\ k \in i .. Len(g)
    BY <1>3, <2>1
  <2>3. i <= k
    BY <1>1, <2>2
  <2> QED BY <1>1, <2>2, <2>3, AfterGrows
<1>9. \A i \in 1 .. Len(h), j \in 1 .. Len(h) : replies(g, i, j) = replies(h, i, j)
  BY <1>1, <1>2
<1>10. \A i \in 1 .. Len(h) :
         replies(g, i, Len(g)) =
           IF o > 0 THEN replies(h, i, Len(h)) \cup {n} ELSE replies(h, i, Len(h))
  BY <1>1, <1>2
<1>11. \A i, j, m : m \in replies(h, i, j) => m \in 1 .. Len(h)
  BY <1>2
<1>12. n \notin 1 .. Len(h) /\ B \subseteq 1 .. n /\ n \in Nat /\ n \in 1 .. n
  BY <1>1, <1>3
<1>13. o > 0 => replies(g, n, Len(g)) = {n}
  BY <1>1, <1>2
<1> HIDE DEF n, g, A, B, replies
<1>14. HighRun(g) = IF ~ (o > 0) THEN HighRun(h)
                    ELSE IF 100 * o > RisePercent * Guard!Baseline(h)
                           THEN HighRun(h) \cup {n} ELSE {}
  <2>1. \A k \in A : (\A m \in replies(h, k, Len(h)) : High(g, m))
                       <=> (\A m \in replies(h, k, Len(h)) : High(h, m))
    BY <1>4, <1>11
  <2>2. HighRun(g) \subseteq B /\ HighRun(h) \subseteq A
    BY <1>5
  <2>3. CASE ~ (o > 0)
    <3>1. \A k \in A : replies(g, k, Len(g)) = replies(h, k, Len(h))
      BY <1>3, <1>10, <2>3
    <3>2. B = A
      BY <1>3, <2>3
    <3> QED BY <1>5, <2>1, <2>3, <3>1, <3>2
  <2>4. CASE o > 0
    <3>1. /\ B = A \cup {n}
          /\ \A k \in A : replies(g, k, Len(g)) = replies(h, k, Len(h)) \cup {n}
      BY <1>3, <1>10, <2>4
    <3>2. \A k \in A : k \in HighRun(g) <=> k \in HighRun(h) /\ High(g, n)
      BY <1>5, <2>1, <3>1
    <3>3. n \in HighRun(g) <=> High(g, n)
      BY <1>5, <1>13, <2>4, <3>1
    <3>4. CASE High(g, n)
      BY <1>4, <2>2, <2>4, <3>1, <3>2, <3>3, <3>4
    <3>5. CASE ~ High(g, n)
      BY <1>4, <2>2, <2>4, <3>1, <3>2, <3>3, <3>5
    <3> QED BY <3>4, <3>5
  <2> QED BY <2>3, <2>4
<1>15. ASSUME Guard!RisesAndStays(h) PROVE Guard!RisesAndStays(g)
  <2>1. PICK i \in A, j \in A : /\ Cardinality(replies(h, i, j)) >= RiseStreak
                                /\ \A k \in replies(h, i, j) : High(h, k)
    BY <1>6, <1>15
  <2>2. i \in B /\ j \in B /\ i \in 1 .. Len(h) /\ j \in 1 .. Len(h)
    BY <1>3
  <2>3. replies(g, i, j) = replies(h, i, j)
    BY <1>9, <2>2
  <2>4. \A k \in replies(g, i, j) : High(g, k)
    BY <1>4, <1>11, <2>1, <2>3
  <2> QED BY <1>6, <2>1, <2>2, <2>3, <2>4
<1>16. ASSUME Guard!RisesAndStays(g)
       PROVE  Guard!RisesAndStays(h) \/ Cardinality(HighRun(g)) >= RiseStreak
  <2>1. PICK i \in B, j \in B : /\ Cardinality(replies(g, i, j)) >= RiseStreak
                                /\ \A k \in replies(g, i, j) : High(g, k)
    BY <1>6, <1>16
  <2>2. CASE j = n
    <3>1. j = Len(g)
      BY <1>1, <2>2
    <3>2. replies(g, i, j) \subseteq HighRun(g)
      <4> SUFFICES ASSUME NEW k \in replies(g, i, j) PROVE k \in HighRun(g)
        OBVIOUS
      <4>1. k \in B
        BY <1>8, <3>1
      <4>2. replies(g, k, Len(g)) \subseteq replies(g, i, j)
        <5>1. i \in 1 .. n /\ k \in i .. n
          BY <1>12, <2>2 DEF replies
        <5>2. \A m \in k .. n : m \in i .. n
          BY <5>1, <1>12
        <5> QED BY <1>1, <2>2, <5>2 DEF replies
      <4> QED BY <1>5, <2>1, <4>1, <4>2
    <3>3. Cardinality(replies(g, i, j)) <= Cardinality(HighRun(g))
          /\ Cardinality(replies(g, i, j)) \in Nat
      BY <1>7, <3>2, FS_Subset, FS_CardinalityType
    <3> QED BY <1>7, <2>1, <3>3
  <2>3. CASE j # n
    <3>1. j \in A /\ j \in 1 .. Len(h)
      BY <1>3, <2>3
    <3>2. CASE i = n
      <4>1. replies(g, i, j) = {}
        BY <1>1, <3>1, <3>2 DEF replies
      <4> QED BY <1>7, <2>1, <4>1, FS_EmptySet
    <3>3. CASE i # n
      <4>1. i \in A /\ i \in 1 .. Len(h)
        BY <1>3, <3>3
      <4>2. replies(g, i, j) = replies(h, i, j)
        BY <1>9, <3>1, <4>1
      <4>3. \A k \in replies(h, i, j) : High(h, k)
        BY <1>4, <1>11, <2>1, <4>2
      <4> QED BY <1>6, <2>1, <3>1, <4>1, <4>2, <4>3
    <3> QED BY <3>2, <3>3
  <2> QED BY <2>2, <2>3
<1>17. ASSUME Cardinality(HighRun(g)) >= RiseStreak
       PROVE  Guard!RisesAndStays(g)
  <2>1. HighRun(g) \subseteq B
    BY <1>5
  <2>2. PICK i \in HighRun(g) : \A m \in HighRun(g) : i <= m
    <3>1. HighRun(g) # {}
      BY <1>7, <1>17, FS_EmptySet
    <3>2. \A k \in 1 .. n : k \in Nat
      BY <1>12
    <3>3. HighRun(g) \in SUBSET Nat
      BY <1>12, <2>1, <3>2
    <3> QED BY <3>1, <3>3, LeastNumber
  <2> DEFINE R == replies(g, i, Len(g))
  <2>3. i \in B /\ \A k \in R : High(g, k) /\ k \in B
    BY <1>5, <1>8, <2>1
  <2>4. HighRun(g) \subseteq R
    <3> SUFFICES ASSUME NEW k \in HighRun(g) PROVE k \in R
      OBVIOUS
    <3>1. k \in Guard!Replies(g) /\ k \in 1 .. n /\ i \in 1 .. n /\ i <= k
      BY <1>3, <1>12, <2>1, <2>2
    <3>2. k \in i .. n
      BY <1>12, <3>1
    <3> QED BY <1>1, <3>1, <3>2 DEF replies
  <2>5. R \subseteq HighRun(g)
    <3> SUFFICES ASSUME NEW k \in R PROVE k \in HighRun(g)
      OBVIOUS
    <3>1. i \in 1 .. n /\ k \in i .. n
      BY <1>1, <1>12, <2>3 DEF replies
    <3>2. \A m \in k .. n : m \in i .. n
      BY <3>1, <1>12
    <3>3. replies(g, k, Len(g)) \subseteq R
      BY <1>1, <3>2 DEF replies
    <3> QED BY <1>5, <2>3, <3>3
  <2>6. R = HighRun(g)
    BY <2>4, <2>5
  <2> HIDE DEF R
  <2>7. PICK j \in B : R = replies(g, i, j)
    <3>1. CASE o > 0
      <4>1. n \in B /\ n = Len(g)
        BY <1>1, <1>3, <3>1
      <4> QED BY <4>1 DEF R
    <3>2. CASE ~ (o > 0)
      <4> DEFINE Upper == { n - k : k \in R }
      <4>1. R \subseteq B /\ i \in R
        BY <2>1, <2>2, <2>6
      <4>2. Upper \in SUBSET Nat /\ Upper # {}
        <5>1. \A k \in 1 .. n : n - k \in Nat
          BY <1>12
        <5>2. \A k \in R : n - k \in Nat
          BY <1>12, <4>1, <5>1
        <5> QED BY <4>1, <5>2
      <4>3. PICK u \in Upper : \A v \in Upper : u <= v
        BY <4>2, LeastNumber
      <4>4. PICK j \in R : u = n - j
        OBVIOUS
      <4>5. \A k \in R : n - j <= n - k
        BY <4>3, <4>4
      <4>6. \A k \in R : k <= j /\ k \in 1 .. n /\ j \in 1 .. n
        BY <1>12, <4>1, <4>5
      <4>7. R \subseteq replies(g, i, j)
        BY <1>1, <1>12, <4>6 DEF R, replies
      <4>8. replies(g, i, j) \subseteq R
        <5>1. j \in 1 .. n /\ i \in 1 .. n
          BY <1>12, <2>3, <4>6
        <5>2. \A m \in i .. j : m \in i .. n
          BY <5>1, <1>12
        <5> QED BY <1>1, <5>2 DEF R, replies
      <4> QED BY <4>1, <4>7, <4>8
    <3> QED BY <3>1, <3>2
  <2> QED BY <1>6, <1>17, <2>3, <2>6, <2>7
<1> QED BY <1>14, <1>15, <1>16, <1>17 DEF n, g

Records ==
  [samples : Nat, sum : Nat, baseline : Nat, consecHigh : Nat, consecLoss : Nat,
   tripped : BOOLEAN]

\* The state s of a target is what the history h of its outcomes comes to.
Measures(s, h) ==
  /\ s.samples = Cardinality(Guard!Replies(h)) /\ s.samples < BaselineSamples
  /\ s.sum = Guard!Total(h)[Len(h)] /\ s.sum >= s.samples
  /\ s.baseline = 0 /\ s.consecHigh = 0 /\ s.consecLoss = 0 /\ ~ s.tripped
Watches(s, h) ==
  /\ s.samples = BaselineSamples
  /\ s.baseline = Guard!Baseline(h) /\ s.baseline > 0
  /\ ~ s.tripped => /\ s.consecLoss = Cardinality(LossRun(h))
                    /\ s.consecHigh = Cardinality(HighRun(h))
                    /\ s.consecLoss < MaxConsecLoss /\ s.consecHigh < RiseStreak
Tracks(s, h) ==
  /\ h \in Histories /\ s \in Records
  /\ Guard!Complete(h) = {} => Measures(s, h)
  /\ Guard!Complete(h) # {} => Watches(s, h)
  /\ s.tripped <=> Guard!StopsResponding(h) \/ Guard!RisesAndStays(h)

LEMMA FreshTracks == Tracks(Guard!NewState, <<>>)
<1> DEFINE h == <<>>
<1>1. h \in Histories /\ Len(h) = 0
  BY DEF Histories
<1>2. Guard!Replies(h) = {} /\ Guard!Complete(h) = {} /\ Guard!After(h) = {}
  BY <1>1 DEF Guard!Replies, Guard!Complete, Guard!After
<1>3. ~ Guard!StopsResponding(h) /\ ~ Guard!RisesAndStays(h)
  BY <1>2 DEF Guard!StopsResponding, Guard!RisesAndStays
<1>4. Guard!Total(h)[Len(h)] = 0
  BY <1>1, TotalIs DEF Adds
<1>5. Cardinality(Guard!Replies(h)) = 0
  BY <1>2, FS_EmptySet
<1> HIDE DEF h
<1>6. Guard!NewState \in Records /\ ~ Guard!NewState.tripped
  BY DEF Guard!NewState, Records
<1>7. Measures(Guard!NewState, h)
  BY <1>4, <1>5, Settings DEF Measures, Guard!NewState
<1> QED BY <1>1, <1>2, <1>3, <1>6, <1>7 DEF Tracks, h

\* The mean of samples that are all positive is positive.
LEMMA MeanPositive ==
  ASSUME NEW a \in Nat, NEW b \in Nat \ {0}, a >= b
  PROVE  a \div b \in Nat /\ a \div b > 0
<1> DEFINE q == a \div b
<1>1. q \in Nat /\ a < b * (q + 1)
  OBVIOUS
<1>2. q # 0
  <2> HIDE DEF q
  <2> SUFFICES ASSUME q = 0 PROVE FALSE
    OBVIOUS
  <2>1. b * (q + 1) = b
    OBVIOUS
  <2> QED BY <1>1, <2>1
<1> QED BY <1>1, <1>2

LEMMA ObserveTracks ==
  ASSUME NEW s, NEW h, Tracks(s, h), NEW o \in Outcomes
  PROVE  Tracks(Guard!AfterObserve(s, o), Append(h, o))
<1> DEFINE g == Append(h, o)
           r == Guard!AfterObserve(s, o)
<1> SUFFICES Tracks(r, g)
  OBVIOUS
<1>1. h \in Histories /\ s \in Records /\ g \in Histories /\ Len(h) \in Nat
  BY Longer DEF Tracks
<1>2. /\ s.samples \in Nat /\ s.sum \in Nat /\ s.baseline \in Nat /\ s.consecHigh \in Nat
      /\ s.consecLoss \in Nat /\ s.tripped \in BOOLEAN
      /\ o \in Int /\ Guard!Lost < 0 /\ Guard!Lost \in Int
      /\ o = Guard!Lost \/ o = 0 \/ o > 0
      /\ BaselineSamples \in Nat \ {0} /\ RiseStreak \in Nat \ {0}
      /\ MaxConsecLoss \in Nat \ {0}
  BY <1>1, Settings DEF Records
<1>3. CASE Guard!Complete(h) = {}
  <2>1. Measures(s, h)
    BY <1>3 DEF Tracks
  <2>2. s.samples = Cardinality(Guard!Replies(h)) /\ s.samples < BaselineSamples
        /\ s.sum = Guard!Total(h)[Len(h)] /\ s.sum >= s.samples
        /\ s.baseline = 0 /\ s.consecHigh = 0 /\ s.consecLoss = 0 /\ ~ s.tripped
    BY <2>1 DEF Measures
  <2>3. CASE ~ (o > 0)
    <3>1. r = s
      BY <1>2, <2>2, <2>3 DEF Guard!AfterObserve, Guard!AfterLoss
    <3>2. Guard!Complete(g) = {} /\ Guard!Replies(g) = Guard!Replies(h)
      BY <1>1, <1>3, <2>2, <2>3, CompleteGrows, RepliesGrow
    <3>3. Guard!Total(g)[Len(g)] = Guard!Total(h)[Len(h)]
      <4>1. Guard!Total(h)[Len(h)] + 0 = Guard!Total(h)[Len(h)]
        BY <1>2, <2>2
      <4> QED BY <1>1, <2>3, <4>1, TotalGrows, Longer
    <3>4. Measures(r, g)
      BY <2>2, <3>1, <3>2, <3>3 DEF Measures
    <3>5. Guard!After(g) = {}
      BY <1>1, <3>2, AfterGrows
    <3>6. ~ Guard!StopsResponding(g) /\ ~ Guard!RisesAndStays(g)
      BY <3>5 DEF Guard!StopsResponding, Guard!RisesAndStays
    <3> QED BY <1>1, <2>2, <3>1, <3>2, <3>4, <3>6 DEF Tracks
  <2>4. CASE o > 0
    <3>1. r = [s EXCEPT !.consecLoss = 0, !.sum = @ + o, !.samples = @ + 1,
                        !.baseline = IF s.samples + 1 = BaselineSamples
                                       THEN (s.sum + o) \div BaselineSamples ELSE @]
      BY <1>2, <2>2, <2>4 DEF Guard!AfterObserve, Guard!AfterSample
    <3>2. /\ r.samples = s.samples + 1 /\ r.sum = s.sum + o /\ r.consecLoss = 0
          /\ r.consecHigh = 0 /\ r.tripped = FALSE
          /\ r.baseline = IF s.samples + 1 = BaselineSamples
                            THEN (s.sum + o) \div BaselineSamples ELSE 0
      BY <1>1, <2>2, <3>1 DEF Records
    <3>3. /\ Cardinality(Guard!Replies(g)) = s.samples + 1
          /\ Guard!Total(g)[Len(g)] = s.sum + o
          /\ s.sum + o \in Nat /\ s.sum + o >= s.samples + 1
      <4>1. Cardinality(Guard!Replies(g)) = s.samples + 1
        BY <1>1, <2>2, <2>4, RepliesGrow
      <4>2. Guard!Total(g)[Len(g)] = s.sum + o
        BY <1>1, <2>2, <2>4, TotalGrows, Longer
      <4> QED BY <1>2, <2>2, <2>4, <4>1, <4>2
    <3>4. (s.sum + o) \div BaselineSamples \in Nat
      <4>1. s.sum + o \in Nat
        BY <3>3
      <4> QED BY <1>2, <4>1
    <3>5. r \in Records
      <4> HIDE DEF r
      <4>1. s.samples + 1 \in Nat
        BY <1>2
      <4> QED BY <1>1, <3>1, <3>3, <3>4, <4>1 DEF Records
    <3>6. CASE s.samples + 1 = BaselineSamples
      <4>1. Guard!Complete(g) = {Len(h) + 1}
        BY <1>1, <1>3, <2>2, <2>4, <3>6, CompleteGrows
      <4>2. Guard!Baseline(g) = (s.sum + o) \div BaselineSamples
        BY <1>1, <2>2, <2>4, <4>1, BaselineStays
      <4>3. (s.sum + o) \div BaselineSamples > 0
        BY <1>2, <3>3, <3>6, MeanPositive
      <4>4. Guard!After(g) = {}
        BY <1>1, <4>1, AfterGrows
      <4>5. ~ Guard!StopsResponding(g) /\ ~ Guard!RisesAndStays(g)
        BY <4>4 DEF Guard!StopsResponding, Guard!RisesAndStays
      <4>6. LossRun(g) = {} /\ HighRun(g) = {}
        BY <4>4 DEF LossRun, HighRun
      <4>7. Watches(r, g)
        <5> HIDE DEF r
        <5> QED BY <1>2, <3>2, <3>6, <4>2, <4>3, <4>6, FS_EmptySet DEF Watches
      <4> HIDE DEF r
      <4> QED BY <1>1, <3>2, <3>5, <4>1, <4>5, <4>7 DEF Tracks
    <3>7. CASE s.samples + 1 # BaselineSamples
      <4>1. Guard!Complete(g) = {}
        BY <1>1, <1>3, <2>2, <3>7, CompleteGrows
      <4>2. Guard!After(g) = {}
        BY <1>1, <4>1, AfterGrows
      <4>3. ~ Guard!StopsResponding(g) /\ ~ Guard!RisesAndStays(g)
        BY <4>2 DEF Guard!StopsResponding, Guard!RisesAndStays
      <4>4. Measures(r, g)
        <5> HIDE DEF r
        <5> QED BY <1>2, <2>2, <3>2, <3>3, <3>7 DEF Measures
      <4> HIDE DEF r
      <4> QED BY <1>1, <3>2, <3>5, <4>1, <4>3, <4>4 DEF Tracks
    <3> QED BY <3>6, <3>7
  <2> QED BY <2>3, <2>4
<1>4. CASE Guard!Complete(h) # {}
  <2>1. Watches(s, h)
    BY <1>4 DEF Tracks
  <2>2. /\ s.samples = BaselineSamples /\ s.baseline = Guard!Baseline(h) /\ s.baseline > 0
        /\ Guard!Complete(g) = Guard!Complete(h) /\ Guard!Baseline(g) = Guard!Baseline(h)
    BY <1>1, <1>4, <2>1, CompleteGrows, BaselineStays DEF Watches
  <2>3. /\ LossRun(g) = IF o > 0 THEN {}
                        ELSE IF o = Guard!Lost THEN LossRun(h) \cup {Len(h) + 1}
                             ELSE LossRun(h)
        /\ Guard!StopsResponding(h) => Guard!StopsResponding(g)
        /\ Guard!StopsResponding(g)
             <=> Guard!StopsResponding(h) \/ Cardinality(LossRun(g)) >= MaxConsecLoss
    BY <1>1, <1>4, LossStep
  <2>4. /\ HighRun(g) = IF ~ (o > 0) THEN HighRun(h)
                        ELSE IF 100 * o > RisePercent * Guard!Baseline(h)
                               THEN HighRun(h) \cup {Len(h) + 1} ELSE {}
        /\ Guard!RisesAndStays(h) => Guard!RisesAndStays(g)
        /\ Guard!RisesAndStays(g)
             <=> Guard!RisesAndStays(h) \/ Cardinality(HighRun(g)) >= RiseStreak
    BY <1>1, <1>4, HighStep
  <2>5. CASE s.tripped
    <3>1. r = s
      BY <2>5 DEF Guard!AfterObserve
    <3>2. Watches(r, g)
      BY <2>2, <2>5, <3>1 DEF Watches
    <3>3. Guard!StopsResponding(g) \/ Guard!RisesAndStays(g)
      BY <2>3, <2>4, <2>5 DEF Tracks
    <3> QED BY <1>1, <1>4, <2>2, <2>5, <3>1, <3>2, <3>3 DEF Tracks
  <2>6. CASE ~ s.tripped
    <3>1. /\ s.consecLoss = Cardinality(LossRun(h)) /\ s.consecHigh = Cardinality(HighRun(h))
          /\ s.consecLoss < MaxConsecLoss /\ s.consecHigh < RiseStreak
          /\ ~ Guard!StopsResponding(h) /\ ~ Guard!RisesAndStays(h)
      BY <2>1, <2>6 DEF Watches, Tracks
    <3>2. /\ IsFiniteSet(LossRun(h)) /\ IsFiniteSet(HighRun(h))
          /\ Len(h) + 1 \notin LossRun(h) /\ Len(h) + 1 \notin HighRun(h)
      <4>1. Len(h) + 1 \notin 1 .. Len(h)
        BY <1>1
      <4> QED BY <1>1, <4>1, RunsFinite
    <3>3. /\ Cardinality(LossRun(g)) = IF o > 0 THEN 0
                        ELSE IF o = Guard!Lost THEN s.consecLoss + 1 ELSE s.consecLoss
          /\ Cardinality(HighRun(g)) = IF ~ (o > 0) THEN s.consecHigh
                        ELSE IF 100 * o > RisePercent * s.baseline
                               THEN s.consecHigh + 1 ELSE 0
      <4>1. /\ Cardinality({}) = 0
            /\ Cardinality(LossRun(h) \cup {Len(h) + 1}) = s.consecLoss + 1
            /\ Cardinality(HighRun(h) \cup {Len(h) + 1}) = s.consecHigh + 1
        BY <3>1, <3>2, FS_AddElement, FS_EmptySet
      <4>2. s.baseline = Guard!Baseline(h)
        BY <2>2
      <4> QED BY <2>3, <2>4, <3>1, <4>1, <4>2
    <3> DEFINE lost == Cardinality(LossRun(g))
               high == Cardinality(HighRun(g))
    <3>4. lost \in Nat /\ high \in Nat
      BY <1>1, RunsFinite
    <3>5. /\ r.samples = BaselineSamples /\ r.baseline = s.baseline
          /\ r.consecLoss = lost /\ r.consecHigh = high
          /\ r.tripped <=> lost >= MaxConsecLoss \/ high >= RiseStreak
          /\ r \in Records
      <4> HIDE DEF lost, high
      <4>1. CASE o = Guard!Lost
        <5>1. lost = s.consecLoss + 1 /\ high = s.consecHigh /\ ~ (high >= RiseStreak)
              /\ lost \in Nat
          BY <1>2, <3>1, <3>3, <4>1 DEF lost, high
        <5>2. r = [s EXCEPT !.consecLoss = lost, !.tripped = (lost >= MaxConsecLoss)]
          BY <1>2, <2>2, <2>6, <4>1, <5>1 DEF Guard!AfterObserve, Guard!AfterLoss
        <5> HIDE DEF r
        <5>3. CASE lost >= MaxConsecLoss
          <6>1. r = [s EXCEPT !.consecLoss = lost, !.tripped = TRUE]
            BY <5>2, <5>3
          <6> QED BY <1>1, <1>2, <2>2, <5>1, <5>3, <6>1 DEF Records
        <5>4. CASE ~ (lost >= MaxConsecLoss)
          <6>1. r = [s EXCEPT !.consecLoss = lost, !.tripped = FALSE]
            <7>1. (lost >= MaxConsecLoss) = FALSE
              BY <5>4
            <7> QED BY <5>2, <7>1, Zenon
          <6> QED BY <1>1, <1>2, <2>2, <5>1, <5>4, <6>1 DEF Records
        <5> QED BY <5>3, <5>4
      <4>2. CASE o = 0
        <5>1. r = s
          BY <1>2, <2>6, <4>2 DEF Guard!AfterObserve
        <5>2. lost = s.consecLoss /\ high = s.consecHigh
          BY <1>2, <3>3, <4>2 DEF lost, high
        <5>3. ~ (lost >= MaxConsecLoss \/ high >= RiseStreak)
          BY <1>2, <3>1, <5>2
        <5> HIDE DEF r
        <5> QED BY <1>1, <2>2, <2>6, <5>1, <5>2, <5>3
      <4>3. CASE o > 0 /\ 100 * o > RisePercent * s.baseline
        <5>1. lost = 0 /\ high = s.consecHigh + 1 /\ ~ (lost >= MaxConsecLoss)
              /\ high \in Nat
          BY <1>2, <3>3, <4>3 DEF lost, high
        <5>2. r = [s EXCEPT !.consecLoss = 0, !.consecHigh = high,
                            !.tripped = (high >= RiseStreak)]
          BY <1>2, <2>2, <2>6, <4>3, <5>1 DEF Guard!AfterObserve, Guard!AfterReply
        <5> HIDE DEF r
        <5>3. CASE high >= RiseStreak
          <6>1. r = [s EXCEPT !.consecLoss = 0, !.consecHigh = high, !.tripped = TRUE]
            BY <5>2, <5>3
          <6> QED BY <1>1, <1>2, <2>2, <5>1, <5>3, <6>1 DEF Records
        <5>4. CASE ~ (high >= RiseStreak)
          <6>1. r = [s EXCEPT !.consecLoss = 0, !.consecHigh = high, !.tripped = FALSE]
            <7>1. (high >= RiseStreak) = FALSE
              BY <5>4
            <7> QED BY <5>2, <7>1, Zenon
          <6> QED BY <1>1, <1>2, <2>2, <5>1, <5>4, <6>1 DEF Records
        <5> QED BY <5>3, <5>4
      <4>4. CASE o > 0 /\ ~ (100 * o > RisePercent * s.baseline)
        <5>1. r = [s EXCEPT !.consecLoss = 0, !.consecHigh = 0]
          BY <1>2, <2>2, <2>6, <4>4 DEF Guard!AfterObserve, Guard!AfterReply
        <5>2. lost = 0 /\ high = 0
          BY <1>2, <3>3, <4>4 DEF lost, high
        <5> HIDE DEF r
        <5>3. /\ r.samples = s.samples /\ r.baseline = s.baseline
              /\ r.consecLoss = 0 /\ r.consecHigh = 0 /\ r.tripped = s.tripped
              /\ r \in Records
          BY <1>1, <1>2, <5>1 DEF Records
        <5>4. ~ (lost >= MaxConsecLoss \/ high >= RiseStreak)
          BY <1>2, <5>2
        <5> QED BY <2>2, <2>6, <5>2, <5>3, <5>4
      <4> QED BY <1>2, <4>1, <4>2, <4>3, <4>4
    <3>7. Watches(r, g) /\ (r.tripped <=> Guard!StopsResponding(g) \/ Guard!RisesAndStays(g))
      <4> HIDE DEF r, lost, high
      <4>1. r.tripped <=> Guard!StopsResponding(g) \/ Guard!RisesAndStays(g)
        BY <2>3, <2>4, <3>1, <3>5 DEF lost, high
      <4>2. ~ r.tripped => lost < MaxConsecLoss /\ high < RiseStreak
        <5>1. /\ ~ (lost >= MaxConsecLoss) <=> lost < MaxConsecLoss
              /\ ~ (high >= RiseStreak) <=> high < RiseStreak
          BY <1>2, <3>4
        <5> QED BY <3>5, <5>1
      <4> QED BY <2>2, <3>5, <4>1, <4>2 DEF Watches, lost, high
    <3> HIDE DEF r
    <3> QED BY <1>1, <1>4, <2>2, <3>5, <3>7 DEF Tracks
  <2> QED BY <1>2, <2>5, <2>6
<1> QED BY <1>3, <1>4

-----------------------------------------------------------------------------
(* A scan with the breaker. *)

\* The breaker's state is what it has observed comes to, and the engine's view
\* of it is up to date.
BreakerInv ==
  /\ st \in [Targets -> Records] /\ seen \in [Targets -> Histories]
  /\ \A t \in Targets : Tracks(st[t], seen[t])
  /\ tripped = { t \in Targets : st[t].tripped }

\* A scan with the breaker is a scan: what the breaker decides, the engine
\* allows for.
THEOREM GuardedIsAScan == GuardedSpec => SafetySpec
<1>1. GuardedInit => Init
  BY DEF GuardedInit
<1>2. [GuardedNext]_guardedVars => [Next]_vars
  <2>1. ASSUME NEW w \in Workers, ScanObserved(w) PROVE Next
    BY <2>1 DEF ScanObserved, Next, Worker
  <2>2. Unobserved => Next
    BY DEF Unobserved, Next, Worker
  <2>3. UNCHANGED guardedVars => UNCHANGED vars
    BY DEF guardedVars
  <2> QED BY <2>1, <2>2, <2>3 DEF GuardedNext
<1> QED BY <1>1, <1>2, PTL DEF GuardedSpec, SafetySpec

LEMMA BreakerInit == GuardedInit => BreakerInv
<1> SUFFICES ASSUME GuardedInit PROVE BreakerInv
  OBVIOUS
<1>1. /\ st = [t \in Targets |-> Guard!NewState] /\ seen = [t \in Targets |-> <<>>]
      /\ tripped = {}
  BY DEF GuardedInit, Init, Guard!Init
<1>2. Tracks(Guard!NewState, <<>>)
  BY FreshTracks
<1>3. /\ Guard!NewState \in Records /\ <<>> \in Histories
      /\ Guard!NewState.tripped = FALSE
  BY <1>2 DEF Tracks, Guard!NewState
<1> QED BY <1>1, <1>2, <1>3 DEF BreakerInv

LEMMA BreakerStep == BreakerInv /\ [GuardedNext]_guardedVars => BreakerInv'
<1> SUFFICES ASSUME BreakerInv, [GuardedNext]_guardedVars PROVE BreakerInv'
  OBVIOUS
<1>1. ASSUME NEW w \in Workers, ScanObserved(w) PROVE BreakerInv'
  <2> DEFINE t == TargetOf(hand[w])
  <2>1. PICK o \in RTTs \cup {Guard!Lost} : Guard!Observe(t, o)
    BY <1>1 DEF ScanObserved
  <2>2. /\ tripped' = { u \in Targets : st'[u].tripped }
        /\ o \in Outcomes
    BY <1>1 DEF ScanObserved, Guard!Tripped, Outcomes
  <2> HIDE DEF t
  <2>3. /\ st' = [st EXCEPT ![t] = Guard!AfterObserve(@, o)]
        /\ seen' = [seen EXCEPT ![t] = Append(@, o)]
    BY <2>1 DEF Guard!Observe
  <2>4. ASSUME NEW u \in Targets
        PROVE  /\ st'[u] \in Records /\ seen'[u] \in Histories
               /\ Tracks(st'[u], seen'[u])
    <3>1. Tracks(st[u], seen[u]) /\ st[u] \in Records /\ seen[u] \in Histories
      BY DEF BreakerInv
    <3>2. CASE u = t
      <4>1. st'[u] = Guard!AfterObserve(st[u], o) /\ seen'[u] = Append(seen[u], o)
        BY <2>3, <3>2 DEF BreakerInv
      <4>2. Tracks(st'[u], seen'[u])
        BY <2>2, <3>1, <4>1, ObserveTracks
      <4> QED BY <4>2 DEF Tracks
    <3>3. CASE u # t
      BY <2>3, <3>1, <3>3 DEF BreakerInv
    <3> QED BY <3>2, <3>3
  <2>5. /\ st' \in [Targets -> Records] /\ seen' \in [Targets -> Histories]
    <3>1. /\ st' = [u \in Targets |-> st'[u]]
          /\ seen' = [u \in Targets |-> seen'[u]]
      BY <2>3 DEF BreakerInv
    <3> QED BY <2>4, <3>1
  <2> QED BY <2>2, <2>4, <2>5 DEF BreakerInv
<1>2. ASSUME UNCHANGED <<st, seen, tripped>> PROVE BreakerInv'
  BY <1>2 DEF BreakerInv
<1>3. CASE Unobserved
  <2>1. UNCHANGED <<st, seen, tripped>>
    BY <1>3 DEF Unobserved, Dispatcher, Dispatch, LastFlush, SendJob, EndFlush, Recv,
      Exit, Check, Send, CloseResults, Collector, Collect, Finish, Returned, vars
  <2> QED BY <1>2, <2>1
<1>4. CASE UNCHANGED guardedVars
  BY <1>2, <1>4 DEF guardedVars, vars
<1> QED BY <1>1, <1>3, <1>4 DEF GuardedNext

\* A target is tripped exactly when what was observed of it calls for it, for
\* any round-trip times and limits.
THEOREM TripsExactlyWhenDue == GuardedSpec => []TripsWhenDue
<1>1. BreakerInv => TripsWhenDue
  BY DEF BreakerInv, Tracks, TripsWhenDue, Guard!TripsWhenDue, Guard!Tripped
<1> QED BY <1>1, BreakerInit, BreakerStep, PTL DEF GuardedSpec

\* From then on, nothing more is observed of it: no job of it is scanned.
THEOREM DistressIsLeftAlone == GuardedSpec => DistressEndsProbing
<1> DEFINE Left == \A t \in Targets :
             Guard!StopsResponding(seen[t]) \/ Guard!RisesAndStays(seen[t])
               => seen'[t] = seen[t]
<1>1. BreakerInv /\ NoProbeAfterTrip /\ [GuardedNext]_guardedVars => [Left]_guardedVars
  <2> SUFFICES ASSUME BreakerInv, NoProbeAfterTrip, GuardedNext,
                      NEW t \in Targets,
                      Guard!StopsResponding(seen[t]) \/ Guard!RisesAndStays(seen[t])
               PROVE  seen'[t] = seen[t]
    OBVIOUS
  <2>1. t \in tripped
    BY DEF BreakerInv, Tracks
  <2>2. CASE Unobserved
    BY <2>2 DEF Unobserved
  <2>3. ASSUME NEW w \in Workers, ScanObserved(w) PROVE seen'[t] = seen[t]
    <3>1. wpc[w] = "scan"
      BY <2>3 DEF ScanObserved, Scan
    <3>2. TargetOf(hand[w]) # t
      BY <2>1, <3>1 DEF NoProbeAfterTrip
    <3>3. \E o : seen' = [seen EXCEPT ![TargetOf(hand[w])] = Append(@, o)]
      BY <2>3 DEF ScanObserved, Guard!Observe
    <3> QED BY <3>2, <3>3 DEF BreakerInv
  <2> QED BY <2>2, <2>3 DEF GuardedNext
<1>2. GuardedSpec => []BreakerInv
  BY BreakerInit, BreakerStep, PTL DEF GuardedSpec
<1>3. GuardedSpec => []NoProbeAfterTrip
  BY GuardedIsAScan, GuardStops, PTL
<1> QED BY <1>1, <1>2, <1>3, PTL DEF GuardedSpec, DistressEndsProbing
=============================================================================
