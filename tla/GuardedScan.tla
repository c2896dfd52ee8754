---------------------------- MODULE GuardedScan ----------------------------
(***************************************************************************)
(* A scan under --profile ot: the worker pool of ScanEngine and the        *)
(* circuit breaker of OTGuard together.  A worker that has scanned a job   *)
(* hands the outcome to Guard.Observe (engine.go:216-218), and asks        *)
(* Guard.Tripped before it scans the next (engine.go:200-203).  Where      *)
(* ScanEngine lets any observed result trip its target, here the breaker's *)
(* own state decides.                                                      *)
(***************************************************************************)
EXTENDS ScanEngine

CONSTANTS
  RTTs, RisePercent, RiseStreak, BaselineSamples, MaxConsecLoss,
  MaxLoaded       \* bound: results the resume file may hold

VARIABLES st, seen        \* the breaker's state and what it has observed

guardedVars == <<vars, st, seen>>

Guard == INSTANCE OTGuard

ASSUME BreakerAssumption == UseGuard /\ Guard!GuardAssumption

GuardedInit ==
  /\ Init /\ progress.completed <= MaxLoaded
  /\ Guard!Init

\* lost := res.State == StateFiltered || res.State == StateOpenFiltered
Lost(v) == v \in {"filtered", "open|filtered"}

\* dispatchScan, then Observe with the result's latency, 0 when unmeasured.
ScanObserved(w) ==
  LET t == TargetOf(hand[w])
  IN  /\ Scan(w)
      /\ \E o \in RTTs \cup {Guard!Lost} :
           /\ Lost(verdict'[hand[w]]) = (o = Guard!Lost)
           /\ Guard!Observe(t, o)
      /\ tripped' = { u \in Targets : Guard!Tripped(u)' }

Unobserved ==
  /\ \/ Dispatcher
     \/ \E w \in Workers : Recv(w) \/ Exit(w) \/ Check(w) \/ Send(w)
     \/ CloseResults
     \/ Collector
     \/ Returned
  /\ UNCHANGED <<st, seen>>

GuardedNext == Unobserved \/ \E w \in Workers : ScanObserved(w)

GuardedSpec == GuardedInit /\ [][GuardedNext]_guardedVars

-----------------------------------------------------------------------------
(* Properties *)

\* A target is tripped exactly when its own history calls for it: a transient
\* spike, a loss before the baseline or another target's trouble never trip
\* it, and a sustained rise or silence is never missed.
TripsWhenDue == Guard!TripsWhenDue

\* A device whose replies show distress gets no further probe, however many
\* of its ports are still in the batch or in the jobs channel.
DistressEndsProbing ==
  [][ \A t \in Targets :
        Guard!StopsResponding(seen[t]) \/ Guard!RisesAndStays(seen[t])
          => seen'[t] = seen[t] ]_guardedVars
=============================================================================
