------------------------------ MODULE OTGuard ------------------------------
(***************************************************************************)
(* The per-target circuit breaker of internal/otguard/otguard.go: Observe  *)
(* is fed the outcome of every probe and trips a target whose round-trip   *)
(* time stays above its baseline, or that stops answering.  A call holds   *)
(* the mutex throughout, so it is one action.  The history of what was     *)
(* observed is kept, and the state machine is compared with what New's     *)
(* comment and the package's say of such a history.                        *)
(***************************************************************************)
EXTENDS Integers, Sequences, FiniteSets

CONSTANTS
  Targets,
  RTTs,           \* the round-trip times a reply may show; 0 when unmeasured
  RisePercent,    \* riseFactor, in percent
  RiseStreak, BaselineSamples, MaxConsecLoss

\* Assumed by the modules that instantiate this one.
GuardAssumption ==
  /\ RTTs \subseteq Nat /\ RisePercent \in Nat /\ RisePercent > 100
  /\ RiseStreak \in Nat \ {0} /\ BaselineSamples \in Nat \ {0}
  /\ MaxConsecLoss \in Nat \ {0}

VARIABLES
  st,             \* g.targets; a target not yet seen has the zero state
  seen            \* history: seen[t], the outcomes observed, in order

vars == <<st, seen>>

Lost == -1        \* an outcome is the round-trip time of a reply, or Lost
NewState == [samples |-> 0, sum |-> 0, baseline |-> 0, consecHigh |-> 0,
             consecLoss |-> 0, tripped |-> FALSE]

Init ==
  /\ st = [t \in Targets |-> NewState]
  /\ seen = [t \in Targets |-> <<>>]

\* A reply lost: it counts once the target has proven that it answers.
AfterLoss(s) ==
  IF s.baseline = 0 THEN s
  ELSE [s EXCEPT !.consecLoss = @ + 1,
                 !.tripped = s.consecLoss + 1 >= MaxConsecLoss]

\* One of the replies the baseline is made of.
AfterSample(s, rtt) ==
  [s EXCEPT !.consecLoss = 0, !.sum = @ + rtt, !.samples = @ + 1,
            !.baseline = IF s.samples + 1 = BaselineSamples
                           THEN (s.sum + rtt) \div BaselineSamples ELSE @]

\* A reply once there is a baseline.
AfterReplyNoReset(s, rtt) ==
  IF 100 * rtt > RisePercent * s.baseline
    THEN [s EXCEPT !.consecLoss = 0, !.consecHigh = @ + 1,
                   !.tripped = s.consecHigh + 1 >= RiseStreak]
    ELSE [s EXCEPT !.consecLoss = 0]
AfterReplyLate(s, rtt) ==
  IF 100 * rtt > RisePercent * s.baseline
    THEN [s EXCEPT !.consecLoss = 0, !.consecHigh = @ + 1,
                   !.tripped = s.consecHigh + 1 > RiseStreak]
    ELSE [s EXCEPT !.consecLoss = 0, !.consecHigh = 0]
AfterReply(s, rtt) ==
  IF 100 * rtt > RisePercent * s.baseline
    THEN [s EXCEPT !.consecLoss = 0, !.consecHigh = @ + 1,
                   !.tripped = s.consecHigh + 1 >= RiseStreak]
    ELSE [s EXCEPT !.consecLoss = 0, !.consecHigh = 0]

AfterObserve(s, o) ==
  IF s.tripped THEN s
  ELSE CASE o = Lost -> AfterLoss(s)
         [] o = 0    -> s
         [] OTHER    -> IF s.samples < BaselineSamples THEN AfterSample(s, o)
                                                       ELSE AfterReply(s, o)

Observe(t, o) ==
  /\ st' = [st EXCEPT ![t] = AfterObserve(@, o)]
  /\ seen' = [seen EXCEPT ![t] = Append(@, o)]

Tripped(t) == st[t].tripped

Next == \E t \in Targets, o \in RTTs \cup {Lost} : Observe(t, o)

Spec == Init /\ [][Next]_vars

-----------------------------------------------------------------------------
(* What a history calls for. *)

Replies(h)  == { i \in 1 .. Len(h) : h[i] > 0 }
\* The reply that completes the baseline, the BaselineSamples-th of them.
Complete(h) == { i \in Replies(h) :
                   Cardinality({ k \in Replies(h) : k <= i }) = BaselineSamples }
\* Total(h)[n]: the sum of the replies among the first n outcomes.
Total(h) ==
  LET Sum[n \in 0 .. Len(h)] ==
        IF n = 0 THEN 0 ELSE Sum[n - 1] + (IF h[n] > 0 THEN h[n] ELSE 0)
  IN  Sum
Baseline(h) ==
  Total(h)[CHOOSE n \in Complete(h) : TRUE] \div BaselineSamples

\* The outcomes after the baseline was complete.
After(h) == { i \in 1 .. Len(h) : \E k \in Complete(h) : i > k }
\* MaxConsecLoss losses with no reply between them.
StopsResponding(h) ==
  \E i, j \in After(h) :
    /\ i <= j
    /\ \A k \in i .. j : h[k] <= 0
    /\ Cardinality({ k \in i .. j : h[k] = Lost }) >= MaxConsecLoss
\* RiseStreak replies in a row, each above the baseline by the rise factor.
RisesAndStays(h) ==
  \E i, j \in After(h) \cap Replies(h) :
    /\ Cardinality(Replies(h) \cap (i .. j)) >= RiseStreak
    /\ \A k \in Replies(h) \cap (i .. j) :
         100 * h[k] > RisePercent * Baseline(h)

-----------------------------------------------------------------------------
(* Properties *)

\* Types; the counters stay below the limit at which they trip.
TypeOK ==
  \A t \in Targets :
    /\ st[t].samples \in 0 .. BaselineSamples
    /\ st[t].consecHigh \in 0 .. RiseStreak
    /\ st[t].consecLoss \in 0 .. MaxConsecLoss
    /\ st[t].tripped \in BOOLEAN
    /\ (st[t].baseline > 0) = (st[t].samples = BaselineSamples)

\* A target is tripped exactly when its own history calls for it: a transient
\* spike, a loss before the baseline or another target's trouble never trip
\* it, and a sustained rise or silence is never missed.
TripsWhenDue ==
  \A t \in Targets :
    Tripped(t) <=> StopsResponding(seen[t]) \/ RisesAndStays(seen[t])
=============================================================================
