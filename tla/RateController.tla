--------------------------- MODULE RateController ---------------------------
(***************************************************************************)
(* What a worker of the pool does with a result before it reports it       *)
(* (engine.go:216-224): an answer's latency is folded into the shared      *)
(* round-trip estimate (RTTEstimator.Sample), and with --adaptive-rate the *)
(* outcome is counted in the shared window of the AIMD controller          *)
(* (AdaptiveRateLimiter.Report), which now and then changes the rate.      *)
(* Both are lock-free: each atomic operation is a step of its own.         *)
(***************************************************************************)
EXTENDS Integers, FiniteSets

CONSTANTS
  Workers,
  Latencies,      \* round-trip times of the answers
  RateLimit,      \* --rate
  WindowSize,     \* windowSize: probes to a decision
  MaxProbes       \* bound: results reported

RateAssumption ==
  /\ IsFiniteSet(Workers) /\ Latencies \subseteq Nat \ {0}
  /\ RateLimit \in Nat \ {0} /\ WindowSize \in Nat \ {0} /\ MaxProbes \in Nat

VARIABLES
  srtt, rttvar, inited,     \* the fields of RTTEstimator
  ratePPS, sent, lost,      \* the fields of AdaptiveRateLimiter
  pc,             \* pc[w]: the operation w is about to do
  job,            \* job[w]: w's result: its latency, or Lost
  loaded,         \* loaded[w]: what w last loaded, or the window it claimed
  losses,         \* losses[w]: the losses w took from the counter
  history         \* the samples stored, the reports and losses made and judged

Lost == 0
estimator == <<srtt, rttvar, inited>>
limiter == <<ratePPS, sent, lost>>
vars == <<estimator, limiter, pc, job, loaded, losses, history>>

Bigger(a, b)  == IF a > b THEN a ELSE b
Smaller(a, b) == IF a < b THEN a ELSE b
\* Go's division of integers goes towards zero.
Quo(a, b) == IF a >= 0 THEN a \div b ELSE -((-a) \div b)
Abs(a)    == Bigger(a, -a)

\* NewLimiterFromOptions with --adaptive-rate: a tenth to four times the rate.
minPPS == Bigger(RateLimit \div 10, 1)
maxPPS == Bigger(4 * RateLimit, minPPS)

At(w, here) == pc[w] = here
Go(w, there) == pc' = [pc EXCEPT ![w] = there]
Note(field, change) == history' = [history EXCEPT ![field] = @ + change]

Init ==
  /\ srtt = 0 /\ rttvar = 0 /\ inited = FALSE
  /\ ratePPS = RateLimit /\ sent = 0 /\ lost = 0
  /\ pc = [w \in Workers |-> "probe"]
  /\ job = [w \in Workers |-> Lost]
  /\ loaded = [w \in Workers |-> 0]
  /\ losses = [w \in Workers |-> 0]
  /\ history = [samples |-> {}, reports |-> 0, lost |-> 0,
                judged |-> 0, judgedLost |-> 0]

\* A result: lost, or answered after a latency, which is a sample.
Result(w) ==
  /\ At(w, "probe") /\ history.reports < MaxProbes
  /\ \E r \in Latencies \cup {Lost} :
       /\ job' = [job EXCEPT ![w] = r]
       /\ Go(w, IF r = Lost THEN "count" ELSE "first")
       /\ history' = [history EXCEPT
            !.reports = @ + 1,
            !.lost    = IF r = Lost THEN @ + 1 ELSE @,
            !.samples = IF r = Lost THEN @ ELSE @ \cup {r}]
  /\ UNCHANGED <<estimator, limiter, loaded, losses>>

-----------------------------------------------------------------------------
(* Sample *)

\* inited.CompareAndSwap(false, true): the first sample is stored, not folded.
FirstSample(w) ==
  /\ At(w, "first")
  /\ inited' = TRUE
  /\ Go(w, IF inited THEN "load" ELSE "store")
  /\ UNCHANGED <<srtt, rttvar, limiter, job, loaded, losses, history>>

StoreMean(w) ==
  /\ At(w, "store")
  /\ srtt' = job[w]
  /\ Go(w, "store var")
  /\ UNCHANGED <<rttvar, inited, limiter, job, loaded, losses, history>>

StoreVar(w) ==
  /\ At(w, "store var")
  /\ rttvar' = job[w] \div 2
  /\ Go(w, "count")
  /\ UNCHANGED <<srtt, inited, limiter, job, loaded, losses, history>>

LoadMean(w) ==
  /\ At(w, "load")
  /\ loaded' = [loaded EXCEPT ![w] = srtt]
  /\ Go(w, "fold")
  /\ UNCHANGED <<estimator, limiter, job, losses, history>>

\* The swap of the mean compares; a plain store would not.
MeanUnchanged(w) == srtt = loaded[w]

\* An eighth of the way to the sample; a lost race starts over.
FoldMean(w) ==
  /\ At(w, "fold")
  /\ IF MeanUnchanged(w)
       THEN srtt' = loaded[w] + Quo(job[w] - loaded[w], 8) /\ Go(w, "fold var")
       ELSE Go(w, "load") /\ UNCHANGED srtt
  /\ UNCHANGED <<rttvar, inited, limiter, job, loaded, losses, history>>

\* Load and swap of the variance in one: a lost race only loads again.
FoldVar(w) ==
  /\ At(w, "fold var")
  /\ rttvar' = rttvar + Quo(Abs(job[w] - loaded[w]) - rttvar, 4)
  /\ Go(w, "count")
  /\ UNCHANGED <<srtt, inited, limiter, job, loaded, losses, history>>

-----------------------------------------------------------------------------
(* Report *)

Count(w) ==
  /\ At(w, "count")
  /\ sent' = sent + 1
  /\ loaded' = [loaded EXCEPT ![w] = sent + 1]
  /\ Go(w, IF job[w] = Lost THEN "add" ELSE "claim")
  /\ UNCHANGED <<estimator, ratePPS, lost, job, losses, history>>

AddLoss(w) ==
  /\ At(w, "add")
  /\ lost' = lost + 1
  /\ Go(w, "claim")
  /\ UNCHANGED <<estimator, ratePPS, sent, job, loaded, losses, history>>

\* The swap of the counter compares; a plain store would not.
CountStored(w)    == loaded[w] >= WindowSize
CountUnchanged(w) == loaded[w] >= WindowSize /\ sent = loaded[w]

\* A full window is claimed by the worker whose count is still the counter's.
ClaimWindow(w) ==
  /\ At(w, "claim")
  /\ IF CountUnchanged(w)
       THEN sent' = 0 /\ Note("judged", loaded[w]) /\ Go(w, "take")
       ELSE Go(w, "probe") /\ UNCHANGED <<sent, history>>
  /\ UNCHANGED <<estimator, ratePPS, lost, job, loaded, losses>>

\* lost.Swap(0).  A loss counted and not yet added belongs to a later window.
Left == 0
TakeLosses(w) ==
  /\ At(w, "take")
  /\ losses' = [losses EXCEPT ![w] = lost]
  /\ lost' = Left
  /\ Note("judgedLost", lost)
  /\ Go(w, "adjust")
  /\ UNCHANGED <<estimator, ratePPS, sent, job, loaded>>

\* Below 0.5 per cent of losses, above 3 per cent of them.
Healthy(n, l)   == 200 * l < n
Congested(n, l) == 100 * l > 3 * n
Within(rate)    == Smaller(Bigger(rate, minPPS), maxPPS)
Raised(cur)     == Within(cur + cur \div 20)
Halved(cur)     == Within(cur \div 2)

\* Load and swap of the rate in one: a lost race only loads again.
AdjustRate(w) ==
  /\ At(w, "adjust")
  /\ ratePPS' = CASE Healthy(loaded[w], losses[w])   -> Raised(ratePPS)
                  [] Congested(loaded[w], losses[w]) -> Halved(ratePPS)
                  [] OTHER                           -> ratePPS
  /\ Go(w, "probe")
  /\ UNCHANGED <<estimator, sent, lost, job, loaded, losses, history>>

Next ==
  \E w \in Workers :
    \/ Result(w) \/ FirstSample(w) \/ StoreMean(w) \/ StoreVar(w) \/ LoadMean(w)
    \/ FoldMean(w) \/ FoldVar(w) \/ Count(w) \/ AddLoss(w) \/ ClaimWindow(w)
    \/ TakeLosses(w) \/ AdjustRate(w)

Spec == Init /\ [][Next]_vars

-----------------------------------------------------------------------------
(* Properties *)

\* Every probe is judged in one window and every loss in one window: none is
\* dropped with a claim that lost its race, or counted again.  The windows need
\* not be the same: between the claim of a window and the taking of its losses
\* those of other windows are added, and a decision may find more losses than
\* it has probes.
LossesConserved ==
  LET toCount == { w \in Workers : pc[w] \in {"first", "store", "store var", "load",
                                             "fold", "fold var", "count"} }
      toAdd == { w \in Workers : pc[w] = "add" \/ (pc[w] = "count" /\ job[w] = Lost) }
  IN  /\ history.judged + sent + Cardinality(toCount) = history.reports
      /\ history.judgedLost + lost + Cardinality(toAdd) = history.lost

\* Once the first sample is stored the estimate lies among the samples seen,
\* however many workers fold theirs in, and although a sample may be folded
\* into an estimate that is marked initialised and not yet stored.
SettledWithinSamples ==
  LET Storing == \E w \in Workers : pc[w] \in {"store", "store var"}
      AtMost(b) == \E s \in history.samples : b <= s
  IN  /\ AtMost(srtt) \/ srtt = 0
      /\ AtMost(rttvar) \/ rttvar = 0
      /\ inited /\ ~Storing => \E s \in history.samples : s <= srtt
=============================================================================
