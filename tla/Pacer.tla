------------------------------- MODULE Pacer -------------------------------
(***************************************************************************)
(* The lock-free pacer of internal/scan/adaptive_rate.go: many workers     *)
(* call pacedWait, which takes one of the send slots paid for in advance   *)
(* (acquireBatched) or pays for the next batch of them by reserving a      *)
(* window of time (WaitN).  Each compare-and-swap and each load before it  *)
(* is a step of its own.  The rate is fixed (--rate without                *)
(* --adaptive-rate); how it adapts is RateController.                      *)
(***************************************************************************)
EXTENDS Integers, FiniteSets

CONSTANTS
  Workers,
  BatchSlots,     \* pacerBatchSize
  Interval,       \* nanoseconds from one slot to the next, at this rate
  Horizon         \* bound: the clock stops here

PacerAssumption ==
  /\ Workers # {} /\ IsFiniteSet(Workers)
  /\ BatchSlots \in Nat \ {0} /\ Interval \in Nat \ {0} /\ Horizon \in Nat

VARIABLES
  now,            \* the clock
  lastTick,       \* the next free instant
  batchRemaining, \* pre-paid slots left
  pc,             \* "load", "take", "refill", "wait", "reserve", "sleep", "sent"
  rem,            \* rem[w]: batchRemaining as w loaded it
  last,           \* last[w], seen[w]: lastTick and the clock as WaitN loaded
  seen,           \*   them
  wake,           \* wake[w]: when w's sleep ends
  refills,        \* history: batches begun
  windows,        \* history: the starts of the windows reserved
  sent,           \* history: packets sent
  since           \* history: an earlier instant, and what was sent before it

\* A local of a worker is 0 where the code no longer reads it.
locals == <<rem, last, seen, wake>>
history == <<refills, windows, sent, since>>
vars == <<now, lastTick, batchRemaining, pc, locals, history>>

Span == Interval * BatchSlots
Later(a, b) == IF a > b THEN a ELSE b
At(w, here) == pc[w] = here
Go(w, there) == pc' = [pc EXCEPT ![w] = there]

Init ==
  /\ now = 0 /\ lastTick = 0 /\ batchRemaining = 0
  /\ pc = [w \in Workers |-> "load"]
  /\ rem = [w \in Workers |-> 0]
  /\ last = [w \in Workers |-> 0]
  /\ seen = [w \in Workers |-> 0]
  /\ wake = [w \in Workers |-> 0]
  /\ refills = 0 /\ windows = {} /\ sent = 0
  /\ since = [at |-> 0, sent |-> 0]

\* A slot is left of the batch.
HasSlot(r) == r > 0

Load(w) ==
  /\ At(w, "load")
  /\ rem' = [rem EXCEPT ![w] = batchRemaining]
  /\ Go(w, IF HasSlot(batchRemaining) THEN "take" ELSE "refill")
  /\ UNCHANGED <<now, lastTick, batchRemaining, last, seen, wake, history>>

\* The comparison of CompareAndSwap on batchRemaining; a plain store has none.
Stored(w)  == TRUE
Swapped(w) == batchRemaining = rem[w]

\* CompareAndSwap(rem, rem-1): the slot is taken, or the race was lost.
Take(w) ==
  /\ At(w, "take")
  /\ IF Swapped(w)
       THEN batchRemaining' = rem[w] - 1 /\ Go(w, "sent")
       ELSE Go(w, "load") /\ UNCHANGED batchRemaining
  /\ rem' = [rem EXCEPT ![w] = 0]
  /\ UNCHANGED <<now, lastTick, last, seen, wake, history>>

\* CompareAndSwap(rem, pacerBatchSize-1): one worker becomes the refiller.  The
\* others may spend the batch from here on, before its window is reserved.
Refill(w) ==
  /\ At(w, "refill")
  /\ IF Swapped(w)
       THEN /\ batchRemaining' = BatchSlots - 1
            /\ refills' = refills + 1
            /\ Go(w, "wait")
       ELSE Go(w, "load") /\ UNCHANGED <<batchRemaining, refills>>
  /\ rem' = [rem EXCEPT ![w] = 0]
  /\ UNCHANGED <<now, lastTick, last, seen, wake, windows, sent, since>>

\* WaitN(pacerBatchSize): load the next free instant and the clock.
WaitN(w) ==
  /\ At(w, "wait")
  /\ last' = [last EXCEPT ![w] = lastTick]
  /\ seen' = [seen EXCEPT ![w] = now]
  /\ Go(w, "reserve")
  /\ UNCHANGED <<now, lastTick, batchRemaining, rem, wake, history>>

\* The comparison of CompareAndSwap on lastTick.
TickUnchanged(w) == lastTick = last[w]

\* start: the next free instant, or now when that is past.
BankedStart(w) == last[w]
WindowStart(w) == Later(last[w], seen[w])

\* CompareAndSwap(last, start+span): the window is w's, and w sleeps until it
\* begins, or another worker was faster and w tries again.
Reserve(w) ==
  /\ At(w, "reserve")
  /\ LET start == WindowStart(w)
     IN  IF TickUnchanged(w)
           THEN /\ lastTick' = start + Span
                /\ windows' = windows \cup {start}
                /\ wake' = [wake EXCEPT ![w] = now + start - seen[w]]
                /\ Go(w, "sleep")
           ELSE Go(w, "wait") /\ UNCHANGED <<lastTick, windows, wake>>
  /\ last' = [last EXCEPT ![w] = 0] /\ seen' = [seen EXCEPT ![w] = 0]
  /\ UNCHANGED <<now, batchRemaining, rem, refills, sent, since>>

WakeUp(w) ==
  /\ At(w, "sleep") /\ now >= wake[w]
  /\ wake' = [wake EXCEPT ![w] = 0]
  /\ Go(w, "sent")
  /\ UNCHANGED <<now, lastTick, batchRemaining, rem, last, seen, history>>

\* The packet goes out, and the worker comes back for another slot.
Transmit(w) ==
  /\ At(w, "sent")
  /\ sent' = sent + 1
  /\ Go(w, "load")
  /\ UNCHANGED <<now, lastTick, batchRemaining, locals, refills, windows,
                 since>>

Worker(w) == \/ Load(w) \/ Take(w) \/ Refill(w) \/ WaitN(w) \/ Reserve(w)
             \/ WakeUp(w) \/ Transmit(w)

\* Workers are as fast as the clock lets them be, or slower: an idle limiter
\* is one whose workers all have something else to do.
Tick ==
  /\ now < Horizon
  /\ now' = now + 1
  /\ since' \in {since, [at |-> now', sent |-> sent]}
  /\ UNCHANGED <<lastTick, batchRemaining, pc, locals, refills, windows, sent>>

Next == Tick \/ \E w \in Workers : Worker(w)

Spec == Init /\ [][Next]_vars

-----------------------------------------------------------------------------
(* Properties *)

\* Types.
TypeOK ==
  /\ now \in 0 .. Horizon /\ lastTick \in Nat
  /\ batchRemaining \in 0 .. BatchSlots - 1
  /\ pc \in [Workers -> {"load", "take", "refill", "wait", "reserve", "sleep",
                         "sent"}]
  /\ refills \in Nat /\ sent \in Nat
  /\ since.at \in 0 .. now /\ since.sent \in 0 .. sent

\* Every slot paid for is spent once or still there: no two workers take the
\* same one, none is lost to a lost race, whoever refills.
SlotsConserved ==
  LET granted == Cardinality({ w \in Workers : pc[w] = "sent" })
      owed    == Cardinality({ w \in Workers :
                                 pc[w] \in {"wait", "reserve", "sleep"} })
  IN  sent + granted + owed + batchRemaining = BatchSlots * refills

\* The windows reserved by concurrent WaitN calls never overlap, so that the
\* workers together keep to the rate of one ("evenly-spaced send slots").
WindowsDisjoint ==
  \A s, t \in windows : s # t => s + Span <= t \/ t + Span <= s

\* What has been sent since any earlier instant exceeds what the time elapsed
\* since then allows by no more than the batches under way, one to each worker,
\* and one: the long-run rate is the one asked for, and idle time is not banked,
\* however long the limiter was quiet before that instant (WaitN).  It is not
\* the burst of one batch of adaptive_rate.go:102-103, which is exceeded: slots
\* of a batch are handed out before its refiller has reserved their window.
AverageRate ==
  sent - since.sent
    <= BatchSlots * ((now - since.at) \div Span + 1 + Cardinality(Workers))
=============================================================================
