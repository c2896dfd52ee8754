---------------------------- MODULE PacerProofs ----------------------------
(***************************************************************************)
(* Theorems about Pacer, for every number of workers, batch size, interval *)
(* and length of a run.                                                    *)
(*                                                                         *)
(* The slots are counted: each compare-and-swap that succeeds moves one    *)
(* worker from one set of program counters to another and the batch by as  *)
(* much, or leaves both alone.  The average rate is counted as well: a     *)
(* batch begun since an earlier instant belongs to a worker that has not   *)
(* reserved its window yet, to one that sleeps until its window begins, or *)
(* to a window that began between then and now, of which there are no more *)
(* than the time elapsed has room for.                                     *)
(***************************************************************************)
EXTENDS Pacer, FiniteSetTheorems, TLAPS

Labels == {"load", "take", "refill", "wait", "reserve", "sleep", "sent"}

Owing == {"wait", "reserve", "sleep"}

\* How many workers are at one of a set of labels.
Count(labels) == Cardinality({ w \in Workers : pc[w] \in labels })

\* What a worker has loaded, while it is going to compare it.
LocalsOK ==
  /\ rem \in [Workers -> Nat] /\ last \in [Workers -> Nat]
  /\ seen \in [Workers -> Nat] /\ wake \in [Workers -> Int]
  /\ \A w \in Workers :
       /\ pc[w] = "take" => rem[w] \in 1 .. BatchSlots - 1
       /\ pc[w] = "refill" => rem[w] = 0
       /\ seen[w] <= now

\* Every window reserved ends by the next free instant.
WindowsBeforeTick ==
  /\ windows \subseteq Nat /\ IsFiniteSet(windows)
  /\ \A s \in windows : s + Span <= lastTick

\* The worker that began the last batch cannot have spent a slot of it before
\* its own: when everybody waits for a window, the batch is whole.
LastBatchWhole ==
  (\A w \in Workers : pc[w] \in Owing) => batchRemaining = BatchSlots - 1

\* A window that has not begun is the window of a worker asleep until then.
Upcoming == { s \in windows : s > now }
OwnedUpcoming(f) ==
  /\ f \in [Upcoming -> Workers]
  /\ \A s \in Upcoming : pc[f[s]] = "sleep" /\ s <= wake[f[s]]
  /\ \A s, t \in Upcoming : f[s] = f[t] => s = t
SleepersOwnUpcoming == \E f : OwnedUpcoming(f)

\* The windows that begin after the earlier instant of "since", and the workers
\* whose next window will be one of them.
WindowsSince   == { s \in windows : s >= since.at }
ReserversSince ==
  { w \in Workers : pc[w] = "wait" \/ (pc[w] = "reserve" /\ seen[w] >= since.at) }

\* What has been paid for, beyond what was sent by that instant, is what was
\* under way at the time and the batches begun since.
PaidSince ==
  BatchSlots * refills - since.sent
    <= Cardinality(Workers) + BatchSlots - 1
         + BatchSlots * (Cardinality(WindowsSince) + Cardinality(ReserversSince))

PInv ==
  /\ TypeOK /\ LocalsOK /\ WindowsBeforeTick
  /\ WindowsDisjoint /\ SlotsConserved
  /\ LastBatchWhole /\ SleepersOwnUpcoming /\ PaidSince

-----------------------------------------------------------------------------
(* Counting. *)

LEMMA SpanPositive == PacerAssumption => Span \in Nat \ {0}
<1> SUFFICES ASSUME PacerAssumption PROVE Span \in Nat \ {0}
  OBVIOUS
<1>1. \A a, b \in Nat \ {0} : a * b \in Nat \ {0}
  OBVIOUS
<1> QED BY <1>1 DEF PacerAssumption, Span

LEMMA CountIsNat ==
  ASSUME PacerAssumption, NEW labels
  PROVE  /\ IsFiniteSet({ w \in Workers : pc[w] \in labels })
         /\ Count(labels) \in Nat /\ Count(labels) <= Cardinality(Workers)
         /\ Cardinality(Workers) \in Nat
<1>1. { w \in Workers : pc[w] \in labels } \subseteq Workers
  OBVIOUS
<1>2. IsFiniteSet(Workers)
  BY DEF PacerAssumption
<1> QED BY <1>1, <1>2, FS_Subset, FS_CardinalityType DEF Count

\* A worker that goes from one label to another.
LEMMA CountMoves ==
  ASSUME PacerAssumption, pc \in [Workers -> Labels], NEW w \in Workers,
         NEW there, Go(w, there), NEW labels
  PROVE  Cardinality({ v \in Workers : pc'[v] \in labels })
           = Count(labels) - (IF pc[w] \in labels THEN 1 ELSE 0)
                           + (IF there \in labels THEN 1 ELSE 0)
<1> DEFINE A == { v \in Workers : pc[v] \in labels }
           B == { v \in Workers : pc'[v] \in labels }
<1>1. IsFiniteSet(A) /\ Cardinality(A) \in Nat
  BY CountIsNat DEF Count
<1>2. pc'[w] = there /\ \A v \in Workers \ {w} : pc'[v] = pc[v]
  BY DEF Go
<1>3. SUFFICES Cardinality(B)
                 = Cardinality(A) - (IF pc[w] \in labels THEN 1 ELSE 0)
                                  + (IF there \in labels THEN 1 ELSE 0)
  BY DEF Count
<1>4. CASE pc[w] \in labels /\ there \in labels
  <2>1. B = A
    BY <1>2, <1>4
  <2> HIDE DEF A, B
  <2> QED BY <1>1, <1>4, <2>1
<1>5. CASE pc[w] \notin labels /\ there \notin labels
  <2>1. B = A
    BY <1>2, <1>5
  <2> HIDE DEF A, B
  <2> QED BY <1>1, <1>5, <2>1
<1>6. CASE pc[w] \notin labels /\ there \in labels
  <2>1. B = A \cup {w} /\ w \notin A
    BY <1>2, <1>6
  <2> HIDE DEF A, B
  <2>2. Cardinality(B) = Cardinality(A) + 1
    BY <1>1, <2>1, FS_AddElement
  <2> QED BY <1>1, <1>6, <2>2
<1>7. CASE pc[w] \in labels /\ there \notin labels
  <2>1. B = A \ {w} /\ w \in A
    BY <1>2, <1>7
  <2> HIDE DEF A, B
  <2>2. Cardinality(B) = Cardinality(A) - 1
    BY <1>1, <2>1, FS_RemoveElement
  <2> QED BY <1>1, <1>7, <2>2
<1> QED BY <1>4, <1>5, <1>6, <1>7

LEMMA SlotsAreCounts ==
  /\ SlotsConserved
       <=> sent + Count({"sent"}) + Count(Owing) + batchRemaining = BatchSlots * refills
  /\ SlotsConserved'
       <=> sent' + Count({"sent"})' + Count(Owing)' + batchRemaining' = BatchSlots * refills'
<1>1. /\ { w \in Workers : pc[w] = "sent" } = { w \in Workers : pc[w] \in {"sent"} }
      /\ { w \in Workers : pc'[w] = "sent" } = { w \in Workers : pc'[w] \in {"sent"} }
  OBVIOUS
<1> QED BY <1>1 DEF SlotsConserved, Count, Owing
\* Those sent and those owing a window are different workers.
LEMMA CountBounds ==
  ASSUME PacerAssumption
  PROVE  /\ Count({"sent"}) \in Nat /\ Count(Owing) \in Nat
         /\ Cardinality(Workers) \in Nat \ {0}
         /\ Count({"sent"}) + Count(Owing) <= Cardinality(Workers)
<1> DEFINE A == { w \in Workers : pc[w] \in {"sent"} }
           B == { w \in Workers : pc[w] \in Owing }
<1>1. /\ IsFiniteSet(A) /\ IsFiniteSet(B) /\ A \cap B = {} /\ A \cup B \subseteq Workers
  BY CountIsNat DEF Owing
<1>2. Cardinality(A \cup B) = Cardinality(A) + Cardinality(B)
  <2> HIDE DEF A, B
  <2>1. /\ Cardinality(A) \in Nat /\ Cardinality(B) \in Nat
        /\ Cardinality(A \cup B) = Cardinality(A) + Cardinality(B) - Cardinality(A \cap B)
    BY <1>1, FS_Union, FS_CardinalityType
  <2>2. Cardinality(A \cap B) = 0
    BY <1>1, FS_EmptySet
  <2> QED BY <2>1, <2>2
<1>3. Cardinality(A \cup B) <= Cardinality(Workers)
  <2> HIDE DEF A, B
  <2> QED BY <1>1, FS_Subset DEF PacerAssumption
<1>4. Cardinality(Workers) # 0
  BY FS_EmptySet DEF PacerAssumption
<1> QED BY <1>2, <1>3, <1>4, CountIsNat DEF Count

-----------------------------------------------------------------------------
(* Types, and the windows. *)

LEMMA TypeStep ==
  ASSUME PacerAssumption, PInv, [Next]_vars
  PROVE  TypeOK' /\ LocalsOK'
<1> USE DEF PInv, TypeOK, LocalsOK, PacerAssumption, At, Go, HasSlot
<1>0. Span \in Nat \ {0} /\ BatchSlots - 1 \in Nat
  BY SpanPositive
<1>1. CASE Tick
  BY <1>1 DEF Tick, locals
<1>2. ASSUME NEW w \in Workers, Load(w) PROVE TypeOK' /\ LocalsOK'
  BY <1>2 DEF Load, history
<1>3. ASSUME NEW w \in Workers, Take(w) PROVE TypeOK' /\ LocalsOK'
  BY <1>3 DEF Take, Swapped, history
<1>4. ASSUME NEW w \in Workers, Refill(w) PROVE TypeOK' /\ LocalsOK'
  BY <1>0, <1>4 DEF Refill, Swapped
<1>5. ASSUME NEW w \in Workers, WaitN(w) PROVE TypeOK' /\ LocalsOK'
  BY <1>5 DEF WaitN, history
<1>6. ASSUME NEW w \in Workers, Reserve(w) PROVE TypeOK' /\ LocalsOK'
  BY <1>0, <1>6 DEF Reserve, WindowStart, Later, TickUnchanged
<1>7. ASSUME NEW w \in Workers, WakeUp(w) PROVE TypeOK' /\ LocalsOK'
  BY <1>7 DEF WakeUp, history
<1>8. ASSUME NEW w \in Workers, Transmit(w) PROVE TypeOK' /\ LocalsOK'
  BY <1>8 DEF Transmit, locals
<1>9. CASE UNCHANGED vars
  BY <1>9 DEF vars, locals, history
<1> QED BY <1>1, <1>2, <1>3, <1>4, <1>5, <1>6, <1>7, <1>8, <1>9 DEF Next, Worker

\* A window is reserved where no other is: after all the time reserved before.
LEMMA ReservedIsNew ==
  ASSUME PacerAssumption, PInv, NEW w \in Workers, Reserve(w), TickUnchanged(w)
  PROVE  /\ WindowStart(w) \in Nat
         /\ WindowStart(w) >= seen[w] /\ WindowStart(w) >= lastTick
         /\ lastTick' = WindowStart(w) + Span
         /\ windows' = windows \cup {WindowStart(w)}
         /\ \A s \in windows : s + Span <= WindowStart(w)
         /\ WindowStart(w) \notin windows
<1>1. /\ last[w] = lastTick /\ lastTick \in Nat /\ seen[w] \in Nat
      /\ Span \in Nat \ {0} /\ windows \subseteq Nat
      /\ \A s \in windows : s + Span <= lastTick
  BY SpanPositive DEF PInv, TypeOK, LocalsOK, WindowsBeforeTick, TickUnchanged
<1>2. /\ WindowStart(w) \in Nat
      /\ WindowStart(w) >= seen[w] /\ WindowStart(w) >= lastTick
  BY <1>1 DEF WindowStart, Later
<1>3. /\ lastTick' = WindowStart(w) + Span
      /\ windows' = windows \cup {WindowStart(w)}
  BY DEF Reserve
<1>4. \A s \in windows : s + Span <= WindowStart(w)
  BY <1>1, <1>2
<1> QED BY <1>1, <1>2, <1>3, <1>4

LEMMA WindowsStep ==
  ASSUME PacerAssumption, PInv, [Next]_vars
  PROVE  WindowsBeforeTick' /\ WindowsDisjoint'
<1>1. CASE UNCHANGED <<windows, lastTick>>
  BY <1>1 DEF PInv, WindowsBeforeTick, WindowsDisjoint
<1>2. ASSUME NEW w \in Workers, Reserve(w), TickUnchanged(w)
      PROVE  WindowsBeforeTick' /\ WindowsDisjoint'
  <2> DEFINE start == WindowStart(w)
  <2>1. /\ start \in Nat /\ start >= lastTick /\ lastTick' = start + Span
        /\ windows' = windows \cup {start}
        /\ \A s \in windows : s + Span <= start
    BY <1>2, ReservedIsNew
  <2>2. Span \in Nat /\ lastTick \in Nat /\ windows \subseteq Nat
    BY SpanPositive DEF PInv, TypeOK, WindowsBeforeTick
  <2> HIDE DEF start
  <2>3. IsFiniteSet(windows')
    BY <2>1, FS_AddElement DEF PInv, WindowsBeforeTick
  <2>4. \A s \in windows' : s + Span <= lastTick'
    BY <2>1, <2>2
  <2>5. WindowsBeforeTick'
    BY <2>1, <2>2, <2>3, <2>4 DEF WindowsBeforeTick, Span
  <2>6. WindowsDisjoint'
    BY <2>1, <2>2 DEF PInv, WindowsDisjoint, Span
  <2> QED BY <2>5, <2>6
<1>3. ASSUME NEW w \in Workers, Reserve(w), ~ TickUnchanged(w)
      PROVE  UNCHANGED <<windows, lastTick>>
  BY <1>3 DEF Reserve
<1>4. ASSUME NEW w \in Workers, ~ Reserve(w), Worker(w)
      PROVE  UNCHANGED <<windows, lastTick>>
  BY <1>4 DEF Worker, Load, Take, Refill, WaitN, WakeUp, Transmit, history
<1> QED BY <1>1, <1>2, <1>3, <1>4 DEF Next, Tick, vars, history
-----------------------------------------------------------------------------
(* The slots. *)

\* What a step does to the counts of SlotsConserved.
LEMMA SlotsStep ==
  ASSUME PacerAssumption, PInv, [Next]_vars
  PROVE  SlotsConserved'
<1> DEFINE g == Count({"sent"})
           o == Count(Owing)
<1>0. /\ pc \in [Workers -> Labels] /\ g \in Nat /\ o \in Nat
      /\ sent \in Nat /\ refills \in Nat /\ batchRemaining \in Nat
      /\ BatchSlots \in Nat \ {0}
      /\ sent + g + o + batchRemaining = BatchSlots * refills
  <2>1. g \in Nat /\ o \in Nat
    BY CountIsNat
  <2>2. sent + g + o + batchRemaining = BatchSlots * refills
    BY SlotsAreCounts DEF PInv
  <2> HIDE DEF g, o
  <2> QED BY <2>1, <2>2 DEF PInv, TypeOK, PacerAssumption, Labels
<1>1. SUFFICES sent' + g' + o' + batchRemaining' = BatchSlots * refills'
  BY SlotsAreCounts
<1>2. ASSUME NEW w \in Workers, NEW there \in Labels, Go(w, there)
      PROVE  /\ g' = g - (IF pc[w] = "sent" THEN 1 ELSE 0)
                       + (IF there = "sent" THEN 1 ELSE 0)
             /\ o' = o - (IF pc[w] \in Owing THEN 1 ELSE 0)
                       + (IF there \in Owing THEN 1 ELSE 0)
  <2>1. /\ Cardinality({ v \in Workers : pc'[v] \in {"sent"} })
             = g - (IF pc[w] \in {"sent"} THEN 1 ELSE 0)
                 + (IF there \in {"sent"} THEN 1 ELSE 0)
        /\ Cardinality({ v \in Workers : pc'[v] \in Owing })
             = o - (IF pc[w] \in Owing THEN 1 ELSE 0)
                 + (IF there \in Owing THEN 1 ELSE 0)
    BY <1>0, <1>2, CountMoves
  <2>2. /\ g' = Cardinality({ v \in Workers : pc'[v] \in {"sent"} })
        /\ o' = Cardinality({ v \in Workers : pc'[v] \in Owing })
    BY DEF Count, Owing
  <2> HIDE DEF g, o
  <2> QED BY <2>1, <2>2
<1>3. CASE UNCHANGED pc /\ UNCHANGED <<sent, batchRemaining, refills>>
  <2>1. g' = g /\ o' = o
    BY <1>3 DEF Count, Owing
  <2> HIDE DEF g, o
  <2> QED BY <1>0, <1>3, <2>1
<1> HIDE DEF g, o
<1>4. ASSUME NEW w \in Workers, Load(w)
      PROVE  sent' + g' + o' + batchRemaining' = BatchSlots * refills'
  <2>1. PICK there \in {"take", "refill"} : Go(w, there)
    BY <1>4 DEF Load
  <2>2. pc[w] = "load" /\ UNCHANGED <<sent, batchRemaining, refills>>
    BY <1>4 DEF Load, At, history
  <2>3. g' = g /\ o' = o
    BY <1>0, <1>2, <2>1, <2>2 DEF Labels, Owing
  <2> QED BY <1>0, <2>2, <2>3
<1>5. ASSUME NEW w \in Workers, Take(w)
      PROVE  sent' + g' + o' + batchRemaining' = BatchSlots * refills'
  <2>1. pc[w] = "take" /\ UNCHANGED <<sent, refills>>
    BY <1>5 DEF Take, At, history
  <2>2. CASE Swapped(w)
    <3>1. Go(w, "sent") /\ batchRemaining' = batchRemaining - 1
      BY <1>5, <2>2 DEF Take, Swapped
    <3>2. g' = g + 1 /\ o' = o
      BY <1>0, <1>2, <2>1, <3>1 DEF Labels, Owing
    <3> QED BY <1>0, <2>1, <3>1, <3>2
  <2>3. CASE ~ Swapped(w)
    <3>1. Go(w, "load") /\ batchRemaining' = batchRemaining
      BY <1>5, <2>3 DEF Take
    <3>2. g' = g /\ o' = o
      BY <1>0, <1>2, <2>1, <3>1 DEF Labels, Owing
    <3> QED BY <1>0, <2>1, <3>1, <3>2
  <2> QED BY <2>2, <2>3
<1>6. ASSUME NEW w \in Workers, Refill(w)
      PROVE  sent' + g' + o' + batchRemaining' = BatchSlots * refills'
  <2>1. pc[w] = "refill" /\ rem[w] = 0 /\ UNCHANGED sent
    BY <1>6 DEF Refill, At, PInv, LocalsOK
  <2>2. CASE Swapped(w)
    <3>1. /\ Go(w, "wait") /\ batchRemaining = 0
          /\ batchRemaining' = BatchSlots - 1 /\ refills' = refills + 1
      BY <1>6, <2>1, <2>2 DEF Refill, Swapped
    <3>2. g' = g /\ o' = o + 1
      BY <1>0, <1>2, <2>1, <3>1 DEF Labels, Owing
    <3>3. BatchSlots * (refills + 1) = BatchSlots * refills + BatchSlots
      BY <1>0
    <3> QED BY <1>0, <2>1, <3>1, <3>2, <3>3
  <2>3. CASE ~ Swapped(w)
    <3>1. Go(w, "load") /\ UNCHANGED <<batchRemaining, refills>>
      BY <1>6, <2>3 DEF Refill
    <3>2. g' = g /\ o' = o
      BY <1>0, <1>2, <2>1, <3>1 DEF Labels, Owing
    <3> QED BY <1>0, <2>1, <3>1, <3>2
  <2> QED BY <2>2, <2>3
<1>7. ASSUME NEW w \in Workers, WaitN(w)
      PROVE  sent' + g' + o' + batchRemaining' = BatchSlots * refills'
  <2>1. /\ pc[w] = "wait" /\ Go(w, "reserve")
        /\ UNCHANGED <<sent, batchRemaining, refills>>
    BY <1>7 DEF WaitN, At, history
  <2>2. g' = g /\ o' = o
    BY <1>0, <1>2, <2>1 DEF Labels, Owing
  <2> QED BY <1>0, <2>1, <2>2
<1>8. ASSUME NEW w \in Workers, Reserve(w)
      PROVE  sent' + g' + o' + batchRemaining' = BatchSlots * refills'
  <2>1. PICK there \in {"sleep", "wait"} : Go(w, there)
    BY <1>8 DEF Reserve
  <2>2. pc[w] = "reserve" /\ UNCHANGED <<sent, batchRemaining, refills>>
    BY <1>8 DEF Reserve, At
  <2>3. g' = g /\ o' = o
    BY <1>0, <1>2, <2>1, <2>2 DEF Labels, Owing
  <2> QED BY <1>0, <2>2, <2>3
<1>9. ASSUME NEW w \in Workers, WakeUp(w)
      PROVE  sent' + g' + o' + batchRemaining' = BatchSlots * refills'
  <2>1. /\ pc[w] = "sleep" /\ Go(w, "sent")
        /\ UNCHANGED <<sent, batchRemaining, refills>>
    BY <1>9 DEF WakeUp, At, history
  <2>2. g' = g + 1 /\ o' = o - 1
    BY <1>0, <1>2, <2>1 DEF Labels, Owing
  <2> QED BY <1>0, <2>1, <2>2
<1>10. ASSUME NEW w \in Workers, Transmit(w)
       PROVE  sent' + g' + o' + batchRemaining' = BatchSlots * refills'
  <2>1. /\ pc[w] = "sent" /\ Go(w, "load") /\ sent' = sent + 1
        /\ UNCHANGED <<batchRemaining, refills>>
    BY <1>10 DEF Transmit, At
  <2>2. g' = g - 1 /\ o' = o
    BY <1>0, <1>2, <2>1 DEF Labels, Owing
  <2> QED BY <1>0, <2>1, <2>2
<1> QED
  BY <1>3, <1>4, <1>5, <1>6, <1>7, <1>8, <1>9, <1>10
     DEF Next, Worker, Tick, vars, history
LEMMA LastBatchStep ==
  ASSUME PacerAssumption, PInv, [Next]_vars
  PROVE  LastBatchWhole'
<1> USE DEF PInv, TypeOK, LastBatchWhole, Owing
<1>1. CASE UNCHANGED <<pc, batchRemaining>>
  BY <1>1
<1>2. ASSUME NEW w \in Workers, NEW there \in Labels \ Owing, Go(w, there)
      PROVE  LastBatchWhole'
  <2>1. pc'[w] = there
    BY <1>2 DEF Go
  <2> QED BY <1>2, <2>1
<1>3. ASSUME NEW w \in Workers, pc[w] \in Owing, NEW there \in Labels, Go(w, there),
             UNCHANGED batchRemaining
      PROVE  LastBatchWhole'
  BY <1>3 DEF Go
<1>4. ASSUME NEW w \in Workers, Worker(w) PROVE LastBatchWhole'
  <2>1. CASE Load(w) \/ Take(w) \/ WakeUp(w) \/ Transmit(w)
    BY <2>1, <1>2 DEF Load, Take, WakeUp, Transmit, Labels
  <2>2. CASE Refill(w) /\ Swapped(w)
    BY <2>2 DEF Refill
  <2>3. CASE Refill(w) /\ ~ Swapped(w)
    BY <2>3, <1>2 DEF Refill, Labels
  <2>4. CASE WaitN(w) \/ Reserve(w)
    BY <2>4, <1>3 DEF WaitN, Reserve, At, Labels
  <2> QED BY <1>4, <2>1, <2>2, <2>3, <2>4 DEF Worker
<1> QED BY <1>1, <1>4 DEF Next, Tick, vars

-----------------------------------------------------------------------------
(* The rate. *)

\* A window is upcoming until its owner may wake.
LEMMA SleepersStay ==
  ASSUME PInv, UNCHANGED windows, now' \in Nat, now' >= now,
         \A v \in Workers : pc[v] = "sleep" /\ wake[v] > now'
                            => pc'[v] = "sleep" /\ wake'[v] = wake[v]
  PROVE  SleepersOwnUpcoming'
<1>1. PICK f : OwnedUpcoming(f)
  BY DEF PInv, SleepersOwnUpcoming
<1>2. /\ windows \subseteq Nat /\ now \in Nat /\ wake \in [Workers -> Int]
  BY DEF PInv, TypeOK, LocalsOK, WindowsBeforeTick
<1>3. Upcoming' \subseteq Upcoming /\ \A s \in Upcoming' : s \in Nat /\ s > now'
  BY <1>2 DEF Upcoming
<1>4. PICK h : h = [s \in Upcoming' |-> f[s]]
  OBVIOUS
<1>5. \A s \in Upcoming' : pc'[h[s]] = "sleep" /\ s <= wake'[h[s]]
  <2> SUFFICES ASSUME NEW s \in Upcoming'
               PROVE  pc'[f[s]] = "sleep" /\ s <= wake'[f[s]]
    BY <1>4
  <2>1. f[s] \in Workers /\ pc[f[s]] = "sleep" /\ s <= wake[f[s]]
    BY <1>1, <1>3 DEF OwnedUpcoming
  <2>2. wake[f[s]] > now'
    BY <1>2, <1>3, <2>1
  <2> QED BY <2>1, <2>2
<1>6. \A s, t \in Upcoming' : h[s] = h[t] => s = t
  BY <1>1, <1>3, <1>4 DEF OwnedUpcoming
<1>7. h \in [Upcoming' -> Workers]
  BY <1>1, <1>3, <1>4 DEF OwnedUpcoming
<1>8. OwnedUpcoming(h)'
  BY <1>5, <1>6, <1>7 DEF OwnedUpcoming
<1> QED BY <1>8 DEF SleepersOwnUpcoming

LEMMA SleepersStep ==
  ASSUME PacerAssumption, PInv, [Next]_vars
  PROVE  SleepersOwnUpcoming'
<1>0. /\ now \in Nat /\ now' \in Nat /\ pc \in [Workers -> Labels]
      /\ wake \in [Workers -> Int] /\ seen \in [Workers -> Nat]
      /\ \A v \in Workers : seen[v] <= now
  BY TypeStep DEF PInv, TypeOK, LocalsOK, Labels
<1>1. CASE Tick \/ UNCHANGED vars
  BY <1>0, <1>1, SleepersStay DEF Tick, vars, locals, history
<1>2. ASSUME NEW w \in Workers, Load(w) \/ Take(w) \/ Refill(w) \/ WaitN(w) \/ Transmit(w)
      PROVE  SleepersOwnUpcoming'
  <2>1. /\ pc[w] # "sleep" /\ UNCHANGED <<windows, now, wake>>
        /\ \E there \in Labels : Go(w, there)
    BY <1>2 DEF Load, Take, Refill, WaitN, Transmit, At, Labels, locals, history
  <2>2. \A v \in Workers : pc[v] = "sleep" => pc'[v] = "sleep"
    BY <1>0, <2>1 DEF Go
  <2> QED BY <1>0, <2>1, <2>2, SleepersStay
<1>3. ASSUME NEW w \in Workers, WakeUp(w) PROVE SleepersOwnUpcoming'
  <2>1. /\ wake[w] <= now /\ UNCHANGED <<windows, now>>
        /\ Go(w, "sent") /\ wake' = [wake EXCEPT ![w] = 0]
    BY <1>0, <1>3 DEF WakeUp, history
  <2>2. \A v \in Workers : pc[v] = "sleep" /\ wake[v] > now
                           => pc'[v] = "sleep" /\ wake'[v] = wake[v]
    BY <1>0, <2>1 DEF Go
  <2> QED BY <1>0, <2>1, <2>2, SleepersStay
<1>4. ASSUME NEW w \in Workers, Reserve(w), ~ TickUnchanged(w)
      PROVE  SleepersOwnUpcoming'
  <2>1. /\ pc[w] # "sleep" /\ UNCHANGED <<windows, now, wake>> /\ Go(w, "wait")
    BY <1>4 DEF Reserve, At
  <2>2. \A v \in Workers : pc[v] = "sleep" => pc'[v] = "sleep"
    BY <1>0, <2>1 DEF Go
  <2> QED BY <1>0, <2>1, <2>2, SleepersStay
<1>5. ASSUME NEW w \in Workers, Reserve(w), TickUnchanged(w)
      PROVE  SleepersOwnUpcoming'
  <2> DEFINE start == WindowStart(w)
  <2>1. /\ start \in Nat /\ start \notin windows
        /\ windows' = windows \cup {start}
    BY <1>5, ReservedIsNew
  <2>2. /\ pc[w] = "reserve" /\ Go(w, "sleep") /\ UNCHANGED now
        /\ wake' = [wake EXCEPT ![w] = now + start - seen[w]]
    BY <1>5 DEF Reserve, At
  <2> HIDE DEF start
  <2>3. /\ pc' = [pc EXCEPT ![w] = "sleep"]
        /\ pc'[w] = "sleep" /\ start <= wake'[w]
        /\ \A v \in Workers \ {w} : pc'[v] = pc[v] /\ wake'[v] = wake[v]
    BY <1>0, <2>1, <2>2 DEF Go
  <2>4. PICK f : OwnedUpcoming(f)
    BY DEF PInv, SleepersOwnUpcoming
  <2>5. \A s \in Upcoming : f[s] \in Workers \ {w}
    BY <2>2, <2>4 DEF OwnedUpcoming
  <2>6. \A s \in Upcoming' : s = start \/ (s # start /\ s \in Upcoming)
    BY <2>1, <2>2 DEF Upcoming
  <2>7. PICK h : h = [s \in Upcoming' |-> IF s = start THEN w ELSE f[s]]
    OBVIOUS
  <2>8. \A s \in Upcoming' : pc'[h[s]] = "sleep" /\ s <= wake'[h[s]]
    BY <2>3, <2>4, <2>5, <2>6, <2>7 DEF OwnedUpcoming
  <2>9. \A s, t \in Upcoming' : h[s] = h[t] => s = t
    BY <2>4, <2>5, <2>6, <2>7 DEF OwnedUpcoming
  <2>10. h \in [Upcoming' -> Workers]
    BY <2>5, <2>6, <2>7
  <2>11. OwnedUpcoming(h)'
    BY <2>8, <2>9, <2>10 DEF OwnedUpcoming
  <2> QED BY <2>11 DEF SleepersOwnUpcoming
<1> QED BY <1>1, <1>2, <1>3, <1>4, <1>5 DEF Next, Worker
LEMMA TimesMonotone ==
  ASSUME NEW b \in Nat, NEW m \in Int, NEW n \in Int, m <= n
  PROVE  b * m <= b * n
  OBVIOUS

\* The sets PaidSince counts.
LEMMA SinceCounts ==
  ASSUME PacerAssumption, PInv
  PROVE  /\ IsFiniteSet(WindowsSince) /\ Cardinality(WindowsSince) \in Nat
         /\ IsFiniteSet(ReserversSince) /\ Cardinality(ReserversSince) \in Nat
<1>1. WindowsSince \subseteq windows /\ ReserversSince \subseteq Workers
  BY DEF WindowsSince, ReserversSince
<1> QED BY <1>1, FS_Subset, FS_CardinalityType
        DEF PInv, WindowsBeforeTick, PacerAssumption

\* More windows, or more workers about to reserve one, allow for more.
LEMMA PaidKept ==
  ASSUME PacerAssumption, PInv, UNCHANGED <<refills, since>>,
         IsFiniteSet(windows'), windows \subseteq windows',
         ReserversSince \subseteq ReserversSince'
  PROVE  PaidSince'
<1> DEFINE k == Cardinality(WindowsSince)
           p == Cardinality(ReserversSince)
           kk == Cardinality(WindowsSince')
           pp == Cardinality(ReserversSince')
           n == Cardinality(Workers)
<1>1. WindowsSince \subseteq WindowsSince' /\ WindowsSince' \subseteq windows'
  BY DEF WindowsSince
<1>2. ReserversSince' \subseteq Workers
  BY DEF ReserversSince
<1>3. k \in Nat /\ kk \in Nat /\ k <= kk
  BY <1>1, SinceCounts, FS_Subset, FS_CardinalityType
<1>4. p \in Nat /\ pp \in Nat /\ p <= pp
  BY <1>2, SinceCounts, FS_Subset, FS_CardinalityType DEF PacerAssumption
<1>5. /\ BatchSlots \in Nat \ {0} /\ n \in Nat /\ refills \in Nat /\ since.sent \in Int
      /\ BatchSlots * refills - since.sent <= n + BatchSlots - 1 + BatchSlots * (k + p)
  BY CountBounds DEF PInv, PaidSince, TypeOK, PacerAssumption
<1> SUFFICES BatchSlots * refills - since.sent
               <= n + BatchSlots - 1 + BatchSlots * (kk + pp)
  BY DEF PaidSince
<1> HIDE DEF k, p, kk, pp, n
<1>6. BatchSlots * (k + p) <= BatchSlots * (kk + pp)
  BY <1>3, <1>4, <1>5, TimesMonotone
<1>7. /\ BatchSlots * (k + p) \in Int /\ BatchSlots * (kk + pp) \in Int
      /\ BatchSlots * refills \in Int
  BY <1>3, <1>4, <1>5
<1> QED BY <1>5, <1>6, <1>7
\* An instant is chosen anew: what is under way are the workers, and a batch
\* but one slot.
LEMMA PaidAnew ==
  ASSUME PacerAssumption, PInv, UNCHANGED <<refills, windows>>, since'.sent = sent
  PROVE  PaidSince'
<1> DEFINE g == Count({"sent"})
           o == Count(Owing)
           n == Cardinality(Workers)
           kk == Cardinality(WindowsSince')
           pp == Cardinality(ReserversSince')
<1>1. /\ g \in Nat /\ o \in Nat /\ n \in Nat /\ g + o <= n
      /\ sent + g + o + batchRemaining = BatchSlots * refills
  BY CountBounds, SlotsAreCounts DEF PInv
<1>2. /\ sent \in Nat /\ batchRemaining \in Nat /\ batchRemaining <= BatchSlots - 1
      /\ BatchSlots \in Nat
  BY DEF PInv, TypeOK, PacerAssumption
<1>3. kk \in Nat /\ pp \in Nat
  <2>1. WindowsSince' \subseteq windows /\ ReserversSince' \subseteq Workers
    BY DEF WindowsSince, ReserversSince
  <2> QED BY <2>1, FS_Subset, FS_CardinalityType
          DEF PInv, WindowsBeforeTick, PacerAssumption
<1> SUFFICES BatchSlots * refills - sent <= n + BatchSlots - 1 + BatchSlots * (kk + pp)
  BY DEF PaidSince
<1> HIDE DEF g, o, n, kk, pp
<1>4. BatchSlots * (kk + pp) \in Nat
  BY <1>2, <1>3
<1> QED BY <1>1, <1>2, <1>4

\* One more batch, and one more worker that will reserve a window for it.
LEMMA PaidRefill ==
  ASSUME PacerAssumption, PInv, NEW w \in Workers, Refill(w), Swapped(w)
  PROVE  PaidSince'
<1> DEFINE k == Cardinality(WindowsSince)
           p == Cardinality(ReserversSince)
           n == Cardinality(Workers)
<1>1. /\ pc[w] = "refill" /\ pc' = [pc EXCEPT ![w] = "wait"] /\ refills' = refills + 1
      /\ UNCHANGED <<seen, windows, since>> /\ pc \in [Workers -> Labels]
  BY DEF Refill, At, Go, PInv, TypeOK, Labels
<1>2. ReserversSince' = ReserversSince \cup {w} /\ w \notin ReserversSince
  BY <1>1 DEF ReserversSince
<1>3. Cardinality(ReserversSince') = p + 1
  BY <1>2, SinceCounts, FS_AddElement
<1>4. Cardinality(WindowsSince') = k
  BY <1>1 DEF WindowsSince
<1>5. /\ BatchSlots \in Nat \ {0} /\ n \in Nat /\ refills \in Nat /\ since.sent \in Int
      /\ k \in Nat /\ p \in Nat
      /\ BatchSlots * refills - since.sent <= n + BatchSlots - 1 + BatchSlots * (k + p)
  BY CountBounds, SinceCounts DEF PInv, PaidSince, TypeOK, PacerAssumption
<1> SUFFICES BatchSlots * (refills + 1) - since.sent
               <= n + BatchSlots - 1 + BatchSlots * (k + (p + 1))
  BY <1>1, <1>3, <1>4 DEF PaidSince
<1> HIDE DEF k, p, n
<1>6. /\ BatchSlots * (refills + 1) = BatchSlots * refills + BatchSlots
      /\ BatchSlots * (k + (p + 1)) = BatchSlots * (k + p) + BatchSlots
  BY <1>5
<1>7. BatchSlots * (k + p) \in Int /\ BatchSlots * refills \in Int
  BY <1>5
<1> QED BY <1>5, <1>6, <1>7

\* A worker that loaded the clock since that instant reserves a window since.
LEMMA PaidReserve ==
  ASSUME PacerAssumption, PInv, NEW w \in Workers, Reserve(w), TickUnchanged(w)
  PROVE  PaidSince'
<1> DEFINE start == WindowStart(w)
           k == Cardinality(WindowsSince)
           p == Cardinality(ReserversSince)
<1>1. /\ start \in Nat /\ start >= seen[w] /\ start \notin windows
      /\ windows' = windows \cup {start}
  BY ReservedIsNew
<1>2. /\ pc[w] = "reserve" /\ pc' = [pc EXCEPT ![w] = "sleep"]
      /\ seen' = [seen EXCEPT ![w] = 0] /\ UNCHANGED <<refills, since>>
      /\ pc \in [Workers -> Labels] /\ seen \in [Workers -> Nat] /\ since.at \in Nat
  BY DEF Reserve, At, Go, PInv, TypeOK, LocalsOK, Labels
<1>3. IsFiniteSet(windows')
  BY <1>1, FS_AddElement DEF PInv, WindowsBeforeTick
<1> HIDE DEF start
<1>4. CASE seen[w] < since.at
  <2>1. ReserversSince \subseteq ReserversSince'
    BY <1>2, <1>4 DEF ReserversSince
  <2> QED BY <1>1, <1>2, <1>3, <2>1, PaidKept
<1>5. CASE seen[w] >= since.at
  <2>1. WindowsSince' = WindowsSince \cup {start} /\ start \notin WindowsSince
    BY <1>1, <1>2, <1>5 DEF WindowsSince
  <2>2. ReserversSince' = ReserversSince \ {w} /\ w \in ReserversSince
    BY <1>2, <1>5 DEF ReserversSince
  <2>3. Cardinality(WindowsSince') = k + 1
    BY <2>1, SinceCounts, FS_AddElement
  <2>4. Cardinality(ReserversSince') = p - 1
    BY <2>2, SinceCounts, FS_RemoveElement
  <2>5. k \in Nat /\ p \in Nat
    BY SinceCounts
  <2>6. (k + 1) + (p - 1) = k + p
    <3> HIDE DEF k, p
    <3> QED BY <2>5
  <2> QED BY <1>2, <2>3, <2>4, <2>6 DEF PInv, PaidSince
<1> QED BY <1>2, <1>4, <1>5

LEMMA PaidStep ==
  ASSUME PacerAssumption, PInv, [Next]_vars
  PROVE  PaidSince'
<1>0. /\ pc \in [Workers -> Labels] /\ IsFiniteSet(windows) /\ since.at \in Nat
      /\ now \in Nat /\ since.at <= now /\ seen \in [Workers -> Nat]
  BY DEF PInv, TypeOK, LocalsOK, WindowsBeforeTick, Labels
<1>1. CASE Tick
  <2>1. CASE since' = since
    <3>1. ReserversSince' = ReserversSince
      BY <1>1, <2>1 DEF Tick, ReserversSince, locals
    <3> QED BY <1>0, <1>1, <2>1, <3>1, PaidKept DEF Tick
  <2>2. CASE since' = [at |-> now', sent |-> sent]
    BY <1>1, <2>2, PaidAnew DEF Tick
  <2> QED BY <1>1, <2>1, <2>2 DEF Tick
<1>2. CASE UNCHANGED vars
  <2>1. ReserversSince' = ReserversSince
    BY <1>2 DEF vars, ReserversSince, locals, history
  <2> QED BY <1>0, <1>2, <2>1, PaidKept DEF vars, history
<1>3. ASSUME NEW w \in Workers, Load(w) \/ Take(w) \/ WakeUp(w) \/ Transmit(w)
      PROVE  PaidSince'
  <2>1. PICK there \in Labels \ {"wait", "reserve"} : Go(w, there)
    BY <1>3 DEF Load, Take, WakeUp, Transmit, Labels
  <2>2. pc[w] \notin {"wait", "reserve"} /\ UNCHANGED <<refills, since, windows, seen>>
    BY <1>3 DEF Load, Take, WakeUp, Transmit, At, locals, history
  <2>3. ReserversSince' = ReserversSince
    BY <1>0, <2>1, <2>2 DEF ReserversSince, Go
  <2> QED BY <1>0, <2>2, <2>3, PaidKept
<1>4. ASSUME NEW w \in Workers, Refill(w), ~ Swapped(w) PROVE PaidSince'
  <2>1. pc[w] = "refill" /\ Go(w, "load") /\ UNCHANGED <<refills, since, windows, seen>>
    BY <1>4 DEF Refill, At
  <2>2. ReserversSince' = ReserversSince
    BY <1>0, <2>1 DEF ReserversSince, Go
  <2> QED BY <1>0, <2>1, <2>2, PaidKept
<1>5. ASSUME NEW w \in Workers, WaitN(w) PROVE PaidSince'
  <2>1. /\ pc[w] = "wait" /\ Go(w, "reserve") /\ seen' = [seen EXCEPT ![w] = now]
        /\ UNCHANGED <<refills, since, windows>>
    BY <1>5 DEF WaitN, At, history
  <2>2. ReserversSince \subseteq ReserversSince'
    BY <1>0, <2>1 DEF ReserversSince, Go
  <2> QED BY <1>0, <2>1, <2>2, PaidKept
<1>6. ASSUME NEW w \in Workers, Reserve(w), ~ TickUnchanged(w) PROVE PaidSince'
  <2>1. /\ pc[w] = "reserve" /\ Go(w, "wait") /\ seen' = [seen EXCEPT ![w] = 0]
        /\ UNCHANGED <<refills, since, windows>>
    BY <1>6 DEF Reserve, At
  <2>2. ReserversSince \subseteq ReserversSince'
    BY <1>0, <2>1 DEF ReserversSince, Go
  <2> QED BY <1>0, <2>1, <2>2, PaidKept
<1> QED BY <1>1, <1>2, <1>3, <1>4, <1>5, <1>6, PaidRefill, PaidReserve
        DEF Next, Worker

LEMMA InitHolds == PacerAssumption /\ Init => PInv
<1> SUFFICES ASSUME PacerAssumption, Init PROVE PInv
  OBVIOUS
<1> USE DEF Init, PacerAssumption
<1>1. TypeOK /\ LocalsOK
  BY DEF TypeOK, LocalsOK
<1>2. WindowsBeforeTick /\ WindowsDisjoint
  BY FS_EmptySet DEF WindowsBeforeTick, WindowsDisjoint
<1>3. SlotsConserved
  <2>1. { w \in Workers : pc[w] = "sent" } = {}
        /\ { w \in Workers : pc[w] \in {"wait", "reserve", "sleep"} } = {}
    OBVIOUS
  <2> QED BY <2>1, FS_EmptySet DEF SlotsConserved
<1>4. LastBatchWhole
  BY DEF LastBatchWhole, Owing
<1>5. SleepersOwnUpcoming
  <2>1. Upcoming = {}
    BY DEF Upcoming
  <2>2. OwnedUpcoming([s \in {} |-> s])
    BY <2>1 DEF OwnedUpcoming
  <2> QED BY <2>2 DEF SleepersOwnUpcoming
<1>6. PaidSince
  <2>1. WindowsSince = {} /\ ReserversSince = {}
    BY DEF WindowsSince, ReserversSince
  <2>2. Cardinality(Workers) \in Nat
    BY CountBounds
  <2> QED BY <2>1, <2>2, FS_EmptySet DEF PaidSince
<1> QED BY <1>1, <1>2, <1>3, <1>4, <1>5, <1>6 DEF PInv

LEMMA Invariance ==
  ASSUME PacerAssumption PROVE Spec => []PInv
<1>1. Init => PInv
  BY InitHolds
<1>2. PInv /\ [Next]_vars => PInv'
  BY TypeStep, WindowsStep, SlotsStep, LastBatchStep, SleepersStep, PaidStep
     DEF PInv
<1> QED BY <1>1, <1>2, PTL DEF Spec
-----------------------------------------------------------------------------
(* How many windows the time elapsed has room for. *)

LEMMA QuotientBounds ==
  ASSUME NEW a \in Nat, NEW d \in Nat \ {0}
  PROVE  a \div d \in Nat /\ d * (a \div d) <= a /\ a < d * (a \div d + 1)
  OBVIOUS

LEMMA QuotientsDiffer ==
  ASSUME NEW a \in Nat, NEW b \in Nat, NEW d \in Nat \ {0}, a + d <= b
  PROVE  a \div d # b \div d
  BY QuotientBounds

LEMMA QuotientMonotone ==
  ASSUME NEW a \in Nat, NEW b \in Nat, NEW d \in Nat \ {0}, a <= b
  PROVE  a \div d <= b \div d
  OBVIOUS

Begun == { s \in WindowsSince : s <= now }

\* The windows that began since the earlier instant: one to a Span.
LEMMA BegunBound ==
  ASSUME PacerAssumption, PInv
  PROVE  /\ IsFiniteSet(Begun)
         /\ Cardinality(Begun) <= (now - since.at) \div Span + 1
<1> DEFINE d == (now - since.at) \div Span
<1>1. /\ Span \in Nat \ {0} /\ now \in Nat /\ since.at \in Nat /\ since.at <= now
      /\ windows \subseteq Nat
  BY SpanPositive DEF PInv, TypeOK, WindowsBeforeTick, PacerAssumption
<1>2. d \in Nat
  <2>1. now - since.at \in Nat
    BY <1>1
  <2> QED BY <1>1, <2>1, QuotientBounds
<1>3. PICK f : f = [s \in Begun |-> (s - since.at) \div Span]
  OBVIOUS
<1>4. \A s \in Begun : s \in windows /\ s - since.at \in Nat /\ s - since.at <= now - since.at
  BY <1>1 DEF Begun, WindowsSince
<1>5. \A s \in Begun : f[s] \in 0 .. d
  <2> SUFFICES ASSUME NEW s \in Begun PROVE (s - since.at) \div Span \in 0 .. d
    BY <1>3
  <2>1. s - since.at \in Nat /\ now - since.at \in Nat /\ s - since.at <= now - since.at
    BY <1>1, <1>4
  <2>2. /\ (s - since.at) \div Span \in Nat
        /\ (s - since.at) \div Span <= (now - since.at) \div Span
    BY <1>1, <2>1, QuotientBounds, QuotientMonotone
  <2> QED BY <1>2, <2>2
<1>6. \A s, t \in Begun : f[s] = f[t] => s = t
  <2> SUFFICES ASSUME NEW s \in Begun, NEW t \in Begun, s # t
               PROVE  (s - since.at) \div Span # (t - since.at) \div Span
    BY <1>3
  <2>1. s + Span <= t \/ t + Span <= s
    BY <1>4 DEF PInv, WindowsDisjoint
  <2>2. /\ s \in Nat /\ t \in Nat /\ s - since.at \in Nat /\ t - since.at \in Nat
    BY <1>1, <1>4
  <2>3. CASE s + Span <= t
    <3>1. (s - since.at) + Span <= t - since.at
      BY <1>1, <2>2, <2>3
    <3> QED BY <1>1, <2>2, <3>1, QuotientsDiffer
  <2>4. CASE t + Span <= s
    <3>1. (t - since.at) + Span <= s - since.at
      BY <1>1, <2>2, <2>4
    <3> QED BY <1>1, <2>2, <3>1, QuotientsDiffer
  <2> QED BY <2>1, <2>3, <2>4
<1> HIDE DEF d
<1>7. f \in Injection(Begun, 0 .. d)
  BY <1>3, <1>5, <1>6 DEF Injection, IsInjective
<1>8. IsFiniteSet(0 .. d) /\ Cardinality(0 .. d) = d + 1
  BY <1>2, FS_Interval
<1>9. IsFiniteSet(Begun) /\ Cardinality(Begun) <= d + 1
  BY <1>7, <1>8, FS_Injection
<1> QED BY <1>9 DEF d

\* The windows not begun belong to workers that owe one and have no other to
\* reserve.
LEMMA OwedBound ==
  ASSUME PacerAssumption, PInv
  PROVE  Cardinality(WindowsSince \ Begun) + Cardinality(ReserversSince) <= Count(Owing)
<1> DEFINE later == WindowsSince \ Begun
           sleepers == { w \in Workers : pc[w] = "sleep" }
           owing == { w \in Workers : pc[w] \in Owing }
<1>1. PICK f : OwnedUpcoming(f)
  BY DEF PInv, SleepersOwnUpcoming
<1>2. later \subseteq Upcoming
  <2>1. now \in Nat /\ windows \subseteq Nat
    BY DEF PInv, TypeOK, WindowsBeforeTick, PacerAssumption
  <2>2. \A s \in later : s \in windows /\ ~ (s <= now)
    BY DEF WindowsSince, Begun
  <2> HIDE DEF later
  <2>3. ASSUME NEW s \in later PROVE s > now
    <3>1. s \in Nat /\ now \in Nat /\ ~ (s <= now)
      BY <2>1, <2>2
    <3> QED BY <3>1
  <2> QED BY <2>2, <2>3 DEF Upcoming
<1>3. PICK h : h = [s \in later |-> f[s]]
  OBVIOUS
<1>4. IsFiniteSet(sleepers) /\ Cardinality(sleepers) \in Nat
  <2>1. sleepers = { w \in Workers : pc[w] \in {"sleep"} }
    OBVIOUS
  <2>2. IsFiniteSet(sleepers)
    BY <2>1, CountIsNat
  <2> QED BY <2>2, FS_CardinalityType
<1>5. h \in Injection(later, sleepers)
  BY <1>1, <1>2, <1>3 DEF Injection, IsInjective, OwnedUpcoming
<1>6. Cardinality(later) <= Cardinality(sleepers) /\ IsFiniteSet(later)
  <2> HIDE DEF later, sleepers
  <2> QED BY <1>4, <1>5, FS_Injection
<1>7. /\ ReserversSince \cap sleepers = {}
      /\ ReserversSince \cup sleepers \subseteq owing
  BY DEF ReserversSince, Owing
<1>8. IsFiniteSet(owing) /\ Count(Owing) = Cardinality(owing)
  BY CountIsNat DEF Count
<1> HIDE DEF later, sleepers, owing
<1>9. Cardinality(ReserversSince \cup sleepers)
        = Cardinality(ReserversSince) + Cardinality(sleepers)
  <2>1. Cardinality(ReserversSince \cap sleepers) = 0
    BY <1>7, FS_EmptySet
  <2>2. /\ Cardinality(ReserversSince) \in Nat
        /\ Cardinality(ReserversSince \cup sleepers)
             = Cardinality(ReserversSince) + Cardinality(sleepers)
                 - Cardinality(ReserversSince \cap sleepers)
    BY <1>4, SinceCounts, FS_Union
  <2> QED BY <2>1, <2>2, <1>4
<1>10. Cardinality(ReserversSince \cup sleepers) <= Cardinality(owing)
  BY <1>7, <1>8, FS_Subset
<1>11. /\ Cardinality(later) \in Nat /\ Cardinality(ReserversSince) \in Nat
       /\ Cardinality(owing) \in Nat
  BY <1>6, <1>8, SinceCounts, FS_CardinalityType
<1>12. Cardinality(later) + Cardinality(ReserversSince) <= Cardinality(owing)
  BY <1>4, <1>6, <1>9, <1>10, <1>11
<1> QED BY <1>8, <1>12 DEF later

\* (b - 1) * o <= (b - 1) * (n - 1), written out.
LEMMA OneWorkerLess ==
  ASSUME NEW b \in Nat \ {0}, NEW o \in Nat, NEW n \in Nat \ {0}, o <= n - 1
  PROVE  b * o - o <= b * n - b - n + 1
<1>1. (b - 1) * o <= (b - 1) * (n - 1)
  BY TimesMonotone
<1>2. (b - 1) * o = b * o - o
  OBVIOUS
<1>3. (b - 1) * (n - 1) = b * n - b - n + 1
  OBVIOUS
<1> QED BY <1>1, <1>2, <1>3

LEMMA RateHolds ==
  ASSUME PacerAssumption, PInv
  PROVE  AverageRate
<1> DEFINE n == Cardinality(Workers)
           g == Count({"sent"})
           o == Count(Owing)
           d == (now - since.at) \div Span
           k == Cardinality(WindowsSince)
           p == Cardinality(ReserversSince)
           b == BatchSlots
           r == batchRemaining
<1>1. /\ n \in Nat \ {0} /\ g \in Nat /\ o \in Nat /\ g + o <= n
      /\ k \in Nat /\ p \in Nat
      /\ sent + g + o + r = b * refills
      /\ b * refills - since.sent <= n + b - 1 + b * (k + p)
  BY CountBounds, SinceCounts, SlotsAreCounts DEF PInv, PaidSince
<1>2. /\ b \in Nat \ {0} /\ r \in 0 .. b - 1 /\ sent \in Nat /\ since.sent \in Int
      /\ refills \in Nat
  BY DEF PInv, TypeOK, PacerAssumption
<1>3. d \in Nat
  <2>1. now - since.at \in Nat
    BY DEF PInv, TypeOK, PacerAssumption
  <2> QED BY <2>1, SpanPositive, QuotientBounds
<1>4. k + p <= d + 1 + o
  <2>1. Begun \subseteq WindowsSince
    BY DEF Begun
  <2>2. k = Cardinality(Begun) + Cardinality(WindowsSince \ Begun)
    <3>1. Cardinality(WindowsSince \ Begun)
            = Cardinality(WindowsSince) - Cardinality(WindowsSince \cap Begun)
      BY SinceCounts, FS_Difference
    <3>2. WindowsSince \cap Begun = Begun
      BY <2>1
    <3>3. Cardinality(Begun) \in Nat
      BY BegunBound, FS_CardinalityType
    <3>4. Cardinality(WindowsSince \ Begun) = k - Cardinality(Begun)
      BY <3>1, <3>2
    <3> HIDE DEF k
    <3> QED BY <1>1, <3>3, <3>4
  <2>3. Cardinality(Begun) \in Nat /\ Cardinality(WindowsSince \ Begun) \in Nat
    BY BegunBound, SinceCounts, FS_Difference, FS_CardinalityType
  <2>4. /\ Cardinality(Begun) <= d + 1
        /\ Cardinality(WindowsSince \ Begun) + p <= o
    BY BegunBound, OwedBound
  <2> HIDE DEF k, p, d, o
  <2> QED BY <1>1, <1>3, <2>2, <2>3, <2>4
<1>5. o = n => r = b - 1
  <2> SUFFICES ASSUME o = n PROVE r = b - 1
    OBVIOUS
  <2>1. { w \in Workers : pc[w] \in Owing } = Workers
    <3>1. { w \in Workers : pc[w] \in Owing } \subseteq Workers
      OBVIOUS
    <3> QED BY <3>1, FS_Subset DEF Count, PacerAssumption
  <2> QED BY <2>1 DEF PInv, LastBatchWhole
<1> SUFFICES sent - since.sent <= b * (d + 1 + n)
  BY DEF AverageRate
<1> HIDE DEF n, g, o, d, k, p, b, r
<1>6. b * (k + p) <= b * (d + 1 + o)
  BY <1>1, <1>2, <1>3, <1>4, TimesMonotone
<1>7. /\ b * (d + 1 + o) = b * (d + 1) + b * o
      /\ b * (d + 1 + n) = b * (d + 1) + b * n
  BY <1>1, <1>2, <1>3
<1>8. /\ b * (k + p) \in Int /\ b * (d + 1) \in Int /\ b * o \in Int /\ b * n \in Int
      /\ b * refills \in Int
  BY <1>1, <1>2, <1>3
<1>9. sent - since.sent <= n + b - 1 + b * (d + 1) + b * o - g - o - r
  BY <1>1, <1>2, <1>6, <1>7, <1>8
<1>10. CASE o = n
  BY <1>1, <1>2, <1>5, <1>7, <1>8, <1>9, <1>10
<1>11. CASE o # n
  <2>1. o <= n - 1
    BY <1>1, <1>11
  <2>2. b * o - o <= b * n - b - n + 1
    BY <1>1, <1>2, <2>1, OneWorkerLess
  <2> QED BY <1>1, <1>2, <1>7, <1>8, <1>9, <2>2
<1> QED BY <1>10, <1>11

-----------------------------------------------------------------------------
(* The theorems. *)

\* The pacer's clock, tick, batch and history keep their ranges; the batch in
\* particular never goes below none nor above what a refill leaves.
THEOREM TypeCorrect ==
  ASSUME PacerAssumption PROVE Spec => []TypeOK
<1>1. PInv => TypeOK
  BY DEF PInv
<1> QED BY <1>1, Invariance, PTL

\* acquireBatched's compare-and-swaps: of every batch paid for, each slot is
\* spent once, is somebody's, or is left, however the workers interleave.
THEOREM SlotsAreConserved ==
  ASSUME PacerAssumption PROVE Spec => []SlotsConserved
<1>1. PInv => SlotsConserved
  BY DEF PInv
<1> QED BY <1>1, Invariance, PTL

\* WaitN's compare-and-swap: no two windows reserved overlap.
THEOREM WindowsAreDisjoint ==
  ASSUME PacerAssumption PROVE Spec => []WindowsDisjoint
<1>1. PInv => WindowsDisjoint
  BY DEF PInv
<1> QED BY <1>1, Invariance, PTL

\* The rate over any stretch of time, for every number of workers, batch size
\* and interval: idle time is never banked, and the batches under way are all
\* that a burst can add.
THEOREM KeepsTheAverageRate ==
  ASSUME PacerAssumption PROVE Spec => []AverageRate
<1>1. PInv => AverageRate
  BY RateHolds
<1> QED BY <1>1, Invariance, PTL
=============================================================================
