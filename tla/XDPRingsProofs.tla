--------------------------- MODULE XDPRingsProofs ---------------------------
(***************************************************************************)
(* Theorems about XDPRings, for any size of the rings, any queue, batch    *)
(* and number of fragments, and all scanners, decoys and replies.          *)
(*                                                                         *)
(* GetDescs leaves the frames it hands out in the table of free frames, so *)
(* what it returned is true only while no other goroutine uses the table:  *)
(* the invariant says who holds xdpSockLock, that whoever has frames in    *)
(* hand holds it, and that these frames are free and different.  The       *)
(* frames in hand are then in no ring, and the kernel, which knows nothing *)
(* of the lock, writes to none of them.                                    *)
(***************************************************************************)
EXTENDS XDPRings, FiniteSetTheorems, SequenceTheorems, TLAPS

Distinct(s) == \A i, j \in 1 .. Len(s) : s[i] = s[j] => i = j

-----------------------------------------------------------------------------
(* Sequences: their elements, and the first of them. *)

LEMMA ElemsOf ==
  ASSUME NEW S, NEW s \in Seq(S)
  PROVE  /\ Len(s) \in Nat /\ Elems(s) \subseteq S
         /\ \A i \in 1 .. Len(s) : s[i] \in Elems(s)
         /\ \A x \in Elems(s) : \E i \in 1 .. Len(s) : x = s[i]
  BY DEF Elems

LEMMA ElemsConcat ==
  ASSUME NEW S, NEW s \in Seq(S), NEW t \in Seq(S)
  PROVE  /\ s \o t \in Seq(S) /\ Len(s \o t) = Len(s) + Len(t)
         /\ Elems(s \o t) = Elems(s) \cup Elems(t)
         /\ Distinct(s) /\ Distinct(t) /\ Elems(s) \cap Elems(t) = {}
              => Distinct(s \o t)
<1>1. /\ s \o t \in Seq(S) /\ Len(s \o t) = Len(s) + Len(t)
      /\ Len(s) \in Nat /\ Len(t) \in Nat
      /\ \A i \in 1 .. Len(s) + Len(t) :
           (s \o t)[i] = IF i <= Len(s) THEN s[i] ELSE t[i - Len(s)]
  OBVIOUS
<1> DEFINE c == s \o t
<1> HIDE DEF c
<1>2. ASSUME NEW x \in Elems(c) PROVE x \in Elems(s) \cup Elems(t)
  <2>1. PICK i \in 1 .. Len(s) + Len(t) : x = c[i]
    BY <1>1, <1>2 DEF Elems, c
  <2>2. CASE i <= Len(s)
    BY <1>1, <2>1, <2>2 DEF Elems, c
  <2>3. CASE i > Len(s)
    <3>1. i - Len(s) \in 1 .. Len(t) /\ x = t[i - Len(s)]
      BY <1>1, <2>1, <2>3 DEF c
    <3> QED BY <3>1 DEF Elems
  <2> QED BY <1>1, <2>2, <2>3
<1>3. ASSUME NEW x \in Elems(s) PROVE x \in Elems(c)
  <2>1. PICK i \in 1 .. Len(s) : x = s[i]
    BY DEF Elems
  <2>2. i \in 1 .. Len(s) + Len(t) /\ x = c[i]
    BY <1>1, <2>1 DEF c
  <2> QED BY <1>1, <2>2 DEF Elems, c
<1>4. ASSUME NEW x \in Elems(t) PROVE x \in Elems(c)
  <2>1. PICK i \in 1 .. Len(t) : x = t[i]
    BY DEF Elems
  <2>2. Len(s) + i \in 1 .. Len(s) + Len(t) /\ x = c[Len(s) + i]
    BY <1>1, <2>1 DEF c
  <2> QED BY <1>1, <2>2 DEF Elems, c
<1>5. ASSUME NEW i \in 1 .. Len(c)
      PROVE  /\ i <= Len(s) => i \in 1 .. Len(s) /\ c[i] = s[i] /\ c[i] \in Elems(s)
             /\ i > Len(s) => /\ i - Len(s) \in 1 .. Len(t)
                              /\ c[i] = t[i - Len(s)] /\ c[i] \in Elems(t)
  <2>1. CASE i <= Len(s)
    <3>1. i \in 1 .. Len(s) /\ c[i] = s[i]
      BY <1>1, <2>1 DEF c
    <3> QED BY <1>1, <2>1, <3>1 DEF Elems
  <2>2. CASE i > Len(s)
    <3>1. i - Len(s) \in 1 .. Len(t) /\ c[i] = t[i - Len(s)]
      BY <1>1, <2>2 DEF c
    <3> QED BY <1>1, <2>2, <3>1 DEF Elems
  <2> QED BY <1>1, <2>1, <2>2 DEF c
<1>6. ASSUME Distinct(s), Distinct(t), Elems(s) \cap Elems(t) = {},
             NEW i \in 1 .. Len(c), NEW j \in 1 .. Len(c), c[i] = c[j]
      PROVE  i = j
  <2>0. Len(s) \in Nat /\ i \in Int /\ j \in Int
    BY <1>1 DEF c
  <2>1. CASE i <= Len(s) /\ j <= Len(s)
    <3>1. i \in 1 .. Len(s) /\ j \in 1 .. Len(s) /\ s[i] = s[j]
      BY <1>5, <1>6, <2>1
    <3> QED BY <1>6, <3>1 DEF Distinct
  <2>2. CASE i > Len(s) /\ j > Len(s)
    <3>1. i - Len(s) \in 1 .. Len(t) /\ j - Len(s) \in 1 .. Len(t)
          /\ t[i - Len(s)] = t[j - Len(s)]
      BY <1>5, <1>6, <2>2
    <3>2. i - Len(s) = j - Len(s)
      BY <1>6, <3>1 DEF Distinct
    <3> QED BY <2>0, <3>2
  <2>3. CASE i <= Len(s) /\ j > Len(s)
    BY <1>5, <1>6, <2>3
  <2>4. CASE i > Len(s) /\ j <= Len(s)
    BY <1>5, <1>6, <2>4
  <2> QED BY <2>0, <2>1, <2>2, <2>3, <2>4
<1> QED BY <1>1, <1>2, <1>3, <1>4, <1>6 DEF Distinct, c

LEMMA FirstOnes ==
  ASSUME NEW S, NEW s \in Seq(S), NEW room \in Nat
  PROVE  /\ Fitting(s, room) \in Seq(S)
         /\ Len(s) \in Nat /\ Len(Fitting(s, room)) = AtMost(Len(s), room)
         /\ AtMost(Len(s), room) \in Nat
         /\ AtMost(Len(s), room) <= Len(s) /\ AtMost(Len(s), room) <= room
         /\ \A i \in 1 .. AtMost(Len(s), room) : Fitting(s, room)[i] = s[i]
         /\ Elems(Fitting(s, room)) \subseteq Elems(s)
         /\ Distinct(s) => Distinct(Fitting(s, room))
<1> DEFINE n == AtMost(Len(s), room)
           f == Fitting(s, room)
<1>1. Len(s) \in Nat /\ n \in Nat /\ n <= Len(s) /\ n <= room
  BY DEF AtMost
<1>2. f = SubSeq(s, 1, n)
  BY DEF Fitting
<1> HIDE DEF n, f
<1>3. \A i \in 1 .. Len(s) : s[i] \in S
  OBVIOUS
<1>4. f \in Seq(S) /\ Len(f) = n /\ \A i \in 1 .. n : f[i] = s[i]
  BY <1>1, <1>2, <1>3
<1>5. Elems(f) \subseteq Elems(s)
  BY <1>1, <1>4 DEF Elems
<1>6. Distinct(s) => Distinct(f)
  BY <1>1, <1>4 DEF Distinct
<1> QED BY <1>1, <1>4, <1>5, <1>6 DEF n, f

\* What is left without the first.
LEMMA Without1st ==
  ASSUME NEW S, NEW s \in Seq(S), s # <<>>
  PROVE  /\ Tail(s) \in Seq(S) /\ Len(s) \in Nat \ {0} /\ Len(Tail(s)) = Len(s) - 1
         /\ Head(s) = s[1] /\ s[1] \in S
         /\ \A i \in 1 .. Len(s) - 1 : Tail(s)[i] = s[i + 1]
         /\ Elems(s) = {Head(s)} \cup Elems(Tail(s))
         /\ Distinct(s) => Distinct(Tail(s)) /\ Head(s) \notin Elems(Tail(s))
<1>1. /\ Tail(s) \in Seq(S) /\ Len(s) \in Nat \ {0} /\ Len(Tail(s)) = Len(s) - 1
      /\ Head(s) = s[1] /\ s[1] \in S
      /\ \A i \in 1 .. Len(s) - 1 : Tail(s)[i] = s[i + 1]
  OBVIOUS
<1> DEFINE t == Tail(s)
<1> HIDE DEF t
<1>2. ASSUME NEW x \in Elems(s) PROVE x = s[1] \/ x \in Elems(t)
  <2>1. PICK i \in 1 .. Len(s) : x = s[i]
    BY DEF Elems
  <2>2. CASE i # 1
    <3>1. i - 1 \in 1 .. Len(t) /\ t[i - 1] = s[i]
      <4>1. i - 1 \in 1 .. Len(s) - 1 /\ (i - 1) + 1 = i
        BY <1>1, <2>2
      <4> QED BY <1>1, <4>1 DEF t
    <3> QED BY <2>1, <3>1 DEF Elems
  <2> QED BY <2>1, <2>2
<1>3. ASSUME NEW x \in Elems(t)
      PROVE  \E i \in 1 .. Len(s) : i # 1 /\ x = s[i]
  <2>1. PICK i \in 1 .. Len(s) - 1 : x = t[i]
    BY <1>1 DEF Elems, t
  <2>2. i + 1 \in 1 .. Len(s) /\ i + 1 # 1 /\ x = s[i + 1]
    BY <1>1, <2>1 DEF t
  <2> QED BY <2>2
<1>4. s[1] \in Elems(s) /\ 1 \in 1 .. Len(s)
  BY <1>1 DEF Elems
<1>5. Elems(t) \subseteq Elems(s)
  BY <1>3 DEF Elems
<1>6. ASSUME Distinct(s) PROVE Distinct(t) /\ s[1] \notin Elems(t)
  <2>1. s[1] \notin Elems(t)
    BY <1>3, <1>4, <1>6 DEF Distinct
  <2>2. ASSUME NEW i \in 1 .. Len(t), NEW j \in 1 .. Len(t), t[i] = t[j] PROVE i = j
    <3>1. i + 1 \in 1 .. Len(s) /\ j + 1 \in 1 .. Len(s) /\ s[i + 1] = s[j + 1]
      BY <1>1, <2>2 DEF t
    <3>2. i + 1 = j + 1
      BY <1>6, <3>1 DEF Distinct
    <3> QED BY <3>2
  <2> QED BY <2>1, <2>2 DEF Distinct
<1> QED BY <1>1, <1>2, <1>4, <1>5, <1>6 DEF t

\* No more elements than the sequence has places.
LEMMA ElemsFinite ==
  ASSUME NEW S, NEW s \in Seq(S)
  PROVE  IsFiniteSet(Elems(s)) /\ Cardinality(Elems(s)) \in Nat
         /\ Cardinality(Elems(s)) <= Len(s)
<1>1. Len(s) \in Nat
  OBVIOUS
<1>2. IsFiniteSet(1 .. Len(s)) /\ Cardinality(1 .. Len(s)) = Len(s)
  BY <1>1, FS_Interval
<1>3. Elems(s) = { s[i] : i \in 1 .. Len(s) }
  BY DEF Elems
<1>4. IsFiniteSet(Elems(s)) /\ Cardinality(Elems(s)) <= Cardinality(1 .. Len(s))
  <2> DEFINE g == [i \in 1 .. Len(s) |-> s[i]]
  <2>1. g \in Surjection(1 .. Len(s), Elems(s))
    BY <1>3 DEF Surjection
  <2> HIDE DEF g
  <2> QED BY <1>2, <2>1, FS_Surjection
<1> QED BY <1>2, <1>4, FS_CardinalityType

-----------------------------------------------------------------------------
(* The invariant: who holds the lock, and where the frames are. *)

Labels == {"refill", "fill", "poll", "copy", "handle", "answer", "reset",
           "idle", "flush", "transmit", "done"}

\* Between a GetDescs, or a Receive, and the use of what it returned.
Critical == {"fill", "copy", "reset", "transmit"}

Control ==
  /\ xdpSockLock \in Threads \cup {Nobody}
  /\ pc \in [Threads -> Labels]
  /\ pc["rx"] \in {"refill", "fill", "poll", "copy", "handle", "answer", "reset"}
  /\ pc["flusher"] \in {"idle", "flush", "transmit"}
  /\ \A d \in Decoys : pc[d] \in {"idle", "transmit", "done"}
  /\ \A t \in Threads : pc[t] \in Critical => xdpSockLock = t

\* Only who holds the lock has frames in hand, and they are free.
Handed ==
  /\ descs \in [Threads -> Seq(Frames)]
  /\ \A t \in Threads : IF pc[t] \in Critical
                         THEN Distinct(descs[t]) /\ Elems(descs[t]) \subseteq free
                         ELSE descs[t] = <<>>

Located ==
  /\ free \subseteq Frames /\ fillRing \subseteq Frames /\ rxRing \subseteq Frames
  /\ completionRing \subseteq Frames /\ txRing \in Seq(Frames)
  /\ EachFrameInOnePlace

Fits ==
  /\ Cardinality(fillRing) <= Ring /\ Cardinality(rxRing) <= Ring
  /\ Len(txRing) <= Ring /\ Cardinality(completionRing) <= Ring

\* What a flush sends, and what waits for the next.
ProbeFrames == { ProbeFrame(s, k) : s \in Scanners, k \in 1 .. Fragments }

Batches ==
  /\ xdpTxQueue \in Seq(ProbeFrames) /\ Len(xdpTxQueue) <= QueueSize
  /\ batch \in Seq(ProbeFrames) /\ Len(batch) <= TxBatchSize
  /\ pc["flusher"] = "idle" <=> batch = <<>>
  /\ queued \in [Scanners -> 0 .. Fragments]
  /\ outcome \in [Scanners -> {"sending", "sent", "congested"}]
  /\ \A s \in Scanners : outcome[s] = "sending" => queued[s] < Fragments

FramesInv == Control /\ Handed /\ Located /\ Fits /\ Batches /\ AlwaysAFrameToSend

-----------------------------------------------------------------------------
(* The steps, by what they do to the lock and to the frames. *)

Acquire(t, to, ds) ==
  /\ pc[t] \notin Critical /\ to \in Critical
  /\ xdpSockLock = Nobody /\ xdpSockLock' = t
  /\ Goto(t, to) /\ Hold(t, ds)

Release(t, to) ==
  /\ pc[t] \in Critical /\ to \notin Critical
  /\ xdpSockLock' = Nobody /\ Goto(t, to) /\ Hold(t, <<>>)

Aside ==
  /\ UNCHANGED <<xdpSockLock, descs>>
  /\ \A t \in Threads : pc'[t] = pc[t] \/ (pc[t] \notin Critical /\ pc'[t] \notin Critical)

LookStep ==
  \E t \in Threads, n \in Nat, to \in {"fill", "reset", "transmit"} :
    /\ \E ds \in Descs(n, free') : Acquire(t, to, ds)
    /\ \/ to = "fill" /\ free' = free \cup completionRing
       \/ to # "fill" /\ n # 0 /\ free' = Reclaimed(n)
    /\ completionRing' = completionRing \ free'
    /\ UNCHANGED <<fillRing, rxRing, txRing, mem>>

FillStep ==
  /\ pc["rx"] = "fill" /\ Release("rx", "poll")
  /\ LET filled == Elems(Fitting(descs["rx"], Ring - Cardinality(fillRing)))
     IN  fillRing' = fillRing \cup filled /\ free' = free \ filled
  /\ UNCHANGED <<rxRing, txRing, completionRing, mem>>

TakeStep ==
  /\ \E ds \in Descs(Ring, rxRing) : Acquire("rx", "copy", ds)
  /\ rxRing' = {} /\ free' = free \cup rxRing
  /\ UNCHANGED <<fillRing, txRing, completionRing, mem>>

CopyStep == Release("rx", "handle") /\ UNCHANGED rings

TransmitStep ==
  \E t \in Threads, to \in {"handle", "idle", "done"} :
    Release(t, to) /\ \E contents : Transmit(descs[t], contents)

KernelStep == Aside /\ (KernelReceive \/ KernelSend)

AsideStep == Aside /\ UNCHANGED rings

LEMMA DescsOf ==
  ASSUME NEW n \in Nat, NEW avail, IsFiniteSet(avail), NEW ds \in Descs(n, avail)
  PROVE  /\ ds \in Seq(avail) /\ Distinct(ds) /\ Elems(ds) \subseteq avail
         /\ Cardinality(avail) \in Nat /\ Len(ds) = AtMost(n, Cardinality(avail))
<1> DEFINE k == AtMost(n, Cardinality(avail))
<1>1. Cardinality(avail) \in Nat /\ k \in Nat
  BY FS_CardinalityType DEF AtMost
<1>2. ds \in [1 .. k -> avail] /\ \A i, j \in 1 .. k : ds[i] = ds[j] => i = j
  BY DEF Descs
<1> HIDE DEF k
<1>3. ds \in Seq(avail) /\ Len(ds) = k
  BY <1>1, <1>2
<1> QED BY <1>1, <1>2, <1>3 DEF Distinct, Elems, k

LEMMA Capacities ==
  ASSUME RingsAssumption, Located
  PROVE  /\ IsFiniteSet(free) /\ IsFiniteSet(fillRing) /\ IsFiniteSet(rxRing)
         /\ IsFiniteSet(completionRing)
         /\ Cardinality(free) \in Nat /\ Cardinality(fillRing) \in Nat
         /\ Cardinality(rxRing) \in Nat /\ Cardinality(completionRing) \in Nat
         /\ Ring \in Nat \ {0} /\ IsFiniteSet(Frames)
<1>1. IsFiniteSet(Frames) /\ Ring \in Nat \ {0}
  BY DEF RingsAssumption
<1>2. /\ IsFiniteSet(free) /\ IsFiniteSet(fillRing) /\ IsFiniteSet(rxRing)
      /\ IsFiniteSet(completionRing)
  BY <1>1, FS_Subset DEF Located
<1> QED BY <1>1, <1>2, FS_CardinalityType

LEMMA Kinds ==
  ASSUME RingsAssumption, FramesInv, Next
  PROVE  LookStep \/ FillStep \/ TakeStep \/ CopyStep \/ TransmitStep
           \/ KernelStep \/ AsideStep
<1> USE DEF Goto, rings
<1>0. /\ "rx" \in Threads /\ "flusher" \in Threads /\ Decoys \subseteq Threads
      /\ pc \in [Threads -> Labels] /\ Control
  BY DEF Threads, FramesInv, Control
<1>1. ASSUME NEW t \in Threads, NEW from \in Labels \ Critical, NEW to \in {"reset", "transmit"},
             NEW n \in Nat \ {0}, GetDescsToSend(t, from, to, n)
      PROVE  LookStep
  <2>1. PICK ds \in Descs(n, free') : Hold(t, ds)
    BY <1>1 DEF GetDescsToSend
  <2>2. Acquire(t, to, ds)
    BY <1>1, <2>1 DEF GetDescsToSend, Acquire, Lock, LockFree, Critical
  <2> QED BY <1>1, <2>1, <2>2 DEF GetDescsToSend, LookStep
<1>2. ASSUME NEW t \in Threads, NEW from \in {"reset", "transmit"},
             NEW to \in {"handle", "idle", "done"}, NEW contents, pc[t] = from,
             Transmit(descs[t], contents), Hold(t, <<>>), Unlock, Goto(t, to)
      PROVE  TransmitStep
  <2>1. Release(t, to)
    BY <1>2 DEF Release, Critical, Unlock
  <2> QED BY <1>2, <2>1 DEF TransmitStep
<1>3. CASE Refill
  <2>1. CASE pc["rx"] = "refill"
    <3> DEFINE n == Ring - Cardinality(fillRing)
    <3>1. n \in Nat
      BY Capacities DEF FramesInv, Fits
    <3>2. /\ Lock("rx") /\ free' = free \cup completionRing /\ completionRing' = {}
          /\ \E ds \in Descs(n, free') : Hold("rx", ds)
          /\ Goto("rx", "fill") /\ UNCHANGED <<fillRing, rxRing, txRing, mem>>
      BY <1>3, <2>1 DEF Refill
    <3> HIDE DEF n
    <3>3. PICK ds \in Descs(n, free') : Hold("rx", ds)
      BY <3>2
    <3>4. Acquire("rx", "fill", ds)
      BY <2>1, <3>2, <3>3 DEF Acquire, Lock, LockFree, Critical
    <3>5. completionRing' = completionRing \ free'
      BY <3>2
    <3> QED BY <1>0, <3>1, <3>2, <3>4, <3>5 DEF LookStep
  <2>2. CASE pc["rx"] # "refill"
    BY <1>3, <2>2 DEF Refill, FillStep, Release, Critical, Unlock
  <2> QED BY <2>1, <2>2
<1>4. CASE Take
  <2>1. CASE pc["rx"] = "poll" /\ Goto("rx", "refill")
    <3>1. ~ Goto("rx", "copy")
      BY <1>0, <2>1
    <3>2. UNCHANGED <<rings, xdpSockLock, descs>>
      BY <1>4, <2>1, <3>1 DEF Take
    <3>3. Aside
      BY <1>0, <2>1, <3>2 DEF Aside, Critical
    <3> QED BY <3>2, <3>3 DEF AsideStep
  <2>2. CASE pc["rx"] = "poll" /\ ~ Goto("rx", "refill")
    <3>1. /\ TakeLocked /\ \E ds \in Descs(Ring, rxRing) : Hold("rx", ds)
          /\ rxRing' = {} /\ free' = free \cup rxRing /\ Goto("rx", "copy")
          /\ UNCHANGED <<fillRing, txRing, completionRing, mem>>
      BY <1>4, <2>2 DEF Take
    <3> QED BY <2>2, <3>1 DEF TakeStep, Acquire, TakeLocked, Lock, LockFree, Critical
  <2>3. CASE pc["rx"] # "poll"
    BY <1>4, <2>3 DEF Take, CopyStep, Release, Critical, Unlock
  <2> QED BY <2>1, <2>2, <2>3
<1>5. CASE Handle
  <2>1. CASE pc["rx"] = "handle"
    <3>1. /\ pc' = pc \/ Goto("rx", "refill") \/ Goto("rx", "answer")
          /\ UNCHANGED <<rings, xdpSockLock, descs>>
      BY <1>5, <2>1 DEF Handle, GetDescsToSend
    <3>2. Aside
      BY <1>0, <2>1, <3>1 DEF Aside, Critical
    <3> QED BY <3>1, <3>2 DEF AsideStep
  <2>2. CASE pc["rx"] = "answer"
    <3>1. GetDescsToSend("rx", "answer", "reset", 1)
      BY <1>5, <2>2 DEF Handle
    <3>2. "answer" \in Labels \ Critical
      BY DEF Labels, Critical
    <3> QED BY <1>0, <1>1, <3>1, <3>2
  <2>3. CASE pc["rx"] = "reset"
    <3>1. /\ Transmit(descs["rx"], <<Reset(Head(copies)[2])>>) /\ Hold("rx", <<>>)
          /\ Unlock /\ Goto("rx", "handle")
      BY <1>5, <2>3 DEF Handle, GetDescsToSend
    <3> QED BY <1>0, <1>2, <2>3, <3>1
  <2> QED BY <1>5, <2>1, <2>2, <2>3 DEF Handle, GetDescsToSend
<1>6. ASSUME NEW d \in Decoys, SendDecoy(d)
      PROVE  LookStep \/ TransmitStep
  <2>1. CASE pc[d] = "idle"
    <3>1. GetDescsToSend(d, "idle", "transmit", 1)
      BY <1>6, <2>1 DEF SendDecoy
    <3>2. "idle" \in Labels \ Critical
      BY DEF Labels, Critical
    <3> QED BY <1>0, <1>1, <3>1, <3>2
  <2>2. CASE pc[d] = "transmit"
    <3>1. /\ Transmit(descs[d], <<DecoyFrame(d)>>) /\ Hold(d, <<>>)
          /\ Unlock /\ Goto(d, "done")
      BY <1>6, <2>2 DEF SendDecoy, GetDescsToSend
    <3> QED BY <1>0, <1>2, <2>2, <3>1
  <2> QED BY <1>6, <2>1, <2>2 DEF SendDecoy, GetDescsToSend
<1>7. CASE xdpFlushBatch
  <2>1. CASE pc["flusher"] = "flush"
    <3>1. GetDescsToSend("flusher", "flush", "transmit", Len(batch))
      BY <1>7, <2>1 DEF xdpFlushBatch
    <3>2. "flush" \in Labels \ Critical
      BY DEF Labels, Critical
    <3>3. Len(batch) \in Nat \ {0}
      BY <2>1 DEF FramesInv, Batches
    <3> QED BY <1>0, <1>1, <3>1, <3>2, <3>3
  <2>2. CASE pc["flusher"] = "transmit"
    <3>1. /\ Transmit(descs["flusher"], batch) /\ Hold("flusher", <<>>)
          /\ Unlock /\ Goto("flusher", "idle")
      BY <1>7, <2>2 DEF xdpFlushBatch, GetDescsToSend
    <3> QED BY <1>0, <1>2, <2>2, <3>1
  <2> QED BY <1>7, <2>1, <2>2 DEF xdpFlushBatch, GetDescsToSend
<1>8. CASE Coalesce
  <2>1. Aside
    BY <1>0, <1>8 DEF Coalesce, Aside, Critical
  <2> QED BY <1>8, <2>1 DEF Coalesce, AsideStep
<1>9. ASSUME NEW s \in Scanners, TransmitFrame(s) PROVE AsideStep
  BY <1>9 DEF TransmitFrame, Aside, AsideStep
<1>10. CASE KernelReceive \/ KernelSend
  BY <1>10 DEF KernelReceive, KernelSend, Aside, KernelStep
<1> QED BY <1>3, <1>4, <1>5, <1>6, <1>7, <1>8, <1>9, <1>10 DEF Next

-----------------------------------------------------------------------------
(* The invariant is kept. *)

LEMMA ControlStep ==
  ASSUME RingsAssumption, FramesInv, Next PROVE Control'
<1>0. /\ "rx" \in Threads /\ "flusher" \in Threads /\ Decoys \subseteq Threads
      /\ Nobody \notin Threads /\ "rx" \notin Decoys /\ "flusher" \notin Decoys
      /\ pc \in [Threads -> Labels] /\ Control
  BY DEF Threads, FramesInv, Control, RingsAssumption, Nobody
<1>1. /\ pc' \in [Threads -> Labels]
      /\ pc'["rx"] \in {"refill", "fill", "poll", "copy", "handle", "answer", "reset"}
      /\ pc'["flusher"] \in {"idle", "flush", "transmit"}
      /\ \A d \in Decoys : pc'[d] \in {"idle", "transmit", "done"}
  <2>1. ASSUME NEW to \in {"refill", "fill", "poll", "copy", "handle", "answer", "reset"},
               Goto("rx", to)
        PROVE  <1>1
    BY <1>0, <2>1 DEF Goto, Control, Labels
  <2>2. ASSUME NEW to \in {"idle", "flush", "transmit"}, Goto("flusher", to)
        PROVE  <1>1
    BY <1>0, <2>2 DEF Goto, Control, Labels
  <2>3. ASSUME NEW d \in Decoys, NEW to \in {"idle", "transmit", "done"}, Goto(d, to)
        PROVE  <1>1
    BY <1>0, <2>3 DEF Goto, Control, Labels
  <2>4. CASE UNCHANGED pc
    BY <1>0, <2>4 DEF Control
  <2>5. CASE Refill \/ Take \/ Handle
    <3>1. UNCHANGED pc \/ \E to \in {"refill", "fill", "poll", "copy", "handle", "answer",
                                     "reset"} : Goto("rx", to)
      BY <2>5 DEF Refill, Take, Handle, GetDescsToSend
    <3> QED BY <2>1, <2>4, <3>1
  <2>6. CASE Coalesce \/ xdpFlushBatch
    <3>1. \E to \in {"idle", "flush", "transmit"} : Goto("flusher", to)
      BY <2>6 DEF Coalesce, xdpFlushBatch, GetDescsToSend
    <3> QED BY <2>2, <3>1
  <2>7. ASSUME NEW d \in Decoys, SendDecoy(d) PROVE <1>1
    <3>1. \E to \in {"idle", "transmit", "done"} : Goto(d, to)
      BY <2>7 DEF SendDecoy, GetDescsToSend
    <3> QED BY <2>3, <3>1
  <2> QED BY <2>4, <2>5, <2>6, <2>7 DEF Next, KernelReceive, KernelSend, TransmitFrame
<1>2. /\ xdpSockLock' \in Threads \cup {Nobody}
      /\ \A t \in Threads : pc'[t] \in Critical => xdpSockLock' = t
  <2>1. ASSUME NEW t \in Threads, NEW to, NEW ds, Acquire(t, to, ds) PROVE <1>2
    BY <1>0, <2>1 DEF Acquire, Goto, Control
  <2>2. ASSUME NEW t \in Threads, NEW to, Release(t, to) PROVE <1>2
    BY <1>0, <2>2 DEF Release, Goto, Control
  <2>3. CASE Aside
    BY <1>0, <2>3 DEF Aside, Control
  <2> QED BY <1>0, <2>1, <2>2, <2>3, Kinds
          DEF LookStep, FillStep, TakeStep, CopyStep, TransmitStep, KernelStep, AsideStep
<1> QED BY <1>1, <1>2 DEF Control

\* Who takes the lock has frames in hand that are free then ...
LEMMA HandedAtAcquire ==
  ASSUME RingsAssumption, Control, Handed, NEW t \in Threads, NEW to,
         NEW ds \in Seq(Frames), Distinct(ds), Elems(ds) \subseteq free',
         Acquire(t, to, ds)
  PROVE  Handed'
<1>1. /\ Nobody \notin Threads /\ pc \in [Threads -> Labels]
      /\ descs' = [descs EXCEPT ![t] = ds] /\ pc' = [pc EXCEPT ![t] = to]
      /\ \A u \in Threads : pc[u] \notin Critical
      /\ to \in Critical
  BY DEF Threads, RingsAssumption, Nobody, Control, Acquire, Goto, Hold
<1>2. descs \in [Threads -> Seq(Frames)] /\ \A u \in Threads : descs[u] = <<>>
  BY <1>1 DEF Handed
<1>3. descs' \in [Threads -> Seq(Frames)]
  BY <1>1, <1>2
<1>4. ASSUME NEW u \in Threads
      PROVE  IF pc'[u] \in Critical
             THEN Distinct(descs'[u]) /\ Elems(descs'[u]) \subseteq free'
             ELSE descs'[u] = <<>>
  BY <1>1, <1>2
<1>5. \A u \in Threads : Elems(descs[u])' = Elems(descs'[u]) /\ (Distinct(descs[u]))' = Distinct(descs'[u])
  BY DEF Elems, Distinct
<1> QED BY <1>3, <1>4, <1>5 DEF Handed

\* ... and who lets go of it has none.
LEMMA HandedAtRelease ==
  ASSUME Control, Handed, NEW t \in Threads, NEW to, Release(t, to)
  PROVE  Handed'
<1>1. /\ pc \in [Threads -> Labels]
      /\ descs' = [descs EXCEPT ![t] = <<>>] /\ pc' = [pc EXCEPT ![t] = to]
      /\ \A u \in Threads \ {t} : pc[u] \notin Critical
      /\ to \notin Critical
  BY DEF Control, Release, Goto, Hold
<1>2. /\ descs \in [Threads -> Seq(Frames)]
      /\ \A u \in Threads \ {t} : descs[u] = <<>>
  BY <1>1 DEF Handed
<1>3. <<>> \in Seq(Frames)
  OBVIOUS
<1> QED BY <1>1, <1>2, <1>3 DEF Handed

LEMMA HandedAside ==
  ASSUME Control, Handed, Aside, free' = free
  PROVE  Handed'
<1>1. \A u \in Threads : descs'[u] = descs[u] /\ (pc'[u] \in Critical <=> pc[u] \in Critical)
  BY DEF Aside
<1> QED BY <1>1 DEF Handed, Aside, Elems, Distinct

LEMMA LookedUp ==
  ASSUME RingsAssumption, Located, NEW n \in Nat, NEW avail, avail \subseteq Frames,
         NEW ds \in Descs(n, avail)
  PROVE  /\ ds \in Seq(Frames) /\ Distinct(ds) /\ Elems(ds) \subseteq avail
         /\ Cardinality(avail) \in Nat /\ Len(ds) = AtMost(n, Cardinality(avail))
<1>1. IsFiniteSet(avail)
  BY FS_Subset DEF RingsAssumption
<1>2. /\ ds \in Seq(avail) /\ Distinct(ds) /\ Elems(ds) \subseteq avail
      /\ Cardinality(avail) \in Nat /\ Len(ds) = AtMost(n, Cardinality(avail))
  BY <1>1, DescsOf
<1>3. ds \in Seq(Frames)
  BY <1>2
<1> QED BY <1>2, <1>3

LEMMA HandedStep == ASSUME RingsAssumption, FramesInv, Next PROVE Handed'
<1>0. Control /\ Handed /\ Located /\ "rx" \in Threads
  BY DEF FramesInv, Threads
<1>1. CASE LookStep
  <2>1. PICK t \in Threads, n \in Nat, to \in {"fill", "reset", "transmit"} :
          /\ \E ds \in Descs(n, free') : Acquire(t, to, ds)
          /\ free' \subseteq free \cup completionRing
    BY <1>1 DEF LookStep, Reclaimed
  <2>2. PICK ds \in Descs(n, free') : Acquire(t, to, ds)
    BY <2>1
  <2>3. free' \subseteq Frames
    BY <1>0, <2>1 DEF Located
  <2>4. ds \in Seq(Frames) /\ Distinct(ds) /\ Elems(ds) \subseteq free'
    BY <1>0, <2>3, LookedUp
  <2> QED BY <1>0, <2>2, <2>4, HandedAtAcquire
<1>2. CASE TakeStep
  <2>1. PICK ds \in Descs(Ring, rxRing) : Acquire("rx", "copy", ds)
    BY <1>2 DEF TakeStep
  <2>2. Ring \in Nat /\ rxRing \subseteq Frames /\ free' = free \cup rxRing
    BY <1>0, <1>2 DEF RingsAssumption, Located, TakeStep
  <2>3. ds \in Seq(Frames) /\ Distinct(ds) /\ Elems(ds) \subseteq rxRing
    BY <1>0, <2>2, LookedUp
  <2> QED BY <1>0, <2>1, <2>2, <2>3, HandedAtAcquire
<1>3. CASE FillStep \/ CopyStep \/ TransmitStep
  BY <1>0, <1>3, HandedAtRelease DEF FillStep, CopyStep, TransmitStep
<1>4. CASE KernelStep \/ AsideStep
  <2>1. Aside /\ free' = free
    BY <1>4 DEF KernelStep, AsideStep, KernelReceive, KernelSend, rings
  <2> QED BY <1>0, <2>1, HandedAside
<1> QED BY <1>1, <1>2, <1>3, <1>4, Kinds

\* What is filled, or transmitted, was in hand and so free.
LEMMA LocatedStep == ASSUME RingsAssumption, FramesInv, Next PROVE Located'
<1>0. Located /\ Control /\ Handed /\ "rx" \in Threads
  BY DEF FramesInv, Threads
<1> DEFINE T == Elems(txRing)
<1>1. /\ free \subseteq Frames /\ fillRing \subseteq Frames /\ rxRing \subseteq Frames
      /\ completionRing \subseteq Frames /\ txRing \in Seq(Frames) /\ Distinct(txRing)
      /\ Frames = free \cup fillRing \cup rxRing \cup T \cup completionRing
      /\ free \cap (fillRing \cup rxRing \cup T \cup completionRing) = {}
      /\ fillRing \cap (rxRing \cup T \cup completionRing) = {}
      /\ rxRing \cap (T \cup completionRing) = {}
      /\ T \cap completionRing = {}
  BY <1>0 DEF Located, EachFrameInOnePlace, Distinct
<1>2. SUFFICES
      /\ free' \subseteq Frames /\ fillRing' \subseteq Frames /\ rxRing' \subseteq Frames
      /\ completionRing' \subseteq Frames /\ txRing' \in Seq(Frames) /\ Distinct(txRing')
      /\ Frames = free' \cup fillRing' \cup rxRing' \cup Elems(txRing') \cup completionRing'
      /\ free' \cap (fillRing' \cup rxRing' \cup Elems(txRing') \cup completionRing') = {}
      /\ fillRing' \cap (rxRing' \cup Elems(txRing') \cup completionRing') = {}
      /\ rxRing' \cap (Elems(txRing') \cup completionRing') = {}
      /\ Elems(txRing') \cap completionRing' = {}
  <2>1. Elems(txRing') = Elems(txRing)'
    BY DEF Elems
  <2> QED BY <1>2, <2>1 DEF Located, EachFrameInOnePlace, Distinct
<1>3. CASE LookStep
  <2>1. /\ free' = free \/ free' = free \cup completionRing
        /\ completionRing' = completionRing \ free'
        /\ fillRing' = fillRing /\ rxRing' = rxRing /\ txRing' = txRing
    BY <1>3 DEF LookStep, Reclaimed
  <2> HIDE DEF T
  <2>2. Elems(txRing') = T
    BY <2>1 DEF T
  <2>3. Distinct(txRing')
    BY <1>1, <2>1
  <2> QED BY <1>1, <2>1, <2>2, <2>3
<1>4. CASE FillStep
  <2> DEFINE filled == Elems(Fitting(descs["rx"], Ring - Cardinality(fillRing)))
  <2>1. filled \subseteq free
    <3>1. Ring - Cardinality(fillRing) \in Nat
      BY Capacities DEF FramesInv, Fits
    <3>2. descs["rx"] \in Seq(Frames) /\ Elems(descs["rx"]) \subseteq free
      BY <1>0, <1>4 DEF Handed, FillStep, Critical
    <3> QED BY <3>1, <3>2, FirstOnes
  <2>2. /\ fillRing' = fillRing \cup filled /\ free' = free \ filled
        /\ rxRing' = rxRing /\ txRing' = txRing /\ completionRing' = completionRing
    BY <1>4 DEF FillStep
  <2> HIDE DEF filled, T
  <2>3. Elems(txRing') = T /\ Distinct(txRing')
    BY <1>1, <2>2 DEF T
  <2> QED BY <1>1, <2>1, <2>2, <2>3
<1>5. CASE TakeStep
  <2>1. /\ rxRing' = {} /\ free' = free \cup rxRing
        /\ fillRing' = fillRing /\ txRing' = txRing /\ completionRing' = completionRing
    BY <1>5 DEF TakeStep
  <2>2. Elems(txRing') = T /\ Distinct(txRing')
    BY <1>1, <2>1
  <2> HIDE DEF T
  <2> QED BY <1>1, <2>1, <2>2
<1>6. CASE TransmitStep
  <2>1. PICK t \in Threads, to \in {"handle", "idle", "done"} :
          Release(t, to) /\ \E contents : Transmit(descs[t], contents)
    BY <1>6 DEF TransmitStep
  <2>2. PICK contents : Transmit(descs[t], contents)
    BY <2>1
  <2> DEFINE sent == Fitting(descs[t], Ring - Len(txRing))
  <2>3. /\ descs[t] \in Seq(Frames) /\ Distinct(descs[t]) /\ Elems(descs[t]) \subseteq free
    BY <1>0, <2>1 DEF Handed, Release
  <2>4. Ring - Len(txRing) \in Nat
    BY <1>1 DEF FramesInv, Fits, RingsAssumption
  <2>5. sent \in Seq(Frames) /\ Distinct(sent) /\ Elems(sent) \subseteq free
    BY <2>3, <2>4, FirstOnes
  <2>6. /\ txRing' = txRing \o sent /\ free' = free \ Elems(sent)
        /\ fillRing' = fillRing /\ rxRing' = rxRing /\ completionRing' = completionRing
    BY <2>2 DEF Transmit
  <2> HIDE DEF sent
  <2>7. Elems(sent) \cap Elems(txRing) = {}
    BY <1>1, <2>5
  <2>8. /\ txRing \o sent \in Seq(Frames) /\ Distinct(txRing \o sent)
        /\ Elems(txRing \o sent) = T \cup Elems(sent)
    BY <1>1, <2>5, <2>7, ElemsConcat
  <2> HIDE DEF T
  <2> QED BY <1>1, <2>5, <2>6, <2>8
<1>7. CASE KernelReceive
  <2>1. CASE UNCHANGED <<fillRing, rxRing>>
    <3>1. UNCHANGED <<free, fillRing, rxRing, txRing, completionRing>>
      BY <1>7, <2>1 DEF KernelReceive
    <3> QED BY <1>1, <3>1
  <2>2. CASE ~ UNCHANGED <<fillRing, rxRing>>
    <3>1. PICK f \in fillRing : fillRing' = fillRing \ {f} /\ rxRing' = rxRing \cup {f}
      BY <1>7, <2>2 DEF KernelReceive
    <3>2. free' = free /\ txRing' = txRing /\ completionRing' = completionRing
      BY <1>7 DEF KernelReceive
    <3>3. Elems(txRing') = T /\ Distinct(txRing')
      BY <1>1, <3>2
    <3> HIDE DEF T
    <3> QED BY <1>1, <3>1, <3>2, <3>3
  <2> QED BY <2>1, <2>2
<1>8. CASE KernelSend
  <2>1. /\ txRing # <<>> /\ txRing' = Tail(txRing)
        /\ completionRing' = completionRing \cup {Head(txRing)}
        /\ free' = free /\ fillRing' = fillRing /\ rxRing' = rxRing
    BY <1>8 DEF KernelSend
  <2>2. /\ txRing' \in Seq(Frames) /\ Distinct(txRing')
        /\ T = {Head(txRing)} \cup Elems(txRing') /\ Head(txRing) \notin Elems(txRing')
        /\ Head(txRing) \in Frames
    BY <1>1, <2>1, Without1st
  <2> HIDE DEF T
  <2> QED BY <1>1, <2>1, <2>2
<1>9. CASE UNCHANGED rings
  <2>1. UNCHANGED <<free, fillRing, rxRing, txRing, completionRing>>
    BY <1>9 DEF rings
  <2> QED BY <1>1, <2>1
<1> QED BY <1>3, <1>4, <1>5, <1>6, <1>7, <1>8, <1>9, Kinds
        DEF CopyStep, KernelStep, AsideStep

LEMMA Together ==
  ASSUME NEW A, NEW B, IsFiniteSet(A), IsFiniteSet(B)
  PROVE  /\ IsFiniteSet(A \cup B)
         /\ Cardinality(A) \in Nat /\ Cardinality(B) \in Nat /\ Cardinality(A \cup B) \in Nat
         /\ Cardinality(A \cup B) <= Cardinality(A) + Cardinality(B)
<1>1. IsFiniteSet(A \cap B) /\ IsFiniteSet(A \cup B)
  BY FS_Union, FS_Subset
<1>2. Cardinality(A \cup B) = Cardinality(A) + Cardinality(B) - Cardinality(A \cap B)
  BY FS_Union
<1>3. /\ Cardinality(A) \in Nat /\ Cardinality(B) \in Nat
      /\ Cardinality(A \cap B) \in Nat /\ Cardinality(A \cup B) \in Nat
  BY <1>1, FS_CardinalityType
<1> QED BY <1>1, <1>2, <1>3

LEMMA OneMore ==
  ASSUME NEW A, NEW x, IsFiniteSet(A)
  PROVE  Cardinality(A \cup {x}) \in Nat /\ Cardinality(A \cup {x}) <= Cardinality(A) + 1
<1>1. Cardinality({x}) = 1 /\ IsFiniteSet({x})
  BY FS_Singleton
<1> QED BY <1>1, Together

\* Each ring is filled only as far as it has room.
LEMMA FitsStep == ASSUME RingsAssumption, FramesInv, Next PROVE Fits'
<1>0. /\ Located /\ Control /\ Handed /\ "rx" \in Threads
      /\ Cardinality(fillRing) <= Ring /\ Cardinality(rxRing) <= Ring
      /\ Len(txRing) <= Ring /\ Cardinality(completionRing) <= Ring
      /\ txRing \in Seq(Frames) /\ Len(txRing) \in Nat
  BY DEF FramesInv, Threads, Fits, Located
<1>c. /\ IsFiniteSet(free) /\ IsFiniteSet(fillRing) /\ IsFiniteSet(rxRing)
      /\ IsFiniteSet(completionRing)
      /\ Cardinality(free) \in Nat /\ Cardinality(fillRing) \in Nat
      /\ Cardinality(rxRing) \in Nat /\ Cardinality(completionRing) \in Nat
      /\ Ring \in Nat \ {0}
  BY <1>0, Capacities
<1>1. CASE LookStep
  <2>1. /\ completionRing' \subseteq completionRing
        /\ fillRing' = fillRing /\ rxRing' = rxRing /\ txRing' = txRing
    BY <1>1 DEF LookStep
  <2>2. IsFiniteSet(completionRing') /\ Cardinality(completionRing') <= Cardinality(completionRing)
    BY <1>c, <2>1, FS_Subset
  <2>3. Cardinality(completionRing') \in Nat
    BY <2>2, FS_CardinalityType
  <2> QED BY <1>0, <1>c, <2>1, <2>2, <2>3 DEF Fits
<1>2. CASE FillStep
  <2> DEFINE room == Ring - Cardinality(fillRing)
             fit == Fitting(descs["rx"], room)
  <2>1. room \in Nat /\ descs["rx"] \in Seq(Frames)
    BY <1>0, <1>c DEF Handed
  <2>2. fillRing' = fillRing \cup Elems(fit)
        /\ rxRing' = rxRing /\ txRing' = txRing /\ completionRing' = completionRing
    BY <1>2 DEF FillStep
  <2>3. Cardinality(fillRing) + room = Ring
    BY <1>c
  <2> HIDE DEF room
  <2>4. fit \in Seq(Frames) /\ Len(fit) \in Nat /\ Len(fit) <= room
    BY <2>1, FirstOnes
  <2> HIDE DEF fit
  <2>5. IsFiniteSet(Elems(fit)) /\ Cardinality(Elems(fit)) \in Nat
        /\ Cardinality(Elems(fit)) <= Len(fit)
    BY <2>4, ElemsFinite
  <2>6. /\ Cardinality(fillRing') \in Nat
        /\ Cardinality(fillRing') <= Cardinality(fillRing) + Cardinality(Elems(fit))
    BY <1>c, <2>2, <2>5, Together
  <2>7. Cardinality(fillRing') <= Ring
    BY <1>c, <2>1, <2>3, <2>4, <2>5, <2>6
  <2> QED BY <1>0, <2>2, <2>7 DEF Fits
<1>3. CASE TakeStep
  <2>1. /\ rxRing' = {} /\ fillRing' = fillRing /\ txRing' = txRing
        /\ completionRing' = completionRing
    BY <1>3 DEF TakeStep
  <2>2. Cardinality({}) = 0
    BY FS_EmptySet
  <2> QED BY <1>0, <1>c, <2>1, <2>2 DEF Fits
<1>4. CASE TransmitStep
  <2>1. PICK t \in Threads : \E contents : Transmit(descs[t], contents)
    BY <1>4 DEF TransmitStep
  <2> DEFINE room == Ring - Len(txRing)
             sent == Fitting(descs[t], room)
  <2>2. /\ txRing' = txRing \o sent /\ fillRing' = fillRing /\ rxRing' = rxRing
        /\ completionRing' = completionRing
    BY <2>1 DEF Transmit
  <2>3. room \in Nat /\ Len(txRing) + room = Ring /\ descs[t] \in Seq(Frames)
    BY <1>0, <1>c DEF Handed
  <2> HIDE DEF room
  <2>4. sent \in Seq(Frames) /\ Len(sent) \in Nat /\ Len(sent) <= room
    BY <2>3, FirstOnes
  <2> HIDE DEF sent
  <2>5. Len(txRing') = Len(txRing) + Len(sent)
    BY <1>0, <2>2, <2>4, ElemsConcat
  <2>6. Len(txRing') <= Ring
    BY <1>0, <1>c, <2>3, <2>4, <2>5
  <2> QED BY <1>0, <2>2, <2>6 DEF Fits
<1>5. CASE KernelReceive
  <2>1. CASE UNCHANGED <<fillRing, rxRing>>
    <3>1. UNCHANGED <<fillRing, rxRing, txRing, completionRing>>
      BY <1>5, <2>1 DEF KernelReceive
    <3> QED BY <1>0, <3>1 DEF Fits
  <2>2. CASE ~ UNCHANGED <<fillRing, rxRing>>
    <3>1. PICK f \in fillRing : /\ fillRing' = fillRing \ {f} /\ rxRing' = rxRing \cup {f}
                                /\ Cardinality(rxRing) < Ring
      BY <1>5, <2>2 DEF KernelReceive
    <3>2. txRing' = txRing /\ completionRing' = completionRing
      BY <1>5 DEF KernelReceive
    <3>3. Cardinality(rxRing') <= Cardinality(rxRing) + 1 /\ Cardinality(rxRing') \in Nat
      BY <1>c, <3>1, OneMore
    <3>4. Cardinality(fillRing') <= Cardinality(fillRing) /\ Cardinality(fillRing') \in Nat
      BY <1>c, <3>1, FS_Subset, FS_CardinalityType
    <3> QED BY <1>0, <1>c, <3>1, <3>2, <3>3, <3>4 DEF Fits
  <2> QED BY <2>1, <2>2
<1>6. CASE KernelSend
  <2>1. /\ txRing # <<>> /\ Cardinality(completionRing) < Ring /\ txRing' = Tail(txRing)
        /\ completionRing' = completionRing \cup {Head(txRing)}
        /\ fillRing' = fillRing /\ rxRing' = rxRing
    BY <1>6 DEF KernelSend
  <2>2. Len(txRing') = Len(txRing) - 1
    BY <1>0, <2>1, Without1st
  <2>3. /\ Cardinality(completionRing') <= Cardinality(completionRing) + 1
        /\ Cardinality(completionRing') \in Nat
    BY <1>c, <2>1, OneMore
  <2> QED BY <1>0, <1>c, <2>1, <2>2, <2>3 DEF Fits
<1>7. CASE UNCHANGED rings
  BY <1>0, <1>7 DEF rings, Fits
<1> QED BY <1>1, <1>2, <1>3, <1>4, <1>5, <1>6, <1>7, Kinds
        DEF CopyStep, KernelStep, AsideStep

\* A batch is emptied before the next is begun, and holds no more than it may.
LEMMA BatchesStep == ASSUME RingsAssumption, FramesInv, Next PROVE Batches'
<1>0. Batches /\ Control /\ "flusher" \in Threads /\ "rx" \in Threads
      /\ "rx" # "flusher" /\ pc \in [Threads -> Labels]
      /\ "flusher" \notin Decoys /\ Decoys \subseteq Threads
      /\ QueueSize \in Nat /\ TxBatchSize \in Nat \ {0} /\ Fragments \in Nat \ {0}
  BY DEF FramesInv, Threads, RingsAssumption, Control
<1>1. ASSUME UNCHANGED <<xdpTxQueue, queued, outcome, batch>>,
             (pc["flusher"] = "idle") = (pc'["flusher"] = "idle")
      PROVE  Batches'
  BY <1>0, <1>1 DEF Batches
<1>2. ASSUME NEW t \in Threads, t # "flusher", NEW to, Goto(t, to),
             UNCHANGED <<queue, batch>>
      PROVE  Batches'
  BY <1>0, <1>1, <1>2 DEF Goto, queue
<1>3. CASE KernelReceive \/ KernelSend
  BY <1>0, <1>1, <1>3 DEF KernelReceive, KernelSend, queue
<1>4. CASE Refill \/ Take \/ Handle
  <2>1. UNCHANGED <<queue, batch>> /\ (UNCHANGED pc \/ \E to : Goto("rx", to))
    BY <1>4 DEF Refill, Take, Handle, GetDescsToSend
  <2> QED BY <1>0, <1>1, <1>2, <2>1 DEF queue
<1>5. ASSUME NEW d \in Decoys, SendDecoy(d) PROVE Batches'
  <2>1. UNCHANGED <<queue, batch>> /\ \E to : Goto(d, to)
    BY <1>5 DEF SendDecoy, GetDescsToSend
  <2> QED BY <1>0, <1>2, <2>1
<1>6. CASE Coalesce
  <2> DEFINE n == AtMost(Len(xdpTxQueue), TxBatchSize - Len(batch))
             more == SubSeq(xdpTxQueue, 1, n)
             rest == SubSeq(xdpTxQueue, n + 1, Len(xdpTxQueue))
  <2>1. /\ pc["flusher"] = "idle" /\ xdpTxQueue # <<>>
        /\ batch' = batch \o more /\ xdpTxQueue' = rest
        /\ Goto("flusher", "flush") /\ UNCHANGED <<queued, outcome>>
    BY <1>6 DEF Coalesce
  <2>2. batch = <<>> /\ xdpTxQueue \in Seq(ProbeFrames) /\ Len(xdpTxQueue) <= QueueSize
    BY <1>0, <2>1 DEF Batches
  <2>3. /\ Len(xdpTxQueue) \in Nat \ {0} /\ n \in 1 .. Len(xdpTxQueue) /\ n <= TxBatchSize
    BY <1>0, <2>1, <2>2 DEF AtMost
  <2> HIDE DEF n
  <2>4. \A i \in 1 .. Len(xdpTxQueue) : xdpTxQueue[i] \in ProbeFrames
    BY <2>2
  <2>5. /\ more \in Seq(ProbeFrames) /\ Len(more) = n
        /\ rest \in Seq(ProbeFrames) /\ Len(rest) <= QueueSize
    BY <1>0, <2>2, <2>3, <2>4
  <2> HIDE DEF more, rest
  <2>6. batch' = more
    BY <2>1, <2>2, <2>5
  <2>7. batch' # <<>> /\ batch' \in Seq(ProbeFrames) /\ Len(batch') <= TxBatchSize
    BY <2>3, <2>5, <2>6
  <2>8. pc'["flusher"] # "idle"
    BY <1>0, <2>1 DEF Goto
  <2> QED BY <1>0, <2>1, <2>5, <2>7, <2>8 DEF Batches
<1>7. CASE xdpFlushBatch
  <2>1. CASE GetDescsToSend("flusher", "flush", "transmit", Len(batch))
    BY <1>0, <1>1, <2>1 DEF GetDescsToSend, Goto, queue
  <2>2. CASE BatchEmptied /\ Goto("flusher", "idle") /\ UNCHANGED queue
    <3>1. batch' = <<>> /\ pc'["flusher"] = "idle" /\ <<>> \in Seq(ProbeFrames) /\ Len(<<>>) = 0
      BY <1>0, <2>2 DEF BatchEmptied, Goto
    <3> QED BY <1>0, <2>2, <3>1 DEF Batches, queue
  <2> QED BY <1>7, <2>1, <2>2 DEF xdpFlushBatch
<1>8. ASSUME NEW s \in Scanners, TransmitFrame(s) PROVE Batches'
  <2>0. /\ queued \in [Scanners -> 0 .. Fragments]
        /\ outcome \in [Scanners -> {"sending", "sent", "congested"}]
        /\ outcome[s] = "sending" /\ queued[s] + 1 \in 1 .. Fragments
        /\ UNCHANGED <<pc, batch>>
    BY <1>0, <1>8 DEF Batches, TransmitFrame
  <2>1. CASE HasRoom
    <3>1. /\ xdpTxQueue' = Append(xdpTxQueue, ProbeFrame(s, queued[s] + 1))
          /\ queued' = [queued EXCEPT ![s] = @ + 1]
          /\ outcome' = [outcome EXCEPT ![s] = IF queued'[s] = Fragments THEN "sent" ELSE @]
      BY <1>8, <2>1 DEF TransmitFrame
    <3>2. ProbeFrame(s, queued[s] + 1) \in ProbeFrames
      BY <2>0 DEF ProbeFrames
    <3>3. xdpTxQueue \in Seq(ProbeFrames) /\ Len(xdpTxQueue) < QueueSize
      BY <1>0, <2>1 DEF Batches, HasRoom
    <3> DEFINE x == ProbeFrame(s, queued[s] + 1)
    <3> HIDE DEF x
    <3>4. Append(xdpTxQueue, x) \in Seq(ProbeFrames)
          /\ Len(Append(xdpTxQueue, x)) = Len(xdpTxQueue) + 1
      BY <3>2, <3>3 DEF x
    <3>5. xdpTxQueue' \in Seq(ProbeFrames) /\ Len(xdpTxQueue') <= QueueSize
      BY <1>0, <3>1, <3>3, <3>4 DEF x
    <3>6. /\ queued'[s] = queued[s] + 1 /\ queued' \in [Scanners -> 0 .. Fragments]
          /\ \A u \in Scanners \ {s} : queued'[u] = queued[u]
      BY <2>0, <3>1
    <3>7. /\ outcome' \in [Scanners -> {"sending", "sent", "congested"}]
          /\ \A u \in Scanners \ {s} : outcome'[u] = outcome[u]
          /\ outcome'[s] = "sending" => queued'[s] # Fragments
      BY <2>0, <3>1
    <3>8. \A u \in Scanners : outcome'[u] = "sending" => queued'[u] < Fragments
      BY <1>0, <2>0, <3>6, <3>7 DEF Batches
    <3> QED BY <1>0, <2>0, <3>5, <3>6, <3>7, <3>8 DEF Batches
  <2>2. CASE ~ HasRoom
    <3>1. /\ outcome' = [outcome EXCEPT ![s] = "congested"] /\ UNCHANGED <<xdpTxQueue, queued>>
      BY <1>8, <2>2 DEF TransmitFrame
    <3> QED BY <1>0, <2>0, <3>1 DEF Batches
  <2> QED BY <2>1, <2>2
<1> QED BY <1>3, <1>4, <1>5, <1>6, <1>7, <1>8 DEF Next

\* Four rings' worth: what the rings may hold leaves a ring's worth of frames
\* free or sent.
LEMMA CountFrames ==
  ASSUME RingsAssumption, Located, Fits
  PROVE  Cardinality(free \cup completionRing) >= Ring
         /\ Cardinality(free \cup completionRing) \in Nat
<1>c. /\ IsFiniteSet(free) /\ IsFiniteSet(fillRing) /\ IsFiniteSet(rxRing)
      /\ IsFiniteSet(completionRing)
      /\ Ring \in Nat \ {0} /\ Cardinality(Frames) = 4 * Ring
  BY Capacities DEF RingsAssumption
<1> DEFINE T == Elems(txRing)
           open == free \cup completionRing
           rx == fillRing \cup rxRing
           held == rx \cup T
<1>1. /\ IsFiniteSet(T) /\ Cardinality(T) \in Nat /\ Cardinality(T) <= Len(txRing)
      /\ Len(txRing) \in Nat /\ Len(txRing) <= Ring
  BY ElemsFinite DEF Located, Fits
<1>2. Frames = open \cup held
  BY DEF Located, EachFrameInOnePlace
<1>3. /\ Cardinality(rx) <= Cardinality(fillRing) + Cardinality(rxRing)
      /\ IsFiniteSet(rx) /\ Cardinality(rx) \in Nat
      /\ Cardinality(fillRing) \in Nat /\ Cardinality(rxRing) \in Nat
  BY <1>c, Together
<1>4. Cardinality(fillRing) <= Ring /\ Cardinality(rxRing) <= Ring
  BY DEF Fits
<1>5. IsFiniteSet(open) /\ Cardinality(open) \in Nat
  BY <1>c, Together
<1> HIDE DEF T, open, rx
<1>6. /\ IsFiniteSet(held) /\ Cardinality(held) \in Nat
      /\ Cardinality(held) <= Cardinality(rx) + Cardinality(T)
  BY <1>1, <1>3, Together
<1> HIDE DEF held
<1>7. Cardinality(Frames) <= Cardinality(open) + Cardinality(held)
  BY <1>2, <1>5, <1>6, Together
<1> QED BY <1>c, <1>1, <1>3, <1>4, <1>5, <1>6, <1>7 DEF open

\* So whoever looks for a frame to send finds one, if need be by taking back
\* those sent.
LEMMA FrameToSendStep ==
  ASSUME RingsAssumption, FramesInv, Next PROVE AlwaysAFrameToSend'
<1>0. /\ Located /\ Control /\ Handed /\ Fits /\ AlwaysAFrameToSend /\ "rx" \in Threads
      /\ pc \in [Threads -> Labels] /\ descs \in [Threads -> Seq(Frames)]
  BY DEF FramesInv, Threads, Control, Handed
<1> DEFINE Sending(t, label) == label = "transmit" \/ (t = "rx" /\ label = "reset")
<1>1. /\ \A t \in Threads : Sending(t, pc[t]) => descs[t] # <<>>
      /\ (\A t \in Threads : Sending(t, pc'[t]) => descs'[t] # <<>>) => AlwaysAFrameToSend'
  BY <1>0 DEF AlwaysAFrameToSend
<1>2. ASSUME NEW t \in Threads, NEW to, NEW ds, Acquire(t, to, ds), Sending(t, to) => ds # <<>>
      PROVE  AlwaysAFrameToSend'
  BY <1>0, <1>1, <1>2 DEF Acquire, Goto, Hold
<1>3. ASSUME NEW t \in Threads, NEW to, Release(t, to) PROVE AlwaysAFrameToSend'
  BY <1>0, <1>1, <1>3 DEF Release, Goto, Hold, Critical
<1>4. CASE LookStep
  <2>1. PICK t \in Threads, n \in Nat, to \in {"fill", "reset", "transmit"} :
          /\ \E ds \in Descs(n, free') : Acquire(t, to, ds)
          /\ \/ to = "fill" /\ free' = free \cup completionRing
             \/ to # "fill" /\ n # 0 /\ free' = Reclaimed(n)
    BY <1>4 DEF LookStep
  <2>2. PICK ds \in Descs(n, free') : Acquire(t, to, ds)
    BY <2>1
  <2>3. CASE to = "fill"
    BY <1>2, <2>2, <2>3
  <2>4. CASE to # "fill"
    <3>1. n # 0 /\ free' = Reclaimed(n)
      BY <2>1, <2>4
    <3>2. free' \subseteq Frames
      BY <1>0, <3>1 DEF Located, Reclaimed
    <3>3. /\ ds \in Seq(Frames) /\ Cardinality(free') \in Nat
          /\ Len(ds) = AtMost(n, Cardinality(free'))
      BY <1>0, <2>2, <3>2, LookedUp
    <3>4. Cardinality(free') # 0
      <4>1. CASE Cardinality(free) < n
        <5>1. free' = free \cup completionRing
          BY <3>1, <4>1 DEF Reclaimed
        <5> QED BY <1>0, <3>3, <5>1, CountFrames DEF RingsAssumption
      <4>2. CASE ~ (Cardinality(free) < n)
        <5>1. free' = free
          BY <3>1, <4>2 DEF Reclaimed
        <5> QED BY <3>1, <3>3, <4>2, <5>1
      <4> QED BY <4>1, <4>2
    <3>5. Len(ds) # 0
      BY <3>1, <3>3, <3>4 DEF AtMost
    <3>6. ds # <<>>
      BY <3>3, <3>5
    <3> QED BY <1>2, <2>2, <3>6
  <2> QED BY <2>3, <2>4
<1>5. CASE TakeStep
  BY <1>0, <1>2, <1>5 DEF TakeStep
<1>6. CASE FillStep \/ CopyStep \/ TransmitStep
  BY <1>0, <1>3, <1>6 DEF FillStep, CopyStep, TransmitStep
<1>7. CASE KernelStep \/ AsideStep
  BY <1>0, <1>1, <1>7 DEF KernelStep, AsideStep, Aside, Critical
<1> QED BY <1>4, <1>5, <1>6, <1>7, Kinds

LEMMA FramesAtFirst == ASSUME RingsAssumption, Init PROVE FramesInv
<1>1. /\ Ring \in Nat \ {0} /\ QueueSize \in Nat /\ TxBatchSize \in Nat /\ Fragments \in Nat \ {0}
      /\ "rx" \notin Decoys /\ "flusher" \notin Decoys
      /\ "rx" \in Threads /\ "flusher" \in Threads /\ Decoys \subseteq Threads
      /\ "rx" # "flusher"
  BY DEF RingsAssumption, Threads
<1>2. /\ Len(<<>>) = 0 /\ Elems(<<>>) = {} /\ Distinct(<<>>)
      /\ \A S : <<>> \in Seq(S)
  BY DEF Elems, Distinct
<1>3. /\ pc = [t \in Threads |-> IF t = "rx" THEN "refill" ELSE "idle"]
      /\ descs = [t \in Threads |-> <<>>] /\ xdpSockLock = Nobody
  BY DEF Init
<1>4. Control
  BY <1>1, <1>3 DEF Control, Labels, Critical
<1>5. Handed
  BY <1>2, <1>3 DEF Handed, Critical
<1>6. Located
  BY <1>2 DEF Init, Located, EachFrameInOnePlace
<1>7. Fits
  BY <1>1, <1>2, FS_EmptySet DEF Init, Fits
<1>8. Batches
  BY <1>1, <1>2, <1>3 DEF Init, Batches
<1>9. AlwaysAFrameToSend
  BY <1>3 DEF AlwaysAFrameToSend
<1> QED BY <1>4, <1>5, <1>6, <1>7, <1>8, <1>9 DEF FramesInv

-----------------------------------------------------------------------------
(* What the frames carry. *)

ReplyFrames == { Reply(r) : r \in Replies }
Payloads == {Empty} \cup ProbeFrames \cup { DecoyFrame(d) : d \in Decoys }
              \cup { Reset(r) : r \in Replies } \cup ReplyFrames

Answering == pc["rx"] \in {"answer", "reset"}

Carried ==
  /\ mem \in [Frames -> Payloads] /\ wire \in Seq(Payloads) /\ due \subseteq Replies
  /\ copies \in Seq(ReplyFrames) /\ handled \in Seq(ReplyFrames)
  /\ Answering => copies # <<>>

\* Who transmits has been handed no more frames than it has contents for.
Bounded ==
  /\ pc["flusher"] = "transmit" => Len(descs["flusher"]) <= Len(batch)
  /\ \A t \in Threads \ {"flusher"} :
       pc[t] \in {"reset", "transmit"} => Len(descs[t]) <= 1

\* Copies not yet parsed; frames with a reply that is not yet copied; replies
\* that came.
Unhandled == IF Answering THEN Tail(copies) ELSE copies
Bearing == rxRing \cup (IF pc["rx"] = "copy" THEN Elems(descs["rx"]) ELSE {})
Came == { Reply(r) : r \in Replies \ due }

RepliesOnce ==
  /\ pc["rx"] \in {"handle", "answer", "reset"} \/ copies = <<>>
  /\ Answering => Head(copies) \in Elems(handled)
  /\ Elems(handled) \subseteq Came /\ Elems(Unhandled) \subseteq Came
  /\ Distinct(handled) /\ Distinct(Unhandled)
  /\ Elems(handled) \cap Elems(Unhandled) = {}
  /\ \A f \in Bearing : mem[f] \in Came \ (Elems(handled) \cup Elems(Unhandled))
  /\ \A f, g \in Bearing : mem[f] = mem[g] => f = g

\* What waits in the TX ring; what may be before what.
TxContents == [i \in 1 .. Len(txRing) |-> mem[txRing[i]]]
InOrder(x, y) ==
  x # y /\ (x[1] = "probe" /\ y[1] = "probe" /\ x[2] = y[2] => x[3] < y[3])
Chain(s) == \A i, j \in 1 .. Len(s) : i < j => InOrder(s[i], s[j])
Precede(A, B) == \A x \in A, y \in B : InOrder(x, y)

Queued(x) ==
  \E s \in Scanners, k \in 1 .. Fragments : x = ProbeFrame(s, k) /\ k <= queued[s]
Sendable(x) ==
  \/ Queued(x)
  \/ \E d \in Decoys : x = DecoyFrame(d) /\ pc[d] = "done"
  \/ \E r \in Replies : /\ x = Reset(r) /\ Reply(r) \in Elems(handled)
                        /\ Answering => Head(copies) # Reply(r)

Origins ==
  /\ \A x \in Elems(wire) \cup Elems(TxContents) : Sendable(x)
  /\ \A x \in Elems(batch) \cup Elems(xdpTxQueue) : Queued(x)

Order ==
  /\ Chain(wire) /\ Chain(TxContents) /\ Chain(batch) /\ Chain(xdpTxQueue)
  /\ Precede(Elems(wire), Elems(TxContents) \cup Elems(batch) \cup Elems(xdpTxQueue))
  /\ Precede(Elems(TxContents), Elems(batch) \cup Elems(xdpTxQueue))
  /\ Precede(Elems(batch), Elems(xdpTxQueue))

RingsInv == FramesInv /\ Carried /\ Bounded /\ RepliesOnce /\ Origins /\ Order

LEMMA ChainConcat ==
  ASSUME NEW S, NEW s \in Seq(S), NEW t \in Seq(S), Chain(s), Chain(t),
         Precede(Elems(s), Elems(t))
  PROVE  Chain(s \o t)
<1>1. /\ Len(s \o t) = Len(s) + Len(t) /\ Len(s) \in Nat /\ Len(t) \in Nat
      /\ \A i \in 1 .. Len(s) + Len(t) :
           (s \o t)[i] = IF i <= Len(s) THEN s[i] ELSE t[i - Len(s)]
  OBVIOUS
<1> DEFINE c == s \o t
<1> HIDE DEF c
<1>2. ASSUME NEW i \in 1 .. Len(c), NEW j \in 1 .. Len(c), i < j
      PROVE  InOrder(c[i], c[j])
  <2>0. i \in 1 .. Len(s) + Len(t) /\ j \in 1 .. Len(s) + Len(t)
    BY <1>1 DEF c
  <2>1. CASE j <= Len(s)
    <3>1. i \in 1 .. Len(s) /\ j \in 1 .. Len(s) /\ c[i] = s[i] /\ c[j] = s[j]
      BY <1>1, <1>2, <2>0, <2>1 DEF c
    <3> QED BY <1>2, <3>1 DEF Chain
  <2>2. CASE i > Len(s)
    <3>1. /\ i - Len(s) \in 1 .. Len(t) /\ j - Len(s) \in 1 .. Len(t)
          /\ i - Len(s) < j - Len(s) /\ c[i] = t[i - Len(s)] /\ c[j] = t[j - Len(s)]
      BY <1>1, <1>2, <2>0, <2>2 DEF c
    <3> QED BY <3>1 DEF Chain
  <2>3. CASE i <= Len(s) /\ j > Len(s)
    <3>1. /\ i \in 1 .. Len(s) /\ j - Len(s) \in 1 .. Len(t)
          /\ c[i] = s[i] /\ c[j] = t[j - Len(s)]
      BY <1>1, <2>0, <2>3 DEF c
    <3>2. c[i] \in Elems(s) /\ c[j] \in Elems(t)
      BY <3>1 DEF Elems
    <3> QED BY <3>2 DEF Precede
  <2> QED BY <1>1, <2>0, <2>1, <2>2, <2>3
<1> QED BY <1>2 DEF Chain, c

LEMMA ChainOne == ASSUME NEW x PROVE Chain(<<x>>) /\ Elems(<<x>>) = {x} /\ Chain(<<>>) /\ Elems(<<>>) = {}
  BY DEF Chain, Elems

LEMMA ChainTail ==
  ASSUME NEW S, NEW s \in Seq(S), s # <<>>, Chain(s)
  PROVE  Chain(Tail(s)) /\ Precede({Head(s)}, Elems(Tail(s)))
<1> DEFINE t == Tail(s)
<1>1. /\ t \in Seq(S) /\ Len(s) \in Nat \ {0} /\ Len(t) = Len(s) - 1 /\ Head(s) = s[1]
      /\ \A i \in 1 .. Len(s) - 1 : t[i] = s[i + 1]
  BY Without1st
<1> HIDE DEF t
<1>2. ASSUME NEW i \in 1 .. Len(t), NEW j \in 1 .. Len(t), i < j
      PROVE  InOrder(t[i], t[j])
  <2>1. /\ i + 1 \in 1 .. Len(s) /\ j + 1 \in 1 .. Len(s) /\ i + 1 < j + 1
        /\ t[i] = s[i + 1] /\ t[j] = s[j + 1]
    BY <1>1, <1>2
  <2> QED BY <2>1 DEF Chain
<1>3. ASSUME NEW y \in Elems(t) PROVE InOrder(s[1], y)
  <2>1. PICK i \in 1 .. Len(t) : y = t[i]
    BY DEF Elems
  <2>2. 1 \in 1 .. Len(s) /\ i + 1 \in 1 .. Len(s) /\ 1 < i + 1 /\ y = s[i + 1]
    BY <1>1, <2>1
  <2> QED BY <2>2 DEF Chain
<1> QED BY <1>1, <1>2, <1>3 DEF Chain, Precede, t

LEMMA ChainSplit ==
  ASSUME NEW S, NEW s \in Seq(S), NEW n \in 0 .. Len(s)
  PROVE  LET first == SubSeq(s, 1, n)
             rest  == SubSeq(s, n + 1, Len(s))
         IN  /\ first \in Seq(S) /\ rest \in Seq(S) /\ Len(first) = n
             /\ Elems(first) \subseteq Elems(s) /\ Elems(rest) \subseteq Elems(s)
             /\ Chain(s) => /\ Chain(first) /\ Chain(rest)
                            /\ Precede(Elems(first), Elems(rest))
<1> DEFINE first == SubSeq(s, 1, n)
           rest  == SubSeq(s, n + 1, Len(s))
<1>1. \A i \in 1 .. Len(s) : s[i] \in S
  OBVIOUS
<1>2. /\ first \in Seq(S) /\ Len(first) = n /\ Len(s) \in Nat
      /\ \A i \in 1 .. n : i \in 1 .. Len(s) /\ first[i] = s[i]
  BY <1>1
<1>3. /\ rest \in Seq(S) /\ Len(rest) = Len(s) - n
      /\ \A i \in 1 .. Len(s) - n : n + i \in 1 .. Len(s) /\ rest[i] = s[n + i]
  BY <1>1
<1> HIDE DEF first, rest
<1>4. Elems(first) \subseteq Elems(s)
  BY <1>2 DEF Elems
<1>5. Elems(rest) \subseteq Elems(s)
  BY <1>3 DEF Elems
<1>6. ASSUME Chain(s) PROVE Chain(first)
  BY <1>2, <1>6 DEF Chain
<1>7. ASSUME Chain(s) PROVE Chain(rest)
  <2>1. ASSUME NEW i \in 1 .. Len(rest), NEW j \in 1 .. Len(rest), i < j
        PROVE  InOrder(rest[i], rest[j])
    <3>1. /\ n + i \in 1 .. Len(s) /\ n + j \in 1 .. Len(s) /\ n + i < n + j
          /\ rest[i] = s[n + i] /\ rest[j] = s[n + j]
      BY <1>3, <2>1
    <3> QED BY <1>7, <3>1 DEF Chain
  <2> QED BY <2>1 DEF Chain
<1>8. ASSUME Chain(s), NEW x \in Elems(first), NEW y \in Elems(rest)
      PROVE  InOrder(x, y)
  <2>1. PICK i \in 1 .. n : x = first[i]
    BY <1>2 DEF Elems
  <2>2. PICK j \in 1 .. Len(s) - n : y = rest[j]
    BY <1>3 DEF Elems
  <2>3. /\ i \in 1 .. Len(s) /\ n + j \in 1 .. Len(s) /\ i < n + j
        /\ x = s[i] /\ y = s[n + j]
    BY <1>2, <1>3, <2>1, <2>2
  <2> QED BY <1>8, <2>3 DEF Chain
<1> QED BY <1>2, <1>3, <1>4, <1>5, <1>6, <1>7, <1>8 DEF first, rest, Precede

LEMMA BoundedStep == ASSUME RingsAssumption, FramesInv, Bounded, Next PROVE Bounded'
<1>0. /\ "rx" \in Threads /\ "flusher" \in Threads /\ Decoys \subseteq Threads
      /\ "rx" # "flusher" /\ "flusher" \notin Decoys
      /\ pc \in [Threads -> Labels] /\ descs \in [Threads -> Seq(Frames)]
      /\ Batches /\ Located /\ Control
      /\ \A u \in Threads : Len(descs[u]) \in Nat
  <2>1. descs \in [Threads -> Seq(Frames)]
    BY DEF FramesInv, Handed
  <2> QED BY <2>1 DEF FramesInv, Control, Threads, RingsAssumption
<1>1. ASSUME NEW t \in Threads, NEW to \in Labels \ {"reset", "transmit"}, Goto(t, to),
             UNCHANGED descs \/ Hold(t, <<>>), t = "flusher" \/ UNCHANGED batch
      PROVE  Bounded'
  <2>1. /\ pc'[t] = to /\ \A u \in Threads \ {t} : pc'[u] = pc[u] /\ descs'[u] = descs[u]
    BY <1>0, <1>1 DEF Goto, Hold
  <2> QED BY <1>0, <1>1, <2>1 DEF Bounded
<1>2. ASSUME NEW t \in Threads, NEW from, NEW to \in {"reset", "transmit"}, NEW n \in Nat,
             GetDescsToSend(t, from, to, n), n = IF t = "flusher" THEN Len(batch) ELSE 1
      PROVE  Bounded'
  <2>1. PICK ds \in Descs(n, free') : Hold(t, ds)
    BY <1>2 DEF GetDescsToSend
  <2>2. Goto(t, to) /\ batch' = batch /\ free' \subseteq Frames
    BY <1>0, <1>2 DEF GetDescsToSend, Reclaimed, Located
  <2>3. ds \in Seq(Frames) /\ Cardinality(free') \in Nat
        /\ Len(ds) = AtMost(n, Cardinality(free'))
    BY <1>0, <2>2, LookedUp
  <2>4. Len(ds) <= n
    BY <2>3 DEF AtMost
  <2>5. /\ pc'[t] = to /\ descs'[t] = ds
        /\ \A u \in Threads \ {t} : pc'[u] = pc[u] /\ descs'[u] = descs[u]
    BY <1>0, <2>1, <2>2 DEF Goto, Hold
  <2> QED BY <1>0, <1>2, <2>2, <2>4, <2>5 DEF Bounded
<1>3. CASE UNCHANGED <<pc, descs, batch>>
  BY <1>3 DEF Bounded
<1>4. CASE Refill \/ Take
  <2>1. ASSUME NEW ds, NEW to \in {"fill", "copy"}, Hold("rx", ds), Goto("rx", to), UNCHANGED batch
        PROVE  Bounded'
    <3>1. /\ pc'["rx"] = to
          /\ \A u \in Threads \ {"rx"} : pc'[u] = pc[u] /\ descs'[u] = descs[u]
      BY <1>0, <2>1 DEF Goto, Hold
    <3> QED BY <1>0, <2>1, <3>1 DEF Bounded
  <2>2. /\ UNCHANGED batch
        /\ \/ \E to \in {"fill", "copy"} : Goto("rx", to) /\ \E ds : Hold("rx", ds)
           \/ \E to \in {"refill", "poll", "handle"} :
                Goto("rx", to) /\ (UNCHANGED descs \/ Hold("rx", <<>>))
    BY <1>4 DEF Refill, Take
  <2> QED BY <1>0, <1>1, <2>1, <2>2 DEF Labels
<1>5. CASE Handle
  <2>1. CASE GetDescsToSend("rx", "answer", "reset", 1)
    BY <1>0, <1>2, <2>1
  <2>2. CASE /\ UNCHANGED batch
             /\ \/ UNCHANGED <<pc, descs>>
                \/ \E to \in {"refill", "answer", "handle"} :
                     Goto("rx", to) /\ (UNCHANGED descs \/ Hold("rx", <<>>))
    BY <1>0, <1>1, <1>3, <2>2 DEF Labels
  <2> QED BY <1>5, <2>1, <2>2 DEF Handle
<1>6. ASSUME NEW d \in Decoys, SendDecoy(d) PROVE Bounded'
  <2>1. CASE GetDescsToSend(d, "idle", "transmit", 1)
    BY <1>0, <1>2, <2>1
  <2>2. CASE Goto(d, "done") /\ Hold(d, <<>>) /\ UNCHANGED batch
    BY <1>0, <1>1, <2>2 DEF Labels
  <2> QED BY <1>6, <2>1, <2>2 DEF SendDecoy
<1>7. CASE xdpFlushBatch
  <2>1. CASE GetDescsToSend("flusher", "flush", "transmit", Len(batch))
    <3>1. Len(batch) \in Nat
      BY <1>0 DEF Batches
    <3> QED BY <1>0, <1>2, <2>1, <3>1
  <2>2. CASE Goto("flusher", "idle") /\ Hold("flusher", <<>>)
    BY <1>0, <1>1, <2>2 DEF Labels
  <2> QED BY <1>7, <2>1, <2>2 DEF xdpFlushBatch
<1>8. CASE Coalesce
  BY <1>0, <1>1, <1>8 DEF Coalesce, Labels
<1> QED BY <1>3, <1>4, <1>5, <1>6, <1>7, <1>8 DEF Next, KernelReceive, KernelSend, TransmitFrame

-----------------------------------------------------------------------------
(* The steps, by what they do to what the frames carry. *)

ParsingLabels == {"handle", "answer", "reset"}

Elsewhere ==
  /\ UNCHANGED <<mem, txRing, network, queue, batch, copies, handled>>
  /\ Bearing' \subseteq Bearing
  /\ Answering' <=> Answering
  /\ pc["rx"] \in ParsingLabels => pc'["rx"] \in ParsingLabels \/ copies = <<>>
  /\ \A d \in Decoys : pc[d] = "done" => pc'[d] = "done"

CopyOut ==
  /\ pc["rx"] = "copy" /\ Goto("rx", "handle")
  /\ copies' = [i \in 1 .. Len(descs["rx"]) |-> mem[descs["rx"][i]]]
  /\ UNCHANGED <<rings, network, queue, batch, handled>>

HandleOne ==
  /\ pc["rx"] = "handle" /\ copies # <<>> /\ handled' = Append(handled, Head(copies))
  /\ \/ Goto("rx", "answer") /\ UNCHANGED copies
     \/ copies' = Tail(copies) /\ UNCHANGED pc
  /\ UNCHANGED <<rings, network, queue, batch, descs>>

ResetOut ==
  /\ pc["rx"] = "reset" /\ Transmit(descs["rx"], <<Reset(Head(copies)[2])>>)
  /\ copies' = Tail(copies) /\ Goto("rx", "handle")
  /\ UNCHANGED <<network, queue, batch, handled>>

DecoyOut(d) ==
  /\ pc[d] = "transmit" /\ Transmit(descs[d], <<DecoyFrame(d)>>) /\ Goto(d, "done")
  /\ Hold(d, <<>>) /\ UNCHANGED <<network, queue, batch, copies, handled>>

BatchOut ==
  /\ pc["flusher"] = "transmit" /\ Transmit(descs["flusher"], batch) /\ batch' = <<>>
  /\ Goto("flusher", "idle") /\ Hold("flusher", <<>>)
  /\ UNCHANGED <<network, queue, copies, handled>>

LEMMA DataKinds ==
  ASSUME RingsAssumption, FramesInv, Next
  PROVE  \/ KernelReceive \/ KernelSend \/ Coalesce \/ \E s \in Scanners : TransmitFrame(s)
         \/ Elsewhere \/ CopyOut \/ HandleOne \/ ResetOut \/ BatchOut
         \/ \E d \in Decoys : DecoyOut(d)
<1>0. /\ "rx" \in Threads /\ "flusher" \in Threads /\ Decoys \subseteq Threads
      /\ "rx" # "flusher" /\ "flusher" \notin Decoys /\ "rx" \notin Decoys
      /\ pc \in [Threads -> Labels] /\ descs \in [Threads -> Seq(Frames)]
      /\ Located /\ Control /\ Ring \in Nat
  <2>1. descs \in [Threads -> Seq(Frames)]
    BY DEF FramesInv, Handed
  <2> QED BY <2>1 DEF FramesInv, Control, Threads, RingsAssumption
<1> DEFINE Quiet == UNCHANGED <<mem, txRing, network, queue, batch, copies, handled>>
<1>1. ASSUME NEW t \in Threads \ {"rx"}, NEW ds, NEW from \in Labels \ {"done"}, NEW to,
             pc[t] = from, Goto(t, to), Hold(t, ds), UNCHANGED rxRing, Quiet
      PROVE  Elsewhere
  <2>1. pc'["rx"] = pc["rx"] /\ descs'["rx"] = descs["rx"]
    BY <1>0, <1>1 DEF Goto, Hold
  <2>2. \A d \in Decoys : pc[d] = "done" => pc'[d] = "done"
    BY <1>0, <1>1 DEF Goto
  <2>3. Elems(descs["rx"])' = Elems(descs["rx"])
    BY <2>1 DEF Elems
  <2> QED BY <1>1, <2>1, <2>2, <2>3 DEF Elsewhere, Bearing, Answering
<1>2. ASSUME NEW to \in {"refill", "fill", "poll", "copy", "handle", "answer", "reset"},
             Goto("rx", to), Quiet
      PROVE  /\ pc'["rx"] = to /\ \A d \in Decoys : pc[d] = "done" => pc'[d] = "done"
             /\ /\ UNCHANGED rxRing /\ to # "copy"
                /\ to \in {"answer", "reset"} <=> Answering
                /\ pc["rx"] \in ParsingLabels => to \in ParsingLabels \/ copies = <<>>
                => Elsewhere
  <2>1. pc'["rx"] = to /\ \A d \in Decoys : pc'[d] = pc[d]
    BY <1>0, <1>2 DEF Goto
  <2> QED BY <1>2, <2>1 DEF Elsewhere, Bearing, Answering
<1>3. CASE Refill
  BY <1>2, <1>3 DEF Refill, rings, network, queue, Answering, ParsingLabels
<1>4. CASE Take
  <2>1. CASE pc["rx"] = "poll" /\ Goto("rx", "refill") /\ UNCHANGED rings
    BY <1>2, <1>4, <2>1 DEF Take, rings, network, queue, Answering, ParsingLabels
  <2>2. CASE /\ pc["rx"] = "poll" /\ Goto("rx", "copy")
             /\ \E ds \in Descs(Ring, rxRing) : Hold("rx", ds)
             /\ rxRing' = {} /\ Quiet
    <3>1. PICK ds \in Descs(Ring, rxRing) : Hold("rx", ds)
      BY <2>2
    <3>2. Elems(ds) \subseteq rxRing
      BY <1>0, LookedUp DEF Located
    <3>3. descs'["rx"] = ds /\ Elems(descs["rx"])' = Elems(descs'["rx"])
      BY <1>0, <3>1 DEF Hold, Elems
    <3>4. pc'["rx"] = "copy" /\ \A d \in Decoys : pc[d] = "done" => pc'[d] = "done"
      BY <1>2, <2>2
    <3>5. Bearing' \subseteq Bearing
      BY <2>2, <3>2, <3>3, <3>4 DEF Bearing
    <3> QED BY <2>2, <3>4, <3>5 DEF Elsewhere, Answering, ParsingLabels
  <2>3. CASE CopyOut
    BY <2>3
  <2> QED BY <1>4, <2>1, <2>2, <2>3 DEF Take, CopyOut, rings, network, queue
<1>5. CASE Handle
  <2>1. CASE pc["rx"] = "handle" /\ copies = <<>>
    <3>1. Goto("rx", "refill") /\ UNCHANGED rxRing /\ Quiet
      BY <1>5, <2>1 DEF Handle, GetDescsToSend, rings, network, queue
    <3> QED BY <1>2, <2>1, <3>1 DEF Answering
  <2>2. CASE pc["rx"] = "handle" /\ copies # <<>>
    BY <1>5, <2>2 DEF Handle, GetDescsToSend, HandleOne
  <2>3. CASE GetDescsToSend("rx", "answer", "reset", 1)
    BY <1>2, <2>3 DEF GetDescsToSend, Answering, ParsingLabels
  <2>4. CASE pc["rx"] = "reset"
    BY <1>5, <2>4 DEF Handle, GetDescsToSend, ResetOut
  <2> QED BY <1>5, <2>1, <2>2, <2>3, <2>4 DEF Handle
<1>6. ASSUME NEW d \in Decoys, SendDecoy(d) PROVE Elsewhere \/ DecoyOut(d)
  <2>1. CASE GetDescsToSend(d, "idle", "transmit", 1)
    BY <1>0, <1>1, <2>1 DEF GetDescsToSend, Labels
  <2> QED BY <1>6, <2>1 DEF SendDecoy, DecoyOut
<1>7. CASE xdpFlushBatch
  <2>1. CASE GetDescsToSend("flusher", "flush", "transmit", Len(batch))
    BY <1>0, <1>1, <2>1 DEF GetDescsToSend, Labels
  <2> QED BY <1>7, <2>1 DEF xdpFlushBatch, BatchOut, BatchEmptied
<1> QED BY <1>3, <1>4, <1>5, <1>6, <1>7 DEF Next

\* Transmit writes to free frames only, and adds the first of what was to be
\* sent to the ring.
LEMMA TransmitData ==
  ASSUME RingsAssumption, FramesInv, Carried, NEW t \in Threads, pc[t] \in Critical,
         NEW contents \in Seq(Payloads), Len(descs[t]) <= Len(contents),
         Transmit(descs[t], contents)
  PROVE  /\ mem' \in [Frames -> Payloads]
         /\ \A f \in Frames \ free : mem'[f] = mem[f]
         /\ \E n \in 0 .. Len(contents) : TxContents' = TxContents \o SubSeq(contents, 1, n)
<1> DEFINE ds == descs[t]
           room == Ring - Len(txRing)
           sent == Fitting(ds, room)
           n == AtMost(Len(ds), room)
           At(f) == CHOOSE i \in 1 .. Len(ds) : ds[i] = f
<1>1. /\ ds \in Seq(Frames) /\ Distinct(ds) /\ Elems(ds) \subseteq free
      /\ txRing \in Seq(Frames) /\ Len(txRing) \in Nat /\ room \in Nat
      /\ mem \in [Frames -> Payloads] /\ free \subseteq Frames
      /\ free \cap Elems(txRing) = {}
  <2>1. Located /\ Handed /\ Fits /\ Ring \in Nat
    BY DEF FramesInv, RingsAssumption
  <2> QED BY <2>1 DEF Located, EachFrameInOnePlace, Handed, Fits, Carried
<1>2. /\ mem' = [f \in Frames |-> IF f \in Elems(ds) THEN contents[At(f)] ELSE mem[f]]
      /\ txRing' = txRing \o sent
  BY DEF Transmit
<1>3. /\ sent \in Seq(Frames) /\ Len(sent) = n /\ n \in Nat /\ n <= Len(ds)
      /\ Len(ds) \in Nat /\ \A i \in 1 .. n : sent[i] = ds[i]
  <2> HIDE DEF ds, room
  <2> QED BY <1>1, FirstOnes
<1>4. \A i \in 1 .. Len(ds) : At(ds[i]) = i /\ ds[i] \in Elems(ds) /\ ds[i] \in Frames
  <2> HIDE DEF ds
  <2>1. \A i \in 1 .. Len(ds) : At(ds[i]) = i
    BY <1>1 DEF Distinct
  <2>2. \A i \in 1 .. Len(ds) : ds[i] \in Elems(ds) /\ ds[i] \in Frames
    BY <1>1 DEF Elems
  <2> QED BY <2>1, <2>2
<1>5. \A f \in Elems(ds) : At(f) \in 1 .. Len(ds) /\ ds[At(f)] = f
  BY DEF Elems
<1> HIDE DEF ds, room, sent, n, At
<1>6. Len(contents) \in Nat /\ Len(ds) <= Len(contents)
      /\ \A i \in 1 .. Len(contents) : contents[i] \in Payloads
  BY DEF ds
<1>7. mem' \in [Frames -> Payloads]
  BY <1>1, <1>2, <1>3, <1>5, <1>6
<1>8. \A f \in Frames \ free : mem'[f] = mem[f]
  BY <1>1, <1>2
<1>9. n \in 0 .. Len(contents)
  BY <1>3, <1>6
<1> DEFINE more == SubSeq(contents, 1, n)
<1>10. /\ more \in Seq(Payloads) /\ Len(more) = n /\ \A i \in 1 .. n : more[i] = contents[i]
  BY <1>6, <1>9
<1> HIDE DEF more
<1>11. /\ txRing' \in Seq(Frames) /\ Len(txRing') = Len(txRing) + n
       /\ \A i \in 1 .. Len(txRing) + n :
            txRing'[i] = IF i <= Len(txRing) THEN txRing[i] ELSE sent[i - Len(txRing)]
  BY <1>1, <1>2, <1>3
<1> DEFINE before == TxContents
<1>12. /\ before \in Seq(Payloads) /\ Len(before) = Len(txRing)
       /\ \A i \in 1 .. Len(txRing) : before[i] = mem[txRing[i]]
  BY <1>1 DEF TxContents
<1>13. TxContents' = [i \in 1 .. Len(txRing) + n |-> mem'[txRing'[i]]]
  BY <1>11 DEF TxContents
<1> HIDE DEF before
<1>14. before \o more = [i \in 1 .. Len(txRing) + n |->
                           IF i <= Len(txRing) THEN before[i] ELSE more[i - Len(txRing)]]
  <2> DEFINE c == before \o more
  <2>1. /\ c \in Seq(Payloads) /\ Len(c) = Len(before) + Len(more)
        /\ \A i \in 1 .. Len(before) + Len(more) :
             c[i] = IF i <= Len(before) THEN before[i] ELSE more[i - Len(before)]
    BY <1>10, <1>12
  <2> HIDE DEF c
  <2>2. c = [i \in 1 .. Len(c) |-> c[i]]
    BY <2>1
  <2>3. Len(c) = Len(txRing) + n
    BY <1>10, <1>12, <2>1
  <2> QED BY <1>10, <1>12, <2>1, <2>2, <2>3 DEF c
<1>15. ASSUME NEW i \in 1 .. Len(txRing) + n
       PROVE  mem'[txRing'[i]] = IF i <= Len(txRing) THEN before[i] ELSE more[i - Len(txRing)]
  <2>1. CASE i <= Len(txRing)
    <3>1. i \in 1 .. Len(txRing) /\ txRing'[i] = txRing[i]
      BY <1>1, <1>3, <1>11, <2>1
    <3>2. txRing[i] \in Elems(txRing) /\ txRing[i] \in Frames
      BY <1>1, <3>1 DEF Elems
    <3>3. mem'[txRing[i]] = mem[txRing[i]]
      BY <1>1, <1>8, <3>2
    <3> QED BY <1>12, <2>1, <3>1, <3>3
  <2>2. CASE i > Len(txRing)
    <3> DEFINE j == i - Len(txRing)
    <3>1. j \in 1 .. n /\ j \in 1 .. Len(ds) /\ txRing'[i] = sent[j]
      BY <1>1, <1>3, <1>11, <2>2
    <3> HIDE DEF j
    <3>2. sent[j] = ds[j] /\ ds[j] \in Elems(ds) /\ ds[j] \in Frames /\ At(ds[j]) = j
      BY <1>3, <1>4, <3>1
    <3>3. mem'[ds[j]] = contents[j] /\ more[j] = contents[j]
      BY <1>2, <1>10, <3>1, <3>2
    <3>4. mem'[txRing'[i]] = more[j]
      BY <3>1, <3>2, <3>3
    <3> QED BY <1>1, <2>2, <3>4 DEF j
  <2> QED BY <1>1, <2>1, <2>2
<1>16. TxContents' = before \o more
  BY <1>13, <1>14, <1>15
<1> QED BY <1>7, <1>8, <1>9, <1>16 DEF more, before

LEMMA Transmitted ==
  ASSUME RingsAssumption, RingsInv,
         NEW t \in Threads, pc[t] \in Critical, NEW contents \in Seq(Payloads), Chain(contents),
         Len(descs[t]) <= Len(contents), Transmit(descs[t], contents)
  PROVE  /\ mem' \in [Frames -> Payloads]
         /\ \A f \in Frames \ free : mem'[f] = mem[f]
         /\ \E more \in Seq(Payloads) : /\ TxContents' = TxContents \o more /\ Chain(more)
                                        /\ Elems(more) \subseteq Elems(contents)
<1>1. /\ mem' \in [Frames -> Payloads]
      /\ \A f \in Frames \ free : mem'[f] = mem[f]
      /\ \E n \in 0 .. Len(contents) : TxContents' = TxContents \o SubSeq(contents, 1, n)
  BY TransmitData DEF RingsInv
<1>2. PICK n \in 0 .. Len(contents) : TxContents' = TxContents \o SubSeq(contents, 1, n)
  BY <1>1
<1> DEFINE more == SubSeq(contents, 1, n)
<1>3. more \in Seq(Payloads) /\ Chain(more) /\ Elems(more) \subseteq Elems(contents)
  BY ChainSplit
<1> QED BY <1>1, <1>2, <1>3

LEMMA ResetSent ==
  ASSUME RingsAssumption, RingsInv, ResetOut
  PROVE  /\ mem' \in [Frames -> Payloads]
         /\ \A f \in Frames \ free : mem'[f] = mem[f]
         /\ \E r \in Replies : \E more \in Seq(Payloads) :
              /\ Head(copies) = Reply(r)
              /\ TxContents' = TxContents \o more /\ Chain(more)
              /\ Elems(more) \subseteq {Reset(r)}
<1>1. Answering /\ copies # <<>> /\ copies \in Seq(ReplyFrames)
  BY DEF ResetOut, Answering, RingsInv, Carried
<1>2. Head(copies) \in ReplyFrames
  BY <1>1
<1>3. PICK r \in Replies : Head(copies) = Reply(r)
  BY <1>2 DEF ReplyFrames
<1> DEFINE x == Reset(r)
<1>4. Reset(Head(copies)[2]) = x /\ x \in Payloads
  BY <1>3 DEF Reply, Payloads
<1> HIDE DEF x
<1>5. /\ "rx" \in Threads /\ pc["rx"] \in Critical /\ Len(descs["rx"]) <= 1
      /\ Transmit(descs["rx"], <<x>>)
  BY <1>4 DEF Threads, ResetOut, Critical, RingsInv, Bounded
<1>6. <<x>> \in Seq(Payloads) /\ Len(<<x>>) = 1
  BY <1>4
<1>7. Chain(<<x>>) /\ Elems(<<x>>) = {x}
  BY ChainOne
<1>8. /\ mem' \in [Frames -> Payloads]
      /\ \A f \in Frames \ free : mem'[f] = mem[f]
      /\ \E more \in Seq(Payloads) : /\ TxContents' = TxContents \o more /\ Chain(more)
                                     /\ Elems(more) \subseteq {x}
  BY <1>5, <1>6, <1>7, Transmitted
<1> QED BY <1>3, <1>8 DEF x

LEMMA DecoySent ==
  ASSUME RingsAssumption, RingsInv, NEW d \in Decoys, DecoyOut(d)
  PROVE  /\ mem' \in [Frames -> Payloads]
         /\ \A f \in Frames \ free : mem'[f] = mem[f]
         /\ \E more \in Seq(Payloads) :
              /\ TxContents' = TxContents \o more /\ Chain(more)
              /\ Elems(more) \subseteq {DecoyFrame(d)}
<1> DEFINE x == DecoyFrame(d)
<1>1. x \in Payloads
  BY DEF Payloads
<1>2. Transmit(descs[d], <<x>>)
  BY DEF DecoyOut
<1> HIDE DEF x
<1>3. d \in Threads \ {"flusher"} /\ pc[d] = "transmit" /\ Len(descs[d]) <= 1
  BY DEF Threads, DecoyOut, RingsInv, Bounded, RingsAssumption
<1>4. <<x>> \in Seq(Payloads) /\ Len(<<x>>) = 1
  BY <1>1
<1>5. Chain(<<x>>) /\ Elems(<<x>>) = {x}
  BY ChainOne
<1>6. pc[d] \in Critical
  BY <1>3 DEF Critical
<1>7. /\ mem' \in [Frames -> Payloads]
      /\ \A f \in Frames \ free : mem'[f] = mem[f]
      /\ \E more \in Seq(Payloads) : /\ TxContents' = TxContents \o more /\ Chain(more)
                                     /\ Elems(more) \subseteq {x}
  BY <1>2, <1>3, <1>4, <1>5, <1>6, Transmitted
<1> QED BY <1>7 DEF x

LEMMA BatchSent ==
  ASSUME RingsAssumption, RingsInv, BatchOut
  PROVE  /\ mem' \in [Frames -> Payloads]
         /\ \A f \in Frames \ free : mem'[f] = mem[f]
         /\ \E more \in Seq(Payloads) :
              /\ TxContents' = TxContents \o more /\ Chain(more)
              /\ Elems(more) \subseteq Elems(batch)
<1>1. batch \in Seq(ProbeFrames) /\ Chain(batch) /\ ProbeFrames \subseteq Payloads
  BY DEF RingsInv, FramesInv, Batches, Order, Payloads
<1>2. batch \in Seq(Payloads)
  BY <1>1
<1>3. /\ "flusher" \in Threads /\ pc["flusher"] \in Critical
      /\ Len(descs["flusher"]) <= Len(batch) /\ Transmit(descs["flusher"], batch)
  BY DEF Threads, BatchOut, Critical, RingsInv, Bounded
<1> QED BY <1>1, <1>2, <1>3, Transmitted

\* Frames that bear a reply are not free to be written to, but in the receive
\* loop's hands.
LEMMA BearingFrames ==
  ASSUME RingsAssumption, RingsInv
  PROVE  /\ Bearing \subseteq Frames
         /\ Bearing \cap fillRing = {} /\ Bearing \cap Elems(txRing) = {}
         /\ pc["rx"] # "copy" => Bearing = rxRing /\ Bearing \cap free = {}
         /\ \A t \in Threads \ {"rx"} : pc[t] \in Critical => pc["rx"] # "copy"
<1>1. Control /\ Handed /\ Located /\ "rx" \in Threads
  BY DEF RingsInv, FramesInv, Threads
<1>2. pc["rx"] = "copy" => Elems(descs["rx"]) \subseteq free
  BY <1>1 DEF Handed, Critical
<1>3. \A t \in Threads \ {"rx"} : pc[t] \in Critical => pc["rx"] # "copy"
  BY <1>1 DEF Control, Critical
<1>4. /\ free \subseteq Frames /\ rxRing \subseteq Frames
      /\ free \cap (fillRing \cup rxRing \cup Elems(txRing)) = {}
      /\ fillRing \cap rxRing = {} /\ rxRing \cap Elems(txRing) = {}
  BY <1>1 DEF Located, EachFrameInOnePlace
<1> DEFINE T == Elems(txRing)
           H == Elems(descs["rx"])
<1> HIDE DEF T, H
<1> QED BY <1>2, <1>3, <1>4 DEF Bearing, T, H

LEMMA CarriedStep == ASSUME RingsAssumption, RingsInv, Next PROVE Carried'
<1>0. /\ mem \in [Frames -> Payloads] /\ wire \in Seq(Payloads) /\ due \subseteq Replies
      /\ copies \in Seq(ReplyFrames) /\ handled \in Seq(ReplyFrames)
      /\ Answering => copies # <<>>
      /\ "rx" \in Threads /\ pc \in [Threads -> Labels]
      /\ "rx" \notin Decoys /\ FramesInv
  BY DEF RingsInv, Carried, FramesInv, Control, Threads, RingsAssumption
<1>1. ASSUME mem' \in [Frames -> Payloads], wire' = wire, due' = due,
             copies' \in Seq(ReplyFrames), handled' \in Seq(ReplyFrames),
             Answering' => copies' # <<>>
      PROVE  Carried'
  BY <1>0, <1>1 DEF Carried
<1>2. ASSUME NEW to, Goto("rx", to), to \notin {"answer", "reset"} PROVE ~ Answering'
  BY <1>0, <1>2 DEF Goto, Answering
<1>3. CASE KernelReceive
  <2>1. PICK r \in due : /\ due' = due \ {r}
                         /\ \/ \E f \in fillRing : mem' = [mem EXCEPT ![f] = Reply(r)]
                            \/ mem' = mem
    BY <1>3 DEF KernelReceive
  <2>2. Reply(r) \in Payloads
    BY <1>0, <2>1 DEF Payloads, ReplyFrames
  <2>3. mem' \in [Frames -> Payloads] /\ due' \subseteq Replies
    BY <1>0, <2>1, <2>2
  <2>4. UNCHANGED <<wire, copies, handled, pc>>
    BY <1>3 DEF KernelReceive, network
  <2> QED BY <1>0, <2>3, <2>4 DEF Carried, Answering
<1>4. CASE KernelSend
  <2>1. /\ wire' = Append(wire, mem[Head(txRing)]) /\ txRing # <<>>
        /\ mem' = [mem EXCEPT ![Head(txRing)] = Empty]
        /\ UNCHANGED <<due, copies, handled, pc>>
    BY <1>4 DEF KernelSend
  <2>2. txRing \in Seq(Frames)
    BY <1>0 DEF FramesInv, Located
  <2>3. Head(txRing) \in Frames
    BY <2>1, <2>2
  <2>4. mem[Head(txRing)] \in Payloads
    BY <1>0, <2>3
  <2>5. Empty \in Payloads
    BY DEF Payloads
  <2>6. wire' \in Seq(Payloads)
    BY <1>0, <2>1, <2>4
  <2>7. mem' \in [Frames -> Payloads]
    BY <1>0, <2>1, <2>5
  <2> QED BY <1>0, <2>1, <2>6, <2>7 DEF Carried, Answering
<1>5. CASE Coalesce
  <2>1. UNCHANGED <<mem, wire, due, copies, handled>> /\ Goto("flusher", "flush")
    BY <1>5 DEF Coalesce, rings, network
  <2>2. pc'["rx"] = pc["rx"]
    BY <1>0, <2>1 DEF Goto
  <2> QED BY <1>0, <1>1, <2>1, <2>2 DEF Answering
<1>6. ASSUME NEW s \in Scanners, TransmitFrame(s) PROVE Carried'
  <2>1. UNCHANGED <<mem, wire, due, copies, handled, pc>>
    BY <1>6 DEF TransmitFrame, rings, network
  <2> QED BY <1>0, <1>1, <2>1 DEF Answering
<1>7. CASE Elsewhere
  BY <1>0, <1>1, <1>7 DEF Elsewhere, network
<1>8. CASE CopyOut
  <2>1. UNCHANGED <<mem, wire, due, handled>> /\ Goto("rx", "handle")
        /\ copies' = [i \in 1 .. Len(descs["rx"]) |-> mem[descs["rx"][i]]]
        /\ pc["rx"] = "copy"
    BY <1>8 DEF CopyOut, rings, network
  <2>2. descs["rx"] \in Seq(Frames)
    BY <1>0 DEF FramesInv, Handed
  <2>3. \A i \in 1 .. Len(descs["rx"]) : descs["rx"][i] \in Bearing
    BY <2>1 DEF Bearing, Elems
  <2>4. \A f \in Bearing : mem[f] \in ReplyFrames
    BY DEF RingsInv, RepliesOnce, Came, ReplyFrames
  <2>5. copies' \in Seq(ReplyFrames)
    BY <2>1, <2>2, <2>3, <2>4
  <2> QED BY <1>0, <1>1, <1>2, <2>1, <2>5
<1>9. CASE HandleOne
  <2>1. UNCHANGED <<mem, wire, due>> /\ copies # <<>>
        /\ handled' = Append(handled, Head(copies))
        /\ \/ Goto("rx", "answer") /\ UNCHANGED copies
           \/ copies' = Tail(copies) /\ UNCHANGED pc /\ pc["rx"] = "handle"
    BY <1>9 DEF HandleOne, rings, network
  <2>2. Head(copies) \in ReplyFrames /\ Tail(copies) \in Seq(ReplyFrames)
    BY <1>0, <2>1
  <2> DEFINE x == Head(copies)
             rest == Tail(copies)
  <2> HIDE DEF x, rest
  <2>3. Append(handled, x) \in Seq(ReplyFrames)
    BY <1>0, <2>2 DEF x
  <2>4. copies' = copies \/ copies' = rest
    BY <2>1 DEF rest
  <2>5. copies' \in Seq(ReplyFrames) /\ handled' \in Seq(ReplyFrames)
    BY <1>0, <2>1, <2>2, <2>3, <2>4 DEF x, rest
  <2>6. Answering' => copies' # <<>>
    BY <2>1 DEF Answering
  <2> QED BY <1>0, <1>1, <2>1, <2>5, <2>6
<1>10. CASE ResetOut
  <2>1. /\ UNCHANGED <<wire, due, handled>> /\ Goto("rx", "handle") /\ copies' = Tail(copies)
        /\ Answering
    BY <1>10 DEF ResetOut, network, Answering
  <2>2. copies' \in Seq(ReplyFrames)
    BY <1>0, <2>1
  <2>3. mem' \in [Frames -> Payloads]
    BY <1>10, ResetSent
  <2> QED BY <1>0, <1>1, <1>2, <2>1, <2>2, <2>3
<1>11. CASE BatchOut
  <2>1. /\ UNCHANGED <<wire, due, copies, handled>> /\ Goto("flusher", "idle")
    BY <1>11 DEF BatchOut, network
  <2>2. pc'["rx"] = pc["rx"]
    BY <1>0, <2>1 DEF Goto
  <2> QED BY <1>0, <1>1, <1>11, <2>1, <2>2, BatchSent DEF Answering
<1>12. ASSUME NEW d \in Decoys, DecoyOut(d) PROVE Carried'
  <2>1. /\ UNCHANGED <<wire, due, copies, handled>> /\ Goto(d, "done")
    BY <1>12 DEF DecoyOut, network
  <2>2. pc'["rx"] = pc["rx"]
    BY <1>0, <2>1 DEF Goto
  <2> QED BY <1>0, <1>1, <1>12, <2>1, <2>2, DecoySent DEF Answering
<1> QED BY <1>0, <1>3, <1>4, <1>5, <1>6, <1>7, <1>8, <1>9, <1>10, <1>11, <1>12, DataKinds

\* A reply is copied out of its frame once, and parsed once.
LEMMA RepliesStep == ASSUME RingsAssumption, RingsInv, Next PROVE RepliesOnce'
<1>0. /\ pc["rx"] \in ParsingLabels \/ copies = <<>>
      /\ Answering => Head(copies) \in Elems(handled)
      /\ Elems(handled) \subseteq Came /\ Elems(Unhandled) \subseteq Came
      /\ Distinct(handled) /\ Distinct(Unhandled)
      /\ Elems(handled) \cap Elems(Unhandled) = {}
      /\ \A f \in Bearing : mem[f] \in Came \ (Elems(handled) \cup Elems(Unhandled))
      /\ \A f, g \in Bearing : mem[f] = mem[g] => f = g
  BY DEF RingsInv, RepliesOnce, ParsingLabels
<1>c. /\ mem \in [Frames -> Payloads] /\ due \subseteq Replies
      /\ copies \in Seq(ReplyFrames) /\ handled \in Seq(ReplyFrames)
      /\ "rx" \in Threads /\ pc \in [Threads -> Labels] /\ FramesInv /\ Located
      /\ "rx" \notin Decoys /\ Handed
  BY DEF RingsInv, Carried, FramesInv, Control, Threads, RingsAssumption
<1>1. ASSUME handled' = handled, Unhandled' = Unhandled, due' = due, Bearing' \subseteq Bearing,
             \A f \in Bearing : mem'[f] = mem[f],
             Answering' => Answering /\ copies' = copies,
             pc'["rx"] \in ParsingLabels \/ copies' = <<>>
      PROVE  RepliesOnce'
  <2>1. /\ Elems(handled)' = Elems(handled) /\ Elems(Unhandled)' = Elems(Unhandled)
        /\ Came' = Came
    BY <1>1 DEF Elems, Came
  <2>2. Distinct(handled)' /\ Distinct(Unhandled)'
    BY <1>0, <1>1 DEF Distinct
  <2>3. /\ \A f \in Bearing' : mem'[f] \in Came \ (Elems(handled) \cup Elems(Unhandled))
        /\ \A f, g \in Bearing' : mem'[f] = mem'[g] => f = g
    BY <1>0, <1>1
  <2> DEFINE H == Elems(handled)
             U == Elems(Unhandled)
  <2>4. (Answering => Head(copies) \in Elems(handled))'
    BY <1>0, <1>1, <2>1
  <2> QED BY <1>0, <1>1, <2>1, <2>2, <2>3, <2>4 DEF RepliesOnce, ParsingLabels
<1>2. ASSUME UNCHANGED <<handled, due, copies>>, pc'["rx"] = pc["rx"],
             Bearing' \subseteq Bearing, \A f \in Bearing : mem'[f] = mem[f]
      PROVE  RepliesOnce'
  BY <1>0, <1>1, <1>2 DEF Answering, Unhandled
<1>3. ASSUME pc'["rx"] = pc["rx"], rxRing' = rxRing, descs'["rx"] = descs["rx"]
      PROVE  Bearing' = Bearing
  BY <1>3 DEF Bearing, Elems
<1>4. CASE KernelReceive
  <2>1. /\ UNCHANGED <<pc, copies, handled, descs>>
        /\ \E r \in due : /\ due' = due \ {r}
                          /\ \/ \E f \in fillRing : /\ rxRing' = rxRing \cup {f}
                                                    /\ mem' = [mem EXCEPT ![f] = Reply(r)]
                             \/ UNCHANGED <<rxRing, mem>>
    BY <1>4 DEF KernelReceive
  <2>2. PICK r \in due : /\ due' = due \ {r}
                         /\ \/ \E f \in fillRing : /\ rxRing' = rxRing \cup {f}
                                                   /\ mem' = [mem EXCEPT ![f] = Reply(r)]
                            \/ UNCHANGED <<rxRing, mem>>
    BY <2>1
  <2>3. /\ Elems(handled)' = Elems(handled) /\ Elems(Unhandled)' = Elems(Unhandled)
        /\ Distinct(handled)' = Distinct(handled)
        /\ Distinct(Unhandled)' = Distinct(Unhandled)
        /\ Answering' = Answering
    BY <2>1 DEF Elems, Distinct, Unhandled, Answering
  <2>4. Came' = Came \cup {Reply(r)} /\ Reply(r) \notin Came
    <3>1. Replies \ due' = (Replies \ due) \cup {r} /\ r \notin Replies \ due
      BY <1>c, <2>2
    <3>2. \A q : Reply(q) = Reply(r) => q = r
      BY DEF Reply
    <3> QED BY <3>1, <3>2 DEF Came
  <2> DEFINE H == Elems(handled)
             U == Elems(Unhandled)
  <2>5. /\ H \subseteq Came' /\ U \subseteq Came' /\ H \cap U = {}
        /\ Answering => Head(copies) \in H
        /\ pc["rx"] \in ParsingLabels \/ copies = <<>>
    BY <1>0, <2>4
  <2>6. /\ \A f \in Bearing' : mem'[f] \in Came' \ (H \cup U)
        /\ \A f, g \in Bearing' : mem'[f] = mem'[g] => f = g
    <3>1. CASE UNCHANGED <<rxRing, mem>>
      <4>1. Bearing' = Bearing
        BY <1>3, <2>1, <3>1
      <4> QED BY <1>0, <2>4, <3>1, <4>1
    <3>2. CASE \E f \in fillRing : rxRing' = rxRing \cup {f} /\ mem' = [mem EXCEPT ![f] = Reply(r)]
      <4>1. PICK f \in fillRing : rxRing' = rxRing \cup {f} /\ mem' = [mem EXCEPT ![f] = Reply(r)]
        BY <3>2
      <4>2. Bearing' = Bearing \cup {f}
        <5>1. Elems(descs["rx"])' = Elems(descs["rx"])
          BY <2>1 DEF Elems
        <5> QED BY <2>1, <4>1, <5>1 DEF Bearing
      <4>3. f \in Frames /\ f \notin Bearing /\ Bearing \subseteq Frames
        BY <1>c, BearingFrames DEF Located
      <4>4. mem'[f] = Reply(r) /\ \A g \in Bearing : mem'[g] = mem[g]
        BY <1>c, <4>1, <4>3
      <4>5. Reply(r) \notin H /\ Reply(r) \notin U
        BY <1>0, <2>4
      <4> HIDE DEF H, U
      <4>6. \A g \in Bearing : mem[g] \in Came \ (H \cup U)
        BY <1>0 DEF H, U
      <4> QED BY <1>0, <2>4, <4>2, <4>4, <4>5, <4>6
    <3> QED BY <2>2, <3>1, <3>2
  <2> QED BY <1>0, <2>1, <2>3, <2>5, <2>6 DEF RepliesOnce, ParsingLabels
<1>5. CASE KernelSend
  <2>1. /\ UNCHANGED <<pc, copies, handled, descs, due, rxRing>> /\ txRing # <<>>
        /\ mem' = [mem EXCEPT ![Head(txRing)] = Empty]
    BY <1>5 DEF KernelSend
  <2>2. Head(txRing) \in Elems(txRing)
    BY <1>c, <2>1 DEF Located, Elems
  <2>3. \A f \in Bearing : mem'[f] = mem[f]
    BY <1>c, <2>1, <2>2, BearingFrames
  <2> QED BY <1>2, <1>3, <2>1, <2>3
<1>6. CASE Coalesce
  <2>1. UNCHANGED <<copies, handled, descs, due, rxRing, mem>> /\ Goto("flusher", "flush")
    BY <1>6 DEF Coalesce, rings, network
  <2>2. pc'["rx"] = pc["rx"]
    BY <1>c, <2>1 DEF Goto
  <2> QED BY <1>2, <1>3, <2>1, <2>2
<1>7. ASSUME NEW s \in Scanners, TransmitFrame(s) PROVE RepliesOnce'
  <2>1. UNCHANGED <<copies, handled, descs, due, rxRing, mem, pc>>
    BY <1>7 DEF TransmitFrame, rings, network
  <2> QED BY <1>2, <1>3, <2>1
<1>8. CASE Elsewhere
  <2>1. /\ UNCHANGED <<copies, handled, due, mem>> /\ Bearing' \subseteq Bearing
        /\ Answering' <=> Answering
        /\ pc["rx"] \in ParsingLabels => pc'["rx"] \in ParsingLabels \/ copies = <<>>
    BY <1>8 DEF Elsewhere, network
  <2>2. Unhandled' = Unhandled
    BY <2>1 DEF Unhandled
  <2> QED BY <1>0, <1>1, <2>1, <2>2
<1>9. CASE CopyOut
  <2> DEFINE ds == descs["rx"]
             got == [i \in 1 .. Len(ds) |-> mem[ds[i]]]
  <2>1. /\ UNCHANGED <<handled, due, mem, rxRing>> /\ pc["rx"] = "copy"
        /\ copies' = got /\ pc'["rx"] = "handle"
    BY <1>c, <1>9 DEF CopyOut, rings, network, Goto
  <2>2. /\ ds \in Seq(Frames) /\ Len(ds) \in Nat /\ Distinct(ds)
        /\ Bearing = rxRing \cup Elems(ds) /\ rxRing \cap Elems(ds) = {}
        /\ \A i \in 1 .. Len(ds) : ds[i] \in Elems(ds)
        /\ \A f \in Elems(ds) : \E i \in 1 .. Len(ds) : f = ds[i]
    <3>1. ds \in Seq(Frames) /\ Distinct(ds) /\ Elems(ds) \subseteq free
      BY <1>c, <2>1 DEF Handed, Critical
    <3>2. Bearing = rxRing \cup Elems(ds)
      BY <2>1 DEF Bearing
    <3>3. rxRing \cap free = {}
      BY <1>c DEF Located, EachFrameInOnePlace
    <3>4. Len(ds) \in Nat
      BY <3>1
    <3> HIDE DEF ds
    <3> QED BY <3>1, <3>2, <3>3, <3>4, ElemsOf
  <2> HIDE DEF ds
  <2>3. /\ Len(got) = Len(ds) /\ \A i \in 1 .. Len(ds) : got[i] = mem[ds[i]]
    BY <2>2
  <2>4. /\ \A x \in Elems(got) : \E i \in 1 .. Len(ds) : x = mem[ds[i]]
    BY <2>3 DEF Elems
  <2> HIDE DEF got
  <2>5. Unhandled' = got /\ ~ Answering'
    BY <2>1 DEF Unhandled, Answering
  <2>6. Distinct(got)
    <3>1. ASSUME NEW k \in 1 .. Len(got), NEW j \in 1 .. Len(got), got[k] = got[j] PROVE k = j
      <4>1. /\ k \in 1 .. Len(ds) /\ j \in 1 .. Len(ds) /\ mem[ds[k]] = mem[ds[j]]
            /\ ds[k] \in Bearing /\ ds[j] \in Bearing
        BY <2>2, <2>3, <3>1
      <4>2. ds[k] = ds[j]
        BY <1>0, <4>1
      <4> QED BY <2>2, <4>1, <4>2 DEF Distinct
    <3> QED BY <3>1 DEF Distinct
  <2>7. ~ Answering /\ copies = <<>>
    BY <1>0, <2>1 DEF Answering, ParsingLabels
  <2>8. Elems(got) \subseteq Came /\ Elems(got) \cap Elems(handled) = {}
    BY <1>0, <2>2, <2>4
  <2>9. Bearing' = rxRing
    BY <2>1 DEF Bearing
  <2>10. \A f \in rxRing : mem[f] \notin Elems(got)
    BY <1>0, <2>2, <2>4
  <2>11. /\ Elems(handled)' = Elems(handled) /\ Distinct(handled)' = Distinct(handled)
         /\ Elems(Unhandled)' = Elems(got) /\ Distinct(Unhandled)' = Distinct(got)
         /\ Came' = Came
    BY <2>1, <2>5 DEF Elems, Distinct, Came
  <2> DEFINE H == Elems(handled)
             G == Elems(got)
  <2>12. /\ \A f \in rxRing : mem[f] \in Came \ (H \cup G)
         /\ \A f, g \in rxRing : mem[f] = mem[g] => f = g
    BY <1>0, <2>2, <2>10
  <2> QED BY <1>0, <2>1, <2>5, <2>6, <2>8, <2>9, <2>11, <2>12 DEF RepliesOnce
<1>10. CASE HandleOne
  <2> DEFINE x == Head(copies)
             rest == Tail(copies)
  <2>1. /\ UNCHANGED <<due, mem, rxRing, descs>> /\ copies # <<>> /\ pc["rx"] = "handle"
        /\ handled' = Append(handled, x)
        /\ \/ pc'["rx"] = "answer" /\ copies' = copies
           \/ pc'["rx"] = "handle" /\ copies' = rest
    BY <1>c, <1>10 DEF HandleOne, rings, network, Goto
  <2>2. Unhandled = copies /\ Unhandled' = rest /\ (Answering' => copies' = copies)
    BY <2>1 DEF Unhandled, Answering
  <2>3. /\ Elems(copies) = {x} \cup Elems(rest) /\ Distinct(rest) /\ x \notin Elems(rest)
        /\ x \in ReplyFrames
    BY <1>0, <1>c, <2>1, <2>2, Without1st
  <2> HIDE DEF x, rest
  <2>4. /\ Append(handled, x) = handled \o <<x>> /\ <<x>> \in Seq(ReplyFrames)
    BY <1>c, <2>3
  <2>5. Elems(<<x>>) = {x} /\ Distinct(<<x>>)
    BY DEF Elems, Distinct
  <2>6. x \notin Elems(handled)
    BY <1>0, <2>2, <2>3
  <2>7. Elems(handled') = Elems(handled) \cup {x} /\ Distinct(handled')
    <3> DEFINE one == <<x>>
    <3> HIDE DEF one
    <3>1. one \in Seq(ReplyFrames) /\ Elems(one) = {x} /\ Distinct(one)
      BY <2>4, <2>5 DEF one
    <3>2. Elems(handled) \cap Elems(one) = {}
      BY <2>6, <3>1
    <3>3. /\ Elems(handled \o one) = Elems(handled) \cup Elems(one)
          /\ Distinct(handled \o one)
      BY <1>0, <1>c, <3>1, <3>2, ElemsConcat
    <3>4. handled' = handled \o one
      BY <2>1, <2>4 DEF one
    <3> QED BY <3>1, <3>3, <3>4
  <2>8. Bearing' = Bearing
    BY <1>c, <2>1 DEF Bearing, Elems
  <2> DEFINE H == Elems(handled)
             R == Elems(rest)
             C == Elems(copies)
  <2>9. /\ Elems(handled)' = H \cup {x} /\ Distinct(handled)'
        /\ Elems(Unhandled)' = R /\ Distinct(Unhandled)' = Distinct(rest)
        /\ Came' = Came
    <3>1. Elems(handled)' = Elems(handled') /\ Distinct(handled)' = Distinct(handled')
      BY DEF Elems, Distinct
    <3>2. Elems(Unhandled)' = Elems(rest) /\ Distinct(Unhandled)' = Distinct(rest)
      BY <2>2 DEF Elems, Distinct
    <3> QED BY <2>1, <2>7, <3>1, <3>2 DEF Came
  <2>10. C = {x} \cup R /\ x \notin R /\ H \cap C = {} /\ H \subseteq Came /\ C \subseteq Came
         /\ \A f \in Bearing : mem[f] \in Came \ (H \cup C)
    BY <1>0, <2>2, <2>3
  <2>11. (Answering => Head(copies) \in Elems(handled))'
    BY <2>2, <2>9 DEF x
  <2> HIDE DEF H, R, C
  <2>12. /\ H \cup {x} \subseteq Came /\ R \subseteq Came /\ (H \cup {x}) \cap R = {}
         /\ \A f \in Bearing : mem[f] \in Came \ ((H \cup {x}) \cup R)
    BY <2>10
  <2> QED BY <1>0, <2>1, <2>3, <2>8, <2>9, <2>11, <2>12 DEF RepliesOnce
<1>11. CASE ResetOut
  <2>1. /\ UNCHANGED <<due, handled, rxRing>> /\ pc["rx"] = "reset" /\ pc'["rx"] = "handle"
        /\ copies' = Tail(copies)
    BY <1>c, <1>11 DEF ResetOut, network, Goto, Transmit
  <2>2. Unhandled' = Unhandled /\ ~ Answering'
    BY <2>1 DEF Unhandled, Answering
  <2>3. Bearing' = Bearing
    BY <2>1 DEF Bearing
  <2>4. \A f \in Bearing : mem'[f] = mem[f]
    BY <1>11, <2>1, BearingFrames, ResetSent
  <2> QED BY <1>1, <2>1, <2>2, <2>3, <2>4 DEF ParsingLabels
<1>12. ASSUME NEW t \in Threads \ {"rx"}, NEW to, pc[t] \in Critical, Goto(t, to), Hold(t, <<>>),
              UNCHANGED <<due, handled, rxRing, copies>>,
              \A f \in Frames \ free : mem'[f] = mem[f]
       PROVE  RepliesOnce'
  <2>1. pc'["rx"] = pc["rx"] /\ descs'["rx"] = descs["rx"]
    BY <1>c, <1>12 DEF Goto, Hold, Handed
  <2>2. \A f \in Bearing : mem'[f] = mem[f]
    BY <1>12, BearingFrames
  <2> QED BY <1>2, <1>3, <1>12, <2>1, <2>2
<1>13. CASE BatchOut
  <2>1. "flusher" \in Threads \ {"rx"} /\ pc["flusher"] \in Critical
    BY <1>13 DEF Threads, BatchOut, Critical
  <2> QED BY <1>12, <1>13, <2>1, BatchSent DEF BatchOut, Transmit, network
<1>14. ASSUME NEW d \in Decoys, DecoyOut(d) PROVE RepliesOnce'
  <2>1. d \in Threads \ {"rx"} /\ pc[d] \in Critical
    BY <1>c, <1>14 DEF Threads, DecoyOut, Critical
  <2> QED BY <1>12, <1>14, <2>1, DecoySent DEF DecoyOut, Transmit, network
<1> QED BY <1>4, <1>5, <1>6, <1>7, <1>8, <1>9, <1>10, <1>11, <1>13, <1>14, DataKinds
        DEF RingsInv

-----------------------------------------------------------------------------
(* What is sent, from the scanners' queue to the wire. *)

LEMMA TxTyped ==
  ASSUME RingsInv
  PROVE  /\ TxContents \in Seq(Payloads) /\ txRing \in Seq(Frames)
         /\ Len(TxContents) = Len(txRing) /\ Len(txRing) \in Nat
         /\ \A i \in 1 .. Len(txRing) : /\ TxContents[i] = mem[txRing[i]]
                                        /\ txRing[i] \in Frames
                                        /\ txRing[i] \in Elems(txRing)
<1>1. txRing \in Seq(Frames) /\ mem \in [Frames -> Payloads]
  BY DEF RingsInv, FramesInv, Located, Carried
<1>2. \A i \in 1 .. Len(txRing) : txRing[i] \in Frames /\ txRing[i] \in Elems(txRing)
  BY <1>1 DEF Elems
<1>3. Len(txRing) \in Nat
  BY <1>1
<1> QED BY <1>1, <1>2, <1>3 DEF TxContents

LEMMA TxSame ==
  ASSUME RingsInv, txRing' = txRing, \A f \in Elems(txRing) : mem'[f] = mem[f]
  PROVE  TxContents' = TxContents
<1>1. \A i \in 1 .. Len(txRing) : mem'[txRing[i]] = mem[txRing[i]]
  BY DEF Elems
<1> QED BY <1>1 DEF TxContents

LEMMA TxTail ==
  ASSUME RingsInv, KernelSend
  PROVE  /\ TxContents # <<>> /\ wire' = Append(wire, Head(TxContents))
         /\ TxContents' = Tail(TxContents)
<1>1. /\ txRing # <<>> /\ wire' = Append(wire, mem[Head(txRing)]) /\ txRing' = Tail(txRing)
      /\ mem' = [mem EXCEPT ![Head(txRing)] = Empty]
  BY DEF KernelSend
<1>2. mem \in [Frames -> Payloads] /\ Distinct(txRing)
  BY DEF RingsInv, FramesInv, Carried, Located, EachFrameInOnePlace, Distinct
<1>3. /\ TxContents \in Seq(Payloads) /\ txRing \in Seq(Frames)
      /\ Len(TxContents) = Len(txRing) /\ Len(txRing) \in Nat
      /\ \A i \in 1 .. Len(txRing) : TxContents[i] = mem[txRing[i]] /\ txRing[i] \in Frames
  BY TxTyped
<1> DEFINE c == TxContents
           t == Tail(txRing)
<1>4. /\ Len(txRing) \in Nat \ {0} /\ Len(t) = Len(txRing) - 1 /\ Head(txRing) = txRing[1]
      /\ \A i \in 1 .. Len(txRing) - 1 : t[i] = txRing[i + 1]
  BY <1>1, <1>3, Without1st
<1>5. TxContents' = [i \in 1 .. Len(t) |-> mem'[t[i]]]
  BY <1>1 DEF TxContents
<1> HIDE DEF c, t
<1>6. c # <<>> /\ c \in Seq(Payloads)
  BY <1>3, <1>4 DEF c
<1>7. /\ Tail(c) \in Seq(Payloads) /\ Len(Tail(c)) = Len(c) - 1 /\ Head(c) = c[1]
      /\ \A i \in 1 .. Len(c) - 1 : Tail(c)[i] = c[i + 1]
  BY <1>6, Without1st
<1>8. ASSUME NEW i \in 1 .. Len(t) PROVE mem'[t[i]] = Tail(c)[i]
  <2>1. /\ i + 1 \in 1 .. Len(txRing) /\ 1 \in 1 .. Len(txRing) /\ i + 1 # 1
        /\ t[i] = txRing[i + 1] /\ Tail(c)[i] = c[i + 1]
    BY <1>3, <1>4, <1>7 DEF c
  <2>2. txRing[i + 1] # txRing[1]
    BY <1>2, <2>1 DEF Distinct
  <2> QED BY <1>1, <1>2, <1>3, <1>4, <2>1, <2>2 DEF c
<1>9. Tail(c) = [i \in 1 .. Len(t) |-> Tail(c)[i]]
  <2> DEFINE r == Tail(c)
  <2>1. r \in Seq(Payloads) /\ Len(r) = Len(t)
    BY <1>3, <1>4, <1>7 DEF c
  <2> HIDE DEF r
  <2>2. r = [i \in 1 .. Len(r) |-> r[i]]
    BY <2>1
  <2> QED BY <2>1, <2>2 DEF r
<1>10. TxContents' = Tail(c)
  BY <1>5, <1>8, <1>9
<1>11. Head(c) = mem[Head(txRing)]
  BY <1>3, <1>4, <1>7 DEF c
<1> QED BY <1>1, <1>6, <1>10, <1>11 DEF c

\* From one end to the other, and at the ends.
Line == <<wire, TxContents, batch, xdpTxQueue>>

SendsNext ==
  /\ TxContents # <<>> /\ wire' = Append(wire, Head(TxContents))
  /\ TxContents' = Tail(TxContents) /\ UNCHANGED <<batch, xdpTxQueue>>

Coalesces ==
  /\ batch = <<>> /\ UNCHANGED <<wire, TxContents>>
  /\ \E n \in 0 .. Len(xdpTxQueue) :
       /\ batch' = SubSeq(xdpTxQueue, 1, n)
       /\ xdpTxQueue' = SubSeq(xdpTxQueue, n + 1, Len(xdpTxQueue))

Queues(s) ==
  /\ xdpTxQueue' = Append(xdpTxQueue, ProbeFrame(s, queued[s] + 1))
  /\ UNCHANGED <<wire, TxContents, batch>>

Transmits(xs) ==
  /\ UNCHANGED <<wire, xdpTxQueue>>
  /\ \E more \in Seq(Payloads) : /\ TxContents' = TxContents \o more /\ Chain(more)
                                 /\ Elems(more) \subseteq xs

LEMMA LineKinds ==
  ASSUME RingsAssumption, RingsInv, Next
  PROVE  \/ KernelReceive /\ UNCHANGED Line
         \/ KernelSend /\ SendsNext
         \/ Coalesce /\ Coalesces
         \/ \E s \in Scanners : TransmitFrame(s) /\ (Queues(s) \/ UNCHANGED <<Line, queued>>)
         \/ (Elsewhere \/ CopyOut \/ HandleOne) /\ UNCHANGED Line
         \/ /\ ResetOut /\ UNCHANGED batch
            /\ \E r \in Replies : Head(copies) = Reply(r) /\ Transmits({Reset(r)})
         \/ BatchOut /\ Transmits(Elems(batch))
         \/ \E d \in Decoys : DecoyOut(d) /\ UNCHANGED batch /\ Transmits({DecoyFrame(d)})
<1>0. FramesInv /\ Carried
  BY DEF RingsInv
<1>1. CASE KernelReceive
  <2>1. UNCHANGED <<wire, txRing, batch, xdpTxQueue>>
        /\ (mem' = mem \/ \E f \in fillRing, r \in due : mem' = [mem EXCEPT ![f] = Reply(r)])
    BY <1>1 DEF KernelReceive, queue
  <2>2. fillRing \cap Elems(txRing) = {} /\ mem \in [Frames -> Payloads] /\ fillRing \subseteq Frames
    BY <1>0 DEF FramesInv, Located, EachFrameInOnePlace, Carried
  <2>3. Elems(txRing) \subseteq Frames
    BY <1>0, ElemsOf DEF FramesInv, Located
  <2> DEFINE T == Elems(txRing)
  <2> HIDE DEF T
  <2>4. \A f \in T : mem'[f] = mem[f]
    BY <2>1, <2>2, <2>3 DEF T
  <2> QED BY <1>1, <2>1, <2>4, TxSame DEF Line, T
<1>2. CASE KernelSend
  BY <1>2, TxTail DEF KernelSend, SendsNext, queue
<1>3. CASE Coalesce
  <2> DEFINE n == AtMost(Len(xdpTxQueue), TxBatchSize - Len(batch))
  <2>1. /\ pc["flusher"] = "idle" /\ batch' = batch \o SubSeq(xdpTxQueue, 1, n)
        /\ xdpTxQueue' = SubSeq(xdpTxQueue, n + 1, Len(xdpTxQueue))
        /\ UNCHANGED <<wire, txRing, mem>>
    BY <1>3 DEF Coalesce, rings, network
  <2>2. /\ batch = <<>> /\ xdpTxQueue \in Seq(ProbeFrames) /\ TxBatchSize \in Nat
    BY <1>0, <2>1 DEF FramesInv, Batches, RingsAssumption
  <2>3. n \in 0 .. Len(xdpTxQueue)
    BY <2>2 DEF AtMost
  <2> HIDE DEF n
  <2>4. SubSeq(xdpTxQueue, 1, n) \in Seq(ProbeFrames)
    BY <2>2, <2>3, ChainSplit
  <2>5. batch' = SubSeq(xdpTxQueue, 1, n)
    BY <2>1, <2>2, <2>4
  <2>6. TxContents' = TxContents
    BY <2>1, TxSame
  <2> QED BY <1>3, <2>1, <2>2, <2>3, <2>5, <2>6 DEF Coalesces
<1>4. ASSUME NEW s \in Scanners, TransmitFrame(s)
      PROVE  Queues(s) \/ UNCHANGED <<Line, queued>>
  <2>1. UNCHANGED <<wire, txRing, mem, batch>>
    BY <1>4 DEF TransmitFrame, rings, network
  <2>2. TxContents' = TxContents
    BY <2>1, TxSame
  <2> QED BY <1>4, <2>1, <2>2 DEF TransmitFrame, Queues, Line
<1>5. CASE Elsewhere \/ CopyOut \/ HandleOne
  <2>1. UNCHANGED <<wire, txRing, mem, batch, xdpTxQueue>>
    BY <1>5 DEF Elsewhere, CopyOut, HandleOne, rings, network, queue
  <2> QED BY <1>5, <2>1, TxSame DEF Line
<1>6. CASE ResetOut
  BY <1>6, ResetSent DEF ResetOut, Transmits, network, queue
<1>7. CASE BatchOut
  BY <1>7, BatchSent DEF BatchOut, Transmits, network, queue
<1>8. ASSUME NEW d \in Decoys, DecoyOut(d) PROVE UNCHANGED batch /\ Transmits({DecoyFrame(d)})
  BY <1>8, DecoySent DEF DecoyOut, Transmits, network, queue
<1> QED BY <1>0, <1>1, <1>2, <1>3, <1>4, <1>5, <1>6, <1>7, <1>8, DataKinds

LEMMA SendableKept ==
  ASSUME RingsInv, \A s \in Scanners : queued[s] \in Nat /\ queued'[s] \in Nat /\ queued[s] <= queued'[s],
         \A d \in Decoys : pc[d] = "done" => pc'[d] = "done",
         Elems(handled) \subseteq Elems(handled'),
         \A x \in Elems(handled) : (Answering => Head(copies) # x)
                                   => (Answering' => Head(copies') # x)
  PROVE  /\ \A x : Queued(x) => Queued(x)'
         /\ \A x : Sendable(x) => Sendable(x)'
<1>0. Elems(handled)' = Elems(handled')
  BY DEF Elems
<1>1. ASSUME NEW x, Queued(x) PROVE Queued(x)'
  <2>1. PICK s \in Scanners, k \in 1 .. Fragments : x = ProbeFrame(s, k) /\ k <= queued[s]
    BY <1>1 DEF Queued
  <2>2. k <= queued'[s]
    BY <2>1
  <2> QED BY <2>1, <2>2 DEF Queued
<1>2. ASSUME NEW x, Sendable(x) PROVE Sendable(x)'
  <2>1. CASE Queued(x)
    BY <1>1, <2>1 DEF Sendable
  <2>2. CASE \E d \in Decoys : x = DecoyFrame(d) /\ pc[d] = "done"
    BY <2>2 DEF Sendable
  <2>3. CASE \E r \in Replies : /\ x = Reset(r) /\ Reply(r) \in Elems(handled)
                                /\ Answering => Head(copies) # Reply(r)
    <3>1. PICK r \in Replies : /\ x = Reset(r) /\ Reply(r) \in Elems(handled)
                               /\ Answering => Head(copies) # Reply(r)
      BY <2>3
    <3> DEFINE y == Reply(r)
    <3> HIDE DEF y
    <3>2. y \in Elems(handled) /\ (Answering => Head(copies) # y)
      BY <3>1 DEF y
    <3>3. Answering' => Head(copies') # y
      BY <3>2
    <3>4. y \in Elems(handled)'
      BY <1>0, <3>2
    <3>5. \E q \in Replies : /\ x = Reset(q) /\ Reply(q) \in Elems(handled)'
                             /\ Answering' => Head(copies') # Reply(q)
      BY <3>1, <3>3, <3>4 DEF y
    <3> QED BY <3>5 DEF Sendable
  <2> QED BY <1>2, <2>1, <2>2, <2>3 DEF Sendable
<1> QED BY <1>1, <1>2

\* What is new in the line is what was to be sent.
LEMMA OriginsStep == ASSUME RingsAssumption, RingsInv, Next PROVE Origins'
<1>0. /\ \A x \in Elems(wire) \cup Elems(TxContents) : Sendable(x)
      /\ \A x \in Elems(batch) \cup Elems(xdpTxQueue) : Queued(x)
      /\ "rx" \in Threads /\ "flusher" \in Threads /\ Decoys \subseteq Threads
      /\ "rx" \notin Decoys /\ "flusher" \notin Decoys
      /\ pc \in [Threads -> Labels]
      /\ queued \in [Scanners -> 0 .. Fragments] /\ Fragments \in Nat
      /\ outcome \in [Scanners -> {"sending", "sent", "congested"}]
      /\ \A s \in Scanners : outcome[s] = "sending" => queued[s] < Fragments
      /\ Batches /\ handled \in Seq(ReplyFrames) /\ copies \in Seq(ReplyFrames)
      /\ wire \in Seq(Payloads) /\ TxContents \in Seq(Payloads)
      /\ xdpTxQueue \in Seq(ProbeFrames)
  BY TxTyped DEF RingsInv, Origins, FramesInv, Control, Batches, Threads, RingsAssumption,
                 Carried
<1> DEFINE W == Elems(wire)
           X == Elems(TxContents)
           B == Elems(batch)
           Q == Elems(xdpTxQueue)
           W2 == Elems(wire')
           X2 == Elems(TxContents')
           B2 == Elems(batch')
           Q2 == Elems(xdpTxQueue')
<1>1. ASSUME \A x \in W2 \cup X2 : Sendable(x)', \A x \in B2 \cup Q2 : Queued(x)'
      PROVE  Origins'
  <2>1. /\ Elems(wire)' = W2 /\ Elems(TxContents)' = X2
        /\ Elems(batch)' = B2 /\ Elems(xdpTxQueue)' = Q2
    BY DEF Elems
  <2> HIDE DEF W2, X2, B2, Q2
  <2> QED BY <1>1, <2>1 DEF Origins
<1>2. ASSUME \A s \in Scanners : /\ queued'[s] \in Nat /\ queued[s] <= queued'[s],
             \A d \in Decoys : pc[d] = "done" => pc'[d] = "done",
             handled' = handled, Answering' => Answering /\ copies' = copies
      PROVE  /\ \A x : Queued(x) => Queued(x)'
             /\ \A x : Sendable(x) => Sendable(x)'
  <2>1. \A s \in Scanners : queued[s] \in Nat
    BY <1>0
  <2>2. /\ Elems(handled) \subseteq Elems(handled')
        /\ \A x \in Elems(handled) : (Answering => Head(copies) # x)
                                     => (Answering' => Head(copies') # x)
    BY <1>2
  <2> QED BY <1>2, <2>1, <2>2, SendableKept
<1>3. ASSUME queued' = queued, \A d \in Decoys : pc[d] = "done" => pc'[d] = "done",
             handled' = handled, Answering' => Answering /\ copies' = copies
      PROVE  /\ \A x : Queued(x) => Queued(x)'
             /\ \A x : Sendable(x) => Sendable(x)'
  <2>1. \A s \in Scanners : queued'[s] \in Nat /\ queued[s] <= queued'[s]
    BY <1>0, <1>3
  <2> QED BY <1>2, <1>3, <2>1
<1>4. ASSUME UNCHANGED Line, \A x : Queued(x) => Queued(x)', \A x : Sendable(x) => Sendable(x)'
      PROVE  Origins'
  <2>1. W2 = W /\ X2 = X /\ B2 = B /\ Q2 = Q
    BY <1>4 DEF Line
  <2> QED BY <1>0, <1>1, <1>4, <2>1
<1>5. CASE KernelReceive /\ UNCHANGED Line
  <2>1. UNCHANGED <<queued, pc, handled, copies>>
    BY <1>5 DEF KernelReceive, queue
  <2> QED BY <1>3, <1>4, <1>5, <2>1 DEF Answering
<1>6. CASE KernelSend /\ SendsNext
  <2>1. UNCHANGED <<queued, pc, handled, copies, batch, xdpTxQueue>>
    BY <1>6 DEF KernelSend, queue
  <2> DEFINE x == Head(TxContents)
             t == Tail(TxContents)
  <2>2. /\ TxContents # <<>> /\ wire' = Append(wire, x) /\ TxContents' = t
    BY <1>6 DEF SendsNext
  <2>3. X = {x} \cup Elems(t) /\ x \in Payloads
    BY <1>0, <2>2, Without1st
  <2> HIDE DEF x
  <2>4. Append(wire, x) = wire \o <<x>> /\ <<x>> \in Seq(Payloads) /\ Elems(<<x>>) = {x}
    BY <1>0, <2>3 DEF Elems
  <2> DEFINE one == <<x>>
  <2> HIDE DEF one
  <2>5. Elems(wire \o one) = W \cup Elems(one)
    BY <1>0, <2>4, ElemsConcat DEF one
  <2>6. W2 = W \cup {x} /\ X2 \subseteq X /\ x \in X /\ B2 = B /\ Q2 = Q
    BY <2>1, <2>2, <2>3, <2>4, <2>5 DEF one
  <2> HIDE DEF W, X, B, Q, W2, X2, B2, Q2
  <2>7. /\ \A y : Queued(y) => Queued(y)'
        /\ \A y : Sendable(y) => Sendable(y)'
    BY <1>3, <2>1 DEF Answering
  <2>8. /\ \A y \in W \cup X : Sendable(y)
        /\ \A y \in B \cup Q : Queued(y)
    BY <1>0 DEF W, X, B, Q
  <2> QED BY <1>1, <2>6, <2>7, <2>8
<1>7. CASE Coalesce /\ Coalesces
  <2>1. UNCHANGED <<queued, handled, copies, wire, TxContents>> /\ Goto("flusher", "flush")
    BY <1>7 DEF Coalesce, Coalesces, queue
  <2>2. pc'["rx"] = pc["rx"] /\ \A d \in Decoys : pc'[d] = pc[d]
    BY <1>0, <2>1 DEF Goto
  <2>3. PICK n \in 0 .. Len(xdpTxQueue) :
          /\ batch' = SubSeq(xdpTxQueue, 1, n)
          /\ xdpTxQueue' = SubSeq(xdpTxQueue, n + 1, Len(xdpTxQueue))
    BY <1>7 DEF Coalesces
  <2>4. W2 = W /\ X2 = X /\ B2 \subseteq Q /\ Q2 \subseteq Q
    BY <1>0, <2>1, <2>3, ChainSplit
  <2> HIDE DEF W, X, B, Q, W2, X2, B2, Q2
  <2>5. /\ \A y : Queued(y) => Queued(y)'
        /\ \A y : Sendable(y) => Sendable(y)'
    BY <1>3, <2>1, <2>2 DEF Answering
  <2>6. /\ \A y \in W \cup X : Sendable(y)
        /\ \A y \in B \cup Q : Queued(y)
    BY <1>0 DEF W, X, B, Q
  <2> QED BY <1>1, <2>4, <2>5, <2>6
<1>8. ASSUME NEW s \in Scanners, TransmitFrame(s), Queues(s) \/ UNCHANGED <<Line, queued>>
      PROVE  Origins'
  <2>1. UNCHANGED <<pc, handled, copies>> /\ outcome[s] = "sending"
    BY <1>8 DEF TransmitFrame
  <2>2. CASE HasRoom
    <3>2. PICK k \in 1 .. Fragments : k = queued[s] + 1
      BY <1>0, <2>1
    <3> DEFINE x == ProbeFrame(s, k)
    <3>1. /\ xdpTxQueue' = Append(xdpTxQueue, x) /\ queued' = [queued EXCEPT ![s] = @ + 1]
      BY <1>8, <2>2, <3>2 DEF TransmitFrame
    <3>3. x \in ProbeFrames
      BY <3>2 DEF ProbeFrames
    <3>4. queued'[s] = queued[s] + 1 /\ \A u \in Scanners \ {s} : queued'[u] = queued[u]
      BY <1>0, <3>1
    <3>5. Queued(x)'
      <4>1. k <= queued'[s]
        BY <1>0, <3>2, <3>4
      <4> QED BY <4>1 DEF Queued
    <3> HIDE DEF x
    <3> DEFINE one == <<x>>
    <3>6. one \in Seq(ProbeFrames) /\ Elems(one) = {x} /\ Append(xdpTxQueue, x) = xdpTxQueue \o one
      BY <1>0, <3>3 DEF Elems
    <3> HIDE DEF one
    <3>7. xdpTxQueue' = xdpTxQueue \o one /\ Elems(xdpTxQueue \o one) = Q \cup Elems(one)
      BY <1>0, <3>1, <3>6, ElemsConcat
    <3>8. UNCHANGED <<wire, TxContents, batch>>
      <4>1. UNCHANGED <<wire, txRing, mem, batch>>
        BY <1>8 DEF TransmitFrame, rings, network
      <4> QED BY <4>1, TxSame
    <3>9. W2 = W /\ X2 = X /\ B2 = B /\ Q2 = Q \cup {x}
      BY <3>6, <3>7, <3>8
    <3> HIDE DEF W, X, B, Q, W2, X2, B2, Q2
    <3>10. \A u \in Scanners : queued'[u] \in Nat /\ queued[u] <= queued'[u]
      <4>1. \A u \in Scanners : queued[u] \in Nat
        BY <1>0
      <4> QED BY <3>4, <4>1
    <3>11. /\ \A y : Queued(y) => Queued(y)'
           /\ \A y : Sendable(y) => Sendable(y)'
      BY <1>2, <2>1, <3>10 DEF Answering
    <3>12. /\ \A y \in W \cup X : Sendable(y)
           /\ \A y \in B \cup Q : Queued(y)
      BY <1>0 DEF W, X, B, Q
    <3> QED BY <1>1, <3>5, <3>9, <3>11, <3>12
  <2>3. CASE ~ HasRoom
    <3>1. UNCHANGED <<xdpTxQueue, queued, wire, txRing, mem, batch>>
      BY <1>8, <2>3 DEF TransmitFrame, rings, network
    <3>2. UNCHANGED Line
      BY <3>1, TxSame DEF Line
    <3> QED BY <1>3, <1>4, <2>1, <3>1, <3>2 DEF Answering
  <2> QED BY <2>2, <2>3
<1>9. CASE Elsewhere /\ UNCHANGED Line
  BY <1>3, <1>4, <1>9 DEF Elsewhere, queue
<1>10. CASE CopyOut /\ UNCHANGED Line
  <2>1. UNCHANGED <<queued, handled>> /\ Goto("rx", "handle")
    BY <1>10 DEF CopyOut, queue
  <2>2. ~ Answering' /\ \A d \in Decoys : pc'[d] = pc[d]
    BY <1>0, <2>1 DEF Goto, Answering
  <2> QED BY <1>3, <1>4, <1>10, <2>1, <2>2
<1>11. CASE HandleOne /\ UNCHANGED Line
  <2>1. /\ queued' = queued /\ pc["rx"] = "handle" /\ copies # <<>>
        /\ handled' = Append(handled, Head(copies))
        /\ pc' = pc \/ (Goto("rx", "answer") /\ copies' = copies)
    BY <1>11 DEF HandleOne, queue
  <2>2. /\ ~ Answering /\ (Answering' => copies' = copies)
        /\ \A d \in Decoys : pc'[d] = pc[d]
    BY <1>0, <2>1 DEF Goto, Answering
  <2> DEFINE x == Head(copies)
  <2>3. x \in ReplyFrames /\ x \in Elems(copies)
    BY <1>0, <2>1, Without1st
  <2>4. x \notin Elems(handled)
    <3>1. Unhandled = copies
      BY <2>2 DEF Unhandled
    <3> QED BY <2>3, <3>1 DEF RingsInv, RepliesOnce
  <2> HIDE DEF x
  <2> DEFINE one == <<x>>
  <2>5. one \in Seq(ReplyFrames) /\ Append(handled, x) = handled \o one
    BY <1>0, <2>3
  <2> HIDE DEF one
  <2>6. Elems(handled \o one) = Elems(handled) \cup Elems(one)
    BY <1>0, <2>5, ElemsConcat
  <2>7. handled' = handled \o one
    BY <2>1, <2>5 DEF x
  <2>8. Elems(handled) \subseteq Elems(handled')
    BY <2>6, <2>7
  <2>9. \A y \in Elems(handled) : Answering' => Head(copies') # y
    BY <2>2, <2>4 DEF x
  <2>10. \A s \in Scanners : queued[s] \in Nat /\ queued'[s] \in Nat /\ queued[s] <= queued'[s]
    BY <1>0, <2>1
  <2> QED BY <1>4, <1>11, <2>2, <2>8, <2>9, <2>10, SendableKept
<1>12. ASSUME UNCHANGED <<wire, xdpTxQueue>>, B2 \subseteq B,
              \A y : Queued(y) => Queued(y)', \A y : Sendable(y) => Sendable(y)',
              NEW xs, Transmits(xs), \A x \in xs : Sendable(x)'
       PROVE  Origins'
  <2>1. PICK more \in Seq(Payloads) : TxContents' = TxContents \o more /\ Elems(more) \subseteq xs
    BY <1>12 DEF Transmits
  <2>2. Elems(TxContents \o more) = X \cup Elems(more)
    BY <1>0, ElemsConcat
  <2>3. X2 \subseteq X \cup xs /\ W2 = W /\ Q2 = Q
    BY <1>12, <2>1, <2>2
  <2> HIDE DEF W, X, B, Q, W2, X2, B2, Q2
  <2>4. /\ \A y \in W \cup X : Sendable(y)
        /\ \A y \in B \cup Q : Queued(y)
    BY <1>0 DEF W, X, B, Q
  <2> QED BY <1>1, <1>12, <2>3, <2>4
<1>13. CASE /\ ResetOut /\ UNCHANGED batch
            /\ \E r \in Replies : Head(copies) = Reply(r) /\ Transmits({Reset(r)})
  <2>1. PICK r \in Replies : Head(copies) = Reply(r) /\ Transmits({Reset(r)})
    BY <1>13
  <2>2. UNCHANGED <<queue, wire, handled>> /\ Goto("rx", "handle") /\ Answering
    BY <1>13 DEF ResetOut, network, Answering
  <2>3. ~ Answering' /\ \A d \in Decoys : pc'[d] = pc[d]
    BY <1>0, <2>2 DEF Goto, Answering
  <2>4. Reply(r) \in Elems(handled)
    BY <2>1, <2>2 DEF RingsInv, RepliesOnce
  <2>5. Elems(handled)' = Elems(handled)
    BY <2>2 DEF Elems
  <2>6. Sendable(Reset(r))'
    BY <2>3, <2>4, <2>5 DEF Sendable
  <2>7. /\ \A y : Queued(y) => Queued(y)'
        /\ \A y : Sendable(y) => Sendable(y)'
    BY <1>3, <2>2, <2>3 DEF queue
  <2>8. B2 \subseteq B /\ UNCHANGED <<wire, xdpTxQueue>>
    BY <1>13, <2>2 DEF queue
  <2> DEFINE x == Reset(r)
  <2>9. \A y \in {x} : Sendable(y)'
    <3>1. ASSUME NEW y \in {x} PROVE Sendable(y)'
      <4>1. y = Reset(r)
        OBVIOUS
      <4> QED BY <2>3, <2>4, <2>5, <4>1 DEF Sendable
    <3> QED BY <3>1
  <2> QED BY <1>12, <2>1, <2>7, <2>8, <2>9
<1>14. CASE BatchOut /\ Transmits(B)
  <2>1. UNCHANGED <<queue, wire, handled, copies>> /\ Goto("flusher", "idle") /\ batch' = <<>>
    BY <1>14 DEF BatchOut, network
  <2>2. pc'["rx"] = pc["rx"] /\ \A d \in Decoys : pc'[d] = pc[d]
    BY <1>0, <2>1 DEF Goto
  <2>3. /\ \A y : Queued(y) => Queued(y)'
        /\ \A y : Sendable(y) => Sendable(y)'
    BY <1>3, <2>1, <2>2 DEF queue, Answering
  <2>4. B2 = {}
    BY <2>1, ChainOne
  <2>5. \A y \in B : Sendable(y)'
    <3> HIDE DEF B
    <3>1. \A y \in B : Queued(y)
      BY <1>0 DEF B
    <3> QED BY <2>3, <3>1 DEF Sendable
  <2> HIDE DEF B, B2
  <2> QED BY <1>12, <1>14, <2>1, <2>3, <2>4, <2>5 DEF queue
<1>15. ASSUME NEW d \in Decoys, DecoyOut(d), UNCHANGED batch, Transmits({DecoyFrame(d)})
       PROVE  Origins'
  <2>1. UNCHANGED <<queue, wire, handled, copies>> /\ Goto(d, "done")
    BY <1>15 DEF DecoyOut, network
  <2>2. pc'["rx"] = pc["rx"] /\ pc'[d] = "done"
        /\ \A e \in Decoys : pc[e] = "done" => pc'[e] = "done"
    BY <1>0, <2>1 DEF Goto
  <2>3. /\ \A y : Queued(y) => Queued(y)'
        /\ \A y : Sendable(y) => Sendable(y)'
    BY <1>3, <2>1, <2>2 DEF queue, Answering
  <2>4. B2 \subseteq B /\ UNCHANGED <<wire, xdpTxQueue>>
    BY <1>15, <2>1 DEF queue
  <2>5. ASSUME NEW y \in {DecoyFrame(d)} PROVE Sendable(y)'
    BY <2>2, <2>5 DEF Sendable
  <2> QED BY <1>12, <1>15, <2>3, <2>4, <2>5
<1> QED BY <1>5, <1>6, <1>7, <1>8, <1>9, <1>10, <1>11, <1>13, <1>14, <1>15, LineKinds

\* The line stays in order, and nothing joins it twice.
LEMMA OrderStep == ASSUME RingsAssumption, RingsInv, Next PROVE Order'
<1> DEFINE W == Elems(wire)
           X == Elems(TxContents)
           B == Elems(batch)
           Q == Elems(xdpTxQueue)
           W2 == Elems(wire')
           X2 == Elems(TxContents')
           B2 == Elems(batch')
           Q2 == Elems(xdpTxQueue')
<1>0. /\ Chain(wire) /\ Chain(TxContents) /\ Chain(batch) /\ Chain(xdpTxQueue)
      /\ Precede(W, X \cup B \cup Q) /\ Precede(X, B \cup Q) /\ Precede(B, Q)
      /\ \A x \in W \cup X : Sendable(x)
      /\ \A x \in B \cup Q : Queued(x)
      /\ wire \in Seq(Payloads) /\ TxContents \in Seq(Payloads)
      /\ batch \in Seq(ProbeFrames) /\ xdpTxQueue \in Seq(ProbeFrames)
      /\ queued \in [Scanners -> 0 .. Fragments] /\ Fragments \in Nat
  BY TxTyped DEF RingsInv, Order, Origins, Carried, FramesInv, Batches, RingsAssumption
<1>1. ASSUME Chain(wire'), Chain(TxContents'), Chain(batch'), Chain(xdpTxQueue'),
             Precede(W2, X2 \cup B2 \cup Q2), Precede(X2, B2 \cup Q2), Precede(B2, Q2)
      PROVE  Order'
  <2>1. /\ Elems(wire)' = W2 /\ Elems(TxContents)' = X2
        /\ Elems(batch)' = B2 /\ Elems(xdpTxQueue)' = Q2
    BY DEF Elems
  <2>2. Chain(wire)' /\ Chain(TxContents)' /\ Chain(batch)' /\ Chain(xdpTxQueue)'
    BY <1>1 DEF Chain
  <2> HIDE DEF W2, X2, B2, Q2
  <2>3. Precede(Elems(wire), Elems(TxContents) \cup Elems(batch) \cup Elems(xdpTxQueue))'
    BY <1>1, <2>1 DEF Precede
  <2>4. Precede(Elems(TxContents), Elems(batch) \cup Elems(xdpTxQueue))'
    BY <1>1, <2>1 DEF Precede
  <2>5. Precede(Elems(batch), Elems(xdpTxQueue))'
    BY <1>1, <2>1 DEF Precede
  <2> QED BY <2>2, <2>3, <2>4, <2>5 DEF Order
<1>2. CASE UNCHANGED Line
  BY <1>0, <1>1, <1>2 DEF Line
<1>3. CASE SendsNext
  <2> DEFINE x == Head(TxContents)
             t == Tail(TxContents)
             T == Elems(t)
  <2>1. /\ TxContents # <<>> /\ wire' = Append(wire, x) /\ TxContents' = t
        /\ UNCHANGED <<batch, xdpTxQueue>>
    BY <1>3 DEF SendsNext
  <2>2. X = {x} \cup T /\ x \in Payloads
    BY <1>0, <2>1, Without1st
  <2>3. Chain(t) /\ Precede({x}, T)
    BY <1>0, <2>1, ChainTail
  <2> HIDE DEF x, t, T
  <2> DEFINE one == <<x>>
  <2>4. /\ Append(wire, x) = wire \o one /\ one \in Seq(Payloads) /\ Elems(one) = {x}
        /\ Chain(one)
    BY <1>0, <2>2, ChainOne
  <2> HIDE DEF one
  <2>5. W2 = W \cup {x}
    BY <1>0, <2>1, <2>4, ElemsConcat
  <2>6. X2 = T /\ B2 = B /\ Q2 = Q
    BY <2>1 DEF T
  <2> HIDE DEF W, X, B, Q, W2, X2, B2, Q2
  <2>7. Precede(W, {x}) /\ Precede({x}, B \cup Q)
    BY <1>0, <2>2 DEF Precede
  <2>8. Chain(wire')
    BY <1>0, <2>1, <2>4, <2>7, ChainConcat DEF W
  <2>9. /\ Precede(W2, X2 \cup B2 \cup Q2) /\ Precede(X2, B2 \cup Q2) /\ Precede(B2, Q2)
    BY <1>0, <2>2, <2>3, <2>5, <2>6, <2>7 DEF Precede
  <2> QED BY <1>0, <1>1, <2>1, <2>3, <2>8, <2>9
<1>4. CASE Coalesces
  <2>1. PICK n \in 0 .. Len(xdpTxQueue) :
          /\ batch' = SubSeq(xdpTxQueue, 1, n)
          /\ xdpTxQueue' = SubSeq(xdpTxQueue, n + 1, Len(xdpTxQueue))
    BY <1>4 DEF Coalesces
  <2>2. UNCHANGED <<wire, TxContents>>
    BY <1>4 DEF Coalesces
  <2>3. /\ B2 \subseteq Q /\ Q2 \subseteq Q /\ Chain(batch') /\ Chain(xdpTxQueue')
        /\ Precede(B2, Q2)
    BY <1>0, <2>1, ChainSplit
  <2>4. W2 = W /\ X2 = X
    BY <2>2
  <2> HIDE DEF W, X, B, Q, W2, X2, B2, Q2
  <2>5. /\ Precede(W2, X2 \cup B2 \cup Q2) /\ Precede(X2, B2 \cup Q2)
    BY <1>0, <2>3, <2>4 DEF Precede
  <2> QED BY <1>0, <1>1, <2>2, <2>3, <2>5
<1>5. ASSUME NEW s \in Scanners, TransmitFrame(s), Queues(s) \/ UNCHANGED <<Line, queued>>
      PROVE  Order'
  <2>1. CASE UNCHANGED Line
    BY <1>2, <2>1
  <2>2. CASE Queues(s)
    <3> DEFINE k == queued[s] + 1
               x == ProbeFrame(s, k)
               one == <<x>>
    <3>1. xdpTxQueue' = Append(xdpTxQueue, x) /\ UNCHANGED <<wire, TxContents, batch>>
      BY <2>2 DEF Queues
    <3>2. k \in 1 .. Fragments
      BY <1>0, <1>5 DEF TransmitFrame, RingsInv, FramesInv, Batches
    <3>3. x \in ProbeFrames
      BY <3>2 DEF ProbeFrames
    <3>4. ASSUME NEW y \in W \cup X \cup B \cup Q PROVE InOrder(y, x)
      <4>1. CASE Queued(y)
        <5>1. PICK u \in Scanners, l \in 1 .. Fragments : y = ProbeFrame(u, l) /\ l <= queued[u]
          BY <4>1 DEF Queued
        <5>2. u = s => l < k
          BY <1>0, <5>1
        <5>3. /\ y[2] = u /\ y[3] = l /\ x[2] = s /\ x[3] = k
          BY <5>1 DEF ProbeFrame
        <5>4. k \in Nat /\ l \in Nat
          BY <3>2
        <5> HIDE DEF k, x
        <5> QED BY <5>2, <5>3, <5>4 DEF InOrder
      <4>2. CASE ~ Queued(y)
        <5>1. Sendable(y)
          BY <1>0, <4>2
        <5>2. y[1] # "probe"
          BY <4>2, <5>1 DEF Sendable, DecoyFrame, Reset
        <5>3. x[1] = "probe"
          BY DEF ProbeFrame
        <5> HIDE DEF x
        <5> QED BY <5>2, <5>3 DEF InOrder
      <4> QED BY <4>1, <4>2
    <3> HIDE DEF k, x
    <3>5. /\ Append(xdpTxQueue, x) = xdpTxQueue \o one /\ one \in Seq(ProbeFrames)
          /\ Elems(one) = {x} /\ Chain(one)
      BY <1>0, <3>3, ChainOne
    <3> HIDE DEF one
    <3>6. Q2 = Q \cup {x}
      BY <1>0, <3>1, <3>5, ElemsConcat
    <3>7. W2 = W /\ X2 = X /\ B2 = B
      BY <3>1
    <3> HIDE DEF W, X, B, Q, W2, X2, B2, Q2
    <3>8. Precede(Q, {x})
      BY <3>4 DEF Precede
    <3>9. Chain(xdpTxQueue')
      BY <1>0, <3>1, <3>5, <3>8, ChainConcat DEF Q
    <3>10. /\ Precede(W2, X2 \cup B2 \cup Q2) /\ Precede(X2, B2 \cup Q2) /\ Precede(B2, Q2)
      BY <1>0, <3>4, <3>6, <3>7 DEF Precede
    <3> QED BY <1>0, <1>1, <3>1, <3>9, <3>10
  <2> QED BY <1>5, <2>1, <2>2 DEF Line
<1>6. ASSUME UNCHANGED batch, NEW x, Transmits({x}), x[1] # "probe",
             x \notin W \cup X \cup B \cup Q
      PROVE  Order'
  <2>1. PICK more \in Seq(Payloads) : /\ TxContents' = TxContents \o more /\ Chain(more)
                                      /\ Elems(more) \subseteq {x}
    BY <1>6 DEF Transmits
  <2>2. UNCHANGED <<wire, xdpTxQueue>>
    BY <1>6 DEF Transmits
  <2> DEFINE M == Elems(more)
  <2>3. X2 = X \cup M
    BY <1>0, <2>1, ElemsConcat
  <2>4. W2 = W /\ B2 = B /\ Q2 = Q
    BY <1>6, <2>2
  <2>5. M \subseteq {x}
    BY <2>1
  <2> HIDE DEF W, X, B, Q, W2, X2, B2, Q2, M
  <2>6. Precede(W \cup X, M) /\ Precede(M, B \cup Q)
    BY <1>6, <2>5 DEF Precede, InOrder
  <2>7. Precede(X, M)
    BY <2>6 DEF Precede
  <2>8. Chain(TxContents')
    BY <1>0, <2>1, <2>7, ChainConcat DEF X, M
  <2>9. /\ Precede(W2, X2 \cup B2 \cup Q2) /\ Precede(X2, B2 \cup Q2) /\ Precede(B2, Q2)
    BY <1>0, <2>3, <2>4, <2>6 DEF Precede
  <2> QED BY <1>0, <1>1, <1>6, <2>2, <2>8, <2>9
<1>7. CASE /\ ResetOut /\ UNCHANGED batch
           /\ \E r \in Replies : Head(copies) = Reply(r) /\ Transmits({Reset(r)})
  <2>1. PICK r \in Replies : Head(copies) = Reply(r) /\ Transmits({Reset(r)})
    BY <1>7
  <2> DEFINE x == Reset(r)
  <2>2. x[1] # "probe" /\ ~ Queued(x)
    BY DEF Reset, Queued, ProbeFrame
  <2>3. ~ Sendable(x)
    <3>1. Answering
      BY <1>7 DEF ResetOut, Answering
    <3>2. \A d \in Decoys : x # DecoyFrame(d)
      BY DEF Reset, DecoyFrame
    <3>3. \A q \in Replies : x = Reset(q) => q = r
      BY DEF Reset
    <3> QED BY <2>1, <2>2, <3>1, <3>2, <3>3 DEF Sendable
  <2> HIDE DEF x
  <2>4. x \notin W \cup X \cup B \cup Q
    BY <1>0, <2>2, <2>3
  <2> QED BY <1>6, <1>7, <2>1, <2>2, <2>4 DEF x
<1>8. ASSUME NEW d \in Decoys, DecoyOut(d), UNCHANGED batch, Transmits({DecoyFrame(d)})
      PROVE  Order'
  <2> DEFINE x == DecoyFrame(d)
  <2>2. x[1] # "probe" /\ ~ Queued(x)
    BY DEF DecoyFrame, Queued, ProbeFrame
  <2>3. ~ Sendable(x)
    <3>1. pc[d] # "done"
      BY <1>8 DEF DecoyOut
    <3>2. \A r \in Replies : x # Reset(r)
      BY DEF Reset, DecoyFrame
    <3>3. \A e \in Decoys : x = DecoyFrame(e) => e = d
      BY DEF DecoyFrame
    <3> QED BY <2>2, <3>1, <3>2, <3>3 DEF Sendable
  <2> HIDE DEF x
  <2>4. x \notin W \cup X \cup B \cup Q
    BY <1>0, <2>2, <2>3
  <2> QED BY <1>6, <1>8, <2>2, <2>4 DEF x
<1>9. CASE BatchOut /\ Transmits(Elems(batch))
  <2>1. PICK more \in Seq(Payloads) : /\ TxContents' = TxContents \o more /\ Chain(more)
                                      /\ Elems(more) \subseteq B
    BY <1>9 DEF Transmits
  <2>2. UNCHANGED <<wire, xdpTxQueue>> /\ batch' = <<>>
    BY <1>9 DEF Transmits, BatchOut
  <2> DEFINE M == Elems(more)
  <2>3. X2 = X \cup M
    BY <1>0, <2>1, ElemsConcat
  <2>4. W2 = W /\ B2 = {} /\ Q2 = Q /\ Chain(batch')
    BY <2>2, ChainOne
  <2>5. M \subseteq B
    BY <2>1
  <2> HIDE DEF W, X, B, Q, W2, X2, B2, Q2, M
  <2>6. Precede(X, M) /\ Precede(M, Q) /\ Precede(W, M)
    BY <1>0, <2>5 DEF Precede
  <2>7. Chain(TxContents')
    BY <1>0, <2>1, <2>6, ChainConcat DEF X, M
  <2>8. /\ Precede(W2, X2 \cup B2 \cup Q2) /\ Precede(X2, B2 \cup Q2) /\ Precede(B2, Q2)
    BY <1>0, <2>3, <2>4, <2>6 DEF Precede
  <2> QED BY <1>0, <1>1, <2>2, <2>4, <2>7, <2>8
<1> QED BY <1>2, <1>3, <1>4, <1>5, <1>7, <1>8, <1>9, LineKinds

LEMMA RingsAtFirst == ASSUME RingsAssumption, Init PROVE RingsInv
<1>1. FramesInv
  BY FramesAtFirst
<1>2. /\ pc = [t \in Threads |-> IF t = "rx" THEN "refill" ELSE "idle"]
      /\ descs = [t \in Threads |-> <<>>] /\ mem = [f \in Frames |-> Empty]
      /\ wire = <<>> /\ due = Replies /\ copies = <<>> /\ handled = <<>>
      /\ batch = <<>> /\ xdpTxQueue = <<>> /\ txRing = <<>> /\ rxRing = {}
      /\ "rx" \in Threads /\ "flusher" \in Threads
  BY DEF Init, Threads
<1>3. /\ \A S : <<>> \in Seq(S)
      /\ Elems(<<>>) = {} /\ Distinct(<<>>) /\ Chain(<<>>)
  BY DEF Elems, Distinct, Chain
<1>4. ~ Answering /\ Bearing = {} /\ Unhandled = <<>> /\ TxContents = <<>>
  BY <1>2 DEF Answering, Bearing, Unhandled, TxContents
<1>5. Carried
  BY <1>2, <1>3, <1>4 DEF Carried, Payloads
<1>6. Bounded
  BY <1>2 DEF Bounded
<1>7. RepliesOnce
  BY <1>2, <1>3, <1>4 DEF RepliesOnce
<1>8. Origins /\ Order
  BY <1>2, <1>3, <1>4 DEF Origins, Order, Precede
<1> QED BY <1>1, <1>5, <1>6, <1>7, <1>8 DEF RingsInv

LEMMA RingsInvariant == ASSUME RingsAssumption PROVE Spec => []RingsInv
<1>1. Init => RingsInv
  BY RingsAtFirst
<1>2. RingsInv /\ [Next]_vars => RingsInv'
  <2>1. ASSUME RingsInv, Next PROVE RingsInv'
    <3>1. FramesInv'
      BY <2>1, ControlStep, HandedStep, LocatedStep, FitsStep, BatchesStep, FrameToSendStep
         DEF RingsInv, FramesInv
    <3> QED BY <2>1, <3>1, BoundedStep, CarriedStep, RepliesStep, OriginsStep, OrderStep
            DEF RingsInv
  <2>2. ASSUME RingsInv, UNCHANGED vars PROVE RingsInv'
    <3>0. /\ FramesInv /\ Carried /\ Bounded /\ RepliesOnce /\ Origins /\ Order
          /\ UNCHANGED <<free, fillRing, rxRing, txRing, completionRing, mem, due, wire>>
          /\ UNCHANGED <<xdpSockLock, pc, descs, xdpTxQueue, queued, outcome, batch>>
          /\ UNCHANGED <<copies, handled>>
      BY <2>2 DEF RingsInv, vars, rings, network, queue
    <3>1. FramesInv'
      <4>0. /\ Control /\ Handed /\ Located /\ Fits /\ Batches /\ AlwaysAFrameToSend
        BY <3>0 DEF FramesInv
      <4>1. Control' /\ Fits' /\ AlwaysAFrameToSend'
        BY <3>0, <4>0 DEF Control, Fits, AlwaysAFrameToSend
      <4>2. Handed'
        <5>1. \A t \in Threads : /\ Elems(descs[t])' = Elems(descs[t])
                                 /\ Distinct(descs[t])' = Distinct(descs[t])
          BY <3>0 DEF Elems, Distinct
        <5> QED BY <3>0, <4>0, <5>1 DEF Handed
      <4>3. Located'
        <5>1. Elems(txRing)' = Elems(txRing)
          BY <3>0 DEF Elems
        <5> QED BY <3>0, <4>0, <5>1 DEF Located, EachFrameInOnePlace
      <4>4. Batches'
        BY <3>0, <4>0 DEF Batches
      <4> QED BY <4>1, <4>2, <4>3, <4>4 DEF FramesInv
    <3>2. Carried' /\ Bounded'
      BY <3>0 DEF Carried, Bounded, Answering
    <3>3. Answering' = Answering /\ Bearing' = Bearing /\ Came' = Came
      BY <3>0 DEF Answering, Bearing, Came, Elems
    <3>4. TxContents' = TxContents /\ Unhandled' = Unhandled
      BY <3>0, <3>3 DEF TxContents, Unhandled
    <3>5. /\ Elems(handled)' = Elems(handled) /\ Elems(Unhandled)' = Elems(Unhandled)
          /\ Distinct(handled)' = Distinct(handled) /\ Distinct(Unhandled)' = Distinct(Unhandled)
      BY <3>0, <3>4 DEF Elems, Distinct
    <3>6. RepliesOnce'
      BY <3>0, <3>3, <3>5 DEF RepliesOnce
    <3>7. /\ Elems(wire)' = Elems(wire) /\ Elems(TxContents)' = Elems(TxContents)
          /\ Elems(batch)' = Elems(batch) /\ Elems(xdpTxQueue)' = Elems(xdpTxQueue)
      BY <3>0, <3>4 DEF Elems
    <3>8. Order'
      <4>1. /\ Chain(wire)' = Chain(wire) /\ Chain(TxContents)' = Chain(TxContents)
            /\ Chain(batch)' = Chain(batch) /\ Chain(xdpTxQueue)' = Chain(xdpTxQueue)
        BY <3>0, <3>4 DEF Chain
      <4> QED BY <3>0, <3>7, <4>1 DEF Order, Precede
    <3>9. Origins'
      <4>1. \A x : (Queued(x) => Queued(x)') /\ (Sendable(x) => Sendable(x)')
        BY <3>0, <3>3, <3>5 DEF Queued, Sendable
      <4> QED BY <3>0, <3>7, <4>1 DEF Origins
    <3> QED BY <3>1, <3>2, <3>6, <3>8, <3>9 DEF RingsInv
  <2> QED BY <2>1, <2>2
<1> QED BY <1>1, <1>2, PTL DEF Spec

-----------------------------------------------------------------------------
(* Theorems *)

\* The type invariant: frames are of the socket's UMEM, and neither the queue
\* to the flusher nor its batch grows past its bound.
THEOREM TypeCorrect == ASSUME RingsAssumption PROVE Spec => []TypeOK
<1>1. RingsInv => TypeOK
  BY DEF RingsInv, FramesInv, Control, Handed, Located, Batches, TypeOK
<1> QED BY <1>1, RingsInvariant, PTL

\* EachFrameInOnePlace: no frame is lost or in two places at once, whoever
\* uses the socket between two lookups in the table of free frames.
\* AlwaysAFrameToSend: with four rings' worth of frames, whoever holds
\* xdpSockLock to send has been given a frame, once it has taken back what was
\* sent: the error of xdpSendLocked for want of a frame is not returned.
THEOREM FramesAreInOnePlace ==
  ASSUME RingsAssumption PROVE Spec => [](EachFrameInOnePlace /\ AlwaysAFrameToSend)
<1>1. RingsInv => EachFrameInOnePlace /\ AlwaysAFrameToSend
  BY DEF RingsInv, FramesInv, Located
<1> QED BY <1>1, RingsInvariant, PTL

\* RepliesIntact and SentIntact: the receive loop parses each reply that came
\* in once and nothing else, though a frame may be sent with other contents
\* right after; and what the kernel sends are the scanners' frames in the
\* order they were queued, the decoys' and the resets, none of them twice.
THEOREM FramesCarryWhatTheyShould ==
  ASSUME RingsAssumption PROVE Spec => []FramesIntact
<1>1. RingsInv => RepliesIntact
  <2>1. Came \subseteq { Reply(r) : r \in Replies }
    BY DEF Came
  <2> QED BY <2>1 DEF RingsInv, RepliesOnce, RepliesIntact, Distinct
<1>2. ASSUME RingsInv PROVE SentIntact
  <2>1. \A i \in 1 .. Len(wire) : wire[i] \in Elems(wire)
    BY DEF Elems
  <2>2. \A x \in Elems(wire) : Sendable(x)
    BY <1>2 DEF RingsInv, Origins
  <2>3. ASSUME NEW i \in 1 .. Len(wire)
        PROVE  \/ \E s \in Scanners, k \in 1 .. Fragments :
                    wire[i] = ProbeFrame(s, k) /\ k <= queued[s]
               \/ \E d \in Decoys : wire[i] = DecoyFrame(d)
               \/ \E r \in Replies : wire[i] = Reset(r) /\ Reply(r) \in Elems(handled)
    <3>1. Sendable(wire[i])
      BY <2>1, <2>2
    <3> QED BY <3>1 DEF Sendable, Queued
  <2>4. Chain(wire)
    BY <1>2 DEF RingsInv, Order
  <2> QED BY <2>3, <2>4 DEF SentIntact, Chain, InOrder
<1> QED BY <1>1, <1>2, RingsInvariant, PTL DEF FramesIntact
=============================================================================
