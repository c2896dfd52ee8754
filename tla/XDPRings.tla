------------------------------ MODULE XDPRings ------------------------------
(***************************************************************************)
(* Frames in the running AF_XDP engine: the queue between the scanners and *)
(* the flusher, and the frames of the transmitting socket, which its       *)
(* receive loop, the flusher and the senders of decoys share under         *)
(* xdpSockLock with the kernel at the other end of four rings.             *)
(*                                                                         *)
(* The library (external) keeps a table of the frames that are free.       *)
(* GetDescs looks frames up in it and leaves them there; Fill and Transmit *)
(* take as many as their ring has room for out of it, Receive and Complete *)
(* put back what they take off theirs.  Nothing but the lock keeps two     *)
(* goroutines from being handed the same frame.                            *)
(***************************************************************************)
EXTENDS Naturals, Sequences, FiniteSets

CONSTANTS
  Frames,       \* of the socket's UMEM
  Ring,         \* slots of each ring
  QueueSize,    \* capacity of xdpTxQueue
  TxBatchSize,  \* txBatchSize
  Scanners, Decoys,     \* goroutines that send a probe, and a decoy for one
  Fragments,    \* frames of a probe
  Replies       \* bound: the frames that may come in

Nobody == "nobody"

RingsAssumption ==
  /\ Ring \in Nat \ {0} /\ QueueSize \in Nat \ {0} /\ TxBatchSize \in Nat \ {0}
  /\ Fragments \in Nat \ {0}
  /\ Decoys \cap {"rx", "flusher", Nobody} = {}
  /\ IsFiniteSet(Frames) /\ Cardinality(Frames) = 4 * Ring  \* xdpSocketOptions

VARIABLES
  free,         \* the library's table
  fillRing, rxRing, txRing, completionRing,
  mem,          \* mem[f]: what frame f carries
  due,          \* replies still to come
  wire,         \* what the kernel has sent, in order
  xdpSockLock,  \* who holds it, or Nobody
  pc,           \* pc[t]: where the receive loop, flusher or decoy sender is
  descs,        \* descs[t]: frames t has been handed
  xdpTxQueue,
  queued,       \* queued[s]: how many frames of its probe s has queued
  outcome,      \* outcome[s]: "sending", "sent" or "congested"
  batch,        \* the flusher's
  copies,       \* the receive loop's copies of what came in
  handled       \* history: what the receive loop has parsed, in order

rings == <<free, fillRing, rxRing, txRing, completionRing, mem>>
network == <<due, wire>>
queue == <<xdpTxQueue, queued, outcome>>
vars == <<rings, network, xdpSockLock, pc, descs, queue, batch, copies, handled>>

Threads == {"rx", "flusher"} \cup Decoys
Empty == <<"empty">>
Elems(s) == { s[i] : i \in 1 .. Len(s) }
AtMost(m, n) == IF m < n THEN m ELSE n

ProbeFrame(s, k) == <<"probe", s, k>>
DecoyFrame(d)    == <<"decoy", d>>
Reset(r)         == <<"reset", r>>
Reply(r)         == <<"reply", r>>

Init ==
  /\ free = Frames
  /\ fillRing = {} /\ rxRing = {} /\ txRing = <<>> /\ completionRing = {}
  /\ mem = [f \in Frames |-> Empty]
  /\ due = Replies /\ wire = <<>>
  /\ xdpSockLock = Nobody
  /\ pc = [t \in Threads |-> IF t = "rx" THEN "refill" ELSE "idle"]
  /\ descs = [t \in Threads |-> <<>>]
  /\ xdpTxQueue = <<>>
  /\ queued = [s \in Scanners |-> 0]
  /\ outcome = [s \in Scanners |-> "sending"]
  /\ batch = <<>> /\ copies = <<>> /\ handled = <<>>

Goto(t, label) == pc' = [pc EXCEPT ![t] = label]
Hold(t, ds) == descs' = [descs EXCEPT ![t] = ds]

LockUnheeded == TRUE
LockFree     == xdpSockLock = Nobody

Lock(t) == LockFree /\ xdpSockLock' = t
Unlock == xdpSockLock' = Nobody

-----------------------------------------------------------------------------
(* The library. *)

\* GetDescs(n) when avail is the table: any n frames of it, or all it has.
Descs(n, avail) ==
  { ds \in [1 .. AtMost(n, Cardinality(avail)) -> avail] :
      \A i, j \in DOMAIN ds : ds[i] = ds[j] => i = j }

\* The first of ds that a ring with so much room takes.
Fitting(ds, room) == SubSeq(ds, 1, AtMost(Len(ds), room))

\* Transmit, after the copying of what the frames are to carry.
Transmit(ds, contents) ==
  LET sent == Fitting(ds, Ring - Len(txRing))
      At(f) == CHOOSE i \in 1 .. Len(ds) : ds[i] = f
  IN  /\ mem' = [f \in Frames |-> IF f \in Elems(ds) THEN contents[At(f)]
                                                     ELSE mem[f]]
      /\ txRing' = txRing \o sent
      /\ free' = free \ Elems(sent)
      /\ UNCHANGED <<fillRing, rxRing, completionRing>>

\* A sender takes the lock and looks for n free frames: if they are too few it
\* takes back those the kernel is through with.
Reclaimed(n) == IF Cardinality(free) < n THEN free \cup completionRing ELSE free

GetDescsToSend(t, from, to, n) ==
  /\ pc[t] = from /\ Lock(t)
  /\ free' = Reclaimed(n)
  /\ completionRing' = completionRing \ free'
  /\ \E ds \in Descs(n, free') : Hold(t, ds)
  /\ Goto(t, to)
  /\ UNCHANGED <<fillRing, rxRing, txRing, mem, network, queue, batch, copies,
                 handled>>

\* The kernel: a reply comes in, or is dropped for want of a frame; a frame
\* goes out.
KernelReceive ==
  /\ \E r \in due :
       /\ due' = due \ {r}
       /\ \/ \E f \in fillRing :
               /\ Cardinality(rxRing) < Ring
               /\ fillRing' = fillRing \ {f} /\ rxRing' = rxRing \cup {f}
               /\ mem' = [mem EXCEPT ![f] = Reply(r)]
          \/ /\ fillRing = {} \/ Cardinality(rxRing) = Ring
             /\ UNCHANGED <<fillRing, rxRing, mem>>
  /\ UNCHANGED <<free, txRing, completionRing, wire, xdpSockLock, pc, descs,
                 queue, batch, copies, handled>>

KernelSend ==
  /\ txRing # <<>> /\ Cardinality(completionRing) < Ring
  /\ wire' = Append(wire, mem[Head(txRing)])
  /\ txRing' = Tail(txRing)
  /\ completionRing' = completionRing \cup {Head(txRing)}
  /\ mem' = [mem EXCEPT ![Head(txRing)] = Empty]      \* nobody will ask
  /\ UNCHANGED <<free, fillRing, rxRing, due, xdpSockLock, pc, descs,
                 queue, batch, copies, handled>>

-----------------------------------------------------------------------------
(* The receive loop. *)

\* Under the lock: take back what has been sent, and fill the ring.
Refill ==
  \/ /\ pc["rx"] = "refill" /\ Lock("rx")
     /\ free' = free \cup completionRing
     /\ completionRing' = {}
     /\ \E ds \in Descs(Ring - Cardinality(fillRing), free') : Hold("rx", ds)
     /\ Goto("rx", "fill")
     /\ UNCHANGED <<fillRing, rxRing, txRing, mem, network, queue, batch, copies,
                    handled>>
  \/ /\ pc["rx"] = "fill"
     /\ LET filled == Elems(Fitting(descs["rx"], Ring - Cardinality(fillRing)))
        IN  fillRing' = fillRing \cup filled /\ free' = free \ filled
     /\ Hold("rx", <<>>)
     /\ Unlock
     /\ Goto("rx", "poll")
     /\ UNCHANGED <<rxRing, txRing, completionRing, mem, network, queue, batch,
                    copies, handled>>

\* The lock is kept until the replies are copied out.
TakeUnlocked == xdpSockLock' = Nobody /\ LockFree
TakeLocked   == Lock("rx")

\* Replies, or the 50 ms are over; then, under the lock, copy out what came.  A
\* poll that is interrupted starts the loop over.
Take ==
  \/ /\ pc["rx"] = "poll" /\ Goto("rx", "refill")
     /\ UNCHANGED <<rings, network, xdpSockLock, descs, queue, batch, copies,
                    handled>>
  \/ /\ pc["rx"] = "poll" /\ TakeLocked
     /\ \E ds \in Descs(Ring, rxRing) : Hold("rx", ds)
     /\ rxRing' = {} /\ free' = free \cup rxRing
     /\ Goto("rx", "copy")
     /\ UNCHANGED <<fillRing, txRing, completionRing, mem, network, queue,
                    batch, copies, handled>>
  \/ /\ pc["rx"] = "copy"
     /\ copies' = [i \in 1 .. Len(descs["rx"]) |-> mem[descs["rx"][i]]]
     /\ Hold("rx", <<>>)
     /\ Unlock
     /\ Goto("rx", "handle")
     /\ UNCHANGED <<rings, network, queue, batch, handled>>

\* Parse each copy, and answer a SYN/ACK with a reset before the next.
Handle ==
  \/ /\ pc["rx"] = "handle"
     /\ IF copies = <<>>
          THEN Goto("rx", "refill") /\ UNCHANGED <<copies, handled>>
          ELSE /\ handled' = Append(handled, Head(copies))
               /\ \/ Goto("rx", "answer") /\ UNCHANGED copies
                  \/ copies' = Tail(copies) /\ UNCHANGED pc
     /\ UNCHANGED <<rings, network, xdpSockLock, descs, queue, batch>>
  \/ GetDescsToSend("rx", "answer", "reset", 1)
  \/ /\ pc["rx"] = "reset"
     /\ Transmit(descs["rx"], <<Reset(Head(copies)[2])>>)
     /\ Hold("rx", <<>>)
     /\ copies' = Tail(copies)
     /\ Unlock
     /\ Goto("rx", "handle")
     /\ UNCHANGED <<network, queue, batch, handled>>

-----------------------------------------------------------------------------
(* Senders. *)

\* A decoy goes out beside the queue.
SendDecoy(d) ==
  \/ GetDescsToSend(d, "idle", "transmit", 1)
  \/ /\ pc[d] = "transmit"
     /\ Transmit(descs[d], <<DecoyFrame(d)>>)
     /\ Hold(d, <<>>)
     /\ Unlock
     /\ Goto(d, "done")
     /\ UNCHANGED <<network, queue, batch, copies, handled>>

\* transmitXDPFrames: frame by frame, and no waiting for a full queue.
HasRoom == Len(xdpTxQueue) < QueueSize
TransmitFrame(s) ==
  /\ outcome[s] = "sending"
  /\ IF HasRoom
       THEN /\ xdpTxQueue' = Append(xdpTxQueue, ProbeFrame(s, queued[s] + 1))
            /\ queued' = [queued EXCEPT ![s] = @ + 1]
            /\ outcome' = [outcome EXCEPT ![s] =
                             IF queued'[s] = Fragments THEN "sent" ELSE @]
       ELSE /\ outcome' = [outcome EXCEPT ![s] = "congested"]
            /\ UNCHANGED <<xdpTxQueue, queued>>
  /\ UNCHANGED <<rings, network, xdpSockLock, pc, descs, batch, copies, handled>>

\* The flusher waits for a first frame, takes what else there is, and sends
\* it in one go.  What does not fit is dropped.
Coalesce ==
  /\ pc["flusher"] = "idle" /\ xdpTxQueue # <<>>
  /\ LET n == AtMost(Len(xdpTxQueue), TxBatchSize - Len(batch))
     IN  /\ batch' = batch \o SubSeq(xdpTxQueue, 1, n)
         /\ xdpTxQueue' = SubSeq(xdpTxQueue, n + 1, Len(xdpTxQueue))
  /\ Goto("flusher", "flush")
  /\ UNCHANGED <<rings, network, xdpSockLock, descs, queued, outcome, copies,
                 handled>>

BatchEmptied == batch' = <<>>

xdpFlushBatch ==
  \/ GetDescsToSend("flusher", "flush", "transmit", Len(batch))
  \/ /\ pc["flusher"] = "transmit"
     /\ Transmit(descs["flusher"], batch)
     /\ Hold("flusher", <<>>)
     /\ BatchEmptied
     /\ Unlock
     /\ Goto("flusher", "idle")
     /\ UNCHANGED <<network, queue, copies, handled>>

Next ==
  \/ KernelReceive \/ KernelSend
  \/ Refill \/ Take \/ Handle
  \/ Coalesce \/ xdpFlushBatch
  \/ \E d \in Decoys : SendDecoy(d)
  \/ \E s \in Scanners : TransmitFrame(s)

Spec == Init /\ [][Next]_vars

-----------------------------------------------------------------------------
(* Properties *)

TypeOK ==
  /\ free \subseteq Frames /\ fillRing \subseteq Frames /\ rxRing \subseteq Frames
  /\ completionRing \subseteq Frames /\ txRing \in Seq(Frames)
  /\ Len(xdpTxQueue) <= QueueSize /\ Len(batch) <= TxBatchSize
  /\ \A t \in Threads : descs[t] \in Seq(Frames)
  /\ xdpSockLock \in Threads \cup {Nobody}

\* No frame is lost, and none is in two places at once: handed to the kernel
\* to receive into while it carries a probe, queued to be sent twice, or free
\* while the kernel has it.
EachFrameInOnePlace ==
  LET tx == Elems(txRing)
  IN  /\ Frames = free \cup fillRing \cup rxRing \cup tx \cup completionRing
      /\ free \cap (fillRing \cup rxRing \cup tx \cup completionRing) = {}
      /\ fillRing \cap (rxRing \cup tx \cup completionRing) = {}
      /\ rxRing \cap (tx \cup completionRing) = {}
      /\ tx \cap completionRing = {}
      /\ \A i, j \in 1 .. Len(txRing) : txRing[i] = txRing[j] => i = j

\* What the receive loop parses are the replies that came, each once: no frame
\* is reused for a probe before its reply has been copied out.
RepliesIntact ==
  /\ Elems(handled) \subseteq { Reply(r) : r \in Replies }
  /\ \A i, j \in 1 .. Len(handled) : handled[i] = handled[j] => i = j

\* What is sent is what was to be sent, once: decoys, resets for replies that
\* came, and the frames of a probe, in their order.
SentIntact ==
  /\ \A i \in 1 .. Len(wire) :
       \/ \E s \in Scanners, k \in 1 .. Fragments :
            wire[i] = ProbeFrame(s, k) /\ k <= queued[s]
       \/ \E d \in Decoys : wire[i] = DecoyFrame(d)
       \/ \E r \in Replies : wire[i] = Reset(r) /\ Reply(r) \in Elems(handled)
  /\ \A i, j \in 1 .. Len(wire) : i < j =>
       /\ wire[i] # wire[j]
       /\ wire[i][1] = "probe" /\ wire[j][1] = "probe" /\ wire[i][2] = wire[j][2] =>
            wire[i][3] < wire[j][3]

FramesIntact == RepliesIntact /\ SentIntact

\* Four rings' worth of frames are enough for all: whoever holds the lock to
\* send has been handed a frame, so only a full TX ring stops it.
AlwaysAFrameToSend ==
  \A t \in Threads :
    pc[t] = "transmit" \/ (t = "rx" /\ pc[t] = "reset") => descs[t] # <<>>
=============================================================================
