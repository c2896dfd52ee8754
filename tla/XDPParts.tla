------------------------------ MODULE XDPParts ------------------------------
(* The AF_XDP engine's life cycle, and the rings of one of its sockets while *)
(* it runs: which is the one that a behaviour is about, and the other stays  *)
(* as it is at the start.                                                    *)
EXTENDS XDPEngine, TLC

CONSTANTS Frames, Ring, QueueSize, TxBatchSize, Scanners, Decoys, Fragments,
          Replies

VARIABLES
  which,
  free, fillRing, rxRing, txRing, completionRing, mem, due, wire, xdpSockLock,
  ringPC, descs, xdpTxQueue, queued, outcome, batch, copies, handled

ringVars == <<free, fillRing, rxRing, txRing, completionRing, mem, due, wire,
              xdpSockLock, ringPC, descs, xdpTxQueue, queued, outcome, batch,
              copies, handled>>

Rings == INSTANCE XDPRingsProofs WITH pc <- ringPC
ASSUME SocketAssumption == Rings!RingsAssumption

Symmetry == Permutations(Frames) \cup Permutations(Replies)

XDPInit == which \in {"engine", "rings"} /\ Init /\ Rings!Init

XDPNext ==
  /\ UNCHANGED which
  /\ \/ which = "engine" /\ Next /\ UNCHANGED ringVars
     \/ which = "rings" /\ Rings!Next /\ UNCHANGED vars

XDPSpec == XDPInit /\ [][XDPNext]_<<which, vars, ringVars>>

-----------------------------------------------------------------------------
(* Properties *)

\* No frame of a socket is lost or in two places at once, whatever the order
\* in which the receive loop, the flusher, the scanners and the kernel move
\* the rings, and whoever holds the lock to send has been given one (xdp.go).
EachFrameInOnePlace ==
  Rings!TypeOK /\ Rings!EachFrameInOnePlace /\ Rings!AlwaysAFrameToSend

\* What is parsed is what came in, once, and what is sent is what was to be
\* sent, once and in order, though frames are reused (xdp.go).
FramesIntact == Rings!FramesIntact
=============================================================================
