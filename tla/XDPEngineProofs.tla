-------------------------- MODULE XDPEngineProofs --------------------------
(***************************************************************************)
(* Proofs about the life of the AF_XDP engine, for any number of queues,   *)
(* and about the engine and a socket's rings side by side.                 *)
(*                                                                         *)
(* That traffic is redirected to open sockets only rests on the order of   *)
(* things: the hook is attached while the handler's call can do nothing,   *)
(* and both goroutines take it off before they close anything.  That an    *)
(* exit without a signal leaves nothing behind rests on where an open      *)
(* socket can be found at each point of main's way, and so does that a     *)
(* scan over AF_XDP begins with all that it needs.                         *)
(***************************************************************************)
EXTENDS XDPParts, TLAPS

Booting == {"load", "iface", "attach", "bind", "map", "start"}
Closing == {"range", "close", "release", "closeColl", "dropColl"}

\* Until the engine runs the handler's call finds nothing to do, and main
\* alone touches sockets: those mapped are the first queues', and the one it
\* is about to map is open.
BootsAlone ==
  /\ pc["main"] \in Booting =>
       /\ ~ xdpRunning
       /\ pc["handler"] \in {"wait", "check", "end"}
       /\ \A q \in xsksMap : q <= Len(xdpSockets)
  /\ pc["main"] \in {"load", "iface", "attach"} => ~ hook /\ xdpSockets = <<>>
  /\ hook /\ pc["main"] = "map" => sock[Turn] = "open"

\* Whoever has gone past the detaching has taken the hook off for good.
DetachedFirst == \A t \in Threads : pc[t] \in Closing => ~ hook

RInv == TypeOK /\ BootsAlone /\ DetachedFirst /\ RedirectsToOpen

-----------------------------------------------------------------------------
(* Nothing is left behind while no signal has come. *)

\* The engine's sockets are the first queues', and all are mapped.
BoundAreMapped ==
  \A i \in 1 .. Len(xdpSockets) : xdpSockets[i] = i /\ i \in xsksMap

\* Loops use mapped sockets only.
LoopsAreMapped ==
  /\ \A q \in Queues : rx[q] # "none" => q \in xsksMap
  /\ flusher # "none" => First \in xsksMap

MInv == BoundAreMapped /\ LoopsAreMapped

\* Where an open socket can be, and what is held, on main's way.
OpenOnly(S) == \A q \in Queues : sock[q] = "open" => q \in S
Released == ~ hook /\ OpenOnly({}) /\ coll = "closed" /\ ~ xdpRunning
Running  == /\ xdpRunning /\ coll = "loaded" /\ xdpSockets # <<>>
            /\ OpenOnly(Elems(xdpSockets))

MainHolds ==
  /\ pc["main"] = "load" => coll = "none" /\ OpenOnly({})
  /\ pc["main"] \in {"iface", "attach"} => coll = "loaded" /\ OpenOnly({})
  /\ pc["main"] \in {"bind", "start"} =>
       coll = "loaded" /\ OpenOnly(Elems(xdpSockets))
  /\ pc["main"] = "map" => coll = "loaded" /\ OpenOnly(Elems(xdpSockets) \cup {Turn})
  /\ pc["main"] = "start" => xdpSockets # <<>>
  /\ pc["main"] \in {"spawn", "flusher", "publish"} => Running
  /\ pc["main"] \in {"scan", "clear"} => Running /\ xdpColl
  /\ pc["main"] = "check" => Released \/ (Running /\ xdpColl)
  /\ pc["main"] \in {"detach", "range"} =>
       /\ ~ xdpRunning /\ xdpColl /\ coll = "loaded"
       /\ OpenOnly(Elems(xdpSockets))
  /\ pc["main"] = "close" =>
       /\ ~ xdpRunning /\ xdpColl /\ coll = "loaded"
       /\ OpenOnly(Elems(toClose["main"]))
  /\ pc["main"] \in {"release", "closeColl"} =>
       ~ xdpRunning /\ xdpColl /\ OpenOnly({})
  /\ pc["main"] \in {"dropColl", "end"} => Released

UInv == ~ signalled => UninterruptedExitReleases /\ (Alive => MainHolds)

IInv == RInv /\ MInv /\ UInv

\* Until a signal comes, the way to the scan keeps what it has set up: the
\* mapped queues are those bound, and a loop runs once xdpRunning lets it.
Setup == Booting \cup {"spawn", "flusher", "publish", "scan"}
Served == \A q \in Elems(xdpSockets) : rx[q] \notin {"none", "ended"}

ReadyParts ==
  /\ pc["main"] \in {"load", "iface", "attach"} => xsksMap = {}
  /\ pc["main"] \in Setup \ {"load", "iface", "attach"} =>
       hook /\ xsksMap \subseteq Elems(xdpSockets)
  /\ pc["main"] \in Booting => flusher = "none"
  /\ pc["main"] \in Setup => flusher # "ended"
  /\ pc["main"] \in {"flusher", "publish", "scan"} => Served

ReadyInv == Alive /\ ~ signalled => ReadyParts

-----------------------------------------------------------------------------
(* The types. *)

LEMMA TypesInit == Init => TypeOK
<1> SUFFICES ASSUME Init PROVE TypeOK
  OBVIOUS
<1>1. NumQueues \in Nat \ {0} /\ {} \subseteq Queues
  BY QueuesAssumption
<1>2. pc \in [Threads -> Labels] /\ pc["main"] # "map"
  BY DEF Init, Threads, Labels
<1>3. Queued
  BY <1>2 DEF Init, Queued, Threads
<1> QED BY <1>1, <1>2, <1>3 DEF Init, TypeOK

LEMMA QueuedStep == TypeOK /\ [Next]_vars => Queued'
<1> SUFFICES ASSUME TypeOK, [Next]_vars PROVE Queued'
  OBVIOUS
<1>0. Queued /\ pc \in [Threads -> Labels] /\ NumQueues \in Nat \ {0}
  BY QueuesAssumption DEF TypeOK
<1>1. CASE Load
  BY <1>1, <1>0 DEF Load, Queued, Turn, Queues, Goto, Exit, kernel, package,
    loops, Threads
<1>2. CASE FindInterface
  BY <1>2, <1>0 DEF FindInterface, Queued, Turn, Queues, Goto, Exit, kernel,
    package, loops, Threads
<1>3. CASE Attach
  BY <1>3, <1>0 DEF Attach, Queued, Turn, Queues, Goto, Exit, kernel, package,
    loops, Threads
<1>4. CASE Bind
  <2>1. Turn \in Queues
    BY <1>4, <1>0 DEF Bind, MoreQueues, Turn, Queues, Queued
  <2> QED BY <1>4, <1>0, <2>1 DEF Bind, Queued, Turn
<1>5. CASE MapSocket
  <2>1. Turn \in Queues
    BY <1>5, <1>0 DEF MapSocket, Queued
  <2>2. xdpSockets' \in Seq(Queues)
    <3>1. xdpSockets \in Seq(Queues)
      BY <1>0 DEF Queued
    <3>2. Append(xdpSockets, Turn) \in Seq(Queues)
      BY <2>1, <3>1
    <3> QED BY <1>5, <3>1, <3>2 DEF MapSocket
  <2>3. pc'["main"] = "map" => UNCHANGED xdpSockets
    BY <1>5, <1>0 DEF MapSocket, Goto, Threads
  <2> QED BY <1>5, <1>0, <2>1, <2>2, <2>3 DEF MapSocket, Queued, Turn
<1>6. CASE AllBound
  BY <1>6, <1>0 DEF AllBound, MoreQueues, Queued, Turn, Queues, Goto, Exit,
    kernel, package, loops, Threads
<1>7. CASE Start
  BY <1>7, <1>0 DEF Start, Queued, Turn, Queues, Goto, Exit, kernel, package,
    loops, Threads
<1>8. CASE Spawn
  BY <1>8, <1>0 DEF Spawn, Queued, Turn, Queues, Goto, Exit, kernel, package,
    loops, Threads
<1>9. CASE SpawnFlusher
  BY <1>9, <1>0 DEF SpawnFlusher, Panic, Queued, Turn, Queues, Goto, Exit,
    kernel, package, loops, Threads
<1>10. CASE Publish
  BY <1>10, <1>0 DEF Publish, KeepColl, Panic, Queued, Turn, Queues, Goto,
    Exit, kernel, package, loops, Threads
<1>11. CASE Scan
  BY <1>11, <1>0 DEF Scan, Panic, Queued, Turn, Queues, Goto, Exit, kernel,
    package, loops, Threads
<1>12. CASE Signal
  BY <1>12, <1>0 DEF Signal, Queued, Turn, Queues, Goto, Exit, kernel, package,
    loops, Threads
<1>13. ASSUME NEW t \in Threads, CheckRunning(t) PROVE Queued'
  BY <1>13, <1>0 DEF CheckRunning, Queued, Turn, Queues, Goto, Exit, kernel,
    package, loops, Threads
<1>14. ASSUME NEW t \in Threads, Clear(t) PROVE Queued'
  BY <1>14, <1>0 DEF Clear, Queued, Turn, Queues, Goto, Exit, kernel, package,
    loops, Threads
<1>15. ASSUME NEW t \in Threads, Detach(t) PROVE Queued'
  BY <1>15, <1>0 DEF Detach, Detached, Queued, Turn, Queues, Goto, Exit,
    kernel, package, loops, Threads
<1>16. ASSUME NEW t \in Threads, RangeSockets(t) PROVE Queued'
  BY <1>16, <1>0 DEF RangeSockets, Queued, Turn, Queues, Goto, Exit, kernel,
    package, loops, Threads
<1>17. ASSUME NEW t \in Threads, CloseSocket(t) PROVE Queued'
  <2>1. Tail(toClose[t]) \in Seq(Queues)
    BY <1>17, <1>0 DEF CloseSocket, Queued
  <2> QED BY <1>17, <1>0, <2>1 DEF CloseSocket, Queued, package, Turn
<1>18. ASSUME NEW t \in Threads, ForgetSockets(t) PROVE Queued'
  BY <1>18, <1>0 DEF ForgetSockets, Queued, Turn, Queues, Goto, Exit, kernel,
    package, loops, Threads
<1>19. ASSUME NEW t \in Threads, CheckColl(t) PROVE Queued'
  BY <1>19, <1>0 DEF CheckColl, Queued, Turn, Queues, Goto, Exit, kernel,
    package, loops, Threads
<1>20. ASSUME NEW t \in Threads, CloseColl(t) PROVE Queued'
  BY <1>20, <1>0 DEF CloseColl, Panic, Queued, Turn, Queues, Goto, Exit,
    kernel, package, loops, Threads
<1>21. ASSUME NEW t \in Threads, DropColl(t) PROVE Queued'
  BY <1>21, <1>0 DEF DropColl, Queued, Turn, Queues, Goto, Exit, kernel,
    package, loops, Threads
<1>22. ASSUME NEW t \in Threads, EndShutdown(t) PROVE Queued'
  BY <1>22, <1>0 DEF EndShutdown, Panic, Queued, Turn, Queues, Goto, Exit,
    kernel, package, loops, Threads
<1>23. ASSUME NEW q \in Queues, RxLoop(q) PROVE Queued'
  BY <1>23, <1>0 DEF RxLoop, RxTest, RxGoto, Use, Queued, Turn, Queues, Goto,
    Exit, kernel, package, loops, Threads
<1>24. CASE Flusher
  BY <1>24, <1>0 DEF Flusher, FlusherGoto, Use, Queued, Turn, Queues, Goto,
    Exit, kernel, package, loops, Threads
<1>25. CASE UNCHANGED vars
  BY <1>25, <1>0 DEF vars, Queued, Turn, Queues, Goto, Exit, kernel, package,
    loops, Threads
<1> QED
  BY <1>1, <1>2, <1>3, <1>4, <1>5, <1>6, <1>7, <1>8, <1>9, <1>10, <1>11, <1>12,
    <1>13, <1>14, <1>15, <1>16, <1>17, <1>18, <1>19, <1>20, <1>21, <1>22,
    <1>23, <1>24, <1>25
  DEF Next, Main, Handler, Exited, InitXDPEngine, ShutdownXDPEngine, Threads

LEMMA TypesStep == TypeOK /\ [Next]_vars => TypeOK'
<1> SUFFICES ASSUME TypeOK, [Next]_vars PROVE TypeOK'
  OBVIOUS
<1>0. Queued'
  BY QueuedStep
<1>1. CASE Load
  BY <1>1, <1>0 DEF Load, TypeOK, Labels, Goto, Exit, kernel, package, loops,
    Threads
<1>2. CASE FindInterface
  BY <1>2, <1>0 DEF FindInterface, TypeOK, Labels, Goto, Exit, kernel, package,
    loops, Threads
<1>3. CASE Attach
  <2>1. DefaultSocketFlags' \in {"zerocopy", "copy"}
    BY <1>3 DEF Attach, TypeOK
  <2>2. pc' \in [Threads -> Labels] /\ exited' \in {"no", "exit", "crash"}
    BY <1>3 DEF Attach, Goto, Exit, TypeOK, Labels, Threads
  <2>3. hook' \in BOOLEAN /\ coll' \in {"none", "loaded", "closed"}
    BY <1>3 DEF Attach, TypeOK
  <2> QED BY <1>3, <1>0, <2>1, <2>2, <2>3 DEF Attach, TypeOK, loops
<1>4. CASE Bind
  <2>1. sock' \in [Queues -> {"none", "open", "closed"}]
    BY <1>4 DEF Bind, TypeOK
  <2>2. pc' \in [Threads -> Labels] /\ exited' \in {"no", "exit", "crash"}
    BY <1>4 DEF Bind, GiveUp, Goto, Exit, TypeOK, Labels, Threads
  <2>3. /\ hook' \in BOOLEAN /\ coll' \in {"none", "loaded", "closed"}
        /\ DefaultSocketFlags' \in {"zerocopy", "copy"}
    BY <1>4 DEF Bind, GiveUp, Undo, TypeOK
  <2> QED BY <1>4, <1>0, <2>1, <2>2, <2>3 DEF Bind, TypeOK, loops
<1>5. CASE MapSocket
  <2>1. Turn \in Queues
    BY <1>5 DEF MapSocket, TypeOK, Queued
  <2>2. sock' \in [Queues -> {"none", "open", "closed"}] /\ xsksMap' \subseteq Queues
    BY <1>5, <2>1 DEF MapSocket, TypeOK
  <2>3. pc' \in [Threads -> Labels] /\ exited' \in {"no", "exit", "crash"}
    BY <1>5 DEF MapSocket, GiveUp, Goto, Exit, TypeOK, Labels, Threads
  <2>4. hook' \in BOOLEAN /\ coll' \in {"none", "loaded", "closed"}
    BY <1>5 DEF MapSocket, GiveUp, Undo, TypeOK
  <2> QED BY <1>5, <1>0, <2>2, <2>3, <2>4 DEF MapSocket, TypeOK, loops
<1>6. CASE AllBound
  BY <1>6, <1>0 DEF AllBound, MoreQueues, TypeOK, Labels, Goto, Exit, kernel,
    package, loops, Threads
<1>7. CASE Start
  BY <1>7, <1>0 DEF Start, TypeOK, Labels, Goto, Exit, kernel, package, loops,
    Threads
<1>8. CASE Spawn
  BY <1>8, <1>0 DEF Spawn, TypeOK, Labels, Goto, Exit, kernel, package, loops,
    Threads
<1>9. CASE SpawnFlusher
  BY <1>9, <1>0 DEF SpawnFlusher, Panic, TypeOK, Labels, Goto, Exit, kernel,
    package, loops, Threads
<1>10. CASE Publish
  BY <1>10, <1>0 DEF Publish, KeepColl, Panic, TypeOK, Labels, Goto, Exit,
    kernel, package, loops, Threads
<1>11. CASE Scan
  BY <1>11, <1>0 DEF Scan, Panic, TypeOK, Labels, Goto, Exit, kernel, package,
    loops, Threads
<1>12. CASE Signal
  BY <1>12, <1>0 DEF Signal, TypeOK, Labels, Goto, Exit, kernel, package,
    loops, Threads
<1>13. ASSUME NEW t \in Threads, CheckRunning(t) PROVE TypeOK'
  BY <1>13, <1>0 DEF CheckRunning, TypeOK, Labels, Goto, Exit, kernel, package,
    loops, Threads
<1>14. ASSUME NEW t \in Threads, Clear(t) PROVE TypeOK'
  BY <1>14, <1>0 DEF Clear, TypeOK, Labels, Goto, Exit, kernel, package, loops,
    Threads
<1>15. ASSUME NEW t \in Threads, Detach(t) PROVE TypeOK'
  BY <1>15, <1>0 DEF Detach, Detached, TypeOK, Labels, Goto, Exit, kernel,
    package, loops, Threads
<1>16. ASSUME NEW t \in Threads, RangeSockets(t) PROVE TypeOK'
  BY <1>16, <1>0 DEF RangeSockets, TypeOK, Labels, Goto, Exit, kernel, package,
    loops, Threads
<1>17. ASSUME NEW t \in Threads, CloseSocket(t) PROVE TypeOK'
  BY <1>17, <1>0 DEF CloseSocket, TypeOK, Labels, Goto, Exit, kernel, package,
    loops, Threads
<1>18. ASSUME NEW t \in Threads, ForgetSockets(t) PROVE TypeOK'
  BY <1>18, <1>0 DEF ForgetSockets, TypeOK, Labels, Goto, Exit, kernel,
    package, loops, Threads
<1>19. ASSUME NEW t \in Threads, CheckColl(t) PROVE TypeOK'
  BY <1>19, <1>0 DEF CheckColl, TypeOK, Labels, Goto, Exit, kernel, package,
    loops, Threads
<1>20. ASSUME NEW t \in Threads, CloseColl(t) PROVE TypeOK'
  BY <1>20, <1>0 DEF CloseColl, Panic, TypeOK, Labels, Goto, Exit, kernel,
    package, loops, Threads
<1>21. ASSUME NEW t \in Threads, DropColl(t) PROVE TypeOK'
  BY <1>21, <1>0 DEF DropColl, TypeOK, Labels, Goto, Exit, kernel, package,
    loops, Threads
<1>22. ASSUME NEW t \in Threads, EndShutdown(t) PROVE TypeOK'
  BY <1>22, <1>0 DEF EndShutdown, Panic, TypeOK, Labels, Goto, Exit, kernel,
    package, loops, Threads
<1>23. ASSUME NEW q \in Queues, RxLoop(q) PROVE TypeOK'
  BY <1>23, <1>0 DEF RxLoop, RxTest, RxGoto, Use, TypeOK, Labels, Goto, Exit,
    kernel, package, loops, Threads
<1>24. CASE Flusher
  BY <1>24, <1>0 DEF Flusher, FlusherGoto, Use, TypeOK, Labels, Goto, Exit,
    kernel, package, loops, Threads
<1>25. CASE UNCHANGED vars
  BY <1>25, <1>0 DEF vars, TypeOK, Labels, Goto, Exit, kernel, package, loops,
    Threads
<1> QED
  BY <1>1, <1>2, <1>3, <1>4, <1>5, <1>6, <1>7, <1>8, <1>9, <1>10, <1>11, <1>12,
    <1>13, <1>14, <1>15, <1>16, <1>17, <1>18, <1>19, <1>20, <1>21, <1>22,
    <1>23, <1>24, <1>25
  DEF Next, Main, Handler, Exited, InitXDPEngine, ShutdownXDPEngine, Threads
-----------------------------------------------------------------------------
(* Traffic goes to open sockets only. *)

LEMMA RInvInit == Init => RInv
BY TypesInit DEF Init, RInv, BootsAlone, Booting, DetachedFirst, Closing,
  RedirectsToOpen, Threads, Alive

LEMMA RInvStep == RInv /\ [Next]_vars => RInv'
<1> SUFFICES ASSUME RInv, [Next]_vars PROVE RInv'
  OBVIOUS
<1>0. TypeOK'
  BY TypesStep DEF RInv
<1>f. /\ pc \in [Threads -> Labels] /\ xdpSockets \in Seq(Queues)
      /\ xsksMap \subseteq Queues
      /\ sock \in [Queues -> {"none", "open", "closed"}]
      /\ NumQueues \in Nat \ {0}
  BY QueuesAssumption DEF RInv, TypeOK, Queued
<1>1. CASE Load
  BY <1>1, <1>0, <1>f DEF Load, RInv, BootsAlone, Booting, DetachedFirst,
    Closing, RedirectsToOpen, Alive, Turn, Goto, Exit, kernel, package, Threads
<1>2. CASE FindInterface
  BY <1>2, <1>0, <1>f DEF FindInterface, RInv, BootsAlone, Booting,
    DetachedFirst, Closing, RedirectsToOpen, Alive, Turn, Goto, Exit, kernel,
    package, Threads
<1>3. CASE Attach
  BY <1>3, <1>0, <1>f DEF Attach, RInv, BootsAlone, Booting, DetachedFirst,
    Closing, RedirectsToOpen, Alive, Turn, Goto, Exit, kernel, package, Threads
<1>4. CASE Bind
  <2>1. Turn \in Queues /\ Turn = Len(xdpSockets) + 1 /\ Turn' = Turn
        /\ UNCHANGED <<xdpSockets, xsksMap, xdpRunning>>
    BY <1>4, <1>f DEF Bind, MoreQueues, Queues, Turn
  <2>2. \A q \in xsksMap : q <= Len(xdpSockets) /\ sock'[q] = sock[q]
    BY <1>4, <1>f, <2>1 DEF Bind, RInv, BootsAlone, Booting
  <2>3. /\ pc'["handler"] = pc["handler"]
        /\ \/ pc'["main"] = "map" /\ sock'[Turn] = "open"
           \/ pc'["main"] \in {"bind", "start"}
    BY <1>4, <1>f, <2>1 DEF Bind, GiveUp, Goto, Threads
  <2>4. hook' = hook \/ hook' = FALSE
    BY <1>4 DEF Bind, GiveUp, Undo
  <2>5. BootsAlone'
    BY <1>4, <1>f, <2>1, <2>2, <2>3 DEF Bind, RInv, BootsAlone, Booting
  <2>6. DetachedFirst'
    BY <2>3, <2>4 DEF RInv, DetachedFirst, Closing, Threads
  <2>7. RedirectsToOpen'
    BY <2>1, <2>2, <2>4 DEF RInv, RedirectsToOpen
  <2> QED BY <1>0, <2>5, <2>6, <2>7 DEF RInv
<1>5. CASE MapSocket
  <2>1. Turn \in Queues /\ Turn = Len(xdpSockets) + 1 /\ xdpRunning' = xdpRunning
    BY <1>5, <1>f DEF MapSocket, Queues, Turn, RInv, TypeOK, Queued
  <2>2. hook' = hook \/ hook' = FALSE
    BY <1>5 DEF MapSocket, GiveUp, Undo
  <2>3. /\ pc'["handler"] = pc["handler"]
        /\ pc'["main"] \in {"bind", "start"} \/ (pc'["main"] = "map" /\ ~ hook')
    BY <1>5, <1>f DEF MapSocket, GiveUp, Undo, Goto, Threads
  <2>4. \A q \in xsksMap : q \in Nat /\ q <= Len(xdpSockets) /\ q # Turn
    BY <1>5, <1>f, <2>1 DEF MapSocket, RInv, BootsAlone, Booting, Queues
  <2>5. DetachedFirst'
    BY <2>2, <2>3 DEF RInv, DetachedFirst, Closing, Threads
  <2>6. CASE /\ xsksMap' = xsksMap \cup {Turn} /\ UNCHANGED sock
             /\ xdpSockets' = Append(xdpSockets, Turn)
    <3>1. Len(xdpSockets') = Len(xdpSockets) + 1
      BY <1>f, <2>1, <2>6
    <3>2. \A q \in xsksMap' : q <= Len(xdpSockets')
      BY <1>f, <2>1, <2>4, <2>6, <3>1
    <3>3. hook => sock[Turn] = "open"
      BY <1>5 DEF MapSocket, RInv, BootsAlone
    <3>4. BootsAlone'
      BY <1>5, <2>1, <2>3, <3>2 DEF MapSocket, RInv, BootsAlone, Booting
    <3>5. RedirectsToOpen'
      BY <2>2, <2>6, <3>3 DEF RInv, RedirectsToOpen
    <3> QED BY <1>0, <2>5, <3>4, <3>5 DEF RInv
  <2>7. CASE /\ sock' = [sock EXCEPT ![Turn] = "closed"]
             /\ UNCHANGED <<xsksMap, xdpSockets>>
    <3>1. BootsAlone'
      BY <1>5, <2>1, <2>3, <2>4, <2>7 DEF MapSocket, RInv, BootsAlone, Booting
    <3>2. RedirectsToOpen'
      BY <1>f, <2>1, <2>2, <2>4, <2>7 DEF RInv, RedirectsToOpen
    <3> QED BY <1>0, <2>5, <3>1, <3>2 DEF RInv
  <2> QED BY <1>5, <2>6, <2>7 DEF MapSocket
<1>6. CASE AllBound
  BY <1>6, <1>0, <1>f DEF AllBound, MoreQueues, RInv, BootsAlone, Booting,
    DetachedFirst, Closing, RedirectsToOpen, Alive, Turn, Goto, Exit, kernel,
    package, Threads
<1>7. CASE Start
  BY <1>7, <1>0, <1>f DEF Start, RInv, BootsAlone, Booting, DetachedFirst,
    Closing, RedirectsToOpen, Alive, Turn, Goto, Exit, kernel, package, Threads
<1>8. CASE Spawn
  BY <1>8, <1>0, <1>f DEF Spawn, RInv, BootsAlone, Booting, DetachedFirst,
    Closing, RedirectsToOpen, Alive, Turn, Goto, Exit, kernel, package, Threads
<1>9. CASE SpawnFlusher
  BY <1>9, <1>0, <1>f DEF SpawnFlusher, Panic, RInv, BootsAlone, Booting,
    DetachedFirst, Closing, RedirectsToOpen, Alive, Turn, Goto, Exit, kernel,
    package, Threads
<1>10. CASE Publish
  BY <1>10, <1>0, <1>f DEF Publish, KeepColl, Panic, RInv, BootsAlone, Booting,
    DetachedFirst, Closing, RedirectsToOpen, Alive, Turn, Goto, Exit, kernel,
    package, Threads
<1>11. CASE Scan
  BY <1>11, <1>0, <1>f DEF Scan, Panic, RInv, BootsAlone, Booting,
    DetachedFirst, Closing, RedirectsToOpen, Alive, Turn, Goto, Exit, kernel,
    package, Threads
<1>12. CASE Signal
  BY <1>12, <1>0, <1>f DEF Signal, RInv, BootsAlone, Booting, DetachedFirst,
    Closing, RedirectsToOpen, Alive, Turn, Goto, Exit, kernel, package, Threads
<1>13. ASSUME NEW t \in Threads, CheckRunning(t) PROVE RInv'
  BY <1>13, <1>0, <1>f DEF CheckRunning, RInv, BootsAlone, Booting,
    DetachedFirst, Closing, RedirectsToOpen, Alive, Turn, Goto, Exit, kernel,
    package, Threads
<1>14. ASSUME NEW t \in Threads, Clear(t) PROVE RInv'
  BY <1>14, <1>0, <1>f DEF Clear, RInv, BootsAlone, Booting, DetachedFirst,
    Closing, RedirectsToOpen, Alive, Turn, Goto, Exit, kernel, package, Threads
<1>15. ASSUME NEW t \in Threads, Detach(t) PROVE RInv'
  BY <1>15, <1>0, <1>f DEF Detach, Detached, RInv, BootsAlone, Booting,
    DetachedFirst, Closing, RedirectsToOpen, Alive, Turn, Goto, Exit, kernel,
    package, Threads
<1>16. ASSUME NEW t \in Threads, RangeSockets(t) PROVE RInv'
  BY <1>16, <1>0, <1>f DEF RangeSockets, RInv, BootsAlone, Booting,
    DetachedFirst, Closing, RedirectsToOpen, Alive, Turn, Goto, Exit, kernel,
    package, Threads
<1>17. ASSUME NEW t \in Threads, CloseSocket(t) PROVE RInv'
  BY <1>17, <1>0, <1>f DEF CloseSocket, RInv, BootsAlone, Booting,
    DetachedFirst, Closing, RedirectsToOpen, Alive, Turn, Goto, Exit, kernel,
    package, Threads
<1>18. ASSUME NEW t \in Threads, ForgetSockets(t) PROVE RInv'
  BY <1>18, <1>0, <1>f DEF ForgetSockets, RInv, BootsAlone, Booting,
    DetachedFirst, Closing, RedirectsToOpen, Alive, Turn, Goto, Exit, kernel,
    package, Threads
<1>19. ASSUME NEW t \in Threads, CheckColl(t) PROVE RInv'
  BY <1>19, <1>0, <1>f DEF CheckColl, RInv, BootsAlone, Booting, DetachedFirst,
    Closing, RedirectsToOpen, Alive, Turn, Goto, Exit, kernel, package, Threads
<1>20. ASSUME NEW t \in Threads, CloseColl(t) PROVE RInv'
  BY <1>20, <1>0, <1>f DEF CloseColl, Panic, RInv, BootsAlone, Booting,
    DetachedFirst, Closing, RedirectsToOpen, Alive, Turn, Goto, Exit, kernel,
    package, Threads
<1>21. ASSUME NEW t \in Threads, DropColl(t) PROVE RInv'
  BY <1>21, <1>0, <1>f DEF DropColl, RInv, BootsAlone, Booting, DetachedFirst,
    Closing, RedirectsToOpen, Alive, Turn, Goto, Exit, kernel, package, Threads
<1>22. ASSUME NEW t \in Threads, EndShutdown(t) PROVE RInv'
  BY <1>22, <1>0, <1>f DEF EndShutdown, Panic, RInv, BootsAlone, Booting,
    DetachedFirst, Closing, RedirectsToOpen, Alive, Turn, Goto, Exit, kernel,
    package, Threads
<1>23. ASSUME NEW q \in Queues, RxLoop(q) PROVE RInv'
  BY <1>23, <1>0, <1>f DEF RxLoop, RxTest, RxGoto, Use, RInv, BootsAlone,
    Booting, DetachedFirst, Closing, RedirectsToOpen, Alive, Turn, Goto, Exit,
    kernel, package, Threads
<1>24. CASE Flusher
  BY <1>24, <1>0, <1>f DEF Flusher, FlusherGoto, Use, RInv, BootsAlone,
    Booting, DetachedFirst, Closing, RedirectsToOpen, Alive, Turn, Goto, Exit,
    kernel, package, Threads
<1>25. CASE UNCHANGED vars
  BY <1>25, <1>0, <1>f DEF vars, RInv, BootsAlone, Booting, DetachedFirst,
    Closing, RedirectsToOpen, Alive, Turn, Goto, Exit, kernel, package, Threads
<1> QED
  BY <1>1, <1>2, <1>3, <1>4, <1>5, <1>6, <1>7, <1>8, <1>9, <1>10, <1>11, <1>12,
    <1>13, <1>14, <1>15, <1>16, <1>17, <1>18, <1>19, <1>20, <1>21, <1>22,
    <1>23, <1>24, <1>25
  DEF Next, Main, Handler, Exited, InitXDPEngine, ShutdownXDPEngine, Threads
-----------------------------------------------------------------------------
(* An exit without a signal leaves nothing behind. *)

LEMMA ElemsEmpty == Elems(<<>>) = {}
BY DEF Elems

LEMMA ElemsAppend ==
  ASSUME NEW S, NEW s \in Seq(S), NEW x \in S
  PROVE  Elems(Append(s, x)) = Elems(s) \cup {x}
BY DEF Elems

LEMMA ElemsTail ==
  ASSUME NEW S, NEW s \in Seq(S), s # <<>>
  PROVE  Elems(s) \subseteq Elems(Tail(s)) \cup {Head(s)}
BY DEF Elems

LEMMA MInvInit == Init => MInv
BY DEF Init, MInv, BoundAreMapped, LoopsAreMapped

LEMMA MInvStep == TypeOK /\ MInv /\ [Next]_vars => MInv'
<1> SUFFICES ASSUME TypeOK, MInv, [Next]_vars PROVE MInv'
  OBVIOUS
<1>f. /\ xdpSockets \in Seq(Queues)
      /\ rx \in [Queues -> {"none", "test", "refill", "poll", "receive", "handle",
                            "ended"}]
  BY DEF TypeOK, Queued
<1>1. CASE Load
  BY <1>1, <1>f DEF Load, MInv, BoundAreMapped, LoopsAreMapped, First, kernel,
    package, loops
<1>2. CASE FindInterface
  BY <1>2, <1>f DEF FindInterface, MInv, BoundAreMapped, LoopsAreMapped, First,
    kernel, package, loops
<1>3. CASE Attach
  BY <1>3, <1>f DEF Attach, MInv, BoundAreMapped, LoopsAreMapped, First,
    kernel, package, loops
<1>4. CASE Bind
  BY <1>4, <1>f DEF Bind, GiveUp, Undo, MoreQueues, MInv, BoundAreMapped,
    LoopsAreMapped, First, kernel, package, loops
<1>5. CASE MapSocket
  <2>1. Turn \in Queues /\ Turn = Len(xdpSockets) + 1
    BY <1>5, <1>f DEF MapSocket, Turn, TypeOK, Queued
  <2>2. CASE xdpSockets' = Append(xdpSockets, Turn) /\ xsksMap' = xsksMap \cup {Turn}
    <3>1. Len(xdpSockets') = Len(xdpSockets) + 1
      BY <1>f, <2>1, <2>2
    <3>2. ASSUME NEW i \in 1 .. Len(xdpSockets')
          PROVE  xdpSockets'[i] = i /\ i \in xsksMap'
      BY <1>f, <2>1, <2>2, <3>1 DEF MInv, BoundAreMapped
    <3> QED BY <1>5, <2>2, <3>2
            DEF MapSocket, MInv, BoundAreMapped, LoopsAreMapped, loops
  <2>3. CASE UNCHANGED <<xsksMap, xdpSockets>>
    BY <1>5, <2>3 DEF MapSocket, MInv, BoundAreMapped, LoopsAreMapped, loops
  <2> QED BY <1>5, <2>2, <2>3 DEF MapSocket
<1>6. CASE AllBound
  BY <1>6, <1>f DEF AllBound, MoreQueues, MInv, BoundAreMapped, LoopsAreMapped,
    First, kernel, package, loops
<1>7. CASE Start
  BY <1>7, <1>f DEF Start, MInv, BoundAreMapped, LoopsAreMapped, First, kernel,
    package, loops
<1>8. CASE Spawn
  <2>1. Elems(xdpSockets) \subseteq xsksMap
    BY DEF Elems, MInv, BoundAreMapped
  <2>2. \A q \in Queues : rx'[q] # "none" => q \in xsksMap
    BY <1>8, <1>f, <2>1 DEF Spawn, MInv, LoopsAreMapped
  <2> QED BY <1>8, <2>2 DEF Spawn, MInv, BoundAreMapped, LoopsAreMapped, kernel, package
<1>9. CASE SpawnFlusher
  BY <1>9, <1>f DEF SpawnFlusher, Panic, MInv, BoundAreMapped, LoopsAreMapped,
    First, kernel, package, loops
<1>10. CASE Publish
  BY <1>10, <1>f DEF Publish, KeepColl, Panic, MInv, BoundAreMapped,
    LoopsAreMapped, First, kernel, package, loops
<1>11. CASE Scan
  BY <1>11, <1>f DEF Scan, Panic, MInv, BoundAreMapped, LoopsAreMapped, First,
    kernel, package, loops
<1>12. CASE Signal
  BY <1>12, <1>f DEF Signal, MInv, BoundAreMapped, LoopsAreMapped, First,
    kernel, package, loops
<1>13. ASSUME NEW t \in Threads, CheckRunning(t) PROVE MInv'
  BY <1>13, <1>f DEF CheckRunning, MInv, BoundAreMapped, LoopsAreMapped, First,
    kernel, package, loops
<1>14. ASSUME NEW t \in Threads, Clear(t) PROVE MInv'
  BY <1>14, <1>f DEF Clear, MInv, BoundAreMapped, LoopsAreMapped, First,
    kernel, package, loops
<1>15. ASSUME NEW t \in Threads, Detach(t) PROVE MInv'
  BY <1>15, <1>f DEF Detach, Detached, MInv, BoundAreMapped, LoopsAreMapped,
    First, kernel, package, loops
<1>16. ASSUME NEW t \in Threads, RangeSockets(t) PROVE MInv'
  BY <1>16, <1>f DEF RangeSockets, MInv, BoundAreMapped, LoopsAreMapped, First,
    kernel, package, loops
<1>17. ASSUME NEW t \in Threads, CloseSocket(t) PROVE MInv'
  BY <1>17, <1>f DEF CloseSocket, MInv, BoundAreMapped, LoopsAreMapped, First,
    kernel, package, loops
<1>18. ASSUME NEW t \in Threads, ForgetSockets(t) PROVE MInv'
  BY <1>18, <1>f DEF ForgetSockets, MInv, BoundAreMapped, LoopsAreMapped,
    First, kernel, package, loops
<1>19. ASSUME NEW t \in Threads, CheckColl(t) PROVE MInv'
  BY <1>19, <1>f DEF CheckColl, MInv, BoundAreMapped, LoopsAreMapped, First,
    kernel, package, loops
<1>20. ASSUME NEW t \in Threads, CloseColl(t) PROVE MInv'
  BY <1>20, <1>f DEF CloseColl, Panic, MInv, BoundAreMapped, LoopsAreMapped,
    First, kernel, package, loops
<1>21. ASSUME NEW t \in Threads, DropColl(t) PROVE MInv'
  BY <1>21, <1>f DEF DropColl, MInv, BoundAreMapped, LoopsAreMapped, First,
    kernel, package, loops
<1>22. ASSUME NEW t \in Threads, EndShutdown(t) PROVE MInv'
  BY <1>22, <1>f DEF EndShutdown, Panic, MInv, BoundAreMapped, LoopsAreMapped,
    First, kernel, package, loops
<1>23. ASSUME NEW q \in Queues, RxLoop(q) PROVE MInv'
  BY <1>23, <1>f DEF RxLoop, RxTest, RxGoto, Use, MInv, BoundAreMapped,
    LoopsAreMapped, First, kernel, package, loops
<1>24. CASE Flusher
  BY <1>24, <1>f DEF Flusher, FlusherGoto, Use, MInv, BoundAreMapped,
    LoopsAreMapped, First, kernel, package, loops
<1>25. CASE UNCHANGED vars
  BY <1>25, <1>f DEF vars, MInv, BoundAreMapped, LoopsAreMapped, First, kernel,
    package, loops
<1> QED
  BY <1>1, <1>2, <1>3, <1>4, <1>5, <1>6, <1>7, <1>8, <1>9, <1>10, <1>11, <1>12,
    <1>13, <1>14, <1>15, <1>16, <1>17, <1>18, <1>19, <1>20, <1>21, <1>22,
    <1>23, <1>24, <1>25
  DEF Next, Main, Handler, Exited, InitXDPEngine, ShutdownXDPEngine, Threads

LEMMA UInvInit == Init => UInv
BY DEF Init, UInv, UninterruptedExitReleases, MainHolds, OpenOnly, Alive, signalled, Threads

LEMMA UInvStep == IInv /\ Alive /\ Next => UInv'
<1> SUFFICES ASSUME IInv, Alive, Next PROVE UInv'
  OBVIOUS
<1>f. /\ pc \in [Threads -> Labels] /\ xdpSockets \in Seq(Queues)
      /\ toClose \in [Threads -> Seq(Queues)]
      /\ sock \in [Queues -> {"none", "open", "closed"}]
      /\ Elems(<<>>) = {}
  BY ElemsEmpty DEF IInv, RInv, TypeOK, Queued
<1>i. UInv /\ BootsAlone /\ DetachedFirst /\ Alive
  BY DEF IInv, RInv
<1>1. CASE Load
  BY <1>1, <1>f, <1>i DEF Load, BootsAlone, UInv, UninterruptedExitReleases,
    MainHolds, Running, Released, OpenOnly, Alive, signalled, Goto, Exit,
    kernel, package, loops, Threads
<1>2. CASE FindInterface
  BY <1>2, <1>f, <1>i DEF FindInterface, BootsAlone, UInv,
    UninterruptedExitReleases, MainHolds, Running, Released, OpenOnly, Alive,
    signalled, Goto, Exit, kernel, package, loops, Threads
<1>3. CASE Attach
  BY <1>3, <1>f, <1>i DEF Attach, BootsAlone, UInv, UninterruptedExitReleases,
    MainHolds, Running, Released, OpenOnly, Alive, signalled, Goto, Exit,
    kernel, package, loops, Threads
<1>4. CASE Bind
  <2>1. Turn = First => xdpSockets = <<>>
    BY <1>f DEF Turn, First
  <2>2. Turn # First => xdpSockets # <<>>
    BY <1>f DEF Turn, First
  <2>3. signalled \/ (coll = "loaded" /\ OpenOnly(Elems(xdpSockets)))
    BY <1>4, <1>i DEF Bind, UInv, MainHolds
  <2>4. CASE sock' = [sock EXCEPT ![Turn] = "open"] /\ Goto("main", "map")
             /\ UNCHANGED <<coll, exited>>
    <3>1. Turn' = Turn
      BY <1>4 DEF Bind, Turn
    <3> QED BY <1>4, <1>f, <1>i, <2>3, <2>4, <3>1 DEF Bind, UInv,
      UninterruptedExitReleases, MainHolds, Running, Released, OpenOnly, Alive,
      signalled, Goto, Exit, kernel, package, loops, Threads
  <2>5. CASE UNCHANGED <<coll, sock, pc, exited>>
    BY <1>4, <1>f, <1>i, <2>3, <2>5 DEF Bind, UInv, UninterruptedExitReleases,
      MainHolds, Running, Released, OpenOnly, Alive, signalled, Goto, Exit,
      kernel, package, loops, Threads
  <2>6. CASE GiveUp /\ UNCHANGED sock
    BY <1>4, <1>f, <1>i, <2>1, <2>2, <2>3, <2>6 DEF Bind, GiveUp, Undo, UInv,
      UninterruptedExitReleases, MainHolds, Running, Released, OpenOnly, Alive,
      signalled, Goto, Exit, kernel, package, loops, Threads
  <2> QED BY <1>4, <2>4, <2>5, <2>6 DEF Bind
<1>5. CASE MapSocket
  <2>1. Turn = First => xdpSockets = <<>>
    BY <1>f DEF Turn, First
  <2>2. Turn # First => xdpSockets # <<>>
    BY <1>f DEF Turn, First
  <2>3. signalled \/ (coll = "loaded" /\ OpenOnly(Elems(xdpSockets) \cup {Turn}))
    BY <1>5, <1>i DEF MapSocket, UInv, MainHolds
  <2>4. Turn \in Queues
    BY <1>5 DEF MapSocket, IInv, RInv, TypeOK, Queued
  <2>5. CASE /\ xdpSockets' = Append(xdpSockets, Turn) /\ Goto("main", "bind")
             /\ UNCHANGED <<coll, sock, exited>>
    <3>1. Elems(xdpSockets') = Elems(xdpSockets) \cup {Turn}
      BY <1>f, <2>4, <2>5, ElemsAppend
    <3> QED BY <1>5, <1>f, <1>i, <2>3, <2>5, <3>1 DEF MapSocket, UInv,
      UninterruptedExitReleases, MainHolds, Running, Released, OpenOnly, Alive,
      signalled, Goto, Exit, kernel, package, loops, Threads
  <2>6. CASE /\ sock' = [sock EXCEPT ![Turn] = "closed"] /\ GiveUp
             /\ UNCHANGED xdpSockets
    BY <1>5, <1>f, <1>i, <2>1, <2>2, <2>3, <2>4, <2>6 DEF MapSocket, GiveUp, Undo,
      UInv, UninterruptedExitReleases, MainHolds, Running, Released, OpenOnly,
      Alive, signalled, Goto, Exit, kernel, package, loops, Threads
  <2> QED BY <1>5, <2>5, <2>6 DEF MapSocket
<1>6. CASE AllBound
  <2>1. xdpSockets # <<>>
    BY <1>6, <1>f, QueuesAssumption DEF AllBound, MoreQueues, Turn
  <2> QED BY <1>6, <1>f, <1>i, <2>1 DEF AllBound, UInv, UninterruptedExitReleases,
    MainHolds, Running, Released, OpenOnly, Alive, signalled, Goto, Exit,
    kernel, package, loops, Threads
<1>7. CASE Start
  BY <1>7, <1>f, <1>i DEF Start, UInv, UninterruptedExitReleases, MainHolds,
    Running, Released, OpenOnly, Alive, signalled, Goto, Exit, kernel, package,
    loops, Threads
<1>8. CASE Spawn
  BY <1>8, <1>f, <1>i DEF Spawn, UInv, UninterruptedExitReleases, MainHolds,
    Running, Released, OpenOnly, Alive, signalled, Goto, Exit, kernel, package,
    loops, Threads
<1>9. CASE SpawnFlusher
  BY <1>9, <1>f, <1>i DEF SpawnFlusher, Panic, UInv, UninterruptedExitReleases,
    MainHolds, Running, Released, OpenOnly, Alive, signalled, Goto, Exit,
    kernel, package, loops, Threads
<1>10. CASE Publish
  BY <1>10, <1>f, <1>i DEF Publish, KeepColl, Panic, UInv,
    UninterruptedExitReleases, MainHolds, Running, Released, OpenOnly, Alive,
    signalled, Goto, Exit, kernel, package, loops, Threads
<1>11. CASE Scan
  BY <1>11, <1>f, <1>i DEF Scan, Panic, UInv, UninterruptedExitReleases,
    MainHolds, Running, Released, OpenOnly, Alive, signalled, Goto, Exit,
    kernel, package, loops, Threads
<1>12. CASE Signal
  BY <1>12, <1>f, <1>i DEF Signal, UInv, UninterruptedExitReleases, MainHolds,
    Running, Released, OpenOnly, Alive, signalled, Goto, Exit, kernel, package,
    loops, Threads
<1>13. ASSUME NEW t \in Threads, CheckRunning(t) PROVE UInv'
  BY <1>13, <1>f, <1>i DEF CheckRunning, UInv, UninterruptedExitReleases,
    MainHolds, Running, Released, OpenOnly, Alive, signalled, Goto, Exit,
    kernel, package, loops, Threads
<1>14. ASSUME NEW t \in Threads, Clear(t) PROVE UInv'
  BY <1>14, <1>f, <1>i DEF Clear, UInv, UninterruptedExitReleases, MainHolds,
    Running, Released, OpenOnly, Alive, signalled, Goto, Exit, kernel, package,
    loops, Threads
<1>15. ASSUME NEW t \in Threads, Detach(t) PROVE UInv'
  BY <1>15, <1>f, <1>i DEF Detach, Detached, UInv, UninterruptedExitReleases,
    MainHolds, Running, Released, OpenOnly, Alive, signalled, Goto, Exit,
    kernel, package, loops, Threads
<1>16. ASSUME NEW t \in Threads, RangeSockets(t) PROVE UInv'
  BY <1>16, <1>f, <1>i DEF RangeSockets, UInv, UninterruptedExitReleases,
    MainHolds, Running, Released, OpenOnly, Alive, signalled, Goto, Exit,
    kernel, package, loops, Threads
<1>17. ASSUME NEW t \in Threads, CloseSocket(t) PROVE UInv'
  <2>1. CASE t = "handler"
    BY <1>17, <2>1 DEF CloseSocket, UInv, signalled
  <2>2. CASE t = "main"
    <3>1. Elems(toClose["main"]) \subseteq
            Elems(toClose'["main"]) \cup {Head(toClose["main"])}
      BY <1>17, <1>f, <2>2, ElemsTail DEF CloseSocket, Threads
    <3>2. signalled \/ OpenOnly(Elems(toClose["main"]))'
      BY <1>17, <1>f, <1>i, <2>2, <3>1 DEF CloseSocket, UInv, MainHolds, OpenOnly
    <3> QED BY <1>17, <1>f, <1>i, <2>2, <3>2 DEF CloseSocket, UInv,
      UninterruptedExitReleases, MainHolds, Running, Released, OpenOnly, Alive,
      signalled, Goto, Exit, kernel, package, loops, Threads
  <2> QED BY <2>1, <2>2 DEF Threads
<1>18. ASSUME NEW t \in Threads, ForgetSockets(t) PROVE UInv'
  BY <1>18, <1>f, <1>i DEF ForgetSockets, UInv, UninterruptedExitReleases,
    MainHolds, Running, Released, OpenOnly, Alive, signalled, Goto, Exit,
    kernel, package, loops, Threads
<1>19. ASSUME NEW t \in Threads, CheckColl(t) PROVE UInv'
  BY <1>19, <1>f, <1>i DEF CheckColl, UInv, UninterruptedExitReleases,
    MainHolds, Running, Released, OpenOnly, Alive, signalled, Goto, Exit,
    kernel, package, loops, Threads
<1>20. ASSUME NEW t \in Threads, CloseColl(t) PROVE UInv'
  BY <1>20, <1>f, <1>i DEF CloseColl, Panic, DetachedFirst, Closing, UInv,
    UninterruptedExitReleases, MainHolds, Running, Released, OpenOnly, Alive,
    signalled, Goto, Exit, kernel, package, loops, Threads
<1>21. ASSUME NEW t \in Threads, DropColl(t) PROVE UInv'
  BY <1>21, <1>f, <1>i DEF DropColl, UInv, UninterruptedExitReleases,
    MainHolds, Running, Released, OpenOnly, Alive, signalled, Goto, Exit,
    kernel, package, loops, Threads
<1>22. ASSUME NEW t \in Threads, EndShutdown(t) PROVE UInv'
  BY <1>22, <1>f, <1>i DEF EndShutdown, Panic, UInv, UninterruptedExitReleases,
    MainHolds, Running, Released, OpenOnly, Alive, signalled, Goto, Exit,
    kernel, package, loops, Threads
<1>23. ASSUME NEW q \in Queues, RxLoop(q) PROVE UInv'
  <2>1. UNCHANGED <<kernel, package, pc, toClose, unwinding>>
    BY <1>23 DEF RxLoop
  <2>2. CASE UNCHANGED exited
    BY <1>i, <2>1, <2>2 DEF Elems, Turn, UInv, UninterruptedExitReleases,
      MainHolds, Running, Released, OpenOnly, Alive, signalled, Goto, Exit,
      kernel, package, loops, Threads
  <2>3. CASE exited' = "crash" /\ sock[q] = "closed" /\ rx[q] # "none"
    <3>1. ~ hook
      BY <2>3 DEF IInv, RInv, RedirectsToOpen, MInv, LoopsAreMapped
    <3> QED BY <1>i, <2>1, <2>3, <3>1 DEF UInv, UninterruptedExitReleases,
      MainHolds, Running, Released, OpenOnly, Alive, signalled, Goto, Exit,
      kernel, package, loops, Threads
  <2> QED BY <1>23, <2>2, <2>3 DEF RxLoop, RxTest, Use, Exit
<1>24. CASE Flusher
  <2>1. UNCHANGED <<kernel, package, pc, toClose, unwinding>>
    BY <1>24 DEF Flusher
  <2>2. CASE UNCHANGED exited
    BY <1>i, <2>1, <2>2 DEF Elems, Turn, UInv, UninterruptedExitReleases,
      MainHolds, Running, Released, OpenOnly, Alive, signalled, Goto, Exit,
      kernel, package, loops, Threads
  <2>3. CASE exited' = "crash" /\ sock[First] = "closed" /\ flusher # "none"
    <3>1. ~ hook
      BY <2>3 DEF IInv, RInv, RedirectsToOpen, MInv, LoopsAreMapped
    <3> QED BY <1>i, <2>1, <2>3, <3>1 DEF UInv, UninterruptedExitReleases,
      MainHolds, Running, Released, OpenOnly, Alive, signalled, Goto, Exit,
      kernel, package, loops, Threads
  <2> QED BY <1>24, <2>2, <2>3 DEF Flusher, Use, Exit
<1> QED
  BY <1>i, <1>1, <1>2, <1>3, <1>4, <1>5, <1>6, <1>7, <1>8, <1>9, <1>10, <1>11,
    <1>12, <1>13, <1>14, <1>15, <1>16, <1>17, <1>18, <1>19, <1>20, <1>21,
    <1>22, <1>23, <1>24
  DEF Next, Main, Handler, Exited, InitXDPEngine, ShutdownXDPEngine, Threads, Alive
LEMMA IInvInvariant == Spec => []IInv
<1>1. Init => IInv
  BY RInvInit, MInvInit, UInvInit DEF IInv
<1>2. IInv /\ [Next]_vars => IInv'
  <2> SUFFICES ASSUME IInv, [Next]_vars PROVE IInv'
    OBVIOUS
  <2>1. RInv' /\ MInv'
    BY RInvStep, MInvStep DEF IInv, RInv
  <2>2. CASE Alive /\ Next
    BY <2>1, <2>2, UInvStep DEF IInv
  <2>3. CASE UNCHANGED vars
    <3>1. UInv'
      BY <2>3 DEF vars, kernel, package, IInv, UInv, UninterruptedExitReleases,
                  MainHolds, Running, Released, OpenOnly, Elems, Turn, Alive,
                  signalled
    <3> QED BY <2>1, <3>1 DEF IInv
  <2> QED BY <2>2, <2>3 DEF Next, Exited
<1> QED BY <1>1, <1>2, PTL DEF Spec

-----------------------------------------------------------------------------
(* The scan has what it works with. *)

LEMMA ReadyInit == Init => ReadyInv
BY DEF Init, ReadyInv, ReadyParts, Served, Setup, Booting, Threads

LEMMA ReadyStep == IInv /\ ReadyInv /\ Alive /\ Next => ReadyInv'
<1> SUFFICES ASSUME IInv, ReadyInv, Alive, Next PROVE ReadyInv'
  OBVIOUS
<1>f. /\ pc \in [Threads -> Labels] /\ xdpSockets \in Seq(Queues)
      /\ rx \in [Queues -> {"none", "test", "refill", "poll", "receive",
                             "handle", "ended"}]
      /\ Elems(xdpSockets) \subseteq Queues
  BY DEF IInv, RInv, TypeOK, Queued, Elems
<1>r. Alive /\ ~ signalled /\ pc["main"] \in {"spawn", "flusher", "publish", "scan"} =>
        xdpRunning /\ xdpSockets # <<>>
  BY DEF IInv, UInv, MainHolds, Running
<1>1. CASE Load
  BY <1>1, <1>f DEF Load, ReadyInv, ReadyParts, Served, Setup, Booting, Alive,
    signalled, Goto, Exit, kernel, package, loops, Threads
<1>2. CASE FindInterface
  BY <1>2, <1>f DEF FindInterface, ReadyInv, ReadyParts, Served, Setup,
    Booting, Alive, signalled, Goto, Exit, kernel, package, loops, Threads
<1>3. CASE Attach
  BY <1>3, <1>f DEF Attach, ReadyInv, ReadyParts, Served, Setup, Booting,
    Alive, signalled, Goto, Exit, kernel, package, loops, Threads
<1>4. CASE Bind
  <2>1. UNCHANGED <<xdpSockets, xsksMap, rx, flusher>>
    BY <1>4 DEF Bind, loops
  <2>2. Elems(xdpSockets)' = Elems(xdpSockets) /\ Served' = Served
    BY <2>1 DEF Elems, Served
  <2>3. pc["main"] = "bind" /\ pc'["handler"] = pc["handler"]
        /\ (~ Alive' \/ UNCHANGED hook)
        /\ (~ Alive' \/ pc'["main"] \in {"bind", "map", "start"})
    BY <1>4, <1>f DEF Bind, GiveUp, Undo, Goto, Exit, Alive, Threads
  <2> QED BY <2>1, <2>2, <2>3 DEF ReadyInv, ReadyParts, Setup, Booting, Alive, signalled
<1>5. CASE MapSocket
  <2>1. Turn \in Queues /\ pc["main"] = "map" /\ pc'["handler"] = pc["handler"]
        /\ (~ Alive' \/ UNCHANGED hook) /\ UNCHANGED <<rx, flusher>>
        /\ (~ Alive' \/ pc'["main"] \in {"bind", "start"})
    BY <1>5, <1>f DEF MapSocket, GiveUp, Undo, Goto, Exit, Alive, Threads, loops,
      IInv, RInv, TypeOK, Queued
  <2>2. CASE xdpSockets' = Append(xdpSockets, Turn) /\ xsksMap' = xsksMap \cup {Turn}
    <3>1. Elems(xdpSockets') = Elems(xdpSockets) \cup {Turn}
      BY <1>f, <2>1, <2>2, ElemsAppend
    <3> QED BY <2>1, <2>2, <3>1 DEF ReadyInv, ReadyParts, Setup, Booting, Alive, signalled
  <2>3. CASE UNCHANGED <<xdpSockets, xsksMap>>
    <3>1. Elems(xdpSockets)' = Elems(xdpSockets)
      BY <2>3 DEF Elems
    <3> QED BY <2>1, <2>3, <3>1 DEF ReadyInv, ReadyParts, Setup, Booting, Alive, signalled
  <2> QED BY <1>5, <2>2, <2>3 DEF MapSocket
<1>6. CASE AllBound
  BY <1>6, <1>f DEF AllBound, ReadyInv, ReadyParts, Served, Elems, Setup,
    Booting, Alive, signalled, Goto, Exit, kernel, package, loops, Threads
<1>7. CASE Start
  BY <1>7, <1>f DEF Start, ReadyInv, ReadyParts, Served, Elems, Setup, Booting,
    Alive, signalled, Goto, Exit, kernel, package, loops, Threads
<1>8. CASE Spawn
  BY <1>8, <1>f DEF Spawn, ReadyInv, ReadyParts, Served, Elems, Setup, Booting,
    Alive, signalled, Goto, Exit, kernel, package, loops, Threads
<1>9. CASE SpawnFlusher
  BY <1>9, <1>f DEF SpawnFlusher, Panic, ReadyInv, ReadyParts, Served, Elems,
    Setup, Booting, Alive, signalled, Goto, Exit, kernel, package, loops,
    Threads
<1>10. CASE Publish
  BY <1>10, <1>f DEF Publish, Panic, KeepColl, ReadyInv, ReadyParts, Served,
    Elems, Setup, Booting, Alive, signalled, Goto, Exit, kernel, package,
    loops, Threads
<1>11. CASE Scan
  BY <1>11, <1>f DEF Scan, Panic, ReadyInv, ReadyParts, Served, Elems, Setup,
    Booting, Alive, signalled, Goto, Exit, kernel, package, loops, Threads
<1>12. CASE Signal
  BY <1>12, <1>f DEF Signal, ReadyInv, ReadyParts, Served, Elems, Setup,
    Booting, Alive, signalled, Goto, Exit, kernel, package, loops, Threads
<1>13. ASSUME NEW t \in Threads, CheckRunning(t) PROVE ReadyInv'
  BY <1>13, <1>f DEF CheckRunning, ReadyInv, ReadyParts, Served, Elems, Setup,
    Booting, Alive, signalled, Goto, Exit, kernel, package, loops, Threads
<1>14. ASSUME NEW t \in Threads, Clear(t) PROVE ReadyInv'
  BY <1>14, <1>f DEF Clear, ReadyInv, ReadyParts, Served, Elems, Setup,
    Booting, Alive, signalled, Goto, Exit, kernel, package, loops, Threads
<1>15. ASSUME NEW t \in Threads, Detach(t) PROVE ReadyInv'
  BY <1>15, <1>f DEF Detach, Detached, ReadyInv, ReadyParts, Served, Elems,
    Setup, Booting, Alive, signalled, Goto, Exit, kernel, package, loops,
    Threads
<1>16. ASSUME NEW t \in Threads, RangeSockets(t) PROVE ReadyInv'
  BY <1>16, <1>f DEF RangeSockets, ReadyInv, ReadyParts, Served, Elems, Setup,
    Booting, Alive, signalled, Goto, Exit, kernel, package, loops, Threads
<1>17. ASSUME NEW t \in Threads, CloseSocket(t) PROVE ReadyInv'
  BY <1>17, <1>f DEF CloseSocket, ReadyInv, ReadyParts, Served, Elems, Setup,
    Booting, Alive, signalled, Goto, Exit, kernel, package, loops, Threads
<1>18. ASSUME NEW t \in Threads, ForgetSockets(t) PROVE ReadyInv'
  BY <1>18, <1>f DEF ForgetSockets, ReadyInv, ReadyParts, Served, Elems, Setup,
    Booting, Alive, signalled, Goto, Exit, kernel, package, loops, Threads
<1>19. ASSUME NEW t \in Threads, CheckColl(t) PROVE ReadyInv'
  BY <1>19, <1>f DEF CheckColl, ReadyInv, ReadyParts, Served, Elems, Setup,
    Booting, Alive, signalled, Goto, Exit, kernel, package, loops, Threads
<1>20. ASSUME NEW t \in Threads, CloseColl(t) PROVE ReadyInv'
  BY <1>20, <1>f DEF CloseColl, Panic, ReadyInv, ReadyParts, Served, Elems,
    Setup, Booting, Alive, signalled, Goto, Exit, kernel, package, loops,
    Threads
<1>21. ASSUME NEW t \in Threads, DropColl(t) PROVE ReadyInv'
  BY <1>21, <1>f DEF DropColl, ReadyInv, ReadyParts, Served, Elems, Setup,
    Booting, Alive, signalled, Goto, Exit, kernel, package, loops, Threads
<1>22. ASSUME NEW t \in Threads, EndShutdown(t) PROVE ReadyInv'
  BY <1>22, <1>f DEF EndShutdown, Panic, ReadyInv, ReadyParts, Served, Elems,
    Setup, Booting, Alive, signalled, Goto, Exit, kernel, package, loops,
    Threads
<1>23. ASSUME NEW q \in Queues, RxLoop(q) PROVE ReadyInv'
  <2>1. UNCHANGED <<kernel, package, pc, toClose, unwinding>>
    BY <1>23 DEF RxLoop
  <2>2. Elems(xdpSockets)' = Elems(xdpSockets)
    BY <2>1 DEF package, Elems
  <2>3. UNCHANGED flusher \/ ~ Alive'
    BY <1>23 DEF RxLoop, RxTest, RxGoto, Use, Exit, Alive, loops
  <2>4. ASSUME xdpRunning PROVE \A p \in Queues :
          rx[p] \notin {"none", "ended"} => rx'[p] \notin {"none", "ended"}
    BY <1>23, <1>f, <2>4 DEF RxLoop, RxTest, RxGoto, Use, loops
  <2> QED BY <1>f, <1>r, <2>1, <2>2, <2>3, <2>4 DEF ReadyInv, ReadyParts, Served,
    Setup, Booting, Alive, signalled, kernel, package
<1>24. CASE Flusher
  <2>1. UNCHANGED <<kernel, package, pc, toClose, unwinding>>
    BY <1>24 DEF Flusher
  <2>2. Elems(xdpSockets)' = Elems(xdpSockets)
    BY <2>1 DEF package, Elems
  <2>3. UNCHANGED rx
    BY <1>24 DEF Flusher, FlusherGoto, Use, loops
  <2>4. (flusher = "none" => flusher' = "none")
        /\ (xdpRunning /\ flusher # "ended" => flusher' # "ended")
    BY <1>24 DEF Flusher, FlusherGoto, Use, loops
  <2> QED BY <1>f, <1>r, <2>1, <2>2, <2>3, <2>4 DEF ReadyInv, ReadyParts, Served,
    Setup, Booting, Alive, signalled, kernel, package
<1> QED
  BY <1>1, <1>2, <1>3, <1>4, <1>5, <1>6, <1>7, <1>8, <1>9, <1>10, <1>11, <1>12,
    <1>13, <1>14, <1>15, <1>16, <1>17, <1>18, <1>19, <1>20, <1>21, <1>22,
    <1>23, <1>24
  DEF Next, Main, Handler, Exited, InitXDPEngine, ShutdownXDPEngine, Threads, Alive

LEMMA ReadyInvariant == Spec => []ReadyInv
<1>1. Init => ReadyInv
  BY ReadyInit
<1>2. IInv /\ ReadyInv /\ [Next]_vars => ReadyInv'
  <2> SUFFICES ASSUME IInv, ReadyInv, [Next]_vars PROVE ReadyInv'
    OBVIOUS
  <2>1. CASE Alive /\ Next
    BY <2>1, ReadyStep
  <2>2. CASE UNCHANGED vars
    BY <2>2 DEF vars, kernel, package, loops, ReadyInv, ReadyParts, Served, Elems,
      Alive, signalled
  <2> QED BY <2>1, <2>2 DEF Next, Exited
<1> QED BY <1>1, <1>2, IInvInvariant, PTL DEF Spec

-----------------------------------------------------------------------------
(* The theorems. *)

\* The variables of InitXDPEngine, of ShutdownXDPEngine and of the loops keep
\* their types; in particular xdpSockets lists queues of the interface.
THEOREM TypeCorrect == Spec => []TypeOK
<1>1. IInv => TypeOK
  BY DEF IInv, RInv
<1> QED BY <1>1, IInvInvariant, PTL

\* While the XDP program is attached, every queue that xsks_map redirects has
\* an open socket, whatever step of InitXDPEngine fails and whoever runs
\* ShutdownXDPEngine, main, the signal handler or both.
THEOREM RedirectsToOpenAlways == Spec => []RedirectsToOpen
<1>1. IInv => RedirectsToOpen
  BY DEF IInv, RInv
<1> QED BY <1>1, IInvInvariant, PTL

\* However the process ends, if no signal came InitXDPEngine's failure paths
\* or main's deferred ShutdownXDPEngine have taken the hook off, and closed
\* the sockets and the collection.
THEOREM ExitReleases == Spec => []UninterruptedExitReleases
<1>1. IInv => UninterruptedExitReleases
  BY DEF IInv, UInv, UninterruptedExitReleases
<1> QED BY <1>1, IInvInvariant, PTL

\* When main comes to the scan and no signal has come, InitXDPEngine has left
\* it the queues bound, from the first on, each open, mapped and with a loop
\* that goes on, a flusher, the hook and the collection.
THEOREM ScanHasWhatItNeeds == Spec => []ReadyToScan
<1>1. IInv /\ ReadyInv => ReadyToScan
  <2> SUFFICES ASSUME IInv, ReadyInv, pc["main"] = "scan", ~ signalled, Alive
               PROVE  ReadyToScan
    BY DEF ReadyToScan
  <2>1. Running /\ xdpColl /\ hook /\ xsksMap \subseteq Elems(xdpSockets)
        /\ flusher # "ended" /\ Served
    BY DEF IInv, UInv, MainHolds, ReadyInv, ReadyParts, Setup, Booting
  <2>2. BoundAreMapped /\ RedirectsToOpen
    BY DEF IInv, MInv, RInv
  <2>3. Elems(xdpSockets) = xsksMap
    BY <2>1, <2>2 DEF BoundAreMapped, Elems
  <2> QED BY <2>1, <2>2, <2>3 DEF ReadyToScan, Running, BoundAreMapped,
    RedirectsToOpen, Served
<1> QED BY <1>1, IInvInvariant, ReadyInvariant, PTL

-----------------------------------------------------------------------------
(* The engine and the rings of one of its sockets, as the runs have them.  A *)
(* behaviour is about one and leaves the other alone, so that it is one of   *)
(* each.                                                                     *)

\* A run's behaviours are the engine's: what InitXDPEngine and
\* ShutdownXDPEngine promise holds beside the rings.
THEOREM PartsImplementEngine == XDPSpec => Spec
<1>1. XDPInit => Init
  BY DEF XDPInit
<1>2. [XDPNext]_<<which, vars, ringVars>> => [Next]_vars
  BY DEF XDPNext
<1> QED BY <1>1, <1>2, PTL DEF XDPSpec, Spec

\* And they are a socket's: what the rings promise holds beside the engine.
THEOREM PartsImplementRings == XDPSpec => Rings!Spec
<1>1. XDPInit => Rings!Init
  BY DEF XDPInit
<1>2. [XDPNext]_<<which, vars, ringVars>> => [Rings!Next]_(Rings!vars)
  <2>1. UNCHANGED ringVars => UNCHANGED Rings!vars
    BY DEF ringVars, Rings!vars, Rings!rings, Rings!network, Rings!queue
  <2>2. UNCHANGED <<which, vars, ringVars>> => UNCHANGED ringVars
    OBVIOUS
  <2> QED BY <2>1, <2>2 DEF XDPNext
<1> QED BY <1>1, <1>2, PTL DEF XDPSpec, Rings!Spec

\* A frame of the UMEM is free, in one ring or in one goroutine's hands, and a
\* goroutine that is to send has one, for any size of the rings and any number
\* of scanners and decoys.
THEOREM EachFrameStaysInOnePlace == XDPSpec => []EachFrameInOnePlace
<1>1. Rings!Spec => [](Rings!TypeOK)
  BY SocketAssumption, Rings!TypeCorrect
<1>2. Rings!Spec => [](Rings!EachFrameInOnePlace /\ Rings!AlwaysAFrameToSend)
  BY SocketAssumption, Rings!FramesAreInOnePlace
<1> QED BY <1>1, <1>2, PartsImplementRings, PTL DEF EachFrameInOnePlace

\* What the receive loop parses is what came in, and what the kernel sends is
\* what was queued, in order and once.
THEOREM FramesStayIntact == XDPSpec => []FramesIntact
<1>1. Rings!Spec => [](Rings!FramesIntact)
  BY SocketAssumption, Rings!FramesCarryWhatTheyShould
<1> QED BY <1>1, PartsImplementRings, PTL DEF FramesIntact
=============================================================================
