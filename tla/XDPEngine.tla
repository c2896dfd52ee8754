----------------------------- MODULE XDPEngine -----------------------------
(***************************************************************************)
(* The life of the AF_XDP engine: InitXDPEngine in main's goroutine, a     *)
(* receive loop for each queue and the flusher, and ShutdownXDPEngine,     *)
(* which main defers and the signal handler calls whenever a signal comes. *)
(* What the loops do with frames is in XDPRings.                           *)
(*                                                                         *)
(* The program runs InitXDPEngine once, so xdpRunning is false when it is  *)
(* called.  A loop that uses a socket already closed touches memory that   *)
(* is no longer mapped: it may get away with it or kill the process.       *)
(***************************************************************************)
EXTENDS Naturals, Sequences

CONSTANT NumQueues      \* getInterfaceRXQueueCount

ASSUME QueuesAssumption == NumQueues \in Nat \ {0}

Queues == 1 .. NumQueues
First  == 1             \* queue 0 of the code, the one that transmits

VARIABLES
  \* of the kernel
  hook,         \* the XDP program is attached to the interface
  sock,         \* sock[q]: "none", "open" or "closed"
  xsksMap,      \* queues whose socket is in xsks_map
  coll,         \* the eBPF collection: "none", "loaded" or "closed"
  \* of the package
  xdpRunning,
  xdpSockets,   \* the queues bound, nothing before and after
  xdpColl,      \* the variable is set
  DefaultSocketFlags,   \* "zerocopy" or "copy"
  \* of the goroutines
  pc,           \* pc[t]: where main and the signal handler stand
  toClose,      \* toClose[t]: what is left of the range over xdpSockets
  unwinding,    \* main's panic: "no", "defers" or "recovered"
  rx,           \* rx[q]: where the receive loop stands
  flusher,      \* where the flusher stands
  exited        \* "no", "exit", or "crash"

kernel == <<hook, sock, xsksMap, coll>>
package == <<xdpRunning, xdpSockets, xdpColl, DefaultSocketFlags>>
loops == <<rx, flusher>>
vars == <<kernel, package, pc, toClose, unwinding, loops, exited>>

Threads == {"main", "handler"}
Elems(s) == { s[i] : i \in 1 .. Len(s) }
signalled == pc["handler"] # "wait"
Alive == exited = "no"

Goto(t, label) == pc' = [pc EXCEPT ![t] = label]
Exit(how) == exited' = how

Init ==
  /\ hook = FALSE /\ sock = [q \in Queues |-> "none"] /\ xsksMap = {}
  /\ coll = "none"
  /\ xdpRunning = FALSE /\ xdpSockets = <<>> /\ xdpColl = FALSE
  /\ DefaultSocketFlags = "copy"
  /\ pc = [t \in Threads |-> IF t = "main" THEN "load" ELSE "wait"]
  /\ toClose = [t \in Threads |-> <<>>]
  /\ unwinding = "no"
  /\ rx = [q \in Queues |-> "none"] /\ flusher = "none"
  /\ exited = "no"

-----------------------------------------------------------------------------
(* InitXDPEngine.  When it fails, main exits. *)

\* The interface's addresses, its gateway and the program to load, and the
\* loading of it: up to there a failure has nothing to undo.
Load ==
  /\ pc["main"] = "load"
  /\ \/ coll' = "loaded" /\ Goto("main", "iface") /\ UNCHANGED exited
     \/ Exit("exit") /\ UNCHANGED <<coll, pc>>
  /\ UNCHANGED <<hook, sock, xsksMap, package, toClose, unwinding, loops>>

\* The interface may be gone: the collection is left as it is.
FindInterface ==
  /\ pc["main"] = "iface"
  /\ \/ Goto("main", "attach") /\ UNCHANGED exited
     \/ Exit("exit") /\ UNCHANGED pc
  /\ UNCHANGED <<kernel, package, toClose, unwinding, loops>>

\* Natively, which lets sockets ask for zero-copy, else generically.
Attach ==
  /\ pc["main"] = "attach"
  /\ \/ /\ \E flags \in {"zerocopy", "copy"} : DefaultSocketFlags' = flags
        /\ hook' = TRUE
        /\ Goto("main", "bind")
        /\ UNCHANGED <<coll, exited>>
     \/ /\ coll' = "closed" /\ Exit("exit")
        /\ UNCHANGED <<hook, DefaultSocketFlags, pc>>
  /\ UNCHANGED <<sock, xsksMap, xdpRunning, xdpSockets, xdpColl, toClose,
                 unwinding, loops>>

\* The queue whose turn it is, while there is one.
Turn == Len(xdpSockets) + 1
MoreQueues == Turn <= NumQueues

\* What a failure at the first queue undoes.
UndoLeavesHook == coll' = "closed" /\ UNCHANGED hook
Undo           == coll' = "closed" /\ hook' = FALSE

\* The engine cannot do without the first queue, and makes do without others.
GiveUp ==
  IF Turn = First
    THEN Undo /\ Exit("exit") /\ UNCHANGED pc
    ELSE Goto("main", "start") /\ UNCHANGED <<hook, coll, exited>>

Bind ==
  /\ pc["main"] = "bind" /\ MoreQueues
  /\ \/ /\ sock' = [sock EXCEPT ![Turn] = "open"]
        /\ Goto("main", "map")
        /\ UNCHANGED <<hook, coll, DefaultSocketFlags, exited>>
     \/ /\ Turn = First /\ DefaultSocketFlags = "zerocopy"    \* try once more
        /\ DefaultSocketFlags' = "copy"
        /\ UNCHANGED <<hook, coll, sock, pc, exited>>
     \/ /\ ~ (Turn = First /\ DefaultSocketFlags = "zerocopy")
        /\ GiveUp
        /\ UNCHANGED <<sock, DefaultSocketFlags>>
  /\ UNCHANGED <<xsksMap, xdpRunning, xdpSockets, xdpColl, toClose, unwinding,
                 loops>>

MapSocket ==
  /\ pc["main"] = "map"
  /\ \/ /\ xsksMap' = xsksMap \cup {Turn}
        /\ xdpSockets' = Append(xdpSockets, Turn)
        /\ Goto("main", "bind")
        /\ UNCHANGED <<hook, coll, sock, exited>>
     \/ /\ sock' = [sock EXCEPT ![Turn] = "closed"]
        /\ GiveUp
        /\ UNCHANGED <<xsksMap, xdpSockets>>
  /\ UNCHANGED <<xdpRunning, xdpColl, DefaultSocketFlags, toClose, unwinding,
                 loops>>

AllBound ==
  /\ pc["main"] = "bind" /\ ~ MoreQueues
  /\ Goto("main", "start")
  /\ UNCHANGED <<kernel, package, toClose, unwinding, loops, exited>>

Start ==
  /\ pc["main"] = "start"
  /\ xdpRunning' = TRUE
  /\ Goto("main", "spawn")
  /\ UNCHANGED <<kernel, xdpSockets, xdpColl, DefaultSocketFlags, toClose,
                 unwinding, loops, exited>>

\* A loop for each socket.
Spawn ==
  /\ pc["main"] = "spawn"
  /\ rx' = [q \in Queues |-> IF q \in Elems(xdpSockets) THEN "test" ELSE rx[q]]
  /\ Goto("main", "flusher")
  /\ UNCHANGED <<kernel, package, toClose, unwinding, flusher, exited>>

\* Main panics: on with its deferred calls, and then with what recovers.
Panic(next) ==
  /\ unwinding' = next
  /\ Goto("main", "check")

\* The flusher is given xdpSockets[0], which the handler may have taken away.
SpawnFlusher ==
  /\ pc["main"] = "flusher"
  /\ IF xdpSockets = <<>>
       THEN Panic("recovered") /\ UNCHANGED flusher
       ELSE /\ flusher' = "test"
            /\ Goto("main", "publish")
            /\ UNCHANGED unwinding
  /\ UNCHANGED <<kernel, package, toClose, rx, exited>>

\* What the shutdown will find to release.
KeepNoColl == UNCHANGED xdpColl
KeepColl   == xdpColl' = TRUE

\* The socket is returned, to be GlobalXsk.
Publish ==
  /\ pc["main"] = "publish"
  /\ KeepColl
  /\ IF xdpSockets = <<>>
       THEN Panic("recovered")
       ELSE Goto("main", "scan") /\ UNCHANGED unwinding
  /\ UNCHANGED <<kernel, xdpRunning, xdpSockets, DefaultSocketFlags, toClose,
                 loops, exited>>

-----------------------------------------------------------------------------
(* The scan, and the ways to ShutdownXDPEngine. *)

\* The scan and all that follows it in main end, or panic.
Scan ==
  /\ pc["main"] = "scan"
  /\ \/ Goto("main", "check") /\ UNCHANGED unwinding
     \/ Panic("defers")
  /\ UNCHANGED <<kernel, package, toClose, loops, exited>>

Signal ==
  /\ pc["handler"] = "wait"
  /\ Goto("handler", "check")
  /\ UNCHANGED <<kernel, package, toClose, unwinding, loops, exited>>

-----------------------------------------------------------------------------
(* ShutdownXDPEngine in goroutine t. *)

CheckRunning(t) ==
  /\ pc[t] = "check"
  /\ Goto(t, IF xdpRunning THEN "clear" ELSE "end")
  /\ UNCHANGED <<kernel, package, toClose, unwinding, loops, exited>>

Clear(t) ==
  /\ pc[t] = "clear"
  /\ xdpRunning' = FALSE
  /\ Goto(t, "detach")
  /\ UNCHANGED <<kernel, xdpSockets, xdpColl, DefaultSocketFlags, toClose,
                 unwinding, loops, exited>>

\* The hook comes off before any socket is closed.
NotDetached == UNCHANGED hook
Detached    == hook' = FALSE
Detach(t) ==
  /\ pc[t] = "detach"
  /\ Detached
  /\ Goto(t, "range")
  /\ UNCHANGED <<sock, xsksMap, coll, package, toClose, unwinding, loops, exited>>

RangeSockets(t) ==
  /\ pc[t] = "range"
  /\ toClose' = [toClose EXCEPT ![t] = xdpSockets]
  /\ Goto(t, "close")
  /\ UNCHANGED <<kernel, package, unwinding, loops, exited>>

CloseSocket(t) ==
  /\ pc[t] = "close" /\ toClose[t] # <<>>
  /\ sock' = [sock EXCEPT ![Head(toClose[t])] = "closed"]
  /\ toClose' = [toClose EXCEPT ![t] = Tail(@)]
  /\ UNCHANGED <<hook, xsksMap, coll, package, pc, unwinding, loops, exited>>

ForgetSockets(t) ==
  /\ pc[t] = "close" /\ toClose[t] = <<>>
  /\ xdpSockets' = <<>>
  /\ Goto(t, "release")
  /\ UNCHANGED <<kernel, xdpRunning, xdpColl, DefaultSocketFlags, toClose,
                 unwinding, loops, exited>>

CheckColl(t) ==
  /\ pc[t] = "release"
  /\ Goto(t, IF xdpColl THEN "closeColl" ELSE "end")
  /\ UNCHANGED <<kernel, package, toClose, unwinding, loops, exited>>

\* The variable is read again: if the other goroutine has cleared it in
\* between, Close is called on nothing.
CloseColl(t) ==
  /\ pc[t] = "closeColl"
  /\ IF xdpColl
       THEN /\ coll' = "closed" /\ Goto(t, "dropColl")
            /\ UNCHANGED <<unwinding, exited>>
       ELSE /\ UNCHANGED coll
            /\ IF t = "main"
                 THEN Panic("recovered") /\ UNCHANGED exited
                 ELSE Exit("crash") /\ UNCHANGED <<pc, unwinding>>
  /\ UNCHANGED <<hook, sock, xsksMap, package, toClose, loops>>

DropColl(t) ==
  /\ pc[t] = "dropColl"
  /\ xdpColl' = FALSE
  /\ Goto(t, "end")
  /\ UNCHANGED <<kernel, xdpRunning, xdpSockets, DefaultSocketFlags, toClose,
                 unwinding, loops, exited>>

\* Main's deferred call made, a panic is recovered, by a function that calls
\* ShutdownXDPEngine once more.  Otherwise the process exits.
EndShutdown(t) ==
  /\ pc[t] = "end"
  /\ IF t = "main" /\ unwinding = "defers"
       THEN Panic("recovered") /\ UNCHANGED exited
       ELSE Exit("exit") /\ UNCHANGED <<pc, unwinding>>
  /\ UNCHANGED <<kernel, package, toClose, loops>>

ShutdownXDPEngine(t) ==
  \/ CheckRunning(t) \/ Clear(t) \/ Detach(t) \/ RangeSockets(t)
  \/ CloseSocket(t) \/ ForgetSockets(t) \/ CheckColl(t) \/ CloseColl(t) \/ DropColl(t)
  \/ EndShutdown(t)

-----------------------------------------------------------------------------
(* The loops. *)

\* A loop uses its socket and moves on, or, if it has been closed, may bring
\* the process down.
Use(q, move) ==
  \/ move /\ UNCHANGED exited
  \/ sock[q] = "closed" /\ Exit("crash") /\ UNCHANGED loops

RxGoto(q, label) == rx' = [rx EXCEPT ![q] = label] /\ UNCHANGED flusher

\* Refill the ring, wait for replies, take them, and answer some with a reset.
RxTest(q) ==
  rx[q] = "test" /\ RxGoto(q, IF xdpRunning THEN "refill" ELSE "ended")

RxLoop(q) ==
  /\ \/ RxTest(q) /\ UNCHANGED exited
     \/ rx[q] = "refill" /\ Use(q, RxGoto(q, "poll"))
     \/ rx[q] = "poll" /\ (RxGoto(q, "receive") \/ RxGoto(q, "test"))
          /\ UNCHANGED exited
     \/ rx[q] = "receive" /\ Use(q, RxGoto(q, "handle") \/ RxGoto(q, "test"))
     \/ rx[q] = "handle" /\ Use(q, RxGoto(q, "test"))
  /\ UNCHANGED <<kernel, package, pc, toClose, unwinding>>

FlusherGoto(label) == flusher' = label /\ UNCHANGED rx

\* Wait for a frame for two milliseconds, and flush what there is.
Flusher ==
  /\ \/ flusher = "test" /\ UNCHANGED exited
          /\ FlusherGoto(IF xdpRunning THEN "take" ELSE "ended")
     \/ flusher = "take" /\ UNCHANGED exited
          /\ (FlusherGoto("flush") \/ FlusherGoto("test"))
     \/ flusher = "flush" /\ Use(First, FlusherGoto("test"))
  /\ UNCHANGED <<kernel, package, pc, toClose, unwinding>>

InitXDPEngine ==
  \/ Load \/ FindInterface \/ Attach \/ Bind \/ MapSocket \/ AllBound
  \/ Start \/ Spawn \/ SpawnFlusher \/ Publish

Main == InitXDPEngine \/ Scan \/ ShutdownXDPEngine("main")
Handler == ShutdownXDPEngine("handler")

Exited == ~ Alive /\ UNCHANGED vars

Next ==
  \/ Alive /\ (Main \/ Signal \/ Handler \/ Flusher \/ \E q \in Queues : RxLoop(q))
  \/ Exited

Spec == Init /\ [][Next]_vars

-----------------------------------------------------------------------------
(* Properties *)

Labels == {"load", "iface", "attach", "bind", "map", "start", "spawn", "flusher",
           "publish", "scan", "wait", "check", "clear", "detach", "range",
           "close", "release", "closeColl", "dropColl", "end"}

Queued == /\ xdpSockets \in Seq(Queues) /\ toClose \in [Threads -> Seq(Queues)]
          /\ pc["main"] = "map" => Turn \in Queues

TypeOK ==
  /\ hook \in BOOLEAN /\ sock \in [Queues -> {"none", "open", "closed"}]
  /\ xsksMap \subseteq Queues /\ coll \in {"none", "loaded", "closed"}
  /\ xdpRunning \in BOOLEAN /\ xdpColl \in BOOLEAN
  /\ DefaultSocketFlags \in {"zerocopy", "copy"}
  /\ pc \in [Threads -> Labels] /\ unwinding \in {"no", "defers", "recovered"}
  /\ rx \in [Queues -> {"none", "test", "refill", "poll", "receive", "handle",
                        "ended"}]
  /\ flusher \in {"none", "test", "take", "flush", "ended"}
  /\ exited \in {"no", "exit", "crash"}
  /\ Queued

\* While the hook is attached it redirects traffic to open sockets only,
\* whatever fails and whoever shuts down.
RedirectsToOpen == hook => \A q \in xsksMap : sock[q] = "open"

\* Unless a signal comes, the process leaves nothing behind: however it ends,
\* by a failure of the initialisation, a panic or a loop that used a closed
\* socket, the hook is off; unless it crashed no socket is open either, and,
\* unless it found no interface, the collection is not left loaded.
UninterruptedExitReleases ==
  ~ Alive /\ ~ signalled =>
    /\ ~ hook
    /\ exited = "exit" =>
         /\ \A q \in Queues : sock[q] # "open"
         /\ coll = "loaded" => pc["main"] = "iface"

\* A scan that no signal disturbs has what it works with: the first queue and
\* those after it, each open, in the map, and with a loop that goes on; a
\* flusher; and a collection that the shutdown will find and close.
ReadyToScan ==
  pc["main"] = "scan" /\ ~ signalled /\ Alive =>
    /\ hook /\ xdpColl /\ coll = "loaded"
    /\ xdpSockets # <<>> /\ flusher # "ended"
    /\ \A i \in 1 .. Len(xdpSockets) : xdpSockets[i] = i
    /\ Elems(xdpSockets) = xsksMap
    /\ \A q \in xsksMap : sock[q] = "open" /\ rx[q] \notin {"none", "ended"}

\* docs/SECURITY_ASSESSMENT.md:50-53: the hook "is detached deterministically
\* on exit".  A signal during the initialisation finds xdpRunning not set yet,
\* one during main's own shutdown finds it cleared, and either way the
\* handler exits at once.
DetachedOnExit == ~ Alive => ~ hook
=============================================================================
