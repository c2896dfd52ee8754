------------------------------ MODULE ConnPool ------------------------------
(***************************************************************************)
(* The idle-connection pool of internal/connpool/pool.go, as the workers   *)
(* of a connect scan use it (ScanConnectPooled): Get pops the newest idle  *)
(* connection and tests it with the mutex released, Put gives one back,    *)
(* the reaper closes what has been idle too long.                          *)
(*                                                                         *)
(* The test reads with a deadline of a nanosecond, which may be over       *)
(* before the read is tried: whether the peer is still there or not, it    *)
(* may come out either way.                                                *)
(***************************************************************************)
EXTENDS Naturals, Sequences, FiniteSets

CONSTANTS
  Workers, Addrs,
  Conns,          \* bound: the connections that can be dialled
  MaxSize         \* Pool.maxSize, per address

NoConn == "none"

PoolAssumption == MaxSize \in Nat /\ NoConn \notin Conns \cup Addrs

VARIABLES
  idle,           \* idle[a]: Pool.idle, the newest connection last
  expired,        \* idle connections whose idleTimeout is over
  open,           \* connections dialled and not closed
  peer,           \* peer[c]: the address c was dialled to
  pc,             \* "out", "pop", "check", "drop", "dial", "use"
  addr,           \* addr[w]: the address w scans
  conn            \* conn[w]: the connection w holds

vars == <<idle, expired, open, peer, pc, addr, conn>>

Elems(s) == { s[i] : i \in 1 .. Len(s) }
IdleConns == UNION { Elems(idle[a]) : a \in Addrs }
\* idle[a] after Get has popped its newest connection.
Popped(conns)   == SubSeq(conns, 1, Len(conns) - 1)

\* The address has its fill of idle connections.
Full(a)        == Len(idle[a]) >= MaxSize

\* The list of idle connections a worker takes from and gives back to: its
\* address's, or, were the key not the address and port, one for all.
poolKey(a)   == a

\* What the reaper leaves of a list: those not expired, in their order.
KeptAll(conns) == conns
Kept(conns) ==
  LET live == { i \in 1 .. Len(conns) : conns[i] \notin expired }
      Place(i) == Cardinality({ k \in live : k <= i })
  IN  [n \in 1 .. Cardinality(live) |->
         conns[CHOOSE i \in live : Place(i) = n]]

Dialled == { c \in Conns : peer[c] # NoConn }

Init ==
  /\ idle = [a \in Addrs |-> <<>>]
  /\ expired = {} /\ open = {}
  /\ peer = [c \in Conns |-> NoConn]
  /\ pc = [w \in Workers |-> "out"]
  /\ addr \in [Workers -> Addrs]
  /\ conn = [w \in Workers |-> NoConn]

\* A worker scans a port: Get(addr).
Get(w) ==
  /\ pc[w] = "out"
  /\ \E a \in Addrs : addr' = [addr EXCEPT ![w] = a]
  /\ pc' = [pc EXCEPT ![w] = "pop"]
  /\ UNCHANGED <<idle, expired, open, peer, conn>>

\* With the mutex held: the newest idle connection, if there is one.
Pop(w) ==
  /\ pc[w] = "pop"
  /\ LET conns == idle[poolKey(addr[w])]
     IN  IF conns = <<>>
           THEN /\ pc' = [pc EXCEPT ![w] = "dial"]
                /\ UNCHANGED <<idle, expired, conn>>
           ELSE LET c == conns[Len(conns)]
                IN  /\ idle' = [idle EXCEPT ![poolKey(addr[w])] = Popped(@)]
                    /\ expired' = expired \ {c}
                    /\ conn' = [conn EXCEPT ![w] = c]
                    /\ pc' = [pc EXCEPT ![w] = "check"]
  /\ UNCHANGED <<open, peer, addr>>

\* With the mutex released: the read timed out, or returned.
Check(w) ==
  /\ pc[w] = "check"
  /\ \E verdict \in {"use", "drop"} : pc' = [pc EXCEPT ![w] = verdict]
  /\ UNCHANGED <<idle, expired, open, peer, addr, conn>>

\* The connection is no good: close it and look for another.
Drop(w) ==
  /\ pc[w] = "drop"
  /\ open' = open \ {conn[w]}
  /\ conn' = [conn EXCEPT ![w] = NoConn]
  /\ pc' = [pc EXCEPT ![w] = "pop"]
  /\ UNCHANGED <<idle, expired, peer, addr>>

Dial(w) ==
  /\ pc[w] = "dial"
  /\ \/ /\ pc' = [pc EXCEPT ![w] = "out"]       \* refused, or timed out
        /\ UNCHANGED <<open, peer, conn>>
     \/ \E c \in Conns \ Dialled :
          /\ open' = open \cup {c}
          /\ peer' = [peer EXCEPT ![c] = addr[w]]
          /\ conn' = [conn EXCEPT ![w] = c]
          /\ pc' = [pc EXCEPT ![w] = "use"]
  /\ UNCHANGED <<idle, expired, addr>>

\* The port is open.  Put gives the connection back, or closes it when the
\* address has its fill of them.
Put(w) ==
  /\ pc[w] = "use"
  /\ IF Full(poolKey(addr[w]))
       THEN open' = open \ {conn[w]} /\ UNCHANGED idle
       ELSE /\ idle' = [idle EXCEPT ![poolKey(addr[w])] = Append(@, conn[w])]
            /\ UNCHANGED open
  /\ conn' = [conn EXCEPT ![w] = NoConn]
  /\ pc' = [pc EXCEPT ![w] = "out"]
  /\ UNCHANGED <<expired, peer, addr>>

\* After a payload the connection is closed, not given back.
CloseAfterPayload(w) ==
  /\ pc[w] = "use"
  /\ open' = open \ {conn[w]}
  /\ conn' = [conn EXCEPT ![w] = NoConn]
  /\ pc' = [pc EXCEPT ![w] = "out"]
  /\ UNCHANGED <<idle, expired, peer, addr>>

Worker(w) == \/ Get(w) \/ Pop(w) \/ Check(w) \/ Drop(w) \/ Dial(w)
             \/ Put(w) \/ CloseAfterPayload(w)

\* An idle connection reaches idleTimeout, and those idle longer have before.
Expire ==
  /\ \E a \in Addrs, n \in 1 .. MaxSize :
       /\ n <= Len(idle[a]) /\ idle[a][n] \notin expired
       /\ expired' = expired \cup Elems(SubSeq(idle[a], 1, n))
  /\ UNCHANGED <<idle, open, peer, pc, addr, conn>>

\* The reaper's tick, with the mutex held throughout.
Reap ==
  /\ idle' = [a \in Addrs |-> Kept(idle[a])]
  /\ open' = open \ (IdleConns \cap expired)
  /\ expired' = {}
  /\ UNCHANGED <<peer, pc, addr, conn>>

Next == Expire \/ Reap \/ \E w \in Workers : Worker(w)

Spec == Init /\ [][Next]_vars

-----------------------------------------------------------------------------
(* Properties *)

Held == { conn[w] : w \in Workers } \ {NoConn}

\* Types; no address has more idle connections than the pool allows.
TypeOK ==
  /\ idle \in [Addrs -> Seq(Conns)]
  /\ \A a \in Addrs : Len(idle[a]) <= MaxSize
  /\ expired \subseteq IdleConns /\ open \subseteq Conns
  /\ peer \in [Conns -> Addrs \cup {NoConn}]
  /\ conn \in [Workers -> Conns \cup {NoConn}]

\* A connection has one owner: a single worker, or the pool, once.  Get hands
\* the same one to no two workers, though it tests it with the mutex released.
OneOwner ==
  /\ \A v, w \in Workers : conn[v] = conn[w] /\ conn[v] # NoConn => v = w
  /\ Held \cap IdleConns = {}
  /\ \A a, b \in Addrs : \A i \in 1 .. Len(idle[a]), k \in 1 .. Len(idle[b]) :
       idle[a][i] = idle[b][k] => a = b /\ i = k

\* Nobody is given a connection the reaper, Put or another worker has closed,
\* and none is open that nobody would ever close.
OpenExactlyWhileOwned == open = Held \cup IdleConns

\* A connection is reused for the address it was dialled to only: its being
\* open says nothing of another port.
ReusedForItsAddress ==
  /\ \A a \in Addrs : \A c \in Elems(idle[a]) : peer[c] = a
  /\ \A w \in Workers : conn[w] # NoConn => peer[conn[w]] = addr[w]
=============================================================================
