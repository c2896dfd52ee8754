------------------------------ MODULE IdleScan ------------------------------
(***************************************************************************)
(* The idle scan of internal/scan/idle.go.  A job reads the IP identifier  *)
(* of a third host, the zombie, sends the target a SYN in the zombie's     *)
(* name, and reads the identifier again: an open port answers the zombie,  *)
(* whose RST to that raises it once more.  The zombie has one counter for  *)
(* whoever talks to it: other jobs and the rest of the network raise it    *)
(* too.  A packet takes its time, and one that is lost is one that never   *)
(* comes.  A job whose zombie or relay is not configured properly ends at  *)
(* once and is left out.                                                   *)
(***************************************************************************)
EXTENDS Integers, FiniteSets

CONSTANTS
  Jobs,           \* ports being scanned at one time
  OpenPorts,      \* the jobs whose port is open
  Attempts,       \* probeAttempts(opts)
  IDs,            \* number of IP identifiers: 2^16
  MaxNoise,       \* bound: packets the zombie sends to others
  Starts          \* bound: the identifiers it may start with

IdleAssumption ==
  /\ OpenPorts \subseteq Jobs /\ Attempts \in Nat \ {0}
  /\ IDs \in Nat /\ IDs > 2 /\ Starts \subseteq 0 .. IDs - 1
  /\ "others" \notin Jobs

VARIABLES
  counter,        \* the zombie's identifier
  pc,             \* pc[j]: "new", "first", "syn", "sleep", "second" or "done"
  attempt,        \* attempt[j]: attempts of j's present reading
  waiter,         \* whose channel is stored under the zombie's key
  receiving,      \* jobs that have sent an ACK and are in Receive
  acks,           \* acks[j]: ACKs of j the zombie may still get
  rsts,           \* its RSTs that may still come: .id, and as history .clean,
                  \*   the jobs of which it is the first packet since their
                  \*   first reading, and .answered as it was then
  initialID,      \* initialID[j]: the first reading
  state,          \* state[j]: the result
  unanswered,     \* jobs whose SYN an open port has still to answer
  noise,
  answered,       \* history: the jobs whose SYN the target had answered when
                  \*   the zombie sent the last RST they read
  disturbed,      \* history: the jobs since whose first reading the zombie has
                  \*   sent more than the answer to their SYN, and those whose
                  \*   second reading is more than one packet from the first
  raisers,        \* history: those for whose packets the counter was raised
  retried         \* history: the jobs that have timed out

vars == <<counter, pc, attempt, waiter, receiving, acks, rsts, initialID, state,
          unanswered, noise, answered, disturbed, raisers, retried>>

At(j, here) == pc[j] = here
Go(j, there) == pc' = [pc EXCEPT ![j] = there]
Between == { j \in Jobs : pc[j] \in {"syn", "sleep", "second"} }

Init ==
  /\ counter \in Starts
  /\ pc = [j \in Jobs |-> "new"]
  /\ attempt = [j \in Jobs |-> 0]
  /\ waiter = "nobody" /\ receiving = {}
  /\ acks = [j \in Jobs |-> 0] /\ rsts = {}
  /\ initialID = [j \in Jobs |-> 0]
  /\ state = [j \in Jobs |-> "none"]
  /\ unanswered = {} /\ noise = 0 /\ answered = {} /\ disturbed = {}
  /\ raisers = {} /\ retried = {}

-----------------------------------------------------------------------------
(* The zombie: each packet it sends raises its counter, for as long as there  *)
(* is a job to notice it.                                                     *)

Raised == (counter + 1) % IDs

Raise(who, undisturbed) ==
  /\ \E k \in Jobs : ~At(k, "done")
  /\ counter' = Raised
  /\ raisers' = raisers \cup {who}
  /\ disturbed' = disturbed \cup (Between \ undisturbed)

\* An RST to an ACK of j.
ZombieAnswers(j) ==
  /\ acks[j] > 0
  /\ acks' = [acks EXCEPT ![j] = @ - 1]
  /\ rsts' = rsts \cup {[id |-> Raised, clean |-> Between \ disturbed,
                         answered |-> answered]}
  /\ Raise(j, {})
  /\ UNCHANGED <<pc, attempt, waiter, receiving, initialID, state, unanswered,
                 noise, answered, retried>>

\* An RST to the target's SYN-ACK, which came of j's SYN, in time or late.
Answer(j) ==
  /\ j \in unanswered
  /\ unanswered' = unanswered \ {j}
  /\ answered' = IF At(j, "done") THEN answered ELSE answered \cup {j}
  /\ Raise(j, {j})
  /\ UNCHANGED <<pc, attempt, waiter, receiving, acks, rsts, initialID, state,
                 noise, retried>>

\* A packet to somebody else.
Noise ==
  /\ noise < MaxNoise
  /\ noise' = noise + 1
  /\ Raise("others", {})
  /\ UNCHANGED <<pc, attempt, waiter, receiving, acks, rsts, initialID, state,
                 unanswered, answered, retried>>

-----------------------------------------------------------------------------
(* A job. *)

\* newRawTCPScanner: every job's key has the zombie's address and port 80, so
\* that the last one to start a reading gets the replies.
Listen(j) ==
  /\ pc[j] \in {"new", "sleep"}
  /\ Go(j, IF At(j, "new") THEN "first" ELSE "second")
  /\ waiter' = j
  /\ UNCHANGED <<counter, attempt, receiving, acks, rsts, initialID, state, unanswered,
                 noise, answered, disturbed, raisers, retried>>

\* scanner.Send drains the channel: what came before it is not read.
SendACK(j) ==
  /\ pc[j] \in {"first", "second"} /\ j \notin receiving
  /\ attempt[j] < Attempts
  /\ acks' = [acks EXCEPT ![j] = @ + 1]
  /\ receiving' = receiving \cup {j}
  /\ UNCHANGED <<counter, pc, attempt, waiter, rsts, initialID, state,
                 unanswered, noise, answered, disturbed, raisers, retried>>

\* The time of an attempt is over.
Timeout(j) ==
  /\ j \in receiving
  /\ receiving' = receiving \ {j}
  /\ attempt' = [attempt EXCEPT ![j] = @ + 1]
  /\ retried' = retried \cup {j}
  /\ UNCHANGED <<counter, pc, waiter, acks, rsts, initialID, state, unanswered,
                 noise, answered, disturbed, raisers>>

\* finalID - initialID of two uint16.
PlainDifference(j, id) == id - initialID[j]
Difference(j, id) == (id - initialID[j]) % IDs
Verdict(j, id) == CASE Difference(j, id) = 2 -> "open"
                    [] Difference(j, id) = 1 -> "closed"
                    [] OTHER -> "filtered"

\* getZombieIPID returns the identifier of an RST, of whichever comes first
\* though it may answer an earlier attempt or another job; and its deferred
\* Close deletes the key, whosever channel it holds.
Read(j, r) ==
  /\ j \in receiving /\ waiter = j
  /\ IF At(j, "first")
       THEN /\ initialID' = [initialID EXCEPT ![j] = r.id]
            /\ Go(j, "syn")
            /\ disturbed' = IF r.id = counter THEN disturbed ELSE disturbed \cup {j}
            /\ UNCHANGED <<state, answered>>
       ELSE /\ state' = [state EXCEPT ![j] = Verdict(j, r.id)]
            /\ Go(j, "done")
            /\ disturbed' = IF j \in r.clean THEN disturbed \ {j} ELSE disturbed \cup {j}
            /\ answered' = IF j \in r.answered THEN answered ELSE answered \ {j}
            /\ UNCHANGED initialID
  /\ rsts' = rsts \ {r}
  /\ receiving' = receiving \ {j}
  /\ waiter' = "nobody"
  /\ attempt' = [attempt EXCEPT ![j] = 0]
  /\ UNCHANGED <<counter, acks, unanswered, noise, raisers, retried>>

\* Attempts exhausted, a failing send or socket, or an answer other than RST.
GiveUp(j) ==
  /\ ~At(j, "done")
  /\ state' = [state EXCEPT ![j] = "filtered"]
  /\ Go(j, "done")
  /\ receiving' = receiving \ {j}
  /\ waiter' = IF pc[j] \in {"first", "second"} THEN "nobody" ELSE waiter
  /\ attempt' = [attempt EXCEPT ![j] = 0]
  /\ UNCHANGED <<counter, acks, rsts, initialID, unanswered, noise,
                 answered, disturbed, raisers, retried>>

\* sendSpoofedSYN, once and without a retry, then 200 milliseconds of sleep.
SendSpoofedSYN(j) ==
  /\ At(j, "syn")
  /\ unanswered' = IF j \in OpenPorts THEN unanswered \cup {j} ELSE unanswered
  /\ Go(j, "sleep")
  /\ UNCHANGED <<counter, attempt, waiter, receiving, acks, rsts, initialID,
                 state, noise, answered, disturbed, raisers, retried>>

Next ==
  \/ Noise
  \/ \E j \in Jobs :
       \/ ZombieAnswers(j) \/ Answer(j)
       \/ Listen(j) \/ SendACK(j) \/ Timeout(j) \/ GiveUp(j) \/ SendSpoofedSYN(j)
       \/ \E r \in rsts : Read(j, r)

Spec == Init /\ [][Next]_vars

-----------------------------------------------------------------------------
(* Properties *)

\* The RST that is the zombie's only packet since the job's first reading, but
\* for the answer to its SYN, gives the job its port's verdict, also where the
\* identifier wraps; "closed" of an open port that had not answered yet.
UndisturbedIsRight ==
  /\ \A r \in rsts : \A j \in r.clean :
       At(j, "second") =>
         Verdict(j, r.id) = IF j \in r.answered THEN "open" ELSE "closed"
  /\ \A j \in Jobs \ disturbed :
       /\ state[j] = "open"   => j \in OpenPorts \cap answered
       /\ state[j] = "closed" => j \notin answered

\* A job that had the zombie to itself and no attempt of which timed out reads
\* such an RST, so that no other is misled: by others' packets, or by a late
\* RST, or the RST to a late ACK, of an attempt it had given up.
AloneIsUndisturbed ==
  \A j \in Jobs \ retried : raisers \subseteq {j} =>
    /\ state[j] \in {"open", "closed"} => j \notin disturbed
    /\ At(j, "second") => \A r \in rsts : j \in r.clean

OnlyDisturbedMislead == UndisturbedIsRight /\ AloneIsUndisturbed
=============================================================================
