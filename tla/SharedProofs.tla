---------------------------- MODULE SharedProofs ----------------------------
(***************************************************************************)
(* Theorems about probes and the receive loops they share, for all probes, *)
(* their hosts and ports, and any number of attempts: raw ones, those over *)
(* AF_XDP, and those with a UDP socket of their own; about idle scans; and *)
(* about all that the workers share, the rate controller among it.         *)
(*                                                                         *)
(* A reply carries what the host it comes from is; it stays with the key   *)
(* of that host and port from the wire to the channel, since the table has *)
(* under a key only a probe of that key.  So whoever takes it, at whatever *)
(* attempt and of whichever probe of the port, learns what the host is.    *)
(***************************************************************************)
EXTENDS SharedParts, FiniteSetTheorems, SequenceTheorems, TLAPS

AReply == [to : Probes, attempt : Nat, flags : {"synack", "rst", "rst+window", "other"}]

Genuine(r) == r.flags \in Wait!Reply(port[Remote[r.to]]) \cup {"other"}
For(r, p)  == Genuine(r) /\ Wait!rawRxKey(r.to) = Wait!rawRxKey(p)

Channel == {<<>>} \cup { <<r>> : r \in AReply }
Labels  == {"new", "drain", "xmit", "wait", "close", "done"}
States  == {"", "open", "closed", "filtered", "unfiltered", "open|filtered"}

Types ==
  /\ scanType \in {"syn", "ack", "window", "stealth"}
  /\ port \in [Wait!Remotes -> {"open", "closed", "silent"}]
  /\ waiters \in [Wait!Keys -> Probes \cup {Wait!NoOne}]
  /\ pc \in [Probes -> Labels] /\ state \in [Probes -> States]
  /\ attempt \in [Probes -> 0 .. Attempts]
  /\ net \subseteq AReply
  /\ rx \in {<<>>} \cup (AReply \X Probes)
  /\ rxChan \in [Probes -> Channel]
  /\ answered \in [Probes -> Nat] /\ buffered \in [Probes -> Nat]
  /\ unheard \subseteq Probes
  /\ \A p \in Probes : pc[p] \in {"new", "drain"} => attempt[p] < Attempts

\* Under a key the table has a probe of that key, if any.
TableMatches ==
  \A k \in Wait!Keys :
    waiters[k] # Wait!NoOne => Wait!rawRxKey(waiters[k]) = k

\* Wherever a reply is, it is its host's, and with a probe of that host.
RepliesAreTheHosts ==
  /\ \A r \in net : Genuine(r)
  /\ rx # <<>> => For(rx[1], rx[2])
  /\ \A p \in Probes : rxChan[p] # <<>> => For(Head(rxChan[p]), p)

\* As VerdictIsTheHosts, of the decoys too.
Verdicts ==
  \A p \in Probes :
    /\ state[p] = "open"       => port[Remote[p]] = "open"
    /\ state[p] = "closed"     => port[Remote[p]] = "closed"
    /\ state[p] = "unfiltered" => port[Remote[p]] # "silent"

\* Since the drain at the head of Send, what came came during this attempt.
BufferedNow ==
  \A p \in Probes :
    pc[p] \in {"xmit", "wait"} /\ rxChan[p] # <<>> => buffered[p] = attempt[p]

WaitInv == Types /\ TableMatches /\ RepliesAreTheHosts /\ Verdicts /\ BufferedNow

-----------------------------------------------------------------------------

LEMMA ProbesAtFirst == Wait!ProbeAssumption /\ Wait!Init => WaitInv
<1> SUFFICES ASSUME Wait!ProbeAssumption, Wait!Init PROVE WaitInv
  OBVIOUS
<1>0. 0 \in 0 .. Attempts /\ 0 < Attempts
  <2>1. Attempts \in Nat /\ Attempts # 0
    BY DEF Wait!ProbeAssumption
  <2> QED BY <2>1
<1> USE DEF Wait!Init
<1>1. Types
  <2>1. rxChan \in [Probes -> Channel] /\ rx \in {<<>>} \cup (AReply \X Probes)
    BY DEF Channel
  <2>2. /\ scanType \in {"syn", "ack", "window", "stealth"}
        /\ waiters \in [Wait!Keys -> Probes \cup {Wait!NoOne}]
        /\ pc \in [Probes -> Labels] /\ state \in [Probes -> States]
    BY DEF Wait!ProbeAssumption, Labels, States
  <2>3. attempt \in [Probes -> 0 .. Attempts] /\ \A p \in Probes : attempt[p] < Attempts
    BY <1>0
  <2> QED BY <2>1, <2>2, <2>3 DEF Types
<1>2. TableMatches /\ RepliesAreTheHosts /\ Verdicts /\ BufferedNow
  BY DEF TableMatches, RepliesAreTheHosts, Verdicts, BufferedNow
<1> QED BY <1>1, <1>2 DEF WaitInv

LEMMA KeysOfProbes ==
  \A p \in Probes : Wait!rawRxKey(p) \in Wait!Keys /\ Remote[p] \in Wait!Remotes
  BY DEF Wait!Keys, Wait!Remotes

LEMMA ReplyFlags ==
  ASSUME Types, NEW s
  PROVE  Wait!Reply(s) \subseteq {"synack", "rst", "rst+window"}
  BY DEF Types, Wait!Reply

\* Appending to a channel with room fills it.
LEMMA OnePlace ==
  ASSUME Types, NEW p \in Probes, NEW r \in AReply, Wait!Room(p)
  PROVE  rxChan[p] = <<>> /\ Append(rxChan[p], r) = <<r>>
<1>1. rxChan[p] \in Channel
  BY DEF Types
<1>2. CASE rxChan[p] = <<>>
  BY <1>2
<1>3. ASSUME NEW q \in AReply, rxChan[p] = <<q>> PROVE FALSE
  BY <1>3 DEF Wait!Room
<1> QED BY <1>1, <1>2, <1>3 DEF Channel

LEMMA ChannelPlaces ==
  <<>> \in Channel /\ \A r \in AReply : <<r>> \in Channel /\ Head(<<r>>) = r
  BY DEF Channel

LEMMA RoomForOne == \A c \in Channel : Len(c) <= 1 /\ (c # <<>> => Head(c) \in AReply)
<1> SUFFICES ASSUME NEW c \in Channel PROVE Len(c) <= 1 /\ (c # <<>> => Head(c) \in AReply)
  OBVIOUS
<1>1. CASE c = <<>>
  BY <1>1
<1>2. ASSUME NEW r \in AReply, c = <<r>>
      PROVE  Len(c) <= 1 /\ (c # <<>> => Head(c) \in AReply)
  BY <1>2
<1> QED BY <1>1, <1>2 DEF Channel

LEMMA TypesStep == ASSUME Wait!ProbeAssumption, Types, Wait!Next PROVE Types'
<1> USE KeysOfProbes DEF Wait!ProbeAssumption, Wait!env, Wait!loopVars, Labels
<1>1. ASSUME NEW p \in Probes, Wait!Register(p) PROVE Types'
  BY <1>1 DEF Types, Wait!Register, Wait!Registered
<1>2. ASSUME NEW p \in Probes, Wait!Drain(p) PROVE Types'
  BY <1>2, ChannelPlaces DEF Types, Wait!Drain, Wait!Drained
<1>3. ASSUME NEW p \in Probes, Wait!Transmit(p) PROVE Types'
  <2>1. Wait!RepliesTo(p) \subseteq AReply
    BY ReplyFlags DEF Wait!RepliesTo, AReply, Types
  <2>2. net' \subseteq AReply
    BY <1>3, <2>1 DEF Wait!Transmit, Types
  <2> QED BY <1>3, <2>2 DEF Types, Wait!Transmit
<1>4. ASSUME NEW p \in Probes, Wait!SendFailed(p) PROVE Types'
  BY <1>4 DEF Types, Wait!SendFailed, States
<1>5. ASSUME NEW p \in Probes, Wait!Receive(p) PROVE Types'
  <2>1. Head(rxChan[p]) \in AReply
    BY <1>5, RoomForOne DEF Wait!Receive, Types
  <2>2. /\ Head(rxChan[p]).attempt \in Nat
        /\ Wait!Classify(Head(rxChan[p]).flags, state[p]) \in States
    BY <2>1 DEF Types, AReply, Wait!Classify, States
  <2> QED BY <1>5, <2>2, ChannelPlaces DEF Types, Wait!Receive
<1>6. ASSUME NEW p \in Probes, Wait!Timeout(p) PROVE Types'
  BY <1>6 DEF Types, Wait!Timeout, Wait!NoReply, States
<1>7. ASSUME NEW p \in Probes, Wait!Close(p) PROVE Types'
  BY <1>7 DEF Types, Wait!Close
<1>8. ASSUME Wait!RxLookup PROVE Types'
  <2>1. PICK r \in net :
          /\ net' = net \ {r}
          /\ LET p == waiters[Wait!rawRxKey(r.to)]
             IN  /\ rx' = IF p = Wait!NoOne THEN <<>> ELSE <<r, p>>
                 /\ unheard' = IF p # r.to /\ pc[r.to] = "wait"
                                  THEN unheard \cup {r.to} ELSE unheard
    BY <1>8 DEF Wait!RxLookup
  <2>2. r \in AReply /\ r.to \in Probes
    BY DEF Types, AReply
  <2>3. waiters[Wait!rawRxKey(r.to)] \in Probes \cup {Wait!NoOne}
    BY <2>2 DEF Types
  <2>4. rx' \in {<<>>} \cup (AReply \X Probes) /\ unheard' \subseteq Probes
    BY <2>1, <2>2, <2>3 DEF Types
  <2> QED BY <1>8, <2>1, <2>4 DEF Types, Wait!RxLookup
<1>9. ASSUME Wait!RxPut PROVE Types'
  <2>1. rx[1] \in AReply /\ rx[2] \in Probes
    BY <1>9 DEF Wait!RxPut, Types
  <2>2. CASE Wait!Room(rx[2])
    <3>1. /\ rxChan' = [rxChan EXCEPT ![rx[2]] = <<rx[1]>>]
          /\ buffered' = [buffered EXCEPT ![rx[2]] = attempt[rx[2]]]
      BY <1>9, <2>1, <2>2, OnePlace DEF Wait!RxPut
    <3>2. <<rx[1]>> \in Channel
      BY <2>1, ChannelPlaces
    <3> QED BY <1>9, <2>1, <3>1, <3>2 DEF Types, Wait!RxPut
  <2>3. CASE ~ Wait!Room(rx[2])
    BY <1>9, <2>3 DEF Types, Wait!RxPut
  <2> QED BY <2>2, <2>3
<1>10. ASSUME Wait!Lose PROVE Types'
  BY <1>10 DEF Types, Wait!Lose
<1>11. ASSUME UNCHANGED Wait!vars PROVE Types'
  BY <1>11 DEF Types, Wait!vars
<1> QED BY <1>1, <1>2, <1>3, <1>4, <1>5, <1>6, <1>7, <1>8, <1>9, <1>10, <1>11
        DEF Wait!Next, Wait!Probe

\* Only Register puts a probe into the table, under its own key.
LEMMA TableStep == ASSUME Wait!ProbeAssumption, WaitInv, Wait!Next PROVE TableMatches'
<1> USE DEF WaitInv, Types, TableMatches
<1>1. ASSUME NEW p \in Probes, Wait!Register(p) PROVE TableMatches'
  BY <1>1 DEF Wait!Register, Wait!Registered
<1>2. ASSUME NEW p \in Probes, Wait!Close(p) PROVE TableMatches'
  BY <1>2 DEF Wait!Close
<1>3. CASE UNCHANGED waiters
  BY <1>3
<1> QED BY <1>1, <1>2, <1>3
        DEF Wait!Next, Wait!Probe, Wait!Drain, Wait!Transmit, Wait!SendFailed,
            Wait!Receive, Wait!Timeout, Wait!RxLookup, Wait!RxPut, Wait!Lose,
            Wait!vars

\* What a reply says is fixed when it is sent; the key leads it to a probe of
\* its host and port.
LEMMA RepliesStep ==
  ASSUME Wait!ProbeAssumption, WaitInv, Wait!Next PROVE RepliesAreTheHosts'
<1>0. /\ Types /\ TableMatches /\ RepliesAreTheHosts
      /\ Wait!env' = Wait!env
  BY DEF WaitInv, Wait!Next, Wait!Probe, Wait!Register, Wait!Drain, Wait!Transmit,
         Wait!SendFailed, Wait!Receive, Wait!Timeout, Wait!Close, Wait!RxLookup,
         Wait!RxPut, Wait!Lose, Wait!vars
<1>1. \A r, p : (Genuine(r) => Genuine(r)') /\ (For(r, p) => For(r, p)')
  BY <1>0 DEF Genuine, For, Wait!env, Wait!Reply
<1>2. ASSUME NEW p \in Probes, Wait!Transmit(p) PROVE RepliesAreTheHosts'
  <2>1. \A r \in Wait!RepliesTo(p) : Genuine(r)
    BY DEF Wait!RepliesTo, Genuine
  <2>2. \A r \in net' : Genuine(r)'
    BY <1>0, <1>1, <1>2, <2>1 DEF Wait!Transmit, RepliesAreTheHosts
  <2> QED BY <1>0, <1>1, <1>2, <2>2 DEF Wait!Transmit, RepliesAreTheHosts,
                                        Wait!loopVars
<1>3. ASSUME NEW p \in Probes, Wait!Drain(p) \/ Wait!Receive(p) PROVE RepliesAreTheHosts'
  <2>1. /\ UNCHANGED <<net, rx>> /\ rxChan' = [rxChan EXCEPT ![p] = <<>>]
    BY <1>3 DEF Wait!Drain, Wait!Drained, Wait!Receive
  <2>2. \A q \in Probes : rxChan'[q] # <<>> => rxChan'[q] = rxChan[q]
    BY <1>0, <2>1 DEF Types
  <2> QED BY <1>0, <1>1, <2>1, <2>2 DEF RepliesAreTheHosts
<1>4. ASSUME Wait!RxLookup PROVE RepliesAreTheHosts'
  <2>1. PICK r \in net :
          /\ net' = net \ {r}
          /\ LET p == waiters[Wait!rawRxKey(r.to)]
             IN  rx' = IF p = Wait!NoOne THEN <<>> ELSE <<r, p>>
    BY <1>4 DEF Wait!RxLookup
  <2>2. r \in AReply /\ Wait!rawRxKey(r.to) \in Wait!Keys
    BY <1>0, KeysOfProbes DEF Types, AReply
  <2>3. rx' # <<>> => For(rx'[1], rx'[2])
    BY <1>0, <2>1, <2>2 DEF TableMatches, RepliesAreTheHosts, For
  <2> QED BY <1>0, <1>1, <1>4, <2>1, <2>3 DEF Wait!RxLookup, RepliesAreTheHosts
<1>5. ASSUME Wait!RxPut PROVE RepliesAreTheHosts'
  <2>1. rx[1] \in AReply /\ rx[2] \in Probes /\ For(rx[1], rx[2])
    BY <1>0, <1>5 DEF Wait!RxPut, Types, RepliesAreTheHosts
  <2>2. rx' = <<>> /\ net' = net
    BY <1>5 DEF Wait!RxPut
  <2>3. CASE Wait!Room(rx[2])
    <3>1. rxChan' = [rxChan EXCEPT ![rx[2]] = <<rx[1]>>]
      BY <1>0, <1>5, <2>1, <2>3, OnePlace DEF Wait!RxPut
    <3>2. \A q \in Probes : rxChan'[q] = IF q = rx[2] THEN <<rx[1]>> ELSE rxChan[q]
      BY <1>0, <2>1, <3>1 DEF Types
    <3>3. Head(<<rx[1]>>) = rx[1]
      BY <2>1, ChannelPlaces
    <3>4. \A q \in Probes : rxChan'[q] # <<>> => For(Head(rxChan'[q]), q)
      BY <1>0, <2>1, <3>2, <3>3 DEF RepliesAreTheHosts
    <3> QED BY <1>0, <1>1, <2>2, <3>4 DEF RepliesAreTheHosts
  <2>4. CASE ~ Wait!Room(rx[2])
    BY <1>0, <1>1, <1>5, <2>2, <2>4 DEF Wait!RxPut, RepliesAreTheHosts
  <2> QED BY <2>3, <2>4
<1>6. CASE net' \subseteq net /\ UNCHANGED <<rx, rxChan>>
  BY <1>0, <1>1, <1>6 DEF RepliesAreTheHosts
<1> QED BY <1>2, <1>3, <1>4, <1>5, <1>6
        DEF Wait!Next, Wait!Probe, Wait!Register, Wait!SendFailed, Wait!Timeout,
            Wait!Close, Wait!Lose, Wait!vars, Wait!loopVars

\* What flags mean, of the four scans' replies.
LEMMA FlagsTell ==
  ASSUME Types, NEW h \in {"open", "closed", "silent"}, NEW before,
         NEW flags \in Wait!Reply(h) \cup {"other"}
  PROVE  \/ Wait!Classify(flags, before) = before
         \/ Wait!Classify(flags, before) = "open" /\ h = "open"
         \/ Wait!Classify(flags, before) = "closed" /\ h = "closed"
         \/ Wait!Classify(flags, before) = "unfiltered" /\ h # "silent"
<1>1. scanType \in {"syn", "ack", "window", "stealth"}
  BY DEF Types
<1> HIDE DEF Types
<1>2. CASE flags = "other"
  BY <1>2 DEF Wait!Classify
<1>3. ASSUME flags # "other"
      PROVE  /\ h # "silent" /\ flags \in Wait!Reply(h)
             /\ scanType = "syn" => flags = IF h = "open" THEN "synack" ELSE "rst"
             /\ scanType = "ack" => flags = "rst"
             /\ scanType = "window" => flags = IF h = "open" THEN "rst+window" ELSE "rst"
             /\ scanType = "stealth" => h # "open" /\ flags = "rst"
  <2>1. flags \in Wait!Reply(h)
    BY <1>3
  <2>2. h # "silent"
    BY <2>1 DEF Wait!Reply
  <2>3. CASE scanType = "syn"
    <3>1. Wait!Reply(h) = {IF h = "open" THEN "synack" ELSE "rst"}
      BY <2>2, <2>3 DEF Wait!Reply
    <3> QED BY <2>1, <2>2, <2>3, <3>1
  <2>4. CASE scanType = "ack"
    <3>1. Wait!Reply(h) = {"rst"}
      BY <2>2, <2>4 DEF Wait!Reply
    <3> QED BY <2>1, <2>2, <2>4, <3>1
  <2>5. CASE scanType = "window"
    <3>1. Wait!Reply(h) = {IF h = "open" THEN "rst+window" ELSE "rst"}
      BY <2>2, <2>5 DEF Wait!Reply
    <3> QED BY <2>1, <2>2, <2>5, <3>1
  <2>6. CASE scanType = "stealth"
    <3>1. Wait!Reply(h) = IF h = "open" THEN {} ELSE {"rst"}
      BY <2>2, <2>6 DEF Wait!Reply
    <3> QED BY <2>1, <2>2, <2>6, <3>1
  <2> QED BY <1>1, <2>3, <2>4, <2>5, <2>6
<1>4. CASE flags # "other" /\ h = "open"
  BY <1>1, <1>3, <1>4 DEF Wait!Classify
<1>5. CASE flags # "other" /\ h = "closed"
  BY <1>1, <1>3, <1>5 DEF Wait!Classify
<1> QED BY <1>2, <1>3, <1>4, <1>5

LEMMA VerdictsStep == ASSUME Wait!ProbeAssumption, WaitInv, Wait!Next PROVE Verdicts'
<1>0. Types /\ Verdicts /\ port' = port /\ state \in [Probes -> States]
  BY DEF WaitInv, Types, Wait!Next, Wait!Probe, Wait!Register, Wait!Drain,
         Wait!Transmit, Wait!SendFailed, Wait!Receive, Wait!Timeout, Wait!Close,
         Wait!RxLookup, Wait!RxPut, Wait!Lose, Wait!vars, Wait!env
<1>1. ASSUME NEW p \in Probes, Wait!Receive(p) PROVE Verdicts'
  <2>1. Head(rxChan[p]) \in AReply /\ For(Head(rxChan[p]), p)
    BY <1>0, <1>1, RoomForOne DEF Wait!Receive, Types, WaitInv, RepliesAreTheHosts
  <2> DEFINE s == Wait!Classify(Head(rxChan[p]).flags, state[p])
  <2>2. state' = [state EXCEPT ![p] = s]
    BY <1>1 DEF Wait!Receive
  <2>3. \/ s = state[p]
        \/ s = "open" /\ port[Remote[p]] = "open"
        \/ s = "closed" /\ port[Remote[p]] = "closed"
        \/ s = "unfiltered" /\ port[Remote[p]] # "silent"
    <3> DEFINE flags == Head(rxChan[p]).flags
    <3>1. /\ port[Remote[p]] \in {"open", "closed", "silent"}
          /\ flags \in Wait!Reply(port[Remote[p]]) \cup {"other"}
      BY <1>0, <2>1, KeysOfProbes DEF For, Genuine, Wait!rawRxKey, Types
    <3> QED BY <1>0, <3>1, FlagsTell
  <2> HIDE DEF s
  <2> QED BY <1>0, <2>2, <2>3 DEF Verdicts
<1>2. ASSUME NEW p \in Probes, Wait!SendFailed(p) \/ Wait!Timeout(p) PROVE Verdicts'
  <2>1. PICK s \in {"filtered", "open|filtered"} : state' = [state EXCEPT ![p] = s]
    BY <1>2 DEF Wait!SendFailed, Wait!Timeout, Wait!NoReply
  <2> QED BY <1>0, <2>1 DEF Verdicts
<1>3. CASE UNCHANGED state
  BY <1>0, <1>3 DEF Verdicts
<1> QED BY <1>1, <1>2, <1>3
        DEF Wait!Next, Wait!Probe, Wait!Register, Wait!Drain, Wait!Transmit,
            Wait!Close, Wait!RxLookup, Wait!RxPut, Wait!Lose, Wait!vars

LEMMA BufferedStep == ASSUME Wait!ProbeAssumption, WaitInv, Wait!Next PROVE BufferedNow'
<1>0. Types /\ BufferedNow
  BY DEF WaitInv
<1> USE DEF BufferedNow, Wait!loopVars
<1>1. ASSUME NEW p \in Probes, Wait!Drain(p) PROVE BufferedNow'
  BY <1>0, <1>1 DEF Types, Wait!Drain, Wait!Drained
<1>2. ASSUME NEW p \in Probes, Wait!Receive(p) PROVE BufferedNow'
  BY <1>0, <1>2 DEF Types, Wait!Receive
<1>3. ASSUME NEW p \in Probes,
             \/ Wait!Register(p) \/ Wait!Transmit(p) \/ Wait!SendFailed(p)
             \/ Wait!Timeout(p) \/ Wait!Close(p)
      PROVE  BufferedNow'
  <2>1. /\ UNCHANGED <<rxChan, buffered, attempt>>
        /\ \A q \in Probes : pc'[q] \in {"xmit", "wait"} => pc[q] \in {"xmit", "wait"}
    BY <1>0, <1>3 DEF Types, Wait!Register, Wait!Transmit, Wait!SendFailed,
                      Wait!Timeout, Wait!Close
  <2> QED BY <1>0, <2>1
<1>4. ASSUME Wait!RxPut PROVE BufferedNow'
  <2>1. rx[2] \in Probes /\ UNCHANGED <<pc, attempt>>
    BY <1>0, <1>4 DEF Wait!RxPut, Types
  <2>2. CASE Wait!Room(rx[2])
    <3>1. buffered' = [buffered EXCEPT ![rx[2]] = attempt[rx[2]]]
          /\ \A q \in Probes \ {rx[2]} : rxChan'[q] = rxChan[q]
      BY <1>0, <1>4, <2>1, <2>2 DEF Wait!RxPut, Types
    <3> QED BY <1>0, <2>1, <3>1 DEF Types
  <2>3. CASE ~ Wait!Room(rx[2])
    BY <1>0, <1>4, <2>1, <2>3 DEF Wait!RxPut
  <2> QED BY <2>2, <2>3
<1>5. CASE UNCHANGED <<rxChan, buffered, attempt, pc>>
  BY <1>0, <1>5
<1> QED BY <1>1, <1>2, <1>3, <1>4, <1>5 DEF Wait!Next, Wait!Probe, Wait!RxLookup,
        Wait!Lose, Wait!vars

LEMMA WaitInvariant == ASSUME Wait!ProbeAssumption PROVE Wait!Spec => []WaitInv
<1>1. Wait!Init => WaitInv
  BY ProbesAtFirst
<1>2. WaitInv /\ [Wait!Next]_(Wait!vars) => WaitInv'
  <2>1. ASSUME WaitInv, Wait!Next PROVE WaitInv'
    BY <2>1, TypesStep, TableStep, RepliesStep, VerdictsStep, BufferedStep DEF WaitInv
  <2>2. ASSUME WaitInv, UNCHANGED Wait!vars PROVE WaitInv'
    BY <2>2 DEF WaitInv, Types, TableMatches, RepliesAreTheHosts, Verdicts,
                BufferedNow, Genuine, For, Wait!Reply, Wait!vars, Wait!env,
                Wait!loopVars
  <2> QED BY <2>1, <2>2
<1> QED BY <1>1, <1>2, PTL DEF Wait!Spec

-----------------------------------------------------------------------------
(* The theorems. *)

\* Types: a channel holds at most one reply, and no probe begins more attempts
\* than it has (rawTCPScanner of raw_tcp.go).
THEOREM ProbesTypeCorrect == ASSUME Wait!ProbeAssumption PROVE Wait!Spec => [](Wait!TypeOK)
<1>1. WaitInv => Wait!TypeOK
  BY RoomForOne DEF WaitInv, Types, Wait!TypeOK, Labels, States
<1> QED BY <1>1, WaitInvariant, PTL

\* Whatever the order of retries, late replies and closings, with decoys or
\* without and whatever probes share a key, a verdict is what the probed host
\* itself has answered (rawRxKey of raw_tcp.go).
THEOREM VerdictsAreTheHosts ==
  ASSUME Wait!ProbeAssumption PROVE Wait!Spec => [](Wait!VerdictIsTheHosts)
<1>1. WaitInv => Wait!VerdictIsTheHosts
  BY DEF WaitInv, Verdicts, Wait!VerdictIsTheHosts
<1> QED BY <1>1, WaitInvariant, PTL

\* Send's drain: what Receive returns was buffered during its own attempt.
THEOREM RepliesTakenAreFresh ==
  ASSUME Wait!ProbeAssumption PROVE Wait!Spec => Wait!DrainDiscards
<1>1. WaitInv /\ [Wait!Next]_(Wait!vars) => [Wait!TakesOnlyFresh]_(Wait!vars)
  <2> SUFFICES ASSUME WaitInv, Wait!Next, NEW p \in Probes,
                      pc[p] = "wait", pc'[p] = "close", answered'[p] # answered[p]
               PROVE  buffered[p] = attempt[p]
    BY DEF Wait!TakesOnlyFresh
  <2>1. ASSUME NEW q \in Probes, Wait!Receive(q) PROVE q = p
    BY <2>1 DEF Wait!Receive, WaitInv, Types
  <2>2. \/ UNCHANGED answered
        \/ \E q \in Probes : Wait!Receive(q)
    BY DEF Wait!Next, Wait!Probe, Wait!Register, Wait!Drain, Wait!Transmit,
           Wait!SendFailed, Wait!Timeout, Wait!Close, Wait!RxLookup, Wait!RxPut,
           Wait!Lose, Wait!vars
  <2>3. Wait!Receive(p)
    BY <2>1, <2>2
  <2> QED BY <2>3 DEF Wait!Receive, WaitInv, BufferedNow
<1> QED BY <1>1, WaitInvariant, PTL DEF Wait!Spec, Wait!DrainDiscards

-----------------------------------------------------------------------------
(* With one probe to a key. *)

OneProbeAKey == \A p, q \in Probes : Wait!rawRxKey(p) = Wait!rawRxKey(q) => p = q

\* From its registration to its closing a probe is the one under its key.
Reachable ==
  \A p \in Probes :
    pc[p] \in {"drain", "xmit", "wait", "close"} => waiters[Wait!rawRxKey(p)] = p

LEMMA ReachableStep ==
  ASSUME Wait!ProbeAssumption, OneProbeAKey, WaitInv, Reachable, Wait!Next PROVE Reachable'
<1>0. Types
  BY DEF WaitInv
<1> USE KeysOfProbes DEF Reachable
<1>1. ASSUME NEW p \in Probes, Wait!Register(p) PROVE Reachable'
  BY <1>0, <1>1 DEF Wait!Register, Wait!Registered, OneProbeAKey, Types
<1>2. ASSUME NEW p \in Probes, Wait!Close(p) PROVE Reachable'
  BY <1>0, <1>2 DEF Wait!Close, OneProbeAKey, Types
<1>3. ASSUME NEW p \in Probes,
             \/ Wait!Drain(p) \/ Wait!Transmit(p) \/ Wait!SendFailed(p)
             \/ Wait!Receive(p) \/ Wait!Timeout(p)
      PROVE  Reachable'
  <2>1. /\ waiters' = waiters /\ pc[p] \in {"drain", "xmit", "wait"}
        /\ \A q \in Probes \ {p} : pc'[q] = pc[q]
    BY <1>0, <1>3 DEF Wait!Drain, Wait!Transmit, Wait!SendFailed, Wait!Receive,
                      Wait!Timeout, Types
  <2> QED BY <2>1
<1>4. CASE UNCHANGED <<waiters, pc>>
  BY <1>4
<1> QED BY <1>1, <1>2, <1>3, <1>4 DEF Wait!Next, Wait!Probe, Wait!RxLookup,
                                      Wait!RxPut, Wait!Lose, Wait!vars

\* newRawTCPScanner stores the waiter before anything is sent: where no two
\* probes, decoys included, have the same host and port, no reply that reaches
\* the process while its probe waits is dropped or given to another.
THEOREM NoReplyIsUnheard ==
  ASSUME Wait!ProbeAssumption, OneProbeAKey PROVE Wait!Spec => [](Wait!NoReplyUnheard)
<1> DEFINE HeardInv == WaitInv /\ Reachable /\ Wait!NoReplyUnheard
<1>1. Wait!Init => HeardInv
  BY ProbesAtFirst DEF Wait!Init, Reachable, Wait!NoReplyUnheard
<1>2. HeardInv /\ [Wait!Next]_(Wait!vars) => HeardInv'
  <2>1. ASSUME HeardInv, Wait!Next PROVE HeardInv'
    <3>1. WaitInv'
      BY <2>1, TypesStep, TableStep, RepliesStep, VerdictsStep, BufferedStep
          DEF WaitInv
    <3>2. Reachable'
      BY <2>1, ReachableStep
    <3>3. ASSUME Wait!RxLookup PROVE Wait!NoReplyUnheard'
      <4>1. PICK r \in net :
              unheard' = IF waiters[Wait!rawRxKey(r.to)] # r.to /\ pc[r.to] = "wait"
                         THEN unheard \cup {r.to} ELSE unheard
        BY <3>3 DEF Wait!RxLookup
      <4>2. r.to \in Probes
        BY <2>1 DEF WaitInv, Types, AReply
      <4> QED BY <2>1, <4>1, <4>2 DEF Reachable, Wait!NoReplyUnheard
    <3>4. Wait!RxLookup \/ UNCHANGED unheard
      BY <2>1 DEF Wait!Next, Wait!Probe, Wait!Register, Wait!Drain, Wait!Transmit,
                  Wait!SendFailed, Wait!Receive, Wait!Timeout, Wait!Close, Wait!RxPut,
                  Wait!Lose, Wait!vars
    <3> QED BY <2>1, <3>1, <3>2, <3>3, <3>4 DEF Wait!NoReplyUnheard
  <2>2. ASSUME HeardInv, UNCHANGED Wait!vars PROVE HeardInv'
    BY <2>2 DEF WaitInv, Types, TableMatches, RepliesAreTheHosts, Verdicts,
                BufferedNow, Genuine, For, Wait!Reply, Reachable, Wait!NoReplyUnheard,
                Wait!vars, Wait!env, Wait!loopVars
  <2> QED BY <2>1, <2>2
<1>3. HeardInv => Wait!NoReplyUnheard
  OBVIOUS
<1> QED BY <1>1, <1>2, <1>3, PTL DEF Wait!Spec
-----------------------------------------------------------------------------
(* Probes over AF_XDP.  As above a reply keeps to the port it is of; and one *)
(* that is handed on has shown its host to be alive.                         *)

Senders == Probes \cup XDPDecoys
Frame == [to : Senders, attempt : Nat,
          says : {"synack", "rst", "udp", "nothing", "unreachable", "other"}]
FrameAtMost == {<<>>} \cup { <<r>> : r \in Frame }
Sending == {"drain", "xmit", "wait", "release"}

XDPTypes ==
  /\ scanType \in {"syn", "udp"}
  /\ port \in [XDP!Remotes -> {"open", "closed", "silent"}]
  /\ net \subseteq Frame
  /\ waiters \in [XDP!Remotes -> Senders \cup {XDP!NoOne}]
  /\ rx \in {<<>>} \cup (Frame \X Senders)
  /\ rxChan \in [Senders -> FrameAtMost]
  /\ pc \in [Senders -> {"new", "asking", "done"} \cup Sending]
  /\ attempt \in [Senders -> Nat] /\ sent \in [Senders -> Nat]
  /\ state \in [Senders -> {"", "open", "closed", "filtered", "open|filtered"}]
  /\ nextHops \in [XDP!Hops -> {"none", "resolving", "known", "broadcast"}]
  /\ answered \in [Senders -> Nat] /\ buffered \in [Senders -> Nat]
  /\ unheard \subseteq Senders

\* What a frame says is what its port says, and who is handed it probes that
\* port, whose host is then known to be alive.
Says(r) == r.says \in XDP!Reply(port[Remote[r.to]]) \cup {"other"}
HandedTo(r, p) ==
  /\ Says(r) /\ XDP!Delivers(r.says) /\ Remote[r.to] = Remote[p]
  /\ scanType = "syn" => Remote[p][1] \in alive
FramesAreThePorts ==
  /\ \A k \in XDP!Remotes : waiters[k] # XDP!NoOne => Remote[waiters[k]] = k
  /\ \A r \in net : Says(r)
  /\ rx # <<>> => HandedTo(rx[1], rx[2])
  /\ \A p \in Senders : rxChan[p] # <<>> => HandedTo(Head(rxChan[p]), p)

XDPVerdicts ==
  \A p \in Senders :
    /\ state[p] = "open"   => port[Remote[p]] = "open"
    /\ (state[p] = "open" /\ scanType = "syn") => Remote[p][1] \in alive
    /\ state[p] = "closed" => port[Remote[p]] = "closed"
    /\ state[p] = "open|filtered" => scanType = "udp"

\* A next hop being resolved has one probe that resolves it, and only a probe
\* whose next hop is resolved goes on.
HopsResolved ==
  /\ \A p \in Senders :
       /\ pc[p] = "asking" => nextHops[XDP!nextHopIP(p)] = "resolving"
       /\ pc[p] \in Sending => XDP!Resolved(p) /\ p \notin XDPDecoys
       /\ attempt[p] > 0 => XDP!Resolved(p)
  /\ \A p, q \in Senders :
       pc[p] = "asking" /\ pc[q] = "asking" /\ XDP!nextHopIP(p) = XDP!nextHopIP(q) => p = q

HeldNow ==
  \A p \in Senders :
    pc[p] \in {"xmit", "wait"} /\ rxChan[p] # <<>> => buffered[p] = attempt[p]

XDPInv == XDPTypes /\ FramesAreThePorts /\ XDPVerdicts /\ HopsResolved /\ HeldNow

-----------------------------------------------------------------------------

LEMMA OfSenders ==
  \A p \in Senders : Remote[p] \in XDP!Remotes /\ XDP!nextHopIP(p) \in XDP!Hops
  BY DEF Senders, XDP!Remotes, XDP!Hops

LEMMA FramePlaces ==
  /\ <<>> \in FrameAtMost
  /\ \A r \in Frame : <<r>> \in FrameAtMost /\ Head(<<r>>) = r
  /\ \A c \in FrameAtMost : c # <<>> => Head(c) \in Frame
<1>1. ASSUME NEW c \in FrameAtMost, c # <<>> PROVE Head(c) \in Frame
  <2>1. PICK r \in Frame : c = <<r>>
    BY <1>1 DEF FrameAtMost
  <2> QED BY <2>1
<1> QED BY <1>1 DEF FrameAtMost

LEMMA CountedUp ==
  ASSUME NEW S, NEW f \in [S -> Nat], NEW x \in S
  PROVE  [f EXCEPT ![x] = f[x] + 1] \in [S -> Nat]
  OBVIOUS

LEMMA XDPAtFirst == ASSUME XDP!Init PROVE XDPInv
<1> USE DEF XDP!Init, Senders
<1>1. XDPTypes
  BY FramePlaces DEF XDPTypes
<1>2. FramesAreThePorts
  BY DEF FramesAreThePorts
<1>3. XDPVerdicts /\ HeldNow
  BY DEF XDPVerdicts, HeldNow
<1>4. HopsResolved
  <2>1. \A p \in Senders : pc[p] = "new" /\ attempt[p] = 0
    OBVIOUS
  <2> HIDE DEF XDP!Init, Senders
  <2>2. \A p \in Senders :
          ~ (pc[p] = "asking") /\ ~ (pc[p] \in Sending) /\ ~ (attempt[p] > 0)
    BY <2>1 DEF Sending
  <2> QED BY <2>2 DEF HopsResolved
<1> QED BY <1>1, <1>2, <1>3, <1>4 DEF XDPInv

LEMMA XDPTypesStep == ASSUME XDPTypes, XDP!Next PROVE XDPTypes'
<1> USE OfSenders DEF XDP!env, XDP!receiving, Sending
<1>1. ASSUME NEW p \in Senders, XDP!Ask(p) PROVE XDPTypes'
  BY <1>1 DEF XDPTypes, XDP!Ask
<1>2. ASSUME NEW p \in Senders, XDP!Answer(p) PROVE XDPTypes'
  BY <1>2 DEF XDPTypes, XDP!Answer
<1>3. ASSUME NEW p \in Senders, XDP!SendDecoy(p) PROVE XDPTypes'
  BY <1>3 DEF XDPTypes, XDP!SendDecoy
<1>4. ASSUME NEW p \in Senders, XDP!Register(p) PROVE XDPTypes'
  BY <1>4 DEF XDPTypes, XDP!Register
<1>5. ASSUME NEW p \in Senders, XDP!Begin(p) PROVE XDPTypes'
  <2>1. attempt' \in [Senders -> Nat] /\ sent' \in [Senders -> Nat]
    <3>1. /\ attempt' = [attempt EXCEPT ![p] = attempt[p] + 1]
          /\ sent' = [sent EXCEPT ![p] = 0]
          /\ attempt \in [Senders -> Nat] /\ sent \in [Senders -> Nat]
      BY <1>5 DEF XDPTypes, XDP!Begin
    <3> QED BY <3>1, CountedUp
  <2>2. rxChan' \in [Senders -> FrameAtMost]
    BY <1>5, FramePlaces DEF XDPTypes, XDP!Begin, XDP!Emptied
  <2>3. pc' \in [Senders -> {"new", "asking", "done"} \cup Sending]
    BY <1>5 DEF XDPTypes, XDP!Begin
  <2> QED BY <1>5, <2>1, <2>2, <2>3 DEF XDPTypes, XDP!Begin
<1>6. ASSUME NEW p \in Senders, XDP!Queue(p) PROVE XDPTypes'
  <2>1. \A says \in XDP!Reply(port[Remote[p]]) \cup {"other"} :
          [to |-> p, attempt |-> attempt[p], says |-> says] \in Frame
    <3>1. port[Remote[p]] \in {"open", "closed", "silent"} /\ attempt[p] \in Nat
      BY DEF XDPTypes
    <3>2. XDP!Reply(port[Remote[p]])
            \subseteq {"synack", "rst", "udp", "nothing", "unreachable"}
      BY <3>1 DEF XDP!Reply
    <3> QED BY <3>1, <3>2 DEF Frame
  <2>2. net' \subseteq Frame
    BY <1>6, <2>1 DEF XDP!Queue, XDPTypes
  <2>3. sent' \in [Senders -> Nat]
    <3>1. sent' = [sent EXCEPT ![p] = sent[p] + 1] /\ sent \in [Senders -> Nat]
      BY <1>6 DEF XDPTypes, XDP!Queue
    <3> QED BY <3>1, CountedUp
  <2>4. pc' = [pc EXCEPT ![p] = IF sent'[p] = Fragments THEN "wait" ELSE pc[p]]
    BY <1>6 DEF XDP!Queue
  <2>5. pc' \in [Senders -> {"new", "asking", "done"} \cup Sending]
    BY <2>4 DEF XDPTypes
  <2> QED BY <1>6, <2>2, <2>3, <2>5 DEF XDPTypes, XDP!Queue
<1>7. ASSUME NEW p \in Senders, XDP!Congested(p) PROVE XDPTypes'
  BY <1>7 DEF XDPTypes, XDP!Congested
<1>8. ASSUME NEW p \in Senders, XDP!Receive(p) PROVE XDPTypes'
  <2>1. Head(rxChan[p]) \in Frame
    BY <1>8, FramePlaces DEF XDPTypes, XDP!Receive
  <2>2. /\ Head(rxChan[p]).attempt \in Nat
        /\ XDP!Classify(Head(rxChan[p]).says) \in {"open", "closed"}
    BY <2>1 DEF Frame, XDP!Classify
  <2> QED BY <1>8, <2>2, FramePlaces DEF XDPTypes, XDP!Receive
<1>9. ASSUME NEW p \in Senders, XDP!Timeout(p) PROVE XDPTypes'
  BY <1>9 DEF XDPTypes, XDP!Timeout, XDP!NoReply
<1>10. ASSUME NEW p \in Senders, XDP!Release(p) PROVE XDPTypes'
  BY <1>10 DEF XDPTypes, XDP!Release
<1>11. ASSUME XDP!HandleFrame PROVE XDPTypes'
  <2>1. PICK r \in net :
          /\ net' = net \ {r}
          /\ rx' = IF XDP!Delivers(r.says) /\ waiters[Remote[r.to]] # XDP!NoOne
                   THEN <<r, waiters[Remote[r.to]]>> ELSE <<>>
          /\ unheard' = IF /\ XDP!Delivers(r.says) /\ waiters[Remote[r.to]] # r.to
                           /\ pc[r.to] = "wait"
                        THEN unheard \cup {r.to} ELSE unheard
    BY <1>11 DEF XDP!HandleFrame
  <2>2. r \in Frame /\ r.to \in Senders
    BY DEF XDPTypes, Frame
  <2>3. waiters[Remote[r.to]] \in Senders \cup {XDP!NoOne}
    BY <2>2 DEF XDPTypes
  <2>4. rx' \in {<<>>} \cup (Frame \X Senders) /\ unheard' \subseteq Senders
    BY <2>1, <2>2, <2>3 DEF XDPTypes
  <2> QED BY <1>11, <2>1, <2>4 DEF XDPTypes, XDP!HandleFrame
<1>12. ASSUME XDP!Deliver PROVE XDPTypes'
  <2>1. rx[1] \in Frame /\ rx[2] \in Senders
    BY <1>12 DEF XDP!Deliver, XDPTypes
  <2>2. /\ <<rx[1]>> \in FrameAtMost /\ attempt[rx[2]] \in Nat
        /\ rx' \in {<<>>} \cup (Frame \X Senders)
    BY <1>12, <2>1, FramePlaces DEF XDPTypes, XDP!Deliver
  <2>3. rxChan' \in [Senders -> FrameAtMost] /\ buffered' \in [Senders -> Nat]
    BY <1>12, <2>1, <2>2 DEF XDPTypes, XDP!Deliver
  <2> QED BY <1>12, <2>2, <2>3 DEF XDPTypes, XDP!Deliver
<1>13. ASSUME XDP!Lose PROVE XDPTypes'
  BY <1>13 DEF XDPTypes, XDP!Lose
<1> QED BY <1>1, <1>2, <1>3, <1>4, <1>5, <1>6, <1>7, <1>8, <1>9, <1>10, <1>11, <1>12,
           <1>13 DEF XDP!Next, XDP!Probe, Senders

\* Register alone puts a probe into the table; what a frame says is fixed when
\* it is queued, and the table leads it to a probe of its port.
LEMMA FramesStep == ASSUME XDPInv, XDP!Next PROVE FramesAreThePorts'
<1>0. /\ XDPTypes /\ FramesAreThePorts
      /\ UNCHANGED <<scanType, port>> /\ alive \subseteq alive'
  BY DEF XDPInv, XDP!Next, XDP!Probe, XDP!Ask, XDP!Answer, XDP!SendDecoy, XDP!Register,
         XDP!Begin, XDP!Queue, XDP!Congested, XDP!Receive, XDP!Timeout, XDP!Release,
         XDP!HandleFrame, XDP!Deliver, XDP!Lose, XDP!env, XDP!receiving
<1>1. \A r, p : (Says(r) => Says(r)') /\ (HandedTo(r, p) => HandedTo(r, p)')
  BY <1>0 DEF Says, HandedTo, XDP!Reply
<1>2. ASSUME NEW p \in Senders, XDP!Register(p) \/ XDP!Release(p)
      PROVE  FramesAreThePorts'
  <2>1. PICK q \in {p, XDP!NoOne} : waiters' = [waiters EXCEPT ![Remote[p]] = q]
    BY <1>2 DEF XDP!Register, XDP!Release
  <2>2. \A k \in XDP!Remotes : waiters'[k] # XDP!NoOne => Remote[waiters'[k]] = k
    BY <1>0, <2>1 DEF XDPTypes, FramesAreThePorts
  <2>3. UNCHANGED <<net, rx, rxChan>>
    BY <1>2 DEF XDP!Register, XDP!Release
  <2> QED BY <1>0, <1>1, <2>2, <2>3 DEF FramesAreThePorts
<1>3. ASSUME NEW p \in Senders, XDP!Queue(p) PROVE FramesAreThePorts'
  <2>1. \A r \in net' : Says(r)
    BY <1>0, <1>3 DEF XDP!Queue, FramesAreThePorts, Says
  <2>2. UNCHANGED <<waiters, rx, rxChan>>
    BY <1>3 DEF XDP!Queue
  <2> QED BY <1>0, <1>1, <2>1, <2>2 DEF FramesAreThePorts
<1>4. ASSUME NEW p \in Senders, XDP!Begin(p) \/ XDP!Receive(p)
      PROVE  FramesAreThePorts'
  <2>1. UNCHANGED <<net, waiters, rx>> /\ rxChan' = [rxChan EXCEPT ![p] = <<>>]
    BY <1>4 DEF XDP!Begin, XDP!Emptied, XDP!Receive
  <2>2. \A q \in Senders : rxChan'[q] # <<>> => rxChan'[q] = rxChan[q]
    BY <1>0, <2>1 DEF XDPTypes
  <2> QED BY <1>0, <1>1, <2>1, <2>2 DEF FramesAreThePorts
<1>5. ASSUME XDP!HandleFrame PROVE FramesAreThePorts'
  <2>1. PICK r \in net :
          /\ net' = net \ {r}
          /\ alive' = IF scanType = "syn" THEN alive \cup {Remote[r.to][1]} ELSE alive
          /\ rx' = IF XDP!Delivers(r.says) /\ waiters[Remote[r.to]] # XDP!NoOne
                   THEN <<r, waiters[Remote[r.to]]>> ELSE <<>>
    BY <1>5 DEF XDP!HandleFrame
  <2>2. r \in Frame /\ Remote[r.to] \in XDP!Remotes /\ Says(r)
    BY <1>0, OfSenders DEF XDPTypes, Frame, FramesAreThePorts
  <2>3. ASSUME rx' # <<>> PROVE HandedTo(rx[1], rx[2])'
    <3>1. /\ XDP!Delivers(r.says) /\ rx' = <<r, waiters[Remote[r.to]]>>
          /\ waiters[Remote[r.to]] # XDP!NoOne
      BY <2>1, <2>3
    <3>2. Remote[waiters[Remote[r.to]]] = Remote[r.to]
      BY <1>0, <2>2, <3>1 DEF FramesAreThePorts
    <3>3. scanType = "syn" => Remote[r.to][1] \in alive'
      BY <2>1
    <3>4. Says(r)'
      BY <1>1, <2>2
    <3> QED BY <1>0, <3>1, <3>2, <3>3, <3>4 DEF HandedTo
  <2>4. UNCHANGED <<waiters, rxChan>>
    BY <1>5 DEF XDP!HandleFrame
  <2> QED BY <1>0, <1>1, <2>1, <2>3, <2>4 DEF FramesAreThePorts
<1>6. ASSUME XDP!Deliver PROVE FramesAreThePorts'
  <2>1. rx[1] \in Frame /\ rx[2] \in Senders /\ HandedTo(rx[1], rx[2])
    BY <1>0, <1>6 DEF XDP!Deliver, XDPTypes, FramesAreThePorts
  <2>2. UNCHANGED <<net, waiters>> /\ rx' = <<>>
    BY <1>6 DEF XDP!Deliver
  <2>3. \A q \in Senders :
          rxChan'[q] # <<>> => \/ rxChan'[q] = rxChan[q]
                               \/ q = rx[2] /\ rxChan'[q] = <<rx[1]>>
    BY <1>0, <1>6, <2>1 DEF XDPTypes, XDP!Deliver
  <2>4. Head(<<rx[1]>>) = rx[1]
    BY <2>1, FramePlaces
  <2>5. \A q \in Senders : rxChan'[q] # <<>> => HandedTo(Head(rxChan'[q]), q)
    BY <1>0, <2>1, <2>3, <2>4 DEF FramesAreThePorts
  <2> QED BY <1>0, <1>1, <2>2, <2>5 DEF FramesAreThePorts
<1>7. CASE net' \subseteq net /\ UNCHANGED <<waiters, rx, rxChan>>
  BY <1>0, <1>1, <1>7 DEF FramesAreThePorts
<1> QED BY <1>2, <1>3, <1>4, <1>5, <1>6, <1>7
        DEF XDP!Next, XDP!Probe, XDP!Ask, XDP!Answer, XDP!SendDecoy, XDP!Congested,
            XDP!Timeout, XDP!Lose, XDP!receiving, Senders

\* A frame handed on says what the port is.
LEMMA FrameTells ==
  ASSUME XDPTypes, NEW p \in Senders, NEW r, HandedTo(r, p)
  PROVE  \/ XDP!Classify(r.says) = "open" /\ port[Remote[p]] = "open"
         \/ XDP!Classify(r.says) = "closed" /\ port[Remote[p]] = "closed"
<1>1. /\ port[Remote[p]] \in {"open", "closed", "silent"} /\ scanType \in {"syn", "udp"}
      /\ r.says \in XDP!Reply(port[Remote[p]]) \cup {"other"}
      /\ r.says \in {"synack", "rst", "udp", "unreachable"}
  BY OfSenders DEF XDPTypes, HandedTo, Says, XDP!Delivers
<1>2. r.says \in XDP!Reply(port[Remote[p]])
  BY <1>1
<1>3. CASE port[Remote[p]] = "open"
  <2>1. r.says \in {"synack", "udp", "nothing"}
    BY <1>2, <1>3 DEF XDP!Reply
  <2> QED BY <1>1, <1>3, <2>1 DEF XDP!Classify
<1>4. CASE port[Remote[p]] = "closed"
  <2>1. r.says \in {"rst", "unreachable"}
    BY <1>2, <1>4 DEF XDP!Reply
  <2> QED BY <1>4, <2>1 DEF XDP!Classify
<1>5. CASE port[Remote[p]] = "silent"
  BY <1>2, <1>5 DEF XDP!Reply
<1> QED BY <1>1, <1>3, <1>4, <1>5

LEMMA XDPVerdictsStep == ASSUME XDPInv, XDP!Next PROVE XDPVerdicts'
<1>0. /\ XDPTypes /\ XDPVerdicts /\ FramesAreThePorts
      /\ UNCHANGED <<scanType, port>> /\ alive \subseteq alive'
  BY DEF XDPInv, XDP!Next, XDP!Probe, XDP!Ask, XDP!Answer, XDP!SendDecoy, XDP!Register,
         XDP!Begin, XDP!Queue, XDP!Congested, XDP!Receive, XDP!Timeout, XDP!Release,
         XDP!HandleFrame, XDP!Deliver, XDP!Lose, XDP!env, XDP!receiving
<1>1. ASSUME NEW p \in Senders, NEW s, state' = [state EXCEPT ![p] = s],
             s = "open" => /\ port[Remote[p]] = "open"
                           /\ scanType = "syn" => Remote[p][1] \in alive,
             s = "closed" => port[Remote[p]] = "closed",
             s = "open|filtered" => scanType = "udp"
      PROVE  XDPVerdicts'
  <2>1. \A q \in Senders : state'[q] = IF q = p THEN s ELSE state[q]
    BY <1>0, <1>1 DEF XDPTypes
  <2> QED BY <1>0, <1>1, <2>1 DEF XDPVerdicts
<1>2. ASSUME NEW p \in Senders, XDP!Receive(p) PROVE XDPVerdicts'
  <2>1. HandedTo(Head(rxChan[p]), p)
    BY <1>0, <1>2 DEF XDP!Receive, FramesAreThePorts
  <2>2. state' = [state EXCEPT ![p] = XDP!Classify(Head(rxChan[p]).says)]
    BY <1>2 DEF XDP!Receive
  <2>3. scanType = "syn" => Remote[p][1] \in alive
    BY <2>1 DEF HandedTo
  <2> QED BY <1>0, <1>1, <2>1, <2>2, <2>3, FrameTells
<1>3. ASSUME NEW p \in Senders, XDP!Congested(p) PROVE XDPVerdicts'
  BY <1>1, <1>3 DEF XDP!Congested
<1>4. ASSUME NEW p \in Senders, XDP!Timeout(p) PROVE XDPVerdicts'
  <2>1. PICK s \in {state[p], XDP!NoReply} : state' = [state EXCEPT ![p] = s]
    BY <1>4 DEF XDP!Timeout
  <2>2. CASE s = state[p]
    BY <1>0, <1>1, <2>1, <2>2 DEF XDPVerdicts
  <2>3. CASE s = XDP!NoReply
    BY <1>0, <1>1, <2>1, <2>3 DEF XDP!NoReply, XDPTypes
  <2> QED BY <2>1, <2>2, <2>3
<1>5. CASE UNCHANGED state
  BY <1>0, <1>5 DEF XDPVerdicts
<1> QED BY <1>2, <1>3, <1>4, <1>5
        DEF XDP!Next, XDP!Probe, XDP!Ask, XDP!Answer, XDP!SendDecoy, XDP!Register,
            XDP!Begin, XDP!Queue, XDP!Release, XDP!HandleFrame, XDP!Deliver, XDP!Lose,
            Senders

LEMMA HopsStep == ASSUME XDPInv, XDP!Next PROVE HopsResolved'
<1>0. XDPTypes /\ HopsResolved
  BY DEF XDPInv
<1> USE OfSenders
<1>1. ASSUME NEW p \in Senders, XDP!Ask(p) PROVE HopsResolved'
  <2>1. /\ pc[p] = "new" /\ nextHops[XDP!nextHopIP(p)] = "none"
        /\ nextHops' = [nextHops EXCEPT ![XDP!nextHopIP(p)] = "resolving"]
        /\ pc' = [pc EXCEPT ![p] = "asking"] /\ attempt' = attempt
    BY <1>1 DEF XDP!Ask
  <2>2. /\ \A q \in Senders : pc'[q] = IF q = p THEN "asking" ELSE pc[q]
        /\ \A h \in XDP!Hops :
             nextHops'[h] = IF h = XDP!nextHopIP(p) THEN "resolving" ELSE nextHops[h]
    BY <1>0, <2>1 DEF XDPTypes
  <2>3. \A q \in Senders : XDP!Resolved(q) => XDP!Resolved(q)'
    BY <2>1, <2>2 DEF XDP!Resolved
  <2>4. \A q \in Senders : pc[q] = "asking" => XDP!nextHopIP(q) # XDP!nextHopIP(p)
    BY <1>0, <2>1 DEF HopsResolved
  <2> QED BY <1>0, <2>1, <2>2, <2>3, <2>4 DEF HopsResolved, Sending
<1>2. ASSUME NEW p \in Senders, XDP!Answer(p) PROVE HopsResolved'
  <2>1. PICK found \in {"known", "broadcast"} :
          nextHops' = [nextHops EXCEPT ![XDP!nextHopIP(p)] = found]
    BY <1>2 DEF XDP!Answer
  <2>2. pc[p] = "asking" /\ pc' = [pc EXCEPT ![p] = "new"] /\ attempt' = attempt
    BY <1>2 DEF XDP!Answer
  <2>3. /\ \A q \in Senders : pc'[q] = IF q = p THEN "new" ELSE pc[q]
        /\ \A h \in XDP!Hops :
             nextHops'[h] = IF h = XDP!nextHopIP(p) THEN found ELSE nextHops[h]
    BY <1>0, <2>1, <2>2 DEF XDPTypes
  <2>4. \A q \in Senders : XDP!Resolved(q) => XDP!Resolved(q)'
    BY <2>1, <2>3 DEF XDP!Resolved
  <2>5. \A q \in Senders :
          pc[q] = "asking" /\ q # p => XDP!nextHopIP(q) # XDP!nextHopIP(p)
    BY <1>0, <2>2 DEF HopsResolved
  <2> QED BY <1>0, <2>2, <2>3, <2>4, <2>5 DEF HopsResolved, Sending
<1>3. ASSUME UNCHANGED nextHops, NEW p \in Senders, pc[p] # "asking",
             \A q \in Senders \ {p} : pc'[q] = pc[q] /\ attempt'[q] = attempt[q],
             pc'[p] # "asking",
             pc'[p] \in Sending => XDP!Resolved(p) /\ p \notin XDPDecoys,
             attempt'[p] > 0 => XDP!Resolved(p)
      PROVE  HopsResolved'
  <2>1. \A q \in Senders : XDP!Resolved(q) <=> XDP!Resolved(q)'
    BY <1>3 DEF XDP!Resolved
  <2> QED BY <1>0, <1>3, <2>1 DEF HopsResolved
<1>4. ASSUME NEW p \in Senders, XDP!SendDecoy(p) \/ XDP!Register(p) PROVE HopsResolved'
  BY <1>0, <1>3, <1>4 DEF XDP!SendDecoy, XDP!Register, XDPTypes, Sending
<1>5. ASSUME NEW p \in Senders,
             \/ XDP!Begin(p) \/ XDP!Queue(p) \/ XDP!Congested(p) \/ XDP!Receive(p)
             \/ XDP!Timeout(p) \/ XDP!Release(p)
      PROVE  HopsResolved'
  <2>1. /\ UNCHANGED nextHops /\ pc[p] \in Sending
        /\ pc'[p] \in Sending \cup {"done"}
        /\ \A q \in Senders \ {p} : pc'[q] = pc[q] /\ attempt'[q] = attempt[q]
    BY <1>0, <1>5 DEF XDP!Begin, XDP!Queue, XDP!Congested, XDP!Receive, XDP!Timeout,
                      XDP!Release, XDPTypes, Sending
  <2>2. XDP!Resolved(p) /\ p \notin XDPDecoys
    BY <1>0, <2>1 DEF HopsResolved
  <2>3. pc[p] # "asking" /\ pc'[p] # "asking"
    BY <2>1 DEF Sending
  <2> QED BY <1>3, <2>1, <2>2, <2>3
<1>6. CASE UNCHANGED <<nextHops, pc, attempt>>
  BY <1>0, <1>6 DEF HopsResolved, XDP!Resolved
<1> QED BY <1>1, <1>2, <1>4, <1>5, <1>6
        DEF XDP!Next, XDP!Probe, XDP!HandleFrame, XDP!Deliver, XDP!Lose, Senders

LEMMA HeldStep == ASSUME XDPInv, XDP!Next PROVE HeldNow'
<1>0. XDPTypes /\ HeldNow
  BY DEF XDPInv
<1>1. ASSUME NEW p \in Senders, XDP!Begin(p) \/ XDP!Receive(p) PROVE HeldNow'
  <2>1. \A q \in Senders : \/ rxChan'[q] = <<>>
                           \/ /\ q # p /\ pc'[q] = pc[q] /\ attempt'[q] = attempt[q]
                              /\ rxChan'[q] = rxChan[q] /\ buffered'[q] = buffered[q]
    BY <1>0, <1>1 DEF XDPTypes, XDP!Begin, XDP!Emptied, XDP!Receive
  <2> QED BY <1>0, <2>1 DEF HeldNow
<1>2. ASSUME NEW p \in Senders,
             \/ XDP!Ask(p) \/ XDP!Answer(p) \/ XDP!SendDecoy(p) \/ XDP!Register(p)
             \/ XDP!Queue(p) \/ XDP!Congested(p) \/ XDP!Timeout(p) \/ XDP!Release(p)
      PROVE  HeldNow'
  <2>1. /\ UNCHANGED <<rxChan, buffered, attempt>>
        /\ \A q \in Senders : pc'[q] \in {"xmit", "wait"} => pc[q] \in {"xmit", "wait"}
    BY <1>0, <1>2 DEF XDPTypes, XDP!Ask, XDP!Answer, XDP!SendDecoy, XDP!Register,
                      XDP!Queue, XDP!Congested, XDP!Timeout, XDP!Release, XDP!receiving
  <2> QED BY <1>0, <2>1 DEF HeldNow
<1>3. ASSUME XDP!Deliver PROVE HeldNow'
  <2>1. rx[2] \in Senders /\ UNCHANGED <<pc, attempt>>
    BY <1>0, <1>3 DEF XDP!Deliver, XDPTypes
  <2>2. \A q \in Senders :
          \/ rxChan'[q] = rxChan[q] /\ buffered'[q] = buffered[q]
          \/ buffered'[q] = attempt[q]
    <3>1. \/ UNCHANGED <<rxChan, buffered>>
          \/ \E c : /\ rxChan' = [rxChan EXCEPT ![rx[2]] = c]
                    /\ buffered' = [buffered EXCEPT ![rx[2]] = attempt[rx[2]]]
      BY <1>3 DEF XDP!Deliver
    <3>2. rxChan \in [Senders -> FrameAtMost] /\ buffered \in [Senders -> Nat]
      BY <1>0 DEF XDPTypes
    <3> DEFINE d == rx[2]
    <3> HIDE DEF d
    <3>3. ASSUME NEW c, rxChan' = [rxChan EXCEPT ![d] = c],
                 buffered' = [buffered EXCEPT ![d] = attempt[d]], d \in Senders,
                 NEW q \in Senders
          PROVE  \/ rxChan'[q] = rxChan[q] /\ buffered'[q] = buffered[q]
                 \/ buffered'[q] = attempt[q]
      BY <3>2, <3>3
    <3> QED BY <2>1, <3>1, <3>3 DEF d
  <2> QED BY <1>0, <2>1, <2>2 DEF HeldNow
<1>4. CASE UNCHANGED <<rxChan, buffered, attempt, pc>>
  BY <1>0, <1>4 DEF HeldNow
<1> QED BY <1>1, <1>2, <1>3, <1>4 DEF XDP!Next, XDP!Probe, XDP!HandleFrame, XDP!Lose, Senders

LEMMA XDPInvariant == XDP!Spec => []XDPInv
<1>1. XDP!Init => XDPInv
  BY XDPAtFirst
<1>2. XDPInv /\ [XDP!Next]_(XDP!vars) => XDPInv'
  <2>1. ASSUME XDPInv, XDP!Next PROVE XDPInv'
    <3>1. XDPTypes
      BY <2>1 DEF XDPInv
    <3> QED BY <2>1, <3>1, XDPTypesStep, FramesStep, XDPVerdictsStep, HopsStep, HeldStep
            DEF XDPInv
  <2>2. ASSUME XDPInv, UNCHANGED XDP!vars PROVE XDPInv'
    <3>1. UNCHANGED <<scanType, port, net, waiters, rx, rxChan, alive, buffered,
                      unheard, pc, attempt, state, sent, nextHops, answered>>
      BY <2>2 DEF XDP!vars, XDP!env, XDP!receiving
    <3>2. XDPTypes'
      BY <2>2, <3>1 DEF XDPInv, XDPTypes
    <3>3. FramesAreThePorts'
      BY <2>2, <3>1 DEF XDPInv, FramesAreThePorts, Says, HandedTo, XDP!Reply
    <3>4. XDPVerdicts' /\ HopsResolved' /\ HeldNow'
      BY <2>2, <3>1 DEF XDPInv, XDPVerdicts, HopsResolved, XDP!Resolved, HeldNow
    <3> QED BY <3>2, <3>3, <3>4 DEF XDPInv
  <2> QED BY <2>1, <2>2
<1> QED BY <1>1, <1>2, PTL DEF XDP!Spec

\* Over AF_XDP too a verdict is what the probed port itself answered, a host is
\* alive only if it answered, and one probe resolves a next hop before any
\* sends to it (scan/xdp.go, nexthop.go).
THEOREM XDPVerdictsAreTheHosts == XDP!Spec => [](XDP!VerdictIsTheHosts)
<1>1. XDPInv => XDP!VerdictIsTheHosts
  BY DEF XDPInv, XDPVerdicts, HopsResolved, XDP!VerdictIsTheHosts, Senders
<1> QED BY <1>1, XDPInvariant, PTL

\* What a probe takes came during its own attempt: each begins by emptying the
\* channel (xdp.go:865-870).
THEOREM FramesTakenAreFresh == XDP!Spec => [][XDP!TakesOnlyFresh]_(XDP!vars)
<1>1. XDPInv /\ [XDP!Next]_(XDP!vars) => [XDP!TakesOnlyFresh]_(XDP!vars)
  <2> SUFFICES ASSUME XDPInv, XDP!Next, NEW p \in Senders, answered'[p] # answered[p]
               PROVE  buffered[p] = attempt[p]
    BY DEF XDP!TakesOnlyFresh, Senders
  <2>1. ASSUME NEW q \in Senders, XDP!Receive(q) PROVE q = p
    BY <2>1 DEF XDP!Receive, XDPInv, XDPTypes
  <2>2. \/ UNCHANGED answered
        \/ \E q \in Senders : XDP!Receive(q)
    BY DEF XDP!Next, XDP!Probe, XDP!Ask, XDP!Answer, XDP!SendDecoy, XDP!Register,
           XDP!Begin, XDP!Queue, XDP!Congested, XDP!Timeout, XDP!Release,
           XDP!HandleFrame, XDP!Deliver, XDP!Lose, Senders
  <2>3. XDP!Receive(p)
    BY <2>1, <2>2
  <2> QED BY <2>3 DEF XDP!Receive, XDPInv, HeldNow
<1> QED BY <1>1, XDPInvariant, PTL DEF XDP!Spec

\* From its registration to its release a probe is the one of its port.
Registered ==
  \A p \in Senders : pc[p] \in Sending => waiters[Remote[p]] = p

LEMMA RegisteredStep ==
  ASSUME OneProbeAKey, XDPInv, Registered, XDP!Next PROVE Registered'
<1>0. /\ XDPTypes
      /\ \A p \in Senders : pc[p] \in Sending => p \notin XDPDecoys
  BY DEF XDPInv, HopsResolved
<1>k. ASSUME NEW p \in Senders \ XDPDecoys, NEW q \in Senders \ XDPDecoys,
             Remote[p] = Remote[q]
      PROVE  p = q
  BY <1>k DEF OneProbeAKey, Wait!rawRxKey, Senders
<1> USE OfSenders
<1>1. ASSUME NEW p \in Senders, XDP!Register(p) PROVE Registered'
  <2>1. /\ waiters' = [waiters EXCEPT ![Remote[p]] = p] /\ p \notin XDPDecoys
        /\ pc' = [pc EXCEPT ![p] = "drain"]
    BY <1>1 DEF XDP!Register
  <2>2. /\ \A k \in XDP!Remotes : waiters'[k] = IF k = Remote[p] THEN p ELSE waiters[k]
        /\ \A q \in Senders : pc'[q] = IF q = p THEN "drain" ELSE pc[q]
    BY <1>0, <2>1 DEF XDPTypes
  <2>3. \A q \in Senders : q # p /\ pc[q] \in Sending => Remote[q] # Remote[p]
    BY <1>0, <1>k, <2>1
  <2> QED BY <2>2, <2>3 DEF Registered
<1>2. ASSUME NEW p \in Senders, XDP!Release(p) PROVE Registered'
  <2>1. /\ waiters' = [waiters EXCEPT ![Remote[p]] = XDP!NoOne] /\ pc[p] \in Sending
        /\ pc' = [pc EXCEPT ![p] = "done"]
    BY <1>2 DEF XDP!Release, Sending
  <2>2. /\ \A k \in XDP!Remotes : k # Remote[p] => waiters'[k] = waiters[k]
        /\ \A q \in Senders : pc'[q] = IF q = p THEN "done" ELSE pc[q]
    BY <1>0, <2>1 DEF XDPTypes
  <2>3. \A q \in Senders : q # p /\ pc[q] \in Sending => Remote[q] # Remote[p]
    BY <1>0, <1>k, <2>1
  <2>4. "done" \notin Sending
    BY DEF Sending
  <2> QED BY <2>2, <2>3, <2>4 DEF Registered
<1>3. ASSUME NEW p \in Senders,
             \/ XDP!Ask(p) \/ XDP!Answer(p) \/ XDP!SendDecoy(p) \/ XDP!Begin(p)
             \/ XDP!Queue(p) \/ XDP!Congested(p) \/ XDP!Receive(p) \/ XDP!Timeout(p)
      PROVE  Registered'
  <2>1. /\ waiters' = waiters
        /\ \A q \in Senders : pc'[q] \in Sending => pc[q] \in Sending
    BY <1>0, <1>3 DEF XDPTypes, XDP!Ask, XDP!Answer, XDP!SendDecoy, XDP!Begin,
                      XDP!Queue, XDP!Congested, XDP!Receive, XDP!Timeout,
                      XDP!receiving, Sending
  <2> QED BY <2>1 DEF Registered
<1>4. CASE UNCHANGED <<waiters, pc>>
  BY <1>4 DEF Registered
<1> QED BY <1>1, <1>2, <1>3, <1>4
        DEF XDP!Next, XDP!Probe, XDP!HandleFrame, XDP!Deliver, XDP!Lose, Senders

\* registerXDPWaiter comes before the first frame, and decoys register nothing:
\* where no two probes have one host and port, no reply that comes while its
\* probe waits finds another or none, with decoys of those ports or without.
THEOREM NoFrameIsUnheard ==
  ASSUME OneProbeAKey PROVE XDP!Spec => [](XDP!NoReplyUnheard)
<1> DEFINE Heard == Registered /\ XDP!NoReplyUnheard
<1>1. XDP!Init => Heard
  BY DEF XDP!Init, Registered, Sending, Senders, XDP!NoReplyUnheard
<1>2. XDPInv /\ Heard /\ [XDP!Next]_(XDP!vars) => Heard'
  <2>1. ASSUME XDPInv, Heard, XDP!Next PROVE Heard'
    <3>1. Registered'
      BY <2>1, RegisteredStep
    <3>2. ASSUME XDP!HandleFrame PROVE XDP!NoReplyUnheard'
      <4>1. PICK r \in net :
              unheard' = IF /\ XDP!Delivers(r.says) /\ waiters[Remote[r.to]] # r.to
                            /\ pc[r.to] = "wait"
                         THEN unheard \cup {r.to} ELSE unheard
        BY <3>2 DEF XDP!HandleFrame
      <4>2. r.to \in Senders
        BY <2>1 DEF XDPInv, XDPTypes, Frame
      <4> QED BY <2>1, <4>1, <4>2 DEF Registered, Sending, XDP!NoReplyUnheard
    <3>3. XDP!HandleFrame \/ UNCHANGED unheard
      BY <2>1 DEF XDP!Next, XDP!Probe, XDP!Ask, XDP!Answer, XDP!SendDecoy,
                  XDP!Register, XDP!Begin, XDP!Queue, XDP!Congested, XDP!Receive,
                  XDP!Timeout, XDP!Release, XDP!Deliver, XDP!Lose, XDP!receiving
    <3> QED BY <2>1, <3>1, <3>2, <3>3 DEF XDP!NoReplyUnheard
  <2>2. ASSUME Heard, UNCHANGED XDP!vars PROVE Heard'
    BY <2>2 DEF Registered, XDP!NoReplyUnheard, XDP!vars, XDP!receiving
  <2> QED BY <2>1, <2>2
<1>3. Heard => XDP!NoReplyUnheard
  OBVIOUS
<1> QED BY <1>1, <1>2, <1>3, XDPInvariant, PTL DEF XDP!Spec

-----------------------------------------------------------------------------
(* Probes over UDP.  The socket keeps what has come until a call takes it.   *)

UDPTypes ==
  /\ port \in {"open", "closed", "silent"}
  /\ named \in BOOLEAN /\ spoofed \in BOOLEAN
  /\ sockErr \in BOOLEAN /\ rx \in Seq(BOOLEAN) /\ service \in BOOLEAN
  /\ pc \in {"dial", "write", "read", "done"} /\ attempt \in Nat
  /\ inTime \subseteq {"refusal", "reply"}

\* What waits on the socket came from the port, and while the probe lasts what
\* came in time still waits.
SocketKeeps ==
  /\ sockErr => port = "closed"
  /\ rx # <<>> => port = "open"
  /\ pc # "done" => /\ state[1] = "" /\ ~ service
                    /\ "refusal" \in inTime => pc = "read" /\ sockErr
                    /\ "reply" \in inTime => rx # <<>>
  /\ spoofed => pc \in {"dial", "done"}

UDPInv == UDPTypes /\ SocketKeeps /\ UDP!VerdictIsTheHosts /\ UDP!NoReplyUnheard

LEMMA UDPAtFirst == ASSUME UDP!Init PROVE UDPInv
<1>1. UDPTypes
  <2>1. <<>> \in Seq(BOOLEAN) /\ 0 \in Nat
    OBVIOUS
  <2> QED BY <2>1 DEF UDP!Init, UDPTypes
<1>3. SocketKeeps
  BY DEF UDP!Init, SocketKeeps
<1>2. UDP!VerdictIsTheHosts /\ UDP!NoReplyUnheard
  BY DEF UDP!Init, UDP!VerdictIsTheHosts, UDP!NoReplyUnheard
<1> QED BY <1>1, <1>2, <1>3 DEF UDPInv

\* A reply that waits is one of a sequence of them.
LEMMA NextReply ==
  ASSUME NEW s \in Seq(BOOLEAN), s # <<>>
  PROVE  Head(s) \in BOOLEAN /\ Tail(s) \in Seq(BOOLEAN)
  OBVIOUS

LEMMA UDPStep == ASSUME UDPInv, UDP!Next PROVE UDPInv'
<1>0. UDPTypes /\ SocketKeeps /\ UDP!VerdictIsTheHosts /\ UDP!NoReplyUnheard
  BY DEF UDPInv
<1> USE DEF UDP!question, UDP!Ends, UDP!VerdictIsTheHosts, UDP!NoReplyUnheard
<1>1. ASSUME UDP!Dial PROVE UDPInv'
  <2>1. UDPTypes' /\ SocketKeeps'
    BY <1>0, <1>1 DEF UDP!Dial, UDPTypes, SocketKeeps
  <2>2. /\ pc = "dial" /\ UNCHANGED <<port, named, spoofed, attempt, service>>
        /\ state' \in {state, <<"closed", "socket error">>, <<"filtered", "no spoofing">>}
    BY <1>1 DEF UDP!Dial
  <2>3. state[1] = "" /\ ~ service /\ (spoofed => attempt = 0)
    BY <1>0, <2>2 DEF SocketKeeps
  <2>6. /\ state'[1] \in {"", "closed", "filtered"}
        /\ state'[1] = "closed" => state'[2] = "socket error"
    <3>1. CASE state' = state
      BY <2>3, <3>1
    <3>2. CASE state' = <<"closed", "socket error">>
      BY <3>2
    <3>3. CASE state' = <<"filtered", "no spoofing">>
      BY <3>3
    <3> QED BY <2>2, <3>1, <3>2, <3>3
  <2>4. UDP!VerdictIsTheHosts'
    BY <2>2, <2>3, <2>6
  <2>5. UDP!NoReplyUnheard'
    BY <2>6
  <2> QED BY <2>1, <2>4, <2>5 DEF UDPInv
<1>2. ASSUME UDP!Write PROVE UDPInv'
  <2>1. /\ pc = "write" /\ pc' = "read" /\ attempt' = attempt + 1 /\ sockErr' = FALSE
        /\ UNCHANGED <<port, named, spoofed, rx, state, service, inTime>>
    BY <1>2 DEF UDP!Write
  <2>3. UDPTypes'
    <3>1. attempt' \in Nat
      <4>1. attempt \in Nat
        BY <1>0 DEF UDPTypes
      <4>2. attempt' = attempt + 1
        BY <2>1
      <4> QED BY <4>1, <4>2
    <3> QED BY <1>0, <2>1, <3>1 DEF UDPTypes
  <2>4. SocketKeeps'
    BY <1>0, <2>1 DEF SocketKeeps
  <2>2. UDP!VerdictIsTheHosts' /\ UDP!NoReplyUnheard'
    BY <1>0, <2>1 DEF SocketKeeps
  <2> QED BY <2>2, <2>3, <2>4 DEF UDPInv
<1>3. ASSUME UDP!Refused PROVE UDPInv'
  <2>1. UDPTypes' /\ SocketKeeps'
    BY <1>0, <1>3 DEF UDP!Refused, UDPTypes, SocketKeeps
  <2>2. UDP!VerdictIsTheHosts' /\ UDP!NoReplyUnheard'
    BY <1>0, <1>3 DEF UDP!Refused, UDPTypes, SocketKeeps
  <2> QED BY <2>1, <2>2 DEF UDPInv
<1>4. ASSUME UDP!Reply PROVE UDPInv'
  <2>1. Head(rx) \in BOOLEAN /\ rx' \in Seq(BOOLEAN) /\ rx # <<>>
    BY <1>0, <1>4, NextReply DEF UDP!Reply, UDPTypes
  <2>2. /\ pc = "read" /\ pc' = "done" /\ state' = <<"open", "response">>
        /\ service' = (named /\ Head(rx))
        /\ UNCHANGED <<port, named, spoofed, net, sockErr, attempt, inTime>>
    BY <1>4 DEF UDP!Reply
  <2>3. port = "open" /\ ~ spoofed
    BY <1>0, <2>1, <2>2 DEF SocketKeeps
  <2> HIDE DEF UDP!VerdictIsTheHosts, UDP!NoReplyUnheard
  <2>4. service' \in BOOLEAN /\ (service' => named)
    BY <1>0, <2>1, <2>2 DEF UDPTypes
  <2>5. UDPTypes'
    BY <1>0, <2>1, <2>2, <2>4 DEF UDPTypes
  <2>6. SocketKeeps'
    BY <1>0, <2>2, <2>3 DEF SocketKeeps
  <2>7. UDP!VerdictIsTheHosts' /\ UDP!NoReplyUnheard'
    BY <2>2, <2>3, <2>4 DEF UDP!VerdictIsTheHosts, UDP!NoReplyUnheard
  <2> QED BY <2>5, <2>6, <2>7 DEF UDPInv
<1>5. ASSUME UDP!Timeout PROVE UDPInv'
  <2>1. UDPTypes' /\ SocketKeeps'
    BY <1>0, <1>5 DEF UDP!Timeout, UDPTypes, SocketKeeps
  <2>2. /\ pc = "read" /\ ~ sockErr /\ rx = <<>>
        /\ UNCHANGED <<port, named, spoofed, attempt, service, inTime>>
        /\ state' = state \/ state'[1] = "open|filtered"
    BY <1>5 DEF UDP!Timeout
  <2>3. state[1] = "" /\ ~ service /\ inTime = {}
    BY <1>0, <2>2 DEF SocketKeeps, UDPTypes
  <2>4. UDP!VerdictIsTheHosts' /\ UDP!NoReplyUnheard'
    BY <1>0, <2>2, <2>3
  <2> QED BY <2>1, <2>4 DEF UDPInv
<1>6. ASSUME UDP!Answer PROVE UDPInv'
  <2>1. /\ pc # "done" /\ UNCHANGED <<port, named, spoofed, pc, attempt, state, service>>
        /\ \/ UNCHANGED <<sockErr, rx, inTime>>
           \/ /\ port = "closed" /\ sockErr' = TRUE /\ rx' = rx
              /\ inTime' = IF pc = "read" THEN inTime \cup {"refusal"} ELSE inTime
           \/ /\ port = "open" /\ sockErr' = sockErr
              /\ \E matches \in BOOLEAN : rx' = Append(rx, matches)
              /\ inTime' \in {inTime, inTime \cup {"reply"}}
    BY <1>6 DEF UDP!Answer
  <2>2. CASE UNCHANGED <<sockErr, rx, inTime>>
    BY <1>0, <2>1, <2>2 DEF UDPInv, UDPTypes, SocketKeeps
  <2>3. CASE /\ port = "closed" /\ sockErr' = TRUE /\ rx' = rx
             /\ inTime' = IF pc = "read" THEN inTime \cup {"refusal"} ELSE inTime
    BY <1>0, <2>1, <2>3 DEF UDPInv, UDPTypes, SocketKeeps
  <2>4. CASE /\ port = "open" /\ sockErr' = sockErr
             /\ \E matches \in BOOLEAN : rx' = Append(rx, matches)
             /\ inTime' \in {inTime, inTime \cup {"reply"}}
    <3>1. rx' \in Seq(BOOLEAN) /\ rx' # <<>>
      <4>1. PICK matches \in BOOLEAN : rx' = Append(rx, matches)
        BY <2>4
      <4>2. rx \in Seq(BOOLEAN)
        BY <1>0 DEF UDPTypes
      <4> QED BY <4>1, <4>2
    <3> QED BY <1>0, <2>1, <2>4, <3>1 DEF UDPInv, UDPTypes, SocketKeeps
  <2> QED BY <2>1, <2>2, <2>3, <2>4
<1> QED BY <1>1, <1>2, <1>3, <1>4, <1>5, <1>6 DEF UDP!Next

LEMMA UDPInvariant == UDP!Spec => []UDPInv
<1>1. UDP!Init => UDPInv
  BY UDPAtFirst
<1>2. UDPInv /\ [UDP!Next]_(UDP!vars) => UDPInv'
  <2>1. ASSUME UDPInv, UNCHANGED UDP!vars PROVE UDPInv'
    <3>1. UNCHANGED <<port, named, spoofed, net, sockErr, rx, pc, attempt, state,
                      service, inTime>>
      BY <2>1 DEF UDP!vars
    <3>2. UDPTypes' /\ SocketKeeps'
      BY <2>1, <3>1 DEF UDPInv, UDPTypes, SocketKeeps
    <3>3. UDP!VerdictIsTheHosts' /\ UDP!NoReplyUnheard'
      BY <2>1, <3>1 DEF UDPInv, UDP!VerdictIsTheHosts, UDP!NoReplyUnheard
    <3> QED BY <3>2, <3>3 DEF UDPInv
  <2> QED BY <2>1, UDPStep
<1> QED BY <1>1, <1>2, PTL DEF UDP!Spec

\* A UDP port is open only if it replied, closed only if it refused or no
\* socket could be had, whichever attempt the answer is to (udp.go:58-151).
THEOREM UDPVerdictsAreTheHosts == UDP!Spec => [](UDP!VerdictIsTheHosts)
<1>1. UDPInv => UDP!VerdictIsTheHosts
  BY DEF UDPInv
<1> QED BY <1>1, UDPInvariant, PTL

\* A UDP port called open|filtered has neither replied before the last read
\* ended nor refused during a read, for any number of attempts (udp.go).
THEOREM NoDatagramIsUnheard == UDP!Spec => [](UDP!NoReplyUnheard)
<1>1. UDPInv => UDP!NoReplyUnheard
  BY DEF UDPInv
<1> QED BY <1>1, UDPInvariant, PTL

-----------------------------------------------------------------------------
(* Idle scans.  Between the two readings of a job nothing disturbed, the      *)
(* counter stands at the first reading, or one above if the job's own SYN was *)
(* answered; and an RST keeps what it was then, however late it is read.  That *)
(* a job alone reads such an RST is that it never has more than one under way. *)

IDNumbers == 0 .. IDs - 1
NextID(i) == (i + 1) % IDs

LEMMA IDsGoRound ==
  ASSUME Idle!IdleAssumption, NEW i \in IDNumbers
  PROVE  /\ NextID(i) \in IDNumbers
         /\ (NextID(i) - i) % IDs = 1
         /\ (NextID(NextID(i)) - i) % IDs = 2
<1>0. IDs \in Nat /\ IDs > 2 /\ i \in Int /\ 0 <= i /\ i < IDs
  BY DEF Idle!IdleAssumption, IDNumbers
<1>1. ASSUME NEW k \in 0 .. IDs - 1 PROVE k % IDs = k /\ (k - IDs) % IDs = k /\ (k + IDs) % IDs = k
  BY <1>0, <1>1
<1>2. \A k \in IDNumbers : NextID(k) = IF k + 1 = IDs THEN 0 ELSE k + 1
  BY <1>0, <1>1 DEF NextID, IDNumbers
<1>3. NextID(i) \in IDNumbers
  BY <1>0, <1>2 DEF IDNumbers
<1>4. NextID(i) - i \in {1, 1 - IDs}
  BY <1>0, <1>2 DEF IDNumbers
<1>5. NextID(NextID(i)) - i \in {2, 2 - IDs}
  BY <1>0, <1>2, <1>3 DEF IDNumbers
<1>6. 1 % IDs = 1 /\ (1 - IDs) % IDs = 1 /\ 2 % IDs = 2 /\ (2 - IDs) % IDs = 2
  BY <1>0, <1>1
<1> QED BY <1>3, <1>4, <1>5, <1>6

IdleTypes ==
  /\ counter \in IDNumbers
  /\ pc \in [Jobs -> {"new", "first", "syn", "sleep", "second", "done"}]
  /\ initialID \in [Jobs -> IDNumbers]
  /\ state \in [Jobs -> {"none", "open", "closed", "filtered"}]
  /\ acks \in [Jobs -> Nat]
  /\ \A r \in rsts : r.id \in IDNumbers /\ r.clean \subseteq Jobs
  /\ unanswered \subseteq OpenPorts /\ answered \subseteq OpenPorts

\* A job's SYN is answered once, after it is sent; and it reads once at a time.
AnsweredOnce ==
  \A j \in Jobs :
    /\ pc[j] \in {"new", "first", "syn"} => j \notin unanswered /\ j \notin answered
    /\ pc[j] \in {"new", "first"} => j \notin disturbed
    /\ j \in unanswered => j \notin answered
    /\ pc[j] # "done" => state[j] = "none"
    /\ j \in receiving => pc[j] \in {"first", "second"}

Standing(j, heard) == IF j \in heard THEN NextID(initialID[j]) ELSE initialID[j]
CounterStands ==
  \A j \in Jobs \ disturbed :
    /\ pc[j] \in {"syn", "sleep", "second"} => counter = Standing(j, answered)
    /\ state[j] = "open"   => j \in answered
    /\ state[j] = "closed" => j \notin answered

\* The identifier of an RST that is the zombie's first packet since a job's first
\* reading, however late it comes.
RstsStand ==
  \A r \in rsts : \A j \in r.clean :
    /\ pc[j] \notin {"new", "first"}
    /\ pc[j] # "done" => /\ r.id = NextID(Standing(j, r.answered))
                         /\ j \in r.answered => j \in answered

\* A job that is alone and has not timed out has one packet under way when it
\* reads and none when it does not.
HasTheZombie(j) == j \notin retried /\ raisers \subseteq {j}
OneUnderWay(j) ==
  /\ pc[j] # "done" /\ j \notin receiving => acks[j] = 0 /\ rsts = {} /\ j \notin disturbed
  /\ j \in receiving =>
       \/ acks[j] = 1 /\ rsts = {} /\ j \notin disturbed
       \/ /\ acks[j] = 0
          /\ \A r, q \in rsts : r = q
          /\ \A r \in rsts : /\ pc[j] = "first" => r.id = counter
                             /\ pc[j] = "second" => j \in r.clean
  /\ state[j] \in {"open", "closed"} => j \notin disturbed
AloneReadsItsOwn == \A j \in Jobs : HasTheZombie(j) => OneUnderWay(j)

IdleInv == IdleTypes /\ AnsweredOnce /\ CounterStands /\ RstsStand /\ AloneReadsItsOwn

\* What the second reading of a job makes of its port.
LEMMA SecondReading ==
  ASSUME Idle!IdleAssumption, IdleInv, NEW r \in rsts, NEW j \in r.clean, pc[j] = "second"
  PROVE  Idle!Verdict(j, r.id) = IF j \in r.answered THEN "open" ELSE "closed"
<1>1. j \in Jobs /\ initialID[j] \in IDNumbers /\ r.id = NextID(Standing(j, r.answered))
  BY DEF IdleInv, IdleTypes, RstsStand
<1>2. Idle!Difference(j, r.id) = IF j \in r.answered THEN 2 ELSE 1
  BY <1>1, IDsGoRound DEF Idle!Difference, Standing
<1> QED BY <1>2 DEF Idle!Verdict

LEMMA IdleAtFirst == ASSUME Idle!IdleAssumption, Idle!Init PROVE IdleInv
<1>1. 0 \in IDNumbers /\ Starts \subseteq IDNumbers
  BY DEF IDNumbers, Idle!IdleAssumption
<1>2. IdleTypes /\ AnsweredOnce /\ CounterStands
  BY <1>1 DEF Idle!Init, IdleTypes, AnsweredOnce, CounterStands
<1>3. RstsStand /\ AloneReadsItsOwn
  BY DEF Idle!Init, RstsStand, AloneReadsItsOwn, OneUnderWay
<1> QED BY <1>2, <1>3 DEF IdleInv

\* A packet of the zombie's, that is no answer to a job's SYN.
LEMMA RaiseHolds ==
  ASSUME Idle!IdleAssumption, IdleInv, NEW who, Idle!Raise(who, {}),
         UNCHANGED <<pc, receiving, initialID, state, unanswered, answered, retried>>
  PROVE  /\ counter' = NextID(counter) /\ counter' \in IDNumbers
         /\ AnsweredOnce' /\ CounterStands'
         /\ \A j \in Jobs : HasTheZombie(j)' => HasTheZombie(j) /\ who = j
<1>1. /\ counter' = NextID(counter) /\ raisers' = raisers \cup {who}
      /\ disturbed' = disturbed \cup Idle!Between
  BY DEF Idle!Raise, Idle!Raised, NextID
<1>2. counter' \in IDNumbers
  BY <1>1, IDsGoRound DEF IdleInv, IdleTypes
<1>3. AnsweredOnce' /\ CounterStands'
  BY <1>1 DEF IdleInv, IdleTypes, AnsweredOnce, CounterStands, Standing, Idle!Between
<1>4. \A j \in Jobs : HasTheZombie(j)' => HasTheZombie(j) /\ who = j
  BY <1>1 DEF HasTheZombie
<1> QED BY <1>1, <1>2, <1>3, <1>4

LEMMA ZombieAnswersHolds ==
  ASSUME Idle!IdleAssumption, IdleInv, NEW i \in Jobs, Idle!ZombieAnswers(i)
  PROVE  IdleInv'
<1> DEFINE q == [id |-> Idle!Raised, clean |-> Idle!Between \ disturbed,
                 answered |-> answered]
<1>1. /\ acks[i] > 0 /\ acks' = [acks EXCEPT ![i] = @ - 1]
      /\ rsts' = rsts \cup {q} /\ Idle!Raise(i, {})
      /\ UNCHANGED <<pc, receiving, initialID, state, unanswered, answered, retried>>
      /\ raisers' = raisers \cup {i} /\ disturbed' = disturbed \cup Idle!Between
  BY DEF Idle!ZombieAnswers, Idle!Raise
<1>2. /\ q.id = NextID(counter) /\ q.clean = Idle!Between \ disturbed
      /\ q.answered = answered
  BY DEF Idle!Raised, NextID
<1> HIDE DEF q
<1>3. /\ counter' = NextID(counter) /\ counter' \in IDNumbers
      /\ AnsweredOnce' /\ CounterStands'
      /\ \A j \in Jobs : HasTheZombie(j)' => HasTheZombie(j) /\ i = j
  BY <1>1, RaiseHolds
<1>4. acks' \in [Jobs -> Nat]
  BY <1>1 DEF IdleInv, IdleTypes
<1>5. IdleTypes'
  BY <1>1, <1>2, <1>3, <1>4 DEF IdleInv, IdleTypes, Idle!Between
<1>6. RstsStand'
  <2> SUFFICES ASSUME NEW r \in rsts', NEW j \in r.clean
               PROVE  /\ pc[j] \notin {"new", "first"}
                      /\ pc[j] # "done" => /\ r.id = NextID(Standing(j, r.answered))
                                           /\ j \in r.answered => j \in answered
    BY <1>1 DEF RstsStand, Standing
  <2>1. CASE r \in rsts
    BY <2>1 DEF IdleInv, RstsStand
  <2>2. CASE r = q
    <3>1. j \in Jobs \ disturbed /\ pc[j] \in {"syn", "sleep", "second"}
      BY <1>2, <2>2 DEF Idle!Between
    <3>2. counter = Standing(j, answered)
      BY <3>1 DEF IdleInv, CounterStands
    <3> QED BY <1>2, <2>2, <3>1, <3>2
  <2> QED BY <1>1, <2>1, <2>2
<1>7. AloneReadsItsOwn'
  <2> SUFFICES ASSUME HasTheZombie(i)' PROVE OneUnderWay(i)'
    BY <1>3 DEF AloneReadsItsOwn
  <2>1. OneUnderWay(i) /\ acks[i] \in Nat /\ acks'[i] = acks[i] - 1
    BY <1>1, <1>3 DEF IdleInv, AloneReadsItsOwn, IdleTypes
  <2>2. pc[i] # "done" => i \in receiving /\ acks[i] = 1 /\ rsts = {} /\ i \notin disturbed
    BY <1>1, <2>1 DEF OneUnderWay
  <2>3. i \in receiving => pc[i] # "done"
    BY DEF IdleInv, AnsweredOnce
  <2>4. pc[i] = "second" => i \in q.clean
    BY <1>2, <2>2 DEF Idle!Between
  <2>5. state[i] \in {"open", "closed"} => pc[i] = "done" /\ i \notin disturbed
    BY <2>1 DEF IdleInv, AnsweredOnce, OneUnderWay
  <2>6. pc[i] = "done" => i \notin Idle!Between
    BY DEF Idle!Between
  <2> QED BY <1>1, <1>2, <1>3, <2>1, <2>2, <2>3, <2>4, <2>5, <2>6 DEF OneUnderWay
<1> QED BY <1>3, <1>5, <1>6, <1>7 DEF IdleInv

LEMMA NoiseHolds ==
  ASSUME Idle!IdleAssumption, IdleInv, Idle!Noise
  PROVE  IdleInv'
<1>1. /\ Idle!Raise("others", {})
      /\ UNCHANGED <<pc, acks, rsts, receiving, initialID, state, unanswered, answered,
                     retried>>
  BY DEF Idle!Noise
<1>2. /\ counter' \in IDNumbers /\ AnsweredOnce' /\ CounterStands'
      /\ \A j \in Jobs : ~ HasTheZombie(j)'
  BY <1>1, RaiseHolds DEF Idle!IdleAssumption
<1>3. IdleTypes' /\ RstsStand'
  BY <1>1, <1>2 DEF IdleInv, IdleTypes, RstsStand, Standing
<1>4. AloneReadsItsOwn'
  BY <1>2 DEF AloneReadsItsOwn
<1> QED BY <1>2, <1>3, <1>4 DEF IdleInv

LEMMA AnswerHolds ==
  ASSUME Idle!IdleAssumption, IdleInv, NEW i \in Jobs, Idle!Answer(i)
  PROVE  IdleInv'
<1>1. /\ i \in unanswered /\ i \in OpenPorts /\ i \notin answered
      /\ unanswered' = unanswered \ {i}
      /\ answered' = IF pc[i] = "done" THEN answered ELSE answered \cup {i}
      /\ counter' = NextID(counter) /\ raisers' = raisers \cup {i}
      /\ disturbed' = disturbed \cup (Idle!Between \ {i})
      /\ UNCHANGED <<pc, receiving, acks, rsts, initialID, state, retried>>
  BY DEF Idle!Answer, Idle!Raise, Idle!Raised, Idle!At, NextID, IdleInv, IdleTypes,
         AnsweredOnce
<1>2. pc[i] \notin {"new", "first", "syn"} /\ counter' \in IDNumbers
  BY <1>1, IDsGoRound DEF IdleInv, IdleTypes, AnsweredOnce
<1>3. IdleTypes'
  BY <1>1, <1>2 DEF IdleInv, IdleTypes
<1>4. AnsweredOnce'
  BY <1>1, <1>2 DEF IdleInv, IdleTypes, AnsweredOnce, Idle!Between
<1>5. CounterStands'
  <2> SUFFICES ASSUME NEW j \in Jobs \ disturbed'
               PROVE  /\ pc[j] \in {"syn", "sleep", "second"}
                           => counter' = Standing(j, answered)'
                      /\ state[j] = "open"   => j \in answered'
                      /\ state[j] = "closed" => j \notin answered'
    BY <1>1 DEF CounterStands
  <2>1. j \in Jobs \ disturbed /\ (j = i \/ pc[j] \notin {"syn", "sleep", "second"})
    BY <1>1 DEF Idle!Between
  <2>2. state[j] # "none" => pc[j] = "done"
    BY <2>1 DEF IdleInv, AnsweredOnce
  <2>3. CASE j = i
    BY <1>1, <2>1, <2>2, <2>3 DEF IdleInv, CounterStands, Standing
  <2>4. CASE j # i
    BY <1>1, <2>1, <2>2, <2>4 DEF IdleInv, CounterStands, Standing
  <2> QED BY <2>3, <2>4
<1>6. RstsStand'
  BY <1>1 DEF IdleInv, RstsStand, Standing
<1>7. AloneReadsItsOwn'
  <2> SUFFICES ASSUME HasTheZombie(i), HasTheZombie(i)' PROVE OneUnderWay(i)'
    BY <1>1 DEF AloneReadsItsOwn, HasTheZombie
  <2> QED BY <1>1, <1>2 DEF IdleInv, AloneReadsItsOwn, OneUnderWay, Idle!Between
<1> QED BY <1>3, <1>4, <1>5, <1>6, <1>7 DEF IdleInv

\* A job that starts to read, sends an ACK or its SYN, or gives an attempt up.
LEMMA JobHolds ==
  ASSUME Idle!IdleAssumption, IdleInv, NEW i \in Jobs,
         \/ Idle!Listen(i) \/ Idle!SendACK(i) \/ Idle!Timeout(i) \/ Idle!GiveUp(i)
         \/ Idle!SendSpoofedSYN(i)
  PROVE  IdleInv'
<1> USE DEF Idle!At, Idle!Go
<1>1. CASE Idle!Listen(i)
  <2>1. /\ pc[i] \in {"new", "sleep"}
        /\ pc' = [pc EXCEPT ![i] = IF pc[i] = "new" THEN "first" ELSE "second"]
        /\ UNCHANGED <<counter, receiving, acks, rsts, initialID, state, unanswered,
                       answered, disturbed, raisers, retried>>
    BY <1>1 DEF Idle!Listen
  <2>2. IdleTypes' /\ AnsweredOnce' /\ CounterStands' /\ RstsStand'
    BY <2>1 DEF IdleInv, IdleTypes, AnsweredOnce, CounterStands, RstsStand, Standing
  <2>3. AloneReadsItsOwn'
    BY <2>1 DEF IdleInv, IdleTypes, AnsweredOnce, AloneReadsItsOwn, HasTheZombie,
                OneUnderWay
  <2> QED BY <2>2, <2>3 DEF IdleInv
<1>2. CASE Idle!SendACK(i)
  <2>1. /\ pc[i] \in {"first", "second"} /\ i \notin receiving
        /\ acks' = [acks EXCEPT ![i] = @ + 1] /\ receiving' = receiving \cup {i}
        /\ UNCHANGED <<counter, pc, rsts, initialID, state, unanswered,
                       answered, disturbed, raisers, retried>>
    BY <1>2 DEF Idle!SendACK
  <2>2. IdleTypes' /\ AnsweredOnce' /\ CounterStands' /\ RstsStand'
    BY <2>1 DEF IdleInv, IdleTypes, AnsweredOnce, CounterStands, RstsStand, Standing
  <2>3. AloneReadsItsOwn'
    BY <2>1 DEF IdleInv, IdleTypes, AnsweredOnce, AloneReadsItsOwn, HasTheZombie,
                OneUnderWay
  <2> QED BY <2>2, <2>3 DEF IdleInv
<1>3. CASE Idle!Timeout(i)
  <2>1. /\ receiving' = receiving \ {i} /\ retried' = retried \cup {i}
        /\ UNCHANGED <<counter, pc, acks, rsts, initialID, state, unanswered,
                       answered, disturbed, raisers>>
    BY <1>3 DEF Idle!Timeout
  <2> QED BY <2>1 DEF IdleInv, IdleTypes, AnsweredOnce, CounterStands, RstsStand, Standing,
                      AloneReadsItsOwn, HasTheZombie, OneUnderWay
<1>4. CASE Idle!GiveUp(i)
  <2>1. /\ state' = [state EXCEPT ![i] = "filtered"]
        /\ pc' = [pc EXCEPT ![i] = "done"] /\ receiving' = receiving \ {i}
        /\ UNCHANGED <<counter, acks, rsts, initialID, unanswered,
                       answered, disturbed, raisers, retried>>
    BY <1>4 DEF Idle!GiveUp
  <2>2. IdleTypes' /\ AnsweredOnce' /\ CounterStands' /\ RstsStand'
    BY <2>1 DEF IdleInv, IdleTypes, AnsweredOnce, CounterStands, RstsStand, Standing
  <2>3. AloneReadsItsOwn'
    BY <2>1 DEF IdleInv, IdleTypes, AnsweredOnce, AloneReadsItsOwn, HasTheZombie,
                OneUnderWay
  <2> QED BY <2>2, <2>3 DEF IdleInv
<1>5. CASE Idle!SendSpoofedSYN(i)
  <2>1. /\ pc[i] = "syn" /\ pc' = [pc EXCEPT ![i] = "sleep"]
        /\ unanswered' = IF i \in OpenPorts THEN unanswered \cup {i} ELSE unanswered
        /\ UNCHANGED <<counter, receiving, acks, rsts, initialID, state,
                       answered, disturbed, raisers, retried>>
    BY <1>5 DEF Idle!SendSpoofedSYN
  <2>2. IdleTypes' /\ AnsweredOnce' /\ CounterStands' /\ RstsStand'
    BY <2>1 DEF IdleInv, IdleTypes, AnsweredOnce, CounterStands, RstsStand, Standing
  <2>3. AloneReadsItsOwn'
    BY <2>1 DEF IdleInv, IdleTypes, AnsweredOnce, AloneReadsItsOwn, HasTheZombie,
                OneUnderWay
  <2> QED BY <2>2, <2>3 DEF IdleInv
<1> QED BY <1>1, <1>2, <1>3, <1>4, <1>5

LEMMA ReadHolds ==
  ASSUME Idle!IdleAssumption, IdleInv, NEW i \in Jobs, NEW r \in rsts, Idle!Read(i, r)
  PROVE  IdleInv'
<1>0. /\ i \in receiving /\ pc[i] \in {"first", "second"}
      /\ r.id \in IDNumbers /\ r.clean \subseteq Jobs
      /\ rsts' = rsts \ {r} /\ receiving' = receiving \ {i}
      /\ UNCHANGED <<counter, acks, unanswered, raisers, retried>>
  BY DEF Idle!Read, IdleInv, AnsweredOnce, IdleTypes
<1>1. CASE pc[i] = "first"
  <2>1. /\ initialID' = [initialID EXCEPT ![i] = r.id]
        /\ pc' = [pc EXCEPT ![i] = "syn"]
        /\ disturbed' = IF r.id = counter THEN disturbed ELSE disturbed \cup {i}
        /\ UNCHANGED <<state, answered>>
    BY <1>1 DEF Idle!Read, Idle!At, Idle!Go
  <2>2. IdleTypes' /\ AnsweredOnce'
    BY <1>0, <1>1, <2>1 DEF IdleInv, IdleTypes, AnsweredOnce
  <2>3. CounterStands' /\ RstsStand'
    BY <1>0, <1>1, <2>1 DEF IdleInv, IdleTypes, AnsweredOnce, CounterStands, RstsStand,
                            Standing
  <2>4. AloneReadsItsOwn'
    BY <1>0, <1>1, <2>1 DEF IdleInv, IdleTypes, AnsweredOnce, AloneReadsItsOwn,
                            HasTheZombie, OneUnderWay
  <2> QED BY <2>2, <2>3, <2>4 DEF IdleInv
<1>2. CASE pc[i] = "second"
  <2>1. /\ state' = [state EXCEPT ![i] = Idle!Verdict(i, r.id)]
        /\ pc' = [pc EXCEPT ![i] = "done"]
        /\ disturbed' = IF i \in r.clean THEN disturbed \ {i} ELSE disturbed \cup {i}
        /\ answered' = IF i \in r.answered THEN answered ELSE answered \ {i}
        /\ initialID' = initialID
    BY <1>2 DEF Idle!Read, Idle!At, Idle!Go
  <2>2. Idle!Verdict(i, r.id) \in {"open", "closed", "filtered"}
    BY DEF Idle!Verdict
  <2>3. i \in r.clean => /\ Idle!Verdict(i, r.id)
                              = IF i \in r.answered THEN "open" ELSE "closed"
                         /\ i \in r.answered => i \in answered
    BY <1>2, SecondReading DEF IdleInv, RstsStand
  <2> HIDE DEF Idle!Verdict
  <2>4. IdleTypes' /\ AnsweredOnce'
    BY <1>0, <1>2, <2>1, <2>2 DEF IdleInv, IdleTypes, AnsweredOnce
  <2>5. CounterStands' /\ RstsStand'
    BY <1>0, <1>2, <2>1, <2>3 DEF IdleInv, IdleTypes, AnsweredOnce, CounterStands,
                                  RstsStand, Standing
  <2>6. AloneReadsItsOwn'
    BY <1>0, <1>2, <2>1 DEF IdleInv, IdleTypes, AnsweredOnce, AloneReadsItsOwn,
                            HasTheZombie, OneUnderWay
  <2> QED BY <2>4, <2>5, <2>6 DEF IdleInv
<1> QED BY <1>0, <1>1, <1>2

LEMMA IdleInvariant ==
  ASSUME Idle!IdleAssumption PROVE Idle!Spec => []IdleInv
<1>1. Idle!Init => IdleInv
  BY IdleAtFirst
<1>2. IdleInv /\ [Idle!Next]_(Idle!vars) => IdleInv'
  <2>1. ASSUME IdleInv, UNCHANGED Idle!vars PROVE IdleInv'
    BY <2>1 DEF IdleInv, IdleTypes, AnsweredOnce, CounterStands, RstsStand, Standing,
                AloneReadsItsOwn, HasTheZombie, OneUnderWay, Idle!vars
  <2>2. ASSUME IdleInv, Idle!Next PROVE IdleInv'
    BY <2>2, ZombieAnswersHolds, NoiseHolds, AnswerHolds, JobHolds, ReadHolds DEF Idle!Next
  <2> QED BY <2>1, <2>2
<1> QED BY <1>1, <1>2, PTL DEF Idle!Spec

\* The RST that is the zombie's only packet between a job's two readings, but for
\* the answer to its SYN, tells its port's state, for any jobs, ports and
\* attempts, wherever the identifier wraps (idle.go:154-168).
THEOREM TheUndisturbedAreRight ==
  ASSUME Idle!IdleAssumption PROVE Idle!Spec => [](Idle!UndisturbedIsRight)
<1>1. IdleInv => Idle!UndisturbedIsRight
  BY SecondReading
     DEF IdleInv, IdleTypes, CounterStands, Idle!UndisturbedIsRight, Idle!At
<1> QED BY <1>1, IdleInvariant, PTL

\* And that is the one read by a job that has the zombie to itself and no attempt
\* of which timed out.
THEOREM TheAloneAreUndisturbed ==
  ASSUME Idle!IdleAssumption PROVE Idle!Spec => [](Idle!AloneIsUndisturbed)
<1>1. IdleInv => Idle!AloneIsUndisturbed
  <2> SUFFICES ASSUME IdleInv, NEW j \in Jobs, HasTheZombie(j)
               PROVE  /\ state[j] \in {"open", "closed"} => j \notin disturbed
                      /\ pc[j] = "second" => \A r \in rsts : j \in r.clean
    BY DEF Idle!AloneIsUndisturbed, Idle!At, HasTheZombie
  <2> QED BY DEF IdleInv, AloneReadsItsOwn, OneUnderWay
<1> QED BY <1>1, IdleInvariant, PTL

-----------------------------------------------------------------------------
(* The rate controller.                                                    *)
(*                                                                         *)
(* Reports and losses are counted: a worker that is done counting one has  *)
(* put it into the counter, and whoever takes from the counter judges it.  *)
(* The estimate stays between the samples because a sample is folded into  *)
(* the value it is compared with; that the first sample may be folded into *)
(* before it is stored is why the invariant is about nobody being at the   *)
(* store, not about the estimator being marked initialised.                *)

\* On the way to its first atomic operation on the window.
Sampling == {"first", "store", "store var", "load", "fold", "fold var"}

RateLabels == {"probe", "count", "add", "claim", "take", "adjust"} \cup Sampling

\* Whether a report, or a loss, is still to be put into its counter.
ReportsOf(label)  == IF label \in Sampling \cup {"count"} THEN 1 ELSE 0
LossesOf(label, r) == IF label = "add" \/ (label = "count" /\ r = Rate!Lost) THEN 1 ELSE 0

ToCount == { w \in Workers : pc[w] \in Sampling \cup {"count"} }
ToAdd   == { w \in Workers : pc[w] = "add" \/ (pc[w] = "count" /\ job[w] = Rate!Lost) }

\* A worker that samples has an answer, and the mean it loaded was the mean.
AtMost(b)  == b = 0 \/ \E s \in history.samples : b <= s
Sampled(b) == \E s \in history.samples : s <= b

RateTypes ==
  /\ srtt \in Nat /\ rttvar \in Nat /\ inited \in BOOLEAN
  /\ sent \in Nat /\ lost \in Nat
  /\ pc \in [Workers -> RateLabels] /\ job \in [Workers -> Latencies \cup {Rate!Lost}]
  /\ loaded \in [Workers -> Nat]
  /\ history \in [samples : SUBSET Latencies, reports : Nat, lost : Nat,
                  judged : Nat, judgedLost : Nat]
  /\ \A w \in Workers :
       /\ pc[w] \in Sampling => job[w] \in history.samples
       /\ pc[w] \in {"fold", "fold var"} => AtMost(loaded[w])

\* The mean is at most a sample, and once stored at least one.
MeanWithin == AtMost(srtt) /\ AtMost(rttvar)
MeanStored == inited /\ (\A w \in Workers : pc[w] # "store") => Sampled(srtt)

RateInv == RateTypes /\ Rate!LossesConserved /\ MeanWithin /\ MeanStored

-----------------------------------------------------------------------------
(* Arithmetic. *)

Between(a, v, b) ==
  v \in Nat /\ (v <= a \/ v <= b) /\ (a <= v \/ b <= v)

\* An eighth, or a quarter, of the way from one value to another lies between
\* the two.
LEMMA PartOfTheWay ==
  ASSUME NEW a \in Nat, NEW b \in Nat, NEW n \in {4, 8}
  PROVE  Between(a, a + Rate!Quo(b - a, n), b)
<1> USE DEF Between
<1>1. \A c \in Nat : c \div n \in Nat /\ c \div n <= c
  OBVIOUS
<1>2. CASE a <= b
  <2>1. b - a \in Nat /\ Rate!Quo(b - a, n) = (b - a) \div n
    BY <1>2 DEF Rate!Quo
  <2> QED BY <1>1, <1>2, <2>1
<1>3. CASE b < a
  <2>1. a - b \in Nat /\ Rate!Quo(b - a, n) = -((a - b) \div n)
    <3>1. ~ (b - a >= 0) /\ -(b - a) = a - b
      BY <1>3
    <3> QED BY <1>3, <3>1 DEF Rate!Quo
  <2>2. (a - b) \div n \in Nat /\ (a - b) \div n <= a - b
    BY <1>1, <2>1
  <2> QED BY <1>3, <2>1, <2>2
<1> QED BY <1>2, <1>3

LEMMA Half == \A c \in Nat : c \div 2 \in Nat /\ c \div 2 <= c
  OBVIOUS

LEMMA Distance ==
  ASSUME NEW a \in Nat, NEW b \in Nat
  PROVE  Rate!Abs(a - b) \in Nat /\ (Rate!Abs(a - b) <= a \/ Rate!Abs(a - b) <= b)
  BY DEF Rate!Abs, Rate!Bigger

\* What lies between a value and a sample is within the samples if it was.
LEMMA AtMostSmaller ==
  ASSUME NEW a \in Nat, NEW b \in Nat, history.samples \subseteq Nat,
         AtMost(a), b <= a
  PROVE  AtMost(b)
  BY DEF AtMost

\* A set that gains or loses one element, or neither.
LEMMA OneMoves ==
  ASSUME NEW A, NEW B, IsFiniteSet(A), NEW w, A \ {w} = B \ {w}
  PROVE  /\ Cardinality(A) \in Nat
         /\ Cardinality(B) = Cardinality(A) - (IF w \in A THEN 1 ELSE 0)
                                            + (IF w \in B THEN 1 ELSE 0)
<1>1. Cardinality(A) \in Nat
  BY FS_CardinalityType
<1>2. CASE w \in A /\ w \in B
  <2>1. A = B
    BY <1>2
  <2> QED BY <1>1, <1>2, <2>1
<1>3. CASE w \notin A /\ w \notin B
  <2>1. A = B
    BY <1>3
  <2> QED BY <1>1, <1>3, <2>1
<1>4. CASE w \in A /\ w \notin B
  <2>1. B = A \ {w}
    BY <1>4
  <2> QED BY <1>1, <1>4, <2>1, FS_RemoveElement
<1>5. CASE w \notin A /\ w \in B
  <2>1. B = A \cup {w}
    BY <1>5
  <2> QED BY <1>1, <1>5, <2>1, FS_AddElement
<1> QED BY <1>1, <1>2, <1>3, <1>4, <1>5

\* The module's sets are counted as the library's are.
LEMMA CountedAlike ==
  ASSUME NEW S
  PROVE  /\ Rate!Cardinality(S) = Cardinality(S)
         /\ Rate!IsFiniteSet(S) <=> IsFiniteSet(S)
  BY DEF Rate!Cardinality, Rate!IsFiniteSet, Cardinality, IsFiniteSet

LEMMA LossesAreCounts ==
  /\ Rate!LossesConserved
       <=> /\ history.judged + sent + Cardinality(ToCount) = history.reports
           /\ history.judgedLost + lost + Cardinality(ToAdd) = history.lost
  /\ Rate!LossesConserved'
       <=> /\ history'.judged + sent' + Cardinality(ToCount') = history'.reports
           /\ history'.judgedLost + lost' + Cardinality(ToAdd') = history'.lost
<1>1. Sampling \cup {"count"}
        = {"first", "store", "store var", "load", "fold", "fold var", "count"}
  BY DEF Sampling
<1>2. /\ Rate!Cardinality(ToCount) = Cardinality(ToCount)
      /\ Rate!Cardinality(ToAdd) = Cardinality(ToAdd)
      /\ Rate!Cardinality(ToCount') = Cardinality(ToCount')
      /\ Rate!Cardinality(ToAdd') = Cardinality(ToAdd')
  BY CountedAlike
<1> QED BY <1>1, <1>2 DEF Rate!LossesConserved, ToCount, ToAdd

-----------------------------------------------------------------------------
(* The invariant. *)

LEMMA RateAtFirst == Rate!RateAssumption /\ Rate!Init => RateInv
<1> SUFFICES ASSUME Rate!RateAssumption, Rate!Init PROVE RateInv
  OBVIOUS
<1> USE DEF Rate!Init, Rate!RateAssumption
<1>1. RateTypes
  BY DEF RateTypes, RateLabels, Sampling, Rate!Lost
<1>2. Rate!LossesConserved
  <2>1. ToCount = {} /\ ToAdd = {}
    BY DEF ToCount, ToAdd, Sampling
  <2> QED BY <2>1, FS_EmptySet, LossesAreCounts
<1>3. MeanWithin /\ MeanStored
  BY DEF MeanWithin, MeanStored, AtMost
<1> QED BY <1>1, <1>2, <1>3 DEF RateInv

\* The next operation of one worker, as far as the counters are concerned.
LEMMA CountersStep ==
  ASSUME Rate!RateAssumption, RateInv, NEW w \in Workers,
         NEW there, Rate!Go(w, there),
         \A v \in Workers \ {w} : job'[v] = job[v]
  PROVE  /\ Cardinality(ToCount) \in Nat /\ Cardinality(ToAdd) \in Nat
         /\ Cardinality(ToCount')
              = Cardinality(ToCount) - ReportsOf(pc[w]) + ReportsOf(there)
         /\ Cardinality(ToAdd')
              = Cardinality(ToAdd) - LossesOf(pc[w], job[w]) + LossesOf(there, job'[w])
<1>1. pc'[w] = there /\ \A v \in Workers \ {w} : pc'[v] = pc[v]
  BY DEF Rate!Go, RateInv, RateTypes
<1>2. ToCount \subseteq Workers /\ ToAdd \subseteq Workers
  BY DEF ToCount, ToAdd
<1>3. IsFiniteSet(ToCount) /\ IsFiniteSet(ToAdd)
  <2>1. IsFiniteSet(Workers)
    BY CountedAlike DEF Rate!RateAssumption
  <2> QED BY <1>2, <2>1, FS_Subset
<1>4. /\ ToCount \ {w} = ToCount' \ {w}
      /\ w \in ToCount <=> pc[w] \in Sampling \cup {"count"}
      /\ w \in ToCount' <=> there \in Sampling \cup {"count"}
  BY <1>1 DEF ToCount, Sampling
<1>5. /\ ToAdd \ {w} = ToAdd' \ {w}
      /\ w \in ToAdd <=> pc[w] = "add" \/ (pc[w] = "count" /\ job[w] = Rate!Lost)
      /\ w \in ToAdd' <=> there = "add" \/ (there = "count" /\ job'[w] = Rate!Lost)
  BY <1>1 DEF ToAdd, Rate!Lost
<1>6. /\ Cardinality(ToCount) \in Nat
      /\ Cardinality(ToCount') = Cardinality(ToCount) - (IF w \in ToCount THEN 1 ELSE 0)
                                                     + (IF w \in ToCount' THEN 1 ELSE 0)
  BY <1>3, <1>4, OneMoves
<1>7. /\ Cardinality(ToAdd) \in Nat
      /\ Cardinality(ToAdd') = Cardinality(ToAdd) - (IF w \in ToAdd THEN 1 ELSE 0)
                                                 + (IF w \in ToAdd' THEN 1 ELSE 0)
  BY <1>3, <1>5, OneMoves
<1> QED BY <1>4, <1>5, <1>6, <1>7 DEF ReportsOf, LossesOf

LEMMA LabelCounts ==
  /\ \A l \in Sampling \cup {"count"} : ReportsOf(l) = 1
  /\ \A l \in {"probe", "add", "claim", "take", "adjust"} : ReportsOf(l) = 0
  /\ \A r : /\ LossesOf("add", r) = 1
            /\ LossesOf("count", r) = IF r = Rate!Lost THEN 1 ELSE 0
            /\ \A l \in Sampling \cup {"probe", "claim", "take", "adjust"} : LossesOf(l, r) = 0
  BY DEF ReportsOf, LossesOf, Sampling

\* Every sum of LossesConserved is kept by every operation.
LEMMA LossesStep ==
  ASSUME Rate!RateAssumption, RateInv, Rate!Next PROVE Rate!LossesConserved'
<1> DEFINE c == Cardinality(ToCount)
           a == Cardinality(ToAdd)
<1>0. /\ history.judged + sent + c = history.reports
      /\ history.judgedLost + lost + a = history.lost
      /\ sent \in Nat /\ lost \in Nat
      /\ history \in [samples : SUBSET Latencies, reports : Nat, lost : Nat,
                      judged : Nat, judgedLost : Nat]
  BY LossesAreCounts DEF RateInv, RateTypes
<1>1. PICK w \in Workers :
        \/ Rate!Result(w) \/ Rate!FirstSample(w) \/ Rate!StoreMean(w)
        \/ Rate!StoreVar(w) \/ Rate!LoadMean(w)
        \/ Rate!FoldMean(w) \/ Rate!FoldVar(w) \/ Rate!Count(w) \/ Rate!AddLoss(w)
        \/ Rate!ClaimWindow(w)
        \/ Rate!TakeLosses(w) \/ Rate!AdjustRate(w)
  BY DEF Rate!Next
<1>2. SUFFICES /\ history'.judged + sent' + c' = history'.reports
               /\ history'.judgedLost + lost' + a' = history'.lost
  BY LossesAreCounts
<1>3. ASSUME NEW there, Rate!Go(w, there), \A v \in Workers \ {w} : job'[v] = job[v]
      PROVE  /\ c \in Nat /\ a \in Nat
             /\ c' = c - ReportsOf(pc[w]) + ReportsOf(there)
             /\ a' = a - LossesOf(pc[w], job[w]) + LossesOf(there, job'[w])
  BY <1>3, CountersStep
<1> HIDE DEF c, a
<1>4. CASE Rate!Result(w)
  <2>1. PICK r \in Latencies \cup {Rate!Lost} :
          /\ job' = [job EXCEPT ![w] = r]
          /\ Rate!Go(w, IF r = Rate!Lost THEN "count" ELSE "first")
          /\ history' = [history EXCEPT
               !.reports = @ + 1,
               !.lost    = IF r = Rate!Lost THEN @ + 1 ELSE @,
               !.samples = IF r = Rate!Lost THEN @ ELSE @ \cup {r}]
    BY <1>4 DEF Rate!Result
  <2>2. /\ pc[w] = "probe" /\ UNCHANGED <<sent, lost>> /\ job'[w] = r
        /\ \A v \in Workers \ {w} : job'[v] = job[v]
    BY <1>4, <2>1 DEF Rate!Result, Rate!At, Rate!limiter, RateInv, RateTypes
  <2>3. /\ c \in Nat /\ a \in Nat
        /\ c' = c - ReportsOf("probe") + ReportsOf(IF r = Rate!Lost THEN "count" ELSE "first")
        /\ a' = a - LossesOf("probe", job[w]) + LossesOf(IF r = Rate!Lost THEN "count" ELSE "first", r)
    BY <1>3, <2>1, <2>2
  <2>4. c' = c + 1 /\ a' = a + (IF r = Rate!Lost THEN 1 ELSE 0)
    <3>1. "count" \in Sampling \cup {"count"} /\ "first" \in Sampling
      BY DEF Sampling
    <3> QED BY <2>3, <3>1, LabelCounts
  <2>5. /\ history'.judged = history.judged /\ history'.judgedLost = history.judgedLost
        /\ history'.reports = history.reports + 1
        /\ history'.lost = history.lost + (IF r = Rate!Lost THEN 1 ELSE 0)
    BY <1>0, <2>1
  <2> QED BY <1>0, <2>2, <2>3, <2>4, <2>5
<1>5. CASE \/ Rate!FirstSample(w) \/ Rate!StoreMean(w) \/ Rate!StoreVar(w)
           \/ Rate!LoadMean(w)
           \/ Rate!FoldMean(w) \/ Rate!FoldVar(w)
  <2>1. /\ pc[w] \in Sampling /\ UNCHANGED <<sent, lost, job, history>>
        /\ \E there \in Sampling \cup {"count"} : Rate!Go(w, there)
    BY <1>5 DEF Rate!FirstSample, Rate!StoreMean, Rate!StoreVar, Rate!LoadMean,
                Rate!FoldMean, Rate!FoldVar,
                Rate!At, Rate!limiter, Sampling
  <2>2. PICK there \in Sampling \cup {"count"} : Rate!Go(w, there)
    BY <2>1
  <2>3. job[w] # Rate!Lost
    BY <2>1 DEF RateInv, RateTypes, Rate!RateAssumption, Rate!Lost
  <2>4. /\ c \in Nat /\ a \in Nat
        /\ c' = c - ReportsOf(pc[w]) + ReportsOf(there)
        /\ a' = a - LossesOf(pc[w], job[w]) + LossesOf(there, job[w])
    BY <1>3, <2>1, <2>2
  <2>5. ReportsOf(pc[w]) = 1 /\ ReportsOf(there) = 1
    BY <2>1, LabelCounts
  <2>6. LossesOf(pc[w], job[w]) = 0 /\ LossesOf(there, job[w]) = 0
    BY <2>1, <2>3, LabelCounts
  <2> QED BY <1>0, <2>1, <2>4, <2>5, <2>6
<1>6. CASE Rate!Count(w)
  <2>1. /\ pc[w] = "count" /\ sent' = sent + 1 /\ UNCHANGED <<lost, job, history>>
        /\ Rate!Go(w, IF job[w] = Rate!Lost THEN "add" ELSE "claim")
    BY <1>6 DEF Rate!Count, Rate!At
  <2>2. /\ c \in Nat /\ a \in Nat
        /\ c' = c - ReportsOf("count") + ReportsOf(IF job[w] = Rate!Lost THEN "add" ELSE "claim")
        /\ a' = a - LossesOf("count", job[w])
                 + LossesOf(IF job[w] = Rate!Lost THEN "add" ELSE "claim", job[w])
    BY <1>3, <2>1
  <2>3. c' = c - 1 /\ a' = a
    BY <2>2, LabelCounts
  <2> QED BY <1>0, <2>1, <2>2, <2>3
<1>7. CASE Rate!AddLoss(w)
  <2>1. /\ pc[w] = "add" /\ lost' = lost + 1 /\ UNCHANGED <<sent, job, history>>
        /\ Rate!Go(w, "claim")
    BY <1>7 DEF Rate!AddLoss, Rate!At
  <2>2. /\ c \in Nat /\ a \in Nat
        /\ c' = c - ReportsOf("add") + ReportsOf("claim")
        /\ a' = a - LossesOf("add", job[w]) + LossesOf("claim", job[w])
    BY <1>3, <2>1
  <2> QED BY <1>0, <2>1, <2>2, LabelCounts
<1>8. CASE Rate!ClaimWindow(w)
  <2>1. /\ pc[w] = "claim" /\ UNCHANGED <<lost, job>>
        /\ \E there \in {"take", "probe"} : Rate!Go(w, there)
    BY <1>8 DEF Rate!ClaimWindow, Rate!At
  <2>2. PICK there \in {"take", "probe"} : Rate!Go(w, there)
    BY <2>1
  <2>3. /\ c \in Nat /\ a \in Nat
        /\ c' = c - ReportsOf("claim") + ReportsOf(there)
        /\ a' = a - LossesOf("claim", job[w]) + LossesOf(there, job[w])
    BY <1>3, <2>1, <2>2
  <2>4. c' = c /\ a' = a
    BY <2>3, LabelCounts
  <2>5. /\ history'.judged \in Int /\ sent' \in Int
        /\ history'.judged + sent' = history.judged + sent
        /\ history'.reports = history.reports /\ history'.lost = history.lost
        /\ history'.judgedLost = history.judgedLost
    <3>1. CASE Rate!CountUnchanged(w)
      <4>1. sent' = 0 /\ history' = [history EXCEPT !.judged = @ + sent]
        BY <1>8, <3>1 DEF Rate!ClaimWindow, Rate!CountUnchanged, Rate!Note
      <4> QED BY <1>0, <4>1
    <3>2. CASE ~ Rate!CountUnchanged(w)
      BY <1>0, <1>8, <3>2 DEF Rate!ClaimWindow
    <3> QED BY <3>1, <3>2
  <2> QED BY <1>0, <2>1, <2>3, <2>4, <2>5
<1>9. CASE Rate!TakeLosses(w)
  <2>1. /\ pc[w] = "take" /\ lost' = 0 /\ Rate!Go(w, "adjust")
        /\ history' = [history EXCEPT !.judgedLost = @ + lost]
        /\ UNCHANGED <<sent, job>>
    BY <1>9 DEF Rate!TakeLosses, Rate!At, Rate!Left, Rate!Note
  <2>2. /\ c \in Nat /\ a \in Nat
        /\ c' = c - ReportsOf("take") + ReportsOf("adjust")
        /\ a' = a - LossesOf("take", job[w]) + LossesOf("adjust", job[w])
    BY <1>3, <2>1
  <2>3. c' = c /\ a' = a
    BY <2>2, LabelCounts
  <2>4. /\ history'.judgedLost = history.judgedLost + lost
        /\ history'.judged = history.judged
        /\ history'.reports = history.reports /\ history'.lost = history.lost
    BY <1>0, <2>1
  <2> QED BY <1>0, <2>1, <2>2, <2>3, <2>4
<1>10. CASE Rate!AdjustRate(w)
  <2>1. pc[w] = "adjust" /\ Rate!Go(w, "probe") /\ UNCHANGED <<sent, lost, job, history>>
    BY <1>10 DEF Rate!AdjustRate, Rate!At
  <2>2. /\ c \in Nat /\ a \in Nat
        /\ c' = c - ReportsOf("adjust") + ReportsOf("probe")
        /\ a' = a - LossesOf("adjust", job[w]) + LossesOf("probe", job[w])
    BY <1>3, <2>1
  <2>3. c' = c /\ a' = a
    BY <2>2, LabelCounts
  <2> QED BY <1>0, <2>1, <2>2, <2>3
<1> QED BY <1>1, <1>4, <1>5, <1>6, <1>7, <1>8, <1>9, <1>10

\* No sample is forgotten.
LEMMA SamplesGrow ==
  ASSUME RateInv, Rate!Next
  PROVE  /\ history.samples \subseteq history'.samples
         /\ history' \in [samples : SUBSET Latencies, reports : Nat, lost : Nat,
                          judged : Nat, judgedLost : Nat]
<1>0. /\ history \in [samples : SUBSET Latencies, reports : Nat, lost : Nat,
                     judged : Nat, judgedLost : Nat]
      /\ lost \in Nat /\ \A w \in Workers : loaded[w] \in Nat
  BY DEF RateInv, RateTypes
<1>1. PICK w \in Workers :
        \/ Rate!Result(w) \/ Rate!FirstSample(w) \/ Rate!StoreMean(w)
        \/ Rate!StoreVar(w) \/ Rate!LoadMean(w)
        \/ Rate!FoldMean(w) \/ Rate!FoldVar(w) \/ Rate!Count(w) \/ Rate!AddLoss(w)
        \/ Rate!ClaimWindow(w)
        \/ Rate!TakeLosses(w) \/ Rate!AdjustRate(w)
  BY DEF Rate!Next
<1>2. CASE Rate!Result(w)
  <2>1. PICK r \in Latencies \cup {Rate!Lost} :
          history' = [history EXCEPT
            !.reports = @ + 1,
            !.lost    = IF r = Rate!Lost THEN @ + 1 ELSE @,
            !.samples = IF r = Rate!Lost THEN @ ELSE @ \cup {r}]
    BY <1>2 DEF Rate!Result
  <2> DEFINE S == IF r = Rate!Lost THEN history.samples ELSE history.samples \cup {r}
             l == IF r = Rate!Lost THEN history.lost + 1 ELSE history.lost
  <2>2. history' = [samples |-> S, reports |-> history.reports + 1, lost |-> l,
                    judged |-> history.judged, judgedLost |-> history.judgedLost]
    BY <1>0, <2>1
  <2>3. /\ history.samples \in SUBSET Latencies /\ history.reports \in Nat
        /\ history.lost \in Nat /\ history.judged \in Nat /\ history.judgedLost \in Nat
    BY <1>0
  <2>4. S \in SUBSET Latencies /\ history.samples \subseteq S /\ l \in Nat
    BY <2>3
  <2> HIDE DEF S, l
  <2> QED BY <2>2, <2>3, <2>4
<1>3. CASE Rate!ClaimWindow(w)
  <2>1. history' = history \/ history' = [history EXCEPT !.judged = @ + loaded[w]]
    BY <1>3 DEF Rate!ClaimWindow, Rate!Note
  <2>2. CASE history' = history
    BY <1>0, <2>2
  <2>3. CASE history' = [history EXCEPT !.judged = @ + loaded[w]]
    BY <1>0, <2>3
  <2> QED BY <2>1, <2>2, <2>3
<1>4. CASE Rate!TakeLosses(w)
  <2>1. history' = [history EXCEPT !.judgedLost = @ + lost]
    BY <1>4 DEF Rate!TakeLosses, Rate!Note
  <2> QED BY <1>0, <2>1
<1>5. CASE UNCHANGED history
  BY <1>0, <1>5
<1> QED BY <1>1, <1>2, <1>3, <1>4, <1>5
        DEF Rate!FirstSample, Rate!StoreMean, Rate!StoreVar, Rate!LoadMean,
            Rate!FoldMean, Rate!FoldVar, Rate!Count,
            Rate!AddLoss, Rate!AdjustRate

LEMMA RateTypesStep ==
  ASSUME Rate!RateAssumption, RateInv, Rate!Next PROVE RateTypes'
<1> USE DEF RateInv, RateTypes, Rate!RateAssumption, Rate!At, Rate!Go
<1>0. /\ history.samples \subseteq history'.samples
      /\ history' \in [samples : SUBSET Latencies, reports : Nat, lost : Nat,
                       judged : Nat, judgedLost : Nat]
  BY SamplesGrow
<1>1. PICK w \in Workers :
        \/ Rate!Result(w) \/ Rate!FirstSample(w) \/ Rate!StoreMean(w)
        \/ Rate!StoreVar(w) \/ Rate!LoadMean(w)
        \/ Rate!FoldMean(w) \/ Rate!FoldVar(w) \/ Rate!Count(w) \/ Rate!AddLoss(w)
        \/ Rate!ClaimWindow(w)
        \/ Rate!TakeLosses(w) \/ Rate!AdjustRate(w)
  BY DEF Rate!Next
<1>2. CASE Rate!Result(w)
  <2>1. PICK r \in Latencies \cup {Rate!Lost} :
          /\ job' = [job EXCEPT ![w] = r]
          /\ pc' = [pc EXCEPT ![w] = IF r = Rate!Lost THEN "count" ELSE "first"]
          /\ r # Rate!Lost => r \in history'.samples
    BY <1>2 DEF Rate!Result
  <2>2. \A v \in Workers : pc'[v] \in Sampling => job'[v] \in history'.samples
    BY <1>0, <2>1 DEF Sampling, RateLabels
  <2>3. \A v \in Workers : pc'[v] \in {"fold", "fold var"} => AtMost(loaded[v])'
    BY <1>0, <1>2, <2>1 DEF AtMost, Rate!Result
  <2>4. pc' \in [Workers -> RateLabels] /\ job' \in [Workers -> Latencies \cup {Rate!Lost}]
    BY <2>1 DEF RateLabels, Sampling
  <2> QED BY <1>0, <1>2, <2>2, <2>3, <2>4 DEF Rate!Result, Rate!estimator, Rate!limiter
<1>3. CASE Rate!FirstSample(w) \/ Rate!StoreMean(w) \/ Rate!StoreVar(w)
  <2>1. /\ pc[w] \in Sampling /\ UNCHANGED <<Rate!limiter, job, loaded, history>>
        /\ \E there \in {"store", "store var", "load", "count"} : Rate!Go(w, there)
    BY <1>3 DEF Rate!FirstSample, Rate!StoreMean, Rate!StoreVar, Sampling
  <2>2. /\ pc' \in [Workers -> RateLabels]
        /\ \A v \in Workers : pc'[v] \in Sampling => pc[v] \in Sampling
        /\ \A v \in Workers : pc'[v] \in {"fold", "fold var"} => pc[v] = pc'[v]
    BY <2>1 DEF RateLabels, Sampling
  <2>3. srtt' \in Nat /\ rttvar' \in Nat /\ inited' \in BOOLEAN
    <3>1. job[w] \in Nat
      BY <2>1
    <3>2. job[w] \div 2 \in Nat
      BY <3>1, Half
    <3> QED BY <1>3, <3>1, <3>2 DEF Rate!FirstSample, Rate!StoreMean, Rate!StoreVar
  <2> QED BY <2>1, <2>2, <2>3 DEF Rate!limiter, AtMost
<1>4. CASE Rate!LoadMean(w)
  <2>1. /\ pc[w] \in Sampling /\ UNCHANGED <<Rate!estimator, Rate!limiter, job, history>>
        /\ Rate!Go(w, "fold") /\ loaded' = [loaded EXCEPT ![w] = srtt]
    BY <1>4 DEF Rate!LoadMean, Sampling
  <2>2. /\ pc' \in [Workers -> RateLabels]
        /\ \A v \in Workers : pc'[v] \in Sampling => pc[v] \in Sampling
        /\ \A v \in Workers : pc'[v] \in {"fold", "fold var"} => pc[v] = pc'[v] \/ v = w
    BY <2>1 DEF RateLabels, Sampling
  <2>3. AtMost(srtt)
    BY DEF MeanWithin
  <2> QED BY <2>1, <2>2, <2>3 DEF Rate!estimator, Rate!limiter, AtMost
<1>5. CASE Rate!FoldMean(w)
  <2>1. job[w] \in Nat /\ loaded[w] \in Nat
    BY <1>5 DEF Rate!FoldMean, Sampling
  <2>2. srtt' \in Nat
    <3>1. Between(loaded[w], loaded[w] + Rate!Quo(job[w] - loaded[w], 8), job[w])
      BY <2>1, PartOfTheWay
    <3>2. srtt' \in {srtt, loaded[w] + Rate!Quo(job[w] - loaded[w], 8)}
      BY <1>5 DEF Rate!FoldMean
    <3> QED BY <3>1, <3>2 DEF Between
  <2>3. /\ pc' \in [Workers -> RateLabels]
        /\ \A v \in Workers : pc'[v] \in Sampling => pc[v] \in Sampling
        /\ \A v \in Workers : pc'[v] \in {"fold", "fold var"}
                             => pc[v] \in {"fold", "fold var"}
    BY <1>5 DEF Rate!FoldMean, RateLabels, Sampling
  <2> QED BY <1>5, <2>2, <2>3 DEF Rate!FoldMean, Rate!limiter, AtMost
<1>6. CASE Rate!FoldVar(w)
  <2>1. job[w] \in Nat /\ loaded[w] \in Nat
    BY <1>6 DEF Rate!FoldVar, Sampling
  <2>2. rttvar' \in Nat
    <3>1. Rate!Abs(job[w] - loaded[w]) \in Nat
      BY <2>1, Distance
    <3>2. Between(rttvar, rttvar + Rate!Quo(Rate!Abs(job[w] - loaded[w]) - rttvar, 4),
                  Rate!Abs(job[w] - loaded[w]))
      BY <3>1, PartOfTheWay
    <3>3. rttvar' = rttvar + Rate!Quo(Rate!Abs(job[w] - loaded[w]) - rttvar, 4)
      BY <1>6 DEF Rate!FoldVar
    <3> QED BY <3>2, <3>3 DEF Between
  <2>3. /\ pc' \in [Workers -> RateLabels]
        /\ \A v \in Workers : pc'[v] \in Sampling => pc[v] \in Sampling
        /\ \A v \in Workers : pc'[v] \in {"fold", "fold var"}
                             => pc[v] \in {"fold", "fold var"}
    BY <1>6 DEF Rate!FoldVar, RateLabels, Sampling
  <2> QED BY <1>6, <2>2, <2>3 DEF Rate!FoldVar, Rate!limiter, AtMost
<1>7. CASE Rate!Count(w) \/ Rate!AddLoss(w) \/ Rate!ClaimWindow(w) \/ Rate!TakeLosses(w) \/ Rate!AdjustRate(w)
  <2>1. PICK there \in {"probe", "add", "claim", "take", "adjust"} :
          pc' = [pc EXCEPT ![w] = there]
    BY <1>7 DEF Rate!Count, Rate!AddLoss, Rate!ClaimWindow, Rate!TakeLosses,
                Rate!AdjustRate
  <2>2. /\ pc' \in [Workers -> RateLabels]
        /\ \A v \in Workers : pc'[v] \in Sampling => v # w /\ pc[v] = pc'[v]
    BY <2>1 DEF RateLabels, Sampling
  <2>3. /\ UNCHANGED <<Rate!estimator, job>>
        /\ sent' \in Nat /\ lost' \in Nat /\ loaded' \in [Workers -> Nat]
        /\ \A v \in Workers \ {w} : loaded'[v] = loaded[v]
    <3> HIDE DEF RateInv, Rate!RateAssumption, RateTypes
    <3>0. sent \in Nat /\ lost \in Nat /\ loaded \in [Workers -> Nat]
      BY DEF RateInv, RateTypes
    <3>1. CASE Rate!Count(w)
      <4>1. /\ sent' = sent + 1 /\ UNCHANGED <<Rate!estimator, lost, job>>
            /\ loaded' = [loaded EXCEPT ![w] = sent + 1]
        BY <3>1 DEF Rate!Count
      <4> QED BY <3>0, <4>1
    <3>2. CASE Rate!AddLoss(w)
      <4>1. lost' = lost + 1 /\ UNCHANGED <<Rate!estimator, sent, job, loaded>>
        BY <3>2 DEF Rate!AddLoss
      <4> QED BY <3>0, <4>1
    <3>3. CASE Rate!ClaimWindow(w)
      <4>1. sent' \in {0, sent} /\ UNCHANGED <<Rate!estimator, lost, job, loaded>>
        BY <3>3 DEF Rate!ClaimWindow
      <4> QED BY <3>0, <4>1
    <3>4. CASE Rate!TakeLosses(w)
      <4>1. lost' = 0 /\ UNCHANGED <<Rate!estimator, sent, job, loaded>>
        BY <3>4 DEF Rate!TakeLosses, Rate!Left
      <4> QED BY <3>0, <4>1
    <3>5. CASE Rate!AdjustRate(w)
      <4>1. UNCHANGED <<Rate!estimator, sent, lost, job, loaded>>
        BY <3>5 DEF Rate!AdjustRate
      <4> QED BY <3>0, <4>1
    <3> QED BY <1>7, <3>1, <3>2, <3>3, <3>4, <3>5
  <2> QED BY <1>0, <2>2, <2>3 DEF Rate!estimator, AtMost, Sampling
<1> QED BY <1>1, <1>2, <1>3, <1>4, <1>5, <1>6, <1>7

\* The mean moves part of the way to a sample, and so does the variance.
LEMMA WithinStep ==
  ASSUME Rate!RateAssumption, RateInv, Rate!Next PROVE MeanWithin'
<1>0. /\ history.samples \subseteq history'.samples /\ history'.samples \subseteq Nat
      /\ history.samples \subseteq Nat
  BY SamplesGrow DEF RateInv, RateTypes, Rate!RateAssumption
<1>1. ASSUME NEW b \in Nat, AtMost(b)
      PROVE  b = 0 \/ \E s \in history'.samples : b <= s
  BY <1>0, <1>1 DEF AtMost
<1>2. SUFFICES AtMost(srtt') /\ AtMost(rttvar')
  <2>1. srtt' \in Nat /\ rttvar' \in Nat
    BY RateTypesStep DEF RateTypes
  <2> QED BY <1>1, <1>2, <2>1 DEF MeanWithin, AtMost
<1>3. AtMost(srtt) /\ AtMost(rttvar) /\ srtt \in Nat /\ rttvar \in Nat
  BY DEF RateInv, RateTypes, MeanWithin
<1>4. PICK w \in Workers :
        \/ Rate!Result(w) \/ Rate!FirstSample(w) \/ Rate!StoreMean(w)
        \/ Rate!StoreVar(w) \/ Rate!LoadMean(w)
        \/ Rate!FoldMean(w) \/ Rate!FoldVar(w) \/ Rate!Count(w) \/ Rate!AddLoss(w)
        \/ Rate!ClaimWindow(w)
        \/ Rate!TakeLosses(w) \/ Rate!AdjustRate(w)
  BY DEF Rate!Next
<1>5. ASSUME pc[w] \in Sampling
      PROVE  job[w] \in history.samples /\ job[w] \in Nat
             /\ (\A b \in Nat : b <= job[w] => AtMost(b))
  BY <1>0, <1>5 DEF RateInv, RateTypes, AtMost
<1>6. CASE Rate!StoreMean(w)
  <2>1. pc[w] \in Sampling /\ srtt' = job[w] /\ rttvar' = rttvar
    BY <1>6 DEF Rate!StoreMean, Rate!At, Sampling
  <2> QED BY <1>3, <1>5, <2>1
<1>7. CASE Rate!StoreVar(w)
  <2>1. pc[w] \in Sampling /\ srtt' = srtt /\ rttvar' = job[w] \div 2
    BY <1>7 DEF Rate!StoreVar, Rate!At, Sampling
  <2>2. job[w] \div 2 \in Nat /\ job[w] \div 2 <= job[w]
    BY <1>5, <2>1, Half
  <2> QED BY <1>3, <1>5, <2>1, <2>2
<1>8. CASE Rate!FoldMean(w)
  <2>1. /\ pc[w] \in Sampling /\ rttvar' = rttvar
        /\ \/ srtt' = srtt
           \/ srtt' = loaded[w] + Rate!Quo(job[w] - loaded[w], 8)
    BY <1>8 DEF Rate!FoldMean, Rate!At, Sampling
  <2>2. loaded[w] \in Nat /\ AtMost(loaded[w])
    BY <1>8 DEF Rate!FoldMean, Rate!At, RateInv, RateTypes
  <2>3. Between(loaded[w], loaded[w] + Rate!Quo(job[w] - loaded[w], 8), job[w])
    BY <1>5, <2>1, <2>2, PartOfTheWay
  <2> DEFINE m == loaded[w] + Rate!Quo(job[w] - loaded[w], 8)
  <2>4. m \in Nat /\ (m <= loaded[w] \/ m <= job[w])
    BY <2>3 DEF Between
  <2>5. srtt' \in {srtt, m} /\ rttvar' = rttvar
    BY <2>1
  <2> HIDE DEF m
  <2>6. AtMost(m)
    BY <1>0, <1>5, <2>1, <2>2, <2>4, AtMostSmaller
  <2> QED BY <1>3, <2>5, <2>6
<1>9. CASE Rate!FoldVar(w)
  <2>1. /\ pc[w] \in Sampling /\ srtt' = srtt
        /\ rttvar' = rttvar + Rate!Quo(Rate!Abs(job[w] - loaded[w]) - rttvar, 4)
    BY <1>9 DEF Rate!FoldVar, Rate!At, Sampling
  <2>2. loaded[w] \in Nat /\ AtMost(loaded[w])
    BY <1>9 DEF Rate!FoldVar, Rate!At, RateInv, RateTypes
  <2> DEFINE d == Rate!Abs(job[w] - loaded[w])
             v == rttvar + Rate!Quo(d - rttvar, 4)
  <2>3. d \in Nat /\ (d <= job[w] \/ d <= loaded[w])
    BY <1>5, <2>1, <2>2, Distance
  <2> HIDE DEF d
  <2>4. AtMost(d)
    BY <1>0, <1>5, <2>1, <2>2, <2>3, AtMostSmaller
  <2>5. v \in Nat /\ (v <= d \/ v <= rttvar)
    <3>1. Between(rttvar, v, d)
      BY <1>3, <2>3, PartOfTheWay
    <3> QED BY <3>1 DEF Between
  <2>6. rttvar' = v
    BY <2>1 DEF d
  <2> HIDE DEF v
  <2>7. AtMost(v)
    BY <1>0, <1>3, <2>3, <2>4, <2>5, AtMostSmaller
  <2> QED BY <1>3, <2>1, <2>6, <2>7
<1>10. CASE UNCHANGED <<srtt, rttvar>>
  BY <1>3, <1>10
<1>11. Rate!Result(w) \/ Rate!FirstSample(w) \/ Rate!LoadMean(w) \/ Rate!Count(w) \/ Rate!AddLoss(w)
         \/ Rate!ClaimWindow(w) \/ Rate!TakeLosses(w)
         \/ Rate!AdjustRate(w) => UNCHANGED <<srtt, rttvar>>
  BY DEF Rate!Result, Rate!FirstSample, Rate!LoadMean, Rate!Count, Rate!AddLoss,
         Rate!ClaimWindow, Rate!TakeLosses,
         Rate!AdjustRate, Rate!estimator
<1> QED BY <1>4, <1>6, <1>7, <1>8, <1>9, <1>10, <1>11

\* Marking the estimator initialised and storing the first sample are two
\* steps of one worker, who stands between them at the store.
LEMMA StoredStep ==
  ASSUME Rate!RateAssumption, RateInv, Rate!Next PROVE MeanStored'
<1>0. history.samples \subseteq history'.samples /\ history.samples \subseteq Nat
  BY SamplesGrow DEF RateInv, RateTypes, Rate!RateAssumption
<1>1. PICK w \in Workers :
        \/ Rate!Result(w) \/ Rate!FirstSample(w) \/ Rate!StoreMean(w)
        \/ Rate!StoreVar(w) \/ Rate!LoadMean(w)
        \/ Rate!FoldMean(w) \/ Rate!FoldVar(w) \/ Rate!Count(w) \/ Rate!AddLoss(w)
        \/ Rate!ClaimWindow(w)
        \/ Rate!TakeLosses(w) \/ Rate!AdjustRate(w)
  BY DEF Rate!Next
<1>2. pc \in [Workers -> RateLabels] /\ srtt \in Nat
  BY DEF RateInv, RateTypes
<1>3. ASSUME NEW s \in history.samples, s <= srtt'
      PROVE  MeanStored'
  BY <1>0, <1>3 DEF MeanStored, Sampled
<1>4. ASSUME inited' = inited, srtt' = srtt,
             NEW there, Rate!Go(w, there), pc[w] # "store"
      PROVE  MeanStored'
  <2>1. CASE inited /\ \A v \in Workers : pc[v] # "store"
    <3>1. PICK s \in history.samples : s <= srtt
      BY <2>1 DEF RateInv, MeanStored, Sampled
    <3> QED BY <1>3, <1>4, <3>1
  <2>2. CASE ~ inited
    BY <1>4, <2>2 DEF MeanStored
  <2>3. ASSUME NEW v \in Workers, pc[v] = "store"
        PROVE  MeanStored'
    <3>1. pc'[v] = "store"
      BY <1>2, <1>4, <2>3 DEF Rate!Go
    <3> QED BY <3>1 DEF MeanStored
  <2> QED BY <2>1, <2>2, <2>3
<1>5. CASE Rate!FirstSample(w)
  <2>1. CASE inited
    BY <1>4, <1>5, <2>1 DEF Rate!FirstSample, Rate!At
  <2>2. CASE ~ inited
    <3>1. pc'[w] = "store"
      BY <1>2, <1>5, <2>2 DEF Rate!FirstSample, Rate!Go
    <3> QED BY <3>1 DEF MeanStored
  <2> QED BY <2>1, <2>2
<1>6. CASE Rate!StoreMean(w)
  <2>1. job[w] \in history.samples /\ srtt' = job[w]
    BY <1>6 DEF Rate!StoreMean, Rate!At, RateInv, RateTypes, Sampling
  <2> QED BY <1>0, <1>3, <2>1
<1>7. CASE Rate!FoldMean(w)
  <2>1. CASE ~ Rate!MeanUnchanged(w)
    BY <1>4, <1>7, <2>1 DEF Rate!FoldMean, Rate!At
  <2>2. CASE Rate!MeanUnchanged(w)
    <3>1. /\ pc[w] = "fold" /\ Rate!Go(w, "fold var") /\ inited' = inited
          /\ srtt' = srtt + Rate!Quo(job[w] - srtt, 8)
      BY <1>7, <2>2 DEF Rate!FoldMean, Rate!At, Rate!MeanUnchanged
    <3>2. job[w] \in history.samples /\ job[w] \in Nat
      BY <1>0, <3>1 DEF RateInv, RateTypes, Sampling
    <3>3. srtt' \in Nat /\ (job[w] <= srtt' \/ srtt <= srtt')
      <4>1. Between(srtt, srtt + Rate!Quo(job[w] - srtt, 8), job[w])
        BY <1>2, <3>2, PartOfTheWay
      <4> QED BY <3>1, <4>1 DEF Between
    <3>4. CASE inited /\ \A v \in Workers : pc[v] # "store"
      <4>1. PICK s \in history.samples : s <= srtt
        BY <3>4 DEF RateInv, MeanStored, Sampled
      <4>2. s <= srtt' \/ job[w] <= srtt'
        BY <1>0, <1>2, <3>3, <4>1
      <4> QED BY <1>3, <3>2, <4>2
    <3>5. CASE ~ inited
      BY <3>1, <3>5 DEF MeanStored
    <3>6. ASSUME NEW v \in Workers, pc[v] = "store"
          PROVE  MeanStored'
      <4>1. pc'[v] = "store"
        BY <1>2, <3>1, <3>6 DEF Rate!Go
      <4> QED BY <4>1 DEF MeanStored
    <3> QED BY <3>4, <3>5, <3>6
  <2> QED BY <2>1, <2>2
<1>8. CASE \/ Rate!Result(w) \/ Rate!StoreVar(w) \/ Rate!LoadMean(w)
           \/ Rate!FoldVar(w) \/ Rate!Count(w)
           \/ Rate!AddLoss(w) \/ Rate!ClaimWindow(w) \/ Rate!TakeLosses(w)
           \/ Rate!AdjustRate(w)
  <2>1. pc[w] # "store" /\ inited' = inited /\ srtt' = srtt
    BY <1>8 DEF Rate!Result, Rate!StoreVar, Rate!LoadMean, Rate!FoldVar, Rate!Count,
                Rate!AddLoss, Rate!ClaimWindow,
                Rate!TakeLosses, Rate!AdjustRate, Rate!estimator, Rate!At
  <2>2. PICK there \in RateLabels : Rate!Go(w, there)
    BY <1>8 DEF Rate!Result, Rate!StoreVar, Rate!LoadMean, Rate!FoldVar, Rate!Count,
                Rate!AddLoss, Rate!ClaimWindow,
                Rate!TakeLosses, Rate!AdjustRate, RateLabels, Sampling
  <2> QED BY <1>4, <2>1, <2>2
<1> QED BY <1>1, <1>5, <1>6, <1>7, <1>8

LEMMA RateInvariant == ASSUME Rate!RateAssumption PROVE Rate!Spec => []RateInv
<1>1. Rate!Init => RateInv
  BY RateAtFirst
<1>2. RateInv /\ [Rate!Next]_(Rate!vars) => RateInv'
  <2>1. ASSUME RateInv, Rate!Next PROVE RateInv'
    BY <2>1, LossesStep, RateTypesStep, WithinStep, StoredStep DEF RateInv
  <2>2. ASSUME RateInv, UNCHANGED Rate!vars PROVE RateInv'
    BY <2>2 DEF RateInv, RateTypes, Rate!LossesConserved, MeanWithin, MeanStored,
                AtMost,
                Sampled, Rate!vars, Rate!estimator, Rate!limiter
  <2> QED BY <2>1, <2>2
<1> QED BY <1>1, <1>2, PTL DEF Rate!Spec

-----------------------------------------------------------------------------
(* What the windows and the estimate keep. *)

\* Types; in particular a worker folds in only what is a sample, and only into
\* an estimate that was one of RTTEstimator's.
THEOREM RateTypeCorrect == ASSUME Rate!RateAssumption PROVE Rate!Spec => []RateTypes
<1>1. RateInv => RateTypes
  BY DEF RateInv
<1> QED BY <1>1, RateInvariant, PTL

\* AdaptiveRateLimiter.Report and its window: every report is judged in one
\* window and every loss in one, whatever the workers' operations do between
\* the claim of a window and the taking of its losses.
THEOREM EveryLossIsJudgedOnce ==
  ASSUME Rate!RateAssumption PROVE Rate!Spec => [](Rate!LossesConserved)
<1>1. RateInv => Rate!LossesConserved
  BY DEF RateInv
<1> QED BY <1>1, RateInvariant, PTL

\* RTTEstimator.Sample: once the first sample is stored the estimate lies among
\* the samples seen, although one may be folded in before that.
THEOREM EstimateIsAmongTheSamples ==
  ASSUME Rate!RateAssumption PROVE Rate!Spec => [](Rate!SettledWithinSamples)
<1>1. RateInv => Rate!SettledWithinSamples
  BY DEF RateInv, MeanWithin, MeanStored, AtMost, Sampled, Rate!SettledWithinSamples
<1> QED BY <1>1, RateInvariant, PTL

-----------------------------------------------------------------------------
(* The connection pool, for every set of workers, addresses and connections  *)
(* and every size of the pool.  OneOwner, OpenExactlyWhileOwned and          *)
(* ReusedForItsAddress hold each other up: a connection dialled is nobody's  *)
(* because those in use have a peer, and Put may append because the          *)
(* connection it holds is in no list.  The inductive invariant adds to them  *)
(* when a worker holds a connection, and that the oldest of a list expire    *)
(* first, which says what the reaper leaves of it.                           *)

\* A worker holds a connection from the Get that found it, or the dial, to
\* its Close or Put.
HoldsWhile ==
  /\ pc \in [Workers -> {"out", "pop", "check", "drop", "dial", "use"}]
  /\ addr \in [Workers -> Addrs]
  /\ \A w \in Workers : conn[w] # Pool!NoConn <=> pc[w] \in {"check", "drop", "use"}

\* The expired connections of a list are its oldest ones.
OldestExpireFirst ==
  \A a \in Addrs : \E m \in 0 .. Len(idle[a]) :
    \A i \in 1 .. Len(idle[a]) : idle[a][i] \in expired <=> i <= m

PoolInv ==
  /\ Pool!TypeOK /\ HoldsWhile
  /\ Pool!OneOwner /\ Pool!OpenExactlyWhileOwned /\ Pool!ReusedForItsAddress
  /\ OldestExpireFirst

-----------------------------------------------------------------------------
(* The lists of idle connections. *)

\* Get leaves all but the newest connection, Put adds one at the end.
LEMMA PoppedList ==
  ASSUME NEW S, NEW s \in Seq(S), s # <<>>
  PROVE  /\ Pool!Popped(s) \in Seq(S)
         /\ Len(s) \in Nat \ {0} /\ Len(Pool!Popped(s)) = Len(s) - 1
         /\ \A i \in 1 .. Len(s) - 1 : Pool!Popped(s)[i] = s[i]
         /\ s[Len(s)] \in S
<1>1. Len(s) \in Nat \ {0} /\ \A i \in 1 .. Len(s) : s[i] \in S
  OBVIOUS
<1> DEFINE k == Len(s) - 1
<1>2. k \in Nat /\ \A i \in 1 .. k : s[i] \in S
  BY <1>1
<1>3. /\ SubSeq(s, 1, k) \in Seq(S) /\ Len(SubSeq(s, 1, k)) = k
      /\ \A i \in 1 .. k : SubSeq(s, 1, k)[i] = s[i]
  <2> HIDE DEF k
  <2> QED BY <1>2
<1> QED BY <1>1, <1>3 DEF Pool!Popped

LEMMA AppendedList ==
  ASSUME NEW S, NEW s \in Seq(S), NEW x \in S
  PROVE  /\ Append(s, x) \in Seq(S)
         /\ Len(s) \in Nat /\ Len(Append(s, x)) = Len(s) + 1
         /\ \A i \in 1 .. Len(s) : Append(s, x)[i] = s[i]
         /\ Append(s, x)[Len(s) + 1] = x
  OBVIOUS

\* The reaper leaves the connections after the expired ones.
LEMMA KeptList ==
  ASSUME NEW S, NEW s \in Seq(S), NEW m \in 0 .. Len(s),
         \A i \in 1 .. Len(s) : s[i] \in expired <=> i <= m
  PROVE  /\ Pool!Kept(s) \in Seq(S)
         /\ Len(s) \in Nat /\ Len(Pool!Kept(s)) = Len(s) - m
         /\ \A i \in 1 .. Len(s) - m : Pool!Kept(s)[i] = s[m + i]
<1> DEFINE live == { i \in 1 .. Len(s) : s[i] \notin expired }
           Place(i) == Cardinality({ k \in live : k <= i })
<1>1. Len(s) \in Nat /\ m \in Nat /\ m <= Len(s)
  OBVIOUS
<1>2. live = m + 1 .. Len(s)
  BY <1>1
<1>3. Cardinality(live) = Len(s) - m
  <2>1. Cardinality(m + 1 .. Len(s))
          = IF m + 1 > Len(s) THEN 0 ELSE Len(s) - (m + 1) + 1
    <3>1. m + 1 \in Int /\ Len(s) \in Int
      BY <1>1
    <3> HIDE DEF live, Place
    <3> QED BY <3>1, FS_Interval
  <2>2. (IF m + 1 > Len(s) THEN 0 ELSE Len(s) - (m + 1) + 1) = Len(s) - m
    BY <1>1
  <2> HIDE DEF live
  <2> QED BY <2>1, <2>2, <1>2
<1>4. ASSUME NEW i \in live PROVE Place(i) = i - m
  <2>1. { k \in live : k <= i } = m + 1 .. i
    BY <1>1, <1>2
  <2>2. Cardinality(m + 1 .. i) = IF m + 1 > i THEN 0 ELSE i - (m + 1) + 1
    BY <1>1, <1>2, FS_Interval
  <2>3. (IF m + 1 > i THEN 0 ELSE i - (m + 1) + 1) = i - m
    BY <1>1, <1>2
  <2> QED BY <2>1, <2>2, <2>3
<1>5. ASSUME NEW n \in 1 .. Len(s) - m
      PROVE  s[CHOOSE i \in live : Place(i) = n] = s[m + n]
  <2> HIDE DEF live, Place
  <2>1. m + n \in live /\ Place(m + n) = n
    BY <1>1, <1>2, <1>4
  <2>2. \A i \in live : Place(i) = n => i = m + n
    BY <1>1, <1>2, <1>4
  <2> QED BY <2>1, <2>2
<1>6. Pool!Kept(s) = [n \in 1 .. Len(s) - m |-> s[CHOOSE i \in live : Place(i) = n]]
  <2>1. Pool!Kept(s) = [n \in 1 .. Cardinality(live) |-> s[CHOOSE i \in live : Place(i) = n]]
    BY Zenon DEF Pool!Kept, Pool!Cardinality, Cardinality
  <2> HIDE DEF live, Place
  <2> QED BY <1>3, <2>1
<1>7. Pool!Kept(s) = [n \in 1 .. Len(s) - m |-> s[m + n]]
  <2> HIDE DEF live, Place
  <2> QED BY <1>5, <1>6
<1> QED BY <1>1, <1>7

-----------------------------------------------------------------------------
(* The invariant. *)

\* A connection is idle when it is somewhere in a list.
LEMMA IdleSomewhere ==
  ASSUME NEW c
  PROVE  c \in Pool!IdleConns <=> \E a \in Addrs : \E i \in 1 .. Len(idle[a]) : c = idle[a][i]
  BY DEF Pool!IdleConns, Pool!Elems

LEMMA PoolAtFirst == Pool!PoolAssumption /\ Pool!Init => PoolInv
<1> SUFFICES ASSUME Pool!PoolAssumption, Pool!Init PROVE PoolInv
  OBVIOUS
<1> USE DEF Pool!PoolAssumption, Pool!Init
<1>1. Pool!IdleConns = {} /\ Pool!Held = {}
  BY DEF Pool!IdleConns, Pool!Elems, Pool!Held
<1>2. Pool!TypeOK
  BY <1>1 DEF Pool!TypeOK
<1>3. HoldsWhile /\ Pool!OneOwner /\ Pool!OpenExactlyWhileOwned
  BY <1>1 DEF HoldsWhile, Pool!OneOwner, Pool!OpenExactlyWhileOwned
<1>4. Pool!ReusedForItsAddress /\ OldestExpireFirst
  BY DEF Pool!ReusedForItsAddress, OldestExpireFirst, Pool!Elems
<1> QED BY <1>2, <1>3, <1>4 DEF PoolInv

\* Get begins: only a worker that holds nothing changes its address.
LEMMA GetHolds ==
  ASSUME Pool!PoolAssumption, PoolInv, NEW w \in Workers, Pool!Get(w) PROVE PoolInv'
<1> USE DEF PoolInv, Pool!Get
<1>1. Pool!IdleConns' = Pool!IdleConns /\ Pool!Held' = Pool!Held
  BY DEF Pool!IdleConns, Pool!Elems, Pool!Held
<1>2. Pool!TypeOK'
  BY <1>1 DEF Pool!TypeOK
<1>3. HoldsWhile'
  BY DEF HoldsWhile
<1>4. Pool!OneOwner' /\ Pool!OpenExactlyWhileOwned'
  BY <1>1 DEF Pool!OneOwner, Pool!OpenExactlyWhileOwned
<1>5. Pool!ReusedForItsAddress'
  BY DEF Pool!ReusedForItsAddress, HoldsWhile, Pool!Elems
<1>6. OldestExpireFirst'
  BY DEF OldestExpireFirst
<1> QED BY <1>2, <1>3, <1>4, <1>5, <1>6

LEMMA CheckHolds ==
  ASSUME Pool!PoolAssumption, PoolInv, NEW w \in Workers, Pool!Check(w) PROVE PoolInv'
<1> USE DEF PoolInv, Pool!Check
<1>1. Pool!IdleConns' = Pool!IdleConns /\ Pool!Held' = Pool!Held
  BY DEF Pool!IdleConns, Pool!Elems, Pool!Held
<1>2. Pool!TypeOK'
  BY <1>1 DEF Pool!TypeOK
<1>3. HoldsWhile'
  BY DEF HoldsWhile
<1>4. Pool!OneOwner' /\ Pool!OpenExactlyWhileOwned'
  BY <1>1 DEF Pool!OneOwner, Pool!OpenExactlyWhileOwned
<1>5. Pool!ReusedForItsAddress' /\ OldestExpireFirst'
  BY DEF Pool!ReusedForItsAddress, Pool!Elems, OldestExpireFirst
<1> QED BY <1>2, <1>3, <1>4, <1>5

\* A connection that is closed (Drop, a payload, or Put to a full address) was
\* the worker's alone.
LEMMA CloseHolds ==
  ASSUME Pool!PoolAssumption, PoolInv, NEW w \in Workers, conn[w] # Pool!NoConn,
         open' = open \ {conn[w]}, conn' = [conn EXCEPT ![w] = Pool!NoConn],
         pc' = [pc EXCEPT ![w] = "pop"] \/ pc' = [pc EXCEPT ![w] = "out"],
         UNCHANGED <<idle, expired, peer, addr>>
  PROVE  PoolInv'
<1> USE DEF PoolInv
<1>1. Pool!IdleConns' = Pool!IdleConns
  BY DEF Pool!IdleConns, Pool!Elems
<1>2. Pool!Held' = Pool!Held \ {conn[w]}
  BY DEF Pool!Held, Pool!OneOwner, Pool!TypeOK
<1>3. conn[w] \notin Pool!IdleConns
  BY DEF Pool!Held, Pool!OneOwner
<1>4. Pool!TypeOK'
  BY <1>1 DEF Pool!TypeOK
<1>5. HoldsWhile'
  BY DEF HoldsWhile, Pool!TypeOK
<1>6. Pool!OneOwner'
  BY <1>1, <1>2 DEF Pool!OneOwner, Pool!TypeOK
<1>7. Pool!OpenExactlyWhileOwned'
  BY <1>1, <1>2, <1>3 DEF Pool!OpenExactlyWhileOwned
<1>8. Pool!ReusedForItsAddress'
  <2>1. (\A a \in Addrs : \A c \in Pool!Elems(idle[a]) : peer[c] = a)'
    BY DEF Pool!ReusedForItsAddress, Pool!Elems
  <2>2. \A v \in Workers : v # w => conn'[v] = conn[v]
    BY DEF Pool!TypeOK
  <2>3. conn'[w] = Pool!NoConn
    BY DEF Pool!TypeOK
  <2>4. (\A v \in Workers : conn[v] # Pool!NoConn => peer[conn[v]] = addr[v])'
    BY <2>2, <2>3 DEF Pool!ReusedForItsAddress
  <2> QED BY <2>1, <2>4 DEF Pool!ReusedForItsAddress
<1>9. OldestExpireFirst'
  BY DEF OldestExpireFirst
<1> QED BY <1>4, <1>5, <1>6, <1>7, <1>8, <1>9

\* The connection popped leaves its list, and becomes the worker's.
LEMMA PopHolds ==
  ASSUME Pool!PoolAssumption, PoolInv, NEW w \in Workers, Pool!Pop(w) PROVE PoolInv'
<1> DEFINE a == addr[w]
           c == idle[a][Len(idle[a])]
<1>0. a \in Addrs /\ idle[a] \in Seq(Conns) /\ conn[w] = Pool!NoConn
  BY DEF PoolInv, HoldsWhile, Pool!TypeOK, Pool!Pop
<1>1. CASE idle[a] = <<>>
  <2> USE DEF PoolInv
  <2>1. /\ pc' = [pc EXCEPT ![w] = "dial"]
        /\ UNCHANGED <<idle, expired, conn, open, peer, addr>>
    BY <1>1 DEF Pool!Pop, Pool!poolKey
  <2>2. Pool!IdleConns' = Pool!IdleConns /\ Pool!Held' = Pool!Held
    BY <2>1 DEF Pool!IdleConns, Pool!Elems, Pool!Held
  <2>3. Pool!TypeOK' /\ Pool!OneOwner' /\ Pool!OpenExactlyWhileOwned'
    BY <2>1, <2>2 DEF Pool!TypeOK, Pool!OneOwner, Pool!OpenExactlyWhileOwned
  <2>4. HoldsWhile'
    BY <1>0, <2>1 DEF HoldsWhile
  <2>5. Pool!ReusedForItsAddress' /\ OldestExpireFirst'
    BY <2>1 DEF Pool!ReusedForItsAddress, Pool!Elems, OldestExpireFirst
  <2> QED BY <2>3, <2>4, <2>5
<1>2. CASE idle[a] # <<>>
  <2>1. /\ idle' = [idle EXCEPT ![a] = Pool!Popped(idle[a])]
        /\ expired' = expired \ {c}
        /\ conn' = [conn EXCEPT ![w] = c]
        /\ pc' = [pc EXCEPT ![w] = "check"]
        /\ UNCHANGED <<open, peer, addr>>
    BY <1>2 DEF Pool!Pop, Pool!poolKey
  <2>2. /\ Pool!Popped(idle[a]) \in Seq(Conns)
        /\ Len(idle[a]) \in Nat \ {0} /\ Len(Pool!Popped(idle[a])) = Len(idle[a]) - 1
        /\ \A i \in 1 .. Len(idle[a]) - 1 : Pool!Popped(idle[a])[i] = idle[a][i]
        /\ c \in Conns
    BY <1>0, <1>2, PoppedList
  <2>3. /\ idle' \in [Addrs -> Seq(Conns)]
        /\ idle'[a] = Pool!Popped(idle[a])
        /\ \A b \in Addrs \ {a} : idle'[b] = idle[b]
    BY <1>0, <2>1, <2>2 DEF PoolInv, Pool!TypeOK
  <2> HIDE DEF a, c
  <2>4. c \in Pool!IdleConns /\ c \notin Pool!Held /\ c # Pool!NoConn
    <3>1. c = idle[a][Len(idle[a])] /\ Len(idle[a]) \in 1 .. Len(idle[a])
      BY <2>2 DEF c
    <3> QED BY <3>1, <1>0, <2>2, IdleSomewhere DEF PoolInv, Pool!OneOwner, Pool!PoolAssumption
  <2>5. \A b \in Addrs : \A i \in 1 .. Len(idle'[b]) :
          i \in 1 .. Len(idle[b]) /\ idle'[b][i] = idle[b][i] /\ idle[b][i] # c
    <3> SUFFICES ASSUME NEW b \in Addrs, NEW i \in 1 .. Len(idle'[b])
                 PROVE  i \in 1 .. Len(idle[b]) /\ idle'[b][i] = idle[b][i]
                          /\ idle[b][i] # c
      OBVIOUS
    <3>1. i \in 1 .. Len(idle[b]) /\ idle'[b][i] = idle[b][i]
      BY <2>2, <2>3
    <3>2. ~ (b = a /\ i = Len(idle[a]))
      BY <2>2, <2>3
    <3> QED BY <3>1, <3>2, <1>0, <2>2 DEF PoolInv, Pool!OneOwner, c
  <2>6. \A b \in Addrs : \A i \in 1 .. Len(idle[b]) :
          idle[b][i] = c \/ i \in 1 .. Len(idle'[b])
    <3> SUFFICES ASSUME NEW b \in Addrs, NEW i \in 1 .. Len(idle[b]), idle[b][i] # c
                 PROVE  i \in 1 .. Len(idle'[b])
      OBVIOUS
    <3>1. CASE b # a
      BY <3>1, <2>3
    <3>2. CASE b = a
      BY <3>2, <2>2, <2>3 DEF c
    <3> QED BY <3>1, <3>2
  <2>7. Pool!IdleConns' = Pool!IdleConns \ {c}
    <3>1. ASSUME NEW x \in Pool!IdleConns' PROVE x \in Pool!IdleConns /\ x # c
      BY <3>1, <2>5, IdleSomewhere DEF Pool!IdleConns, Pool!Elems
    <3>2. ASSUME NEW x \in Pool!IdleConns, x # c PROVE x \in Pool!IdleConns'
      <4>0. PICK b \in Addrs : \E i \in 1 .. Len(idle[b]) : x = idle[b][i]
        BY IdleSomewhere
      <4>1. PICK i \in 1 .. Len(idle[b]) : x = idle[b][i]
        BY <4>0
      <4>2. i \in 1 .. Len(idle'[b]) /\ idle'[b][i] = x
        BY <4>1, <3>2, <2>5, <2>6
      <4> QED BY <4>2 DEF Pool!IdleConns, Pool!Elems
    <3> QED BY <3>1, <3>2
  <2>8. Pool!Held' = Pool!Held \cup {c}
    BY <1>0, <2>1, <2>4 DEF Pool!Held, PoolInv, Pool!TypeOK
  <2>9. Pool!TypeOK'
    <3>1. \A b \in Addrs : Len(idle'[b]) <= MaxSize
      BY <2>2, <2>3, <1>0 DEF PoolInv, Pool!TypeOK, Pool!PoolAssumption
    <3> QED BY <3>1, <2>1, <2>2, <2>3, <2>7 DEF PoolInv, Pool!TypeOK
  <2>10. HoldsWhile'
    BY <2>1, <2>4 DEF PoolInv, HoldsWhile, Pool!TypeOK
  <2>11. Pool!OneOwner'
    <3>1. \A v, u \in Workers : conn'[v] = conn'[u] /\ conn'[v] # Pool!NoConn => v = u
      BY <2>1, <2>4 DEF PoolInv, Pool!OneOwner, Pool!Held, Pool!TypeOK
    <3>2. (Pool!Held \cap Pool!IdleConns = {})'
      BY <2>7, <2>8 DEF PoolInv, Pool!OneOwner
    <3>3. \A b, d \in Addrs : \A i \in 1 .. Len(idle'[b]), k \in 1 .. Len(idle'[d]) :
            idle'[b][i] = idle'[d][k] => b = d /\ i = k
      BY <2>5 DEF PoolInv, Pool!OneOwner
    <3> QED BY <3>1, <3>2, <3>3 DEF Pool!OneOwner
  <2>12. Pool!OpenExactlyWhileOwned'
    BY <2>1, <2>4, <2>7, <2>8 DEF PoolInv, Pool!OpenExactlyWhileOwned
  <2>13. Pool!ReusedForItsAddress'
    <3>1. \A b \in Addrs : \A x \in Pool!Elems(idle'[b]) : peer[x] = b
      BY <2>5 DEF PoolInv, Pool!ReusedForItsAddress, Pool!Elems
    <3>2. peer[c] = a
      BY <1>0, <2>2 DEF PoolInv, Pool!ReusedForItsAddress, Pool!Elems, c
    <3> QED BY <3>1, <3>2, <2>1, <2>4 DEF PoolInv, Pool!ReusedForItsAddress, Pool!TypeOK, a
  <2>14. OldestExpireFirst'
    <3> SUFFICES ASSUME NEW b \in Addrs
                 PROVE  \E m \in 0 .. Len(idle'[b]) :
                          \A i \in 1 .. Len(idle'[b]) :
                            idle'[b][i] \in expired' <=> i <= m
      BY DEF OldestExpireFirst
    <3>1. PICK m \in 0 .. Len(idle[b]) :
            \A i \in 1 .. Len(idle[b]) : idle[b][i] \in expired <=> i <= m
      BY DEF PoolInv, OldestExpireFirst
    <3>2. Len(idle[b]) \in Nat /\ Len(idle'[b]) \in Nat
      BY <2>3 DEF PoolInv, Pool!TypeOK
    <3>3. \A i \in 1 .. Len(idle'[b]) : idle'[b][i] \in expired' <=> i <= m
      BY <3>1, <2>1, <2>5
    <3>4. CASE m <= Len(idle'[b])
      <4>1. m \in 0 .. Len(idle'[b])
        BY <3>2, <3>4
      <4> QED BY <4>1, <3>3
    <3>5. CASE m > Len(idle'[b])
      <4>1. \A i \in 1 .. Len(idle'[b]) : i <= m /\ i <= Len(idle'[b])
        BY <3>2, <3>5
      <4>2. Len(idle'[b]) \in 0 .. Len(idle'[b])
        BY <3>2
      <4> QED BY <4>1, <4>2, <3>3
    <3> QED BY <3>2, <3>4, <3>5
  <2> QED BY <2>9, <2>10, <2>11, <2>12, <2>13, <2>14 DEF PoolInv
<1> QED BY <1>1, <1>2
\* A connection dialled is new: it is nobody's, for those in use have a peer.
LEMMA DialHolds ==
  ASSUME Pool!PoolAssumption, PoolInv, NEW w \in Workers, Pool!Dial(w) PROVE PoolInv'
<1> USE DEF PoolInv
<1>0. addr[w] \in Addrs /\ conn[w] = Pool!NoConn /\ UNCHANGED <<idle, expired, addr>>
  BY DEF HoldsWhile, Pool!Dial
<1>1. Pool!IdleConns' = Pool!IdleConns
  BY <1>0 DEF Pool!IdleConns, Pool!Elems
<1>2. CASE pc' = [pc EXCEPT ![w] = "out"] /\ UNCHANGED <<open, peer, conn>>
  <2>1. Pool!Held' = Pool!Held
    BY <1>2 DEF Pool!Held
  <2>2. Pool!TypeOK' /\ Pool!OneOwner' /\ Pool!OpenExactlyWhileOwned'
    BY <1>0, <1>1, <1>2, <2>1 DEF Pool!TypeOK, Pool!OneOwner, Pool!OpenExactlyWhileOwned
  <2>3. HoldsWhile'
    BY <1>0, <1>2 DEF HoldsWhile
  <2>4. Pool!ReusedForItsAddress' /\ OldestExpireFirst'
    BY <1>0, <1>2 DEF Pool!ReusedForItsAddress, Pool!Elems, OldestExpireFirst
  <2> QED BY <2>2, <2>3, <2>4
<1>3. ASSUME NEW c \in Conns \ Pool!Dialled,
             open' = open \cup {c}, peer' = [peer EXCEPT ![c] = addr[w]],
             conn' = [conn EXCEPT ![w] = c], pc' = [pc EXCEPT ![w] = "use"]
      PROVE  PoolInv'
  <2>1. c # Pool!NoConn /\ peer[c] = Pool!NoConn
    BY DEF Pool!PoolAssumption, Pool!Dialled
  <2>2. c \notin Pool!Held
    BY <2>1 DEF Pool!Held, Pool!ReusedForItsAddress, HoldsWhile, Pool!PoolAssumption
  <2>3. c \notin Pool!IdleConns
    BY <2>1 DEF Pool!IdleConns, Pool!ReusedForItsAddress, Pool!PoolAssumption
  <2>4. Pool!Held' = Pool!Held \cup {c}
    BY <1>0, <1>3, <2>1 DEF Pool!Held, Pool!TypeOK
  <2>5. Pool!TypeOK'
    BY <1>0, <1>1, <1>3 DEF Pool!TypeOK
  <2>6. HoldsWhile'
    BY <1>0, <1>3, <2>1 DEF HoldsWhile, Pool!TypeOK
  <2>7. Pool!OneOwner'
    BY <1>0, <1>1, <1>3, <2>2, <2>3, <2>4 DEF Pool!OneOwner, Pool!Held, Pool!TypeOK
  <2>8. Pool!OpenExactlyWhileOwned'
    BY <1>1, <1>3, <2>4 DEF Pool!OpenExactlyWhileOwned
  <2>9. Pool!ReusedForItsAddress'
    <3>1. \A a \in Addrs : \A x \in Pool!Elems(idle'[a]) : x \in Pool!IdleConns /\ peer[x] = a
      BY <1>0 DEF Pool!ReusedForItsAddress, Pool!IdleConns
    <3>2. \A a \in Addrs : \A x \in Pool!Elems(idle'[a]) : peer'[x] = a
      BY <3>1, <1>3, <2>3 DEF Pool!TypeOK
    <3>3. \A v \in Workers : conn'[v] # Pool!NoConn => peer'[conn'[v]] = addr'[v]
      BY <1>0, <1>3, <2>2 DEF Pool!ReusedForItsAddress, Pool!Held, Pool!TypeOK
    <3> QED BY <3>2, <3>3 DEF Pool!ReusedForItsAddress, Pool!Elems
  <2>10. OldestExpireFirst'
    BY <1>0 DEF OldestExpireFirst
  <2> QED BY <2>5, <2>6, <2>7, <2>8, <2>9, <2>10
<1> QED BY <1>2, <1>3 DEF Pool!Dial

\* The connection given back was the worker's, and joins its address's list.
LEMMA PutHolds ==
  ASSUME Pool!PoolAssumption, PoolInv, NEW w \in Workers, Pool!Put(w) PROVE PoolInv'
<1> DEFINE a == addr[w]
           c == conn[w]
<1>0. /\ a \in Addrs /\ c \in Conns /\ c # Pool!NoConn /\ c \in Pool!Held
      /\ idle[a] \in Seq(Conns) /\ Len(idle[a]) \in Nat
  BY DEF PoolInv, HoldsWhile, Pool!TypeOK, Pool!Put, Pool!Held
<1>1. CASE Pool!Full(a)
  BY <1>0, <1>1, CloseHolds DEF Pool!Put, Pool!poolKey
<1>2. CASE ~ Pool!Full(a)
  <2>1. /\ idle' = [idle EXCEPT ![a] = Append(idle[a], c)]
        /\ conn' = [conn EXCEPT ![w] = Pool!NoConn]
        /\ pc' = [pc EXCEPT ![w] = "out"]
        /\ UNCHANGED <<open, expired, peer, addr>>
    BY <1>2 DEF Pool!Put, Pool!poolKey
  <2>2. /\ Append(idle[a], c) \in Seq(Conns)
        /\ Len(Append(idle[a], c)) = Len(idle[a]) + 1
        /\ \A i \in 1 .. Len(idle[a]) : Append(idle[a], c)[i] = idle[a][i]
        /\ Append(idle[a], c)[Len(idle[a]) + 1] = c
    BY <1>0, AppendedList
  <2>3. /\ idle' \in [Addrs -> Seq(Conns)]
        /\ idle'[a] = Append(idle[a], c)
        /\ \A b \in Addrs \ {a} : idle'[b] = idle[b]
    BY <1>0, <2>1, <2>2 DEF PoolInv, Pool!TypeOK
  <2>4. peer[c] = a /\ c \notin Pool!IdleConns /\ c \notin expired
    BY <1>0 DEF PoolInv, Pool!ReusedForItsAddress, Pool!OneOwner, Pool!TypeOK
  <2>5. Len(idle[a]) + 1 <= MaxSize
    BY <1>0, <1>2 DEF Pool!Full, Pool!PoolAssumption
  <2> HIDE DEF a, c
  <2>6. \A b \in Addrs : \A i \in 1 .. Len(idle[b]) :
          i \in 1 .. Len(idle'[b]) /\ idle'[b][i] = idle[b][i] /\ idle[b][i] # c
    <3> SUFFICES ASSUME NEW b \in Addrs, NEW i \in 1 .. Len(idle[b])
                 PROVE  i \in 1 .. Len(idle'[b]) /\ idle'[b][i] = idle[b][i]
                          /\ idle[b][i] # c
      OBVIOUS
    <3>1. i \in 1 .. Len(idle'[b]) /\ idle'[b][i] = idle[b][i]
      BY <1>0, <2>2, <2>3
    <3> QED BY <3>1, <2>4, IdleSomewhere
  <2>7. \A b \in Addrs : \A i \in 1 .. Len(idle'[b]) :
          i \in 1 .. Len(idle[b]) \/ (b = a /\ i = Len(idle[a]) + 1 /\ idle'[b][i] = c)
    <3> SUFFICES ASSUME NEW b \in Addrs, NEW i \in 1 .. Len(idle'[b]),
                        i \notin 1 .. Len(idle[b])
                 PROVE  b = a /\ i = Len(idle[a]) + 1 /\ idle'[b][i] = c
      OBVIOUS
    <3>1. b = a
      BY <2>3
    <3> QED BY <3>1, <1>0, <2>2, <2>3
  <2>8. Pool!IdleConns' = Pool!IdleConns \cup {c}
    <3>1. ASSUME NEW x \in Pool!IdleConns' PROVE x \in Pool!IdleConns \cup {c}
      BY <3>1, <2>6, <2>7, IdleSomewhere DEF Pool!IdleConns, Pool!Elems
    <3>2. ASSUME NEW x \in Pool!IdleConns PROVE x \in Pool!IdleConns'
      BY <2>6, IdleSomewhere DEF Pool!IdleConns, Pool!Elems
    <3>3. c \in Pool!IdleConns'
      BY <1>0, <2>2, <2>3 DEF Pool!IdleConns, Pool!Elems
    <3> QED BY <3>1, <3>2, <3>3
  <2>9. Pool!Held' = Pool!Held \ {c}
    BY <1>0, <2>1 DEF Pool!Held, PoolInv, Pool!OneOwner, Pool!TypeOK, c
  <2>10. Pool!TypeOK'
    <3>1. \A b \in Addrs : Len(idle'[b]) <= MaxSize
      <4>1. Len(idle'[a]) <= MaxSize
        BY <2>2, <2>3, <2>5
      <4>2. \A b \in Addrs \ {a} : Len(idle'[b]) <= MaxSize
        BY <2>3 DEF PoolInv, Pool!TypeOK
      <4> QED BY <4>1, <4>2
    <3> QED BY <3>1, <2>1, <2>3, <2>8 DEF PoolInv, Pool!TypeOK
  <2>11. HoldsWhile'
    BY <2>1 DEF PoolInv, HoldsWhile, Pool!TypeOK
  <2>12. Pool!OneOwner'
    <3>1. \A v, u \in Workers : conn'[v] = conn'[u] /\ conn'[v] # Pool!NoConn => v = u
      BY <2>1 DEF PoolInv, Pool!OneOwner, Pool!TypeOK
    <3>2. (Pool!Held \cap Pool!IdleConns = {})'
      BY <2>8, <2>9 DEF PoolInv, Pool!OneOwner
    <3>3. \A b, d \in Addrs : \A i \in 1 .. Len(idle'[b]), k \in 1 .. Len(idle'[d]) :
            idle'[b][i] = idle'[d][k] => b = d /\ i = k
      <4>1. \A b, d \in Addrs : \A i \in 1 .. Len(idle[b]), k \in 1 .. Len(idle[d]) :
              idle[b][i] = idle[d][k] => b = d /\ i = k
        BY DEF PoolInv, Pool!OneOwner
      <4> SUFFICES ASSUME NEW b \in Addrs, NEW d \in Addrs, NEW i \in 1 .. Len(idle'[b]),
                          NEW k \in 1 .. Len(idle'[d]), idle'[b][i] = idle'[d][k]
                   PROVE  b = d /\ i = k
        OBVIOUS
      <4>2. CASE i \in 1 .. Len(idle[b])
        <5>1. idle'[b][i] = idle[b][i] /\ idle[b][i] # c
          BY <2>6, <4>2
        <5>2. k \in 1 .. Len(idle[d])
          BY <2>7, <5>1
        <5>3. idle'[d][k] = idle[d][k]
          BY <2>6, <5>2
        <5>4. idle[b][i] = idle[d][k]
          BY <5>1, <5>3
        <5> QED BY <4>1, <4>2, <5>2, <5>4, Zenon
      <4>3. CASE i \notin 1 .. Len(idle[b])
        <5>1. b = a /\ i = Len(idle[a]) + 1 /\ idle'[b][i] = c
          BY <2>7, <4>3
        <5>2. k \notin 1 .. Len(idle[d])
          BY <2>6, <5>1
        <5>3. d = a /\ k = Len(idle[a]) + 1
          BY <2>7, <5>2
        <5> QED BY <5>1, <5>3
      <4> QED BY <4>2, <4>3
    <3> QED BY <3>1, <3>2, <3>3 DEF Pool!OneOwner
  <2>13. Pool!OpenExactlyWhileOwned'
    BY <1>0, <2>1, <2>8, <2>9 DEF PoolInv, Pool!OpenExactlyWhileOwned
  <2>14. Pool!ReusedForItsAddress'
    <3>1. \A b \in Addrs : \A x \in Pool!Elems(idle'[b]) : peer[x] = b
      BY <2>4, <2>6, <2>7 DEF PoolInv, Pool!ReusedForItsAddress, Pool!Elems
    <3> QED BY <3>1, <2>1 DEF PoolInv, Pool!ReusedForItsAddress, Pool!TypeOK
  <2>15. OldestExpireFirst'
    <3> SUFFICES ASSUME NEW b \in Addrs
                 PROVE  \E m \in 0 .. Len(idle'[b]) :
                          \A i \in 1 .. Len(idle'[b]) :
                            idle'[b][i] \in expired' <=> i <= m
      BY DEF OldestExpireFirst
    <3>1. PICK m \in 0 .. Len(idle[b]) :
            \A i \in 1 .. Len(idle[b]) : idle[b][i] \in expired <=> i <= m
      BY DEF PoolInv, OldestExpireFirst
    <3>2. m \in 0 .. Len(idle'[b])
      BY <1>0, <2>2, <2>3
    <3>3. \A i \in 1 .. Len(idle'[b]) : idle'[b][i] \in expired' <=> i <= m
      BY <1>0, <2>1, <2>4, <2>6, <2>7, <3>1
    <3> QED BY <3>2, <3>3
  <2> QED BY <2>10, <2>11, <2>12, <2>13, <2>14, <2>15 DEF PoolInv
<1> QED BY <1>1, <1>2
\* The oldest connections of one list expire; those of another are not among
\* them.
LEMMA ExpireHolds ==
  ASSUME Pool!PoolAssumption, PoolInv, Pool!Expire PROVE PoolInv'
<1>1. PICK a \in Addrs, n \in 1 .. MaxSize :
        /\ n <= Len(idle[a]) /\ idle[a][n] \notin expired
        /\ expired' = expired \cup Pool!Elems(SubSeq(idle[a], 1, n))
  BY DEF Pool!Expire
<1>2. UNCHANGED <<idle, open, peer, pc, addr, conn>>
  BY DEF Pool!Expire
<1>3. n \in 1 .. Len(idle[a]) /\ n \in Nat /\ Len(idle[a]) \in Nat
  BY <1>1 DEF Pool!PoolAssumption, PoolInv, Pool!TypeOK
<1>4. Pool!Elems(SubSeq(idle[a], 1, n)) = { idle[a][i] : i \in 1 .. n }
  <2>1. idle[a] \in Seq(Conns)
    BY DEF PoolInv, Pool!TypeOK
  <2>2. /\ Len(SubSeq(idle[a], 1, n)) = n
        /\ \A i \in 1 .. n : SubSeq(idle[a], 1, n)[i] = idle[a][i]
    BY <1>3, <2>1
  <2> QED BY <2>2 DEF Pool!Elems
<1>5. Pool!Held' = Pool!Held /\ Pool!IdleConns' = Pool!IdleConns
  BY <1>2 DEF Pool!Held, Pool!IdleConns, Pool!Elems
<1>6. Pool!TypeOK'
  <2>1. { idle[a][i] : i \in 1 .. n } \subseteq Pool!IdleConns
    BY <1>3, IdleSomewhere
  <2> QED BY <1>1, <1>2, <1>4, <1>5, <2>1 DEF PoolInv, Pool!TypeOK
<1>7. HoldsWhile' /\ Pool!OneOwner' /\ Pool!OpenExactlyWhileOwned' /\ Pool!ReusedForItsAddress'
  BY <1>2, <1>5
     DEF PoolInv, HoldsWhile, Pool!OneOwner, Pool!OpenExactlyWhileOwned, Pool!ReusedForItsAddress, Pool!Elems
<1>8. OldestExpireFirst'
  <2> SUFFICES ASSUME NEW b \in Addrs
               PROVE  \E m \in 0 .. Len(idle[b]) :
                        \A i \in 1 .. Len(idle[b]) : idle[b][i] \in expired' <=> i <= m
    BY <1>2 DEF OldestExpireFirst
  <2>1. PICK m \in 0 .. Len(idle[b]) :
          \A i \in 1 .. Len(idle[b]) : idle[b][i] \in expired <=> i <= m
    BY DEF PoolInv, OldestExpireFirst
  <2>2. Len(idle[b]) \in Nat
    BY DEF PoolInv, Pool!TypeOK
  <2>3. CASE b = a
    <3>1. m < n
      BY <1>1, <1>3, <2>1, <2>3
    <3>2. \A i \in 1 .. Len(idle[a]) :
            idle[a][i] \in { idle[a][k] : k \in 1 .. n } <=> i <= n
      <4>1. \A i \in 1 .. Len(idle[a]), k \in 1 .. n :
              idle[a][i] = idle[a][k] => i = k
        BY <1>3 DEF PoolInv, Pool!OneOwner
      <4> QED BY <1>3, <4>1
    <3>3. \A i \in 1 .. Len(idle[b]) : idle[b][i] \in expired' <=> i <= n
      BY <1>1, <1>3, <1>4, <2>1, <2>3, <3>1, <3>2
    <3> QED BY <1>3, <2>3, <3>3
  <2>4. CASE b # a
    <3>1. \A i \in 1 .. Len(idle[b]) : idle[b][i] \notin { idle[a][k] : k \in 1 .. n }
      BY <1>3, <2>4 DEF PoolInv, Pool!OneOwner
    <3>2. \A i \in 1 .. Len(idle[b]) : idle[b][i] \in expired' <=> i <= m
      BY <1>1, <1>4, <2>1, <3>1
    <3> QED BY <3>2
  <2> QED BY <2>3, <2>4
<1> QED BY <1>6, <1>7, <1>8 DEF PoolInv

\* The reaper closes what has expired, and it is in no list afterwards.
LEMMA ReapHolds ==
  ASSUME Pool!PoolAssumption, PoolInv, Pool!Reap PROVE PoolInv'
<1>1. /\ idle' = [a \in Addrs |-> Pool!Kept(idle[a])]
      /\ open' = open \ (Pool!IdleConns \cap expired)
      /\ expired' = {}
      /\ UNCHANGED <<peer, pc, addr, conn>>
  BY DEF Pool!Reap
<1>2. \A a \in Addrs : idle[a] \in Seq(Conns) /\ Len(idle[a]) \in Nat
  BY DEF PoolInv, Pool!TypeOK
<1>3. \A a \in Addrs : \E m \in 0 .. Len(idle[a]) :
        /\ \A i \in 1 .. Len(idle[a]) : idle[a][i] \in expired <=> i <= m
        /\ Pool!Kept(idle[a]) \in Seq(Conns)
        /\ Len(Pool!Kept(idle[a])) = Len(idle[a]) - m
        /\ \A i \in 1 .. Len(idle[a]) - m : Pool!Kept(idle[a])[i] = idle[a][m + i]
  <2> SUFFICES ASSUME NEW a \in Addrs
               PROVE  \E m \in 0 .. Len(idle[a]) :
        /\ \A i \in 1 .. Len(idle[a]) : idle[a][i] \in expired <=> i <= m
        /\ Pool!Kept(idle[a]) \in Seq(Conns)
        /\ Len(Pool!Kept(idle[a])) = Len(idle[a]) - m
        /\ \A i \in 1 .. Len(idle[a]) - m : Pool!Kept(idle[a])[i] = idle[a][m + i]
    OBVIOUS
  <2>1. PICK m \in 0 .. Len(idle[a]) :
          \A i \in 1 .. Len(idle[a]) : idle[a][i] \in expired <=> i <= m
    BY DEF PoolInv, OldestExpireFirst
  <2> QED BY <1>2, <2>1, KeptList
<1>4. PICK old \in [Addrs -> Nat] : \A a \in Addrs :
        /\ old[a] \in 0 .. Len(idle[a])
        /\ \A i \in 1 .. Len(idle[a]) : idle[a][i] \in expired <=> i <= old[a]
        /\ idle'[a] \in Seq(Conns)
        /\ Len(idle'[a]) = Len(idle[a]) - old[a]
        /\ \A i \in 1 .. Len(idle[a]) - old[a] : idle'[a][i] = idle[a][old[a] + i]
  <2> DEFINE Old(a, m) ==
               /\ m \in 0 .. Len(idle[a])
               /\ \A i \in 1 .. Len(idle[a]) : idle[a][i] \in expired <=> i <= m
               /\ idle'[a] \in Seq(Conns)
               /\ Len(idle'[a]) = Len(idle[a]) - m
               /\ \A i \in 1 .. Len(idle[a]) - m : idle'[a][i] = idle[a][m + i]
             old == [a \in Addrs |-> CHOOSE m \in Nat : Old(a, m)]
  <2>1. ASSUME NEW a \in Addrs PROVE \E m \in Nat : Old(a, m)
    <3>1. idle'[a] = Pool!Kept(idle[a])
      BY <1>1
    <3>2. PICK m \in 0 .. Len(idle[a]) :
            /\ \A i \in 1 .. Len(idle[a]) : idle[a][i] \in expired <=> i <= m
            /\ Pool!Kept(idle[a]) \in Seq(Conns)
            /\ Len(Pool!Kept(idle[a])) = Len(idle[a]) - m
            /\ \A i \in 1 .. Len(idle[a]) - m : Pool!Kept(idle[a])[i] = idle[a][m + i]
      BY <1>3
    <3>3. Old(a, m) /\ m \in Nat
      BY <1>2, <3>1, <3>2
    <3> QED BY <3>3
  <2> HIDE DEF Old
  <2>2. old \in [Addrs -> Nat] /\ \A a \in Addrs : Old(a, old[a])
    BY <2>1
  <2> QED BY <2>2 DEF Old
<1>5. \A a \in Addrs : \A i \in 1 .. Len(idle'[a]) :
        /\ old[a] + i \in 1 .. Len(idle[a])
        /\ idle'[a][i] = idle[a][old[a] + i]
        /\ idle'[a][i] \notin expired
  <2> SUFFICES ASSUME NEW a \in Addrs, NEW i \in 1 .. Len(idle'[a])
               PROVE  /\ old[a] + i \in 1 .. Len(idle[a])
                      /\ idle'[a][i] = idle[a][old[a] + i]
                      /\ idle'[a][i] \notin expired
    OBVIOUS
  <2>1. old[a] \in Nat /\ i \in 1 .. Len(idle[a]) - old[a] /\ Len(idle[a]) \in Nat
    BY <1>2, <1>4
  <2>2. old[a] + i \in 1 .. Len(idle[a]) /\ ~ (old[a] + i <= old[a])
    BY <2>1
  <2>3. idle'[a][i] = idle[a][old[a] + i]
    BY <1>4, <2>1
  <2> QED BY <1>4, <2>2, <2>3
<1>6. \A a \in Addrs : \A i \in 1 .. Len(idle[a]) : idle[a][i] \notin expired =>
        \E k \in 1 .. Len(idle'[a]) : idle'[a][k] = idle[a][i]
  <2> SUFFICES ASSUME NEW a \in Addrs, NEW i \in 1 .. Len(idle[a]),
                      idle[a][i] \notin expired
               PROVE  \E k \in 1 .. Len(idle'[a]) : idle'[a][k] = idle[a][i]
    OBVIOUS
  <2>1. old[a] \in Nat /\ Len(idle[a]) \in Nat /\ i > old[a]
    BY <1>2, <1>4
  <2>2. i - old[a] \in 1 .. Len(idle[a]) - old[a] /\ old[a] + (i - old[a]) = i
    BY <2>1
  <2>3. idle'[a][i - old[a]] = idle[a][old[a] + (i - old[a])]
    BY <1>4, <2>2
  <2> QED BY <1>4, <2>2, <2>3
<1>7. Pool!IdleConns' = Pool!IdleConns \ expired
  <2>1. ASSUME NEW x \in Pool!IdleConns' PROVE x \in Pool!IdleConns /\ x \notin expired
    <3>1. PICK a \in Addrs : \E i \in 1 .. Len(idle'[a]) : x = idle'[a][i]
      BY DEF Pool!IdleConns, Pool!Elems
    <3> QED BY <3>1, <1>5, IdleSomewhere
  <2>2. ASSUME NEW x \in Pool!IdleConns, x \notin expired PROVE x \in Pool!IdleConns'
    <3>1. PICK a \in Addrs : \E i \in 1 .. Len(idle[a]) : x = idle[a][i]
      BY IdleSomewhere
    <3>2. \E k \in 1 .. Len(idle'[a]) : idle'[a][k] = x
      BY <2>2, <3>1, <1>6
    <3> QED BY <3>2 DEF Pool!IdleConns, Pool!Elems
  <2> QED BY <2>1, <2>2
<1>8. Pool!Held' = Pool!Held
  BY <1>1 DEF Pool!Held
<1>9. Pool!TypeOK'
  <2>1. idle' \in [Addrs -> Seq(Conns)]
    BY <1>1, <1>3
  <2>2. \A a \in Addrs : Len(idle'[a]) <= MaxSize
    <3> SUFFICES ASSUME NEW a \in Addrs PROVE Len(idle'[a]) <= MaxSize
      OBVIOUS
    <3>1. Len(idle[a]) <= MaxSize /\ old[a] \in Nat /\ Len(idle[a]) \in Nat
      BY <1>2 DEF PoolInv, Pool!TypeOK
    <3>2. Len(idle'[a]) = Len(idle[a]) - old[a]
      BY <1>4
    <3> QED BY <3>1, <3>2 DEF Pool!PoolAssumption
  <2> QED BY <2>1, <2>2, <1>1 DEF PoolInv, Pool!TypeOK
<1>10. HoldsWhile'
  BY <1>1 DEF PoolInv, HoldsWhile
<1>11. Pool!OneOwner'
  <2>1. \A b, d \in Addrs : \A i \in 1 .. Len(idle'[b]), k \in 1 .. Len(idle'[d]) :
          idle'[b][i] = idle'[d][k] => b = d /\ i = k
    <3> SUFFICES ASSUME NEW b \in Addrs, NEW d \in Addrs,
                        NEW i \in 1 .. Len(idle'[b]), NEW k \in 1 .. Len(idle'[d]),
                        idle'[b][i] = idle'[d][k]
                 PROVE  b = d /\ i = k
      OBVIOUS
    <3>0. /\ old[b] + i \in 1 .. Len(idle[b]) /\ old[d] + k \in 1 .. Len(idle[d])
          /\ idle[b][old[b] + i] = idle[d][old[d] + k]
      BY <1>5
    <3>1. b = d /\ old[b] + i = old[d] + k
      BY <3>0 DEF PoolInv, Pool!OneOwner
    <3>2. old[b] \in Nat /\ i \in Nat /\ k \in Nat
      BY <1>4
    <3> QED BY <3>1, <3>2
  <2> QED BY <2>1, <1>1, <1>7, <1>8 DEF PoolInv, Pool!OneOwner
<1>12. Pool!OpenExactlyWhileOwned'
  <2>1. Pool!Held \cap expired = {} /\ expired \subseteq Pool!IdleConns
    BY DEF PoolInv, Pool!TypeOK, Pool!OneOwner
  <2> QED BY <2>1, <1>1, <1>7, <1>8 DEF PoolInv, Pool!OpenExactlyWhileOwned
<1>13. Pool!ReusedForItsAddress'
  <2>1. \A a \in Addrs : \A x \in Pool!Elems(idle'[a]) : peer[x] = a
    BY <1>5 DEF PoolInv, Pool!ReusedForItsAddress, Pool!Elems
  <2> QED BY <2>1, <1>1 DEF PoolInv, Pool!ReusedForItsAddress
<1>14. OldestExpireFirst'
  <2> SUFFICES ASSUME NEW a \in Addrs
               PROVE  \E m \in 0 .. Len(idle'[a]) :
                        \A i \in 1 .. Len(idle'[a]) : idle'[a][i] \in expired' <=> i <= m
    BY DEF OldestExpireFirst
  <2>1. Len(idle'[a]) \in Nat
    BY <1>4
  <2>2. \A i \in 1 .. Len(idle'[a]) : idle'[a][i] \in expired' <=> i <= 0
    BY <1>1, <2>1
  <2>3. 0 \in 0 .. Len(idle'[a])
    BY <2>1
  <2> QED BY <2>2, <2>3
<1> QED BY <1>9, <1>10, <1>11, <1>12, <1>13, <1>14 DEF PoolInv

-----------------------------------------------------------------------------
(* The theorems. *)

LEMMA PoolStep ==
  ASSUME Pool!PoolAssumption, PoolInv, [Pool!Next]_(Pool!vars) PROVE PoolInv'
<1>1. ASSUME NEW w \in Workers, Pool!Worker(w) PROVE PoolInv'
  <2>1. CASE Pool!Get(w)
    BY <2>1, GetHolds
  <2>2. CASE Pool!Pop(w)
    BY <2>2, PopHolds
  <2>3. CASE Pool!Check(w)
    BY <2>3, CheckHolds
  <2>4. CASE Pool!Drop(w)
    BY <2>4, CloseHolds DEF Pool!Drop, PoolInv, HoldsWhile
  <2>5. CASE Pool!Dial(w)
    BY <2>5, DialHolds
  <2>6. CASE Pool!Put(w)
    BY <2>6, PutHolds
  <2>7. CASE Pool!CloseAfterPayload(w)
    BY <2>7, CloseHolds DEF Pool!CloseAfterPayload, PoolInv, HoldsWhile
  <2> QED BY <1>1, <2>1, <2>2, <2>3, <2>4, <2>5, <2>6, <2>7 DEF Pool!Worker
<1>2. CASE UNCHANGED Pool!vars
  <2> USE <1>2 DEF PoolInv, Pool!vars
  <2>1. Pool!IdleConns' = Pool!IdleConns /\ Pool!Held' = Pool!Held
    BY DEF Pool!IdleConns, Pool!Held, Pool!Elems
  <2>2. Pool!TypeOK' /\ HoldsWhile' /\ Pool!OneOwner' /\ Pool!OpenExactlyWhileOwned'
    BY <2>1 DEF Pool!TypeOK, HoldsWhile, Pool!OneOwner, Pool!OpenExactlyWhileOwned
  <2>3. Pool!ReusedForItsAddress' /\ OldestExpireFirst'
    BY DEF Pool!ReusedForItsAddress, OldestExpireFirst, Pool!Elems
  <2> QED BY <2>2, <2>3
<1> QED BY <1>1, <1>2, ExpireHolds, ReapHolds DEF Pool!Next

LEMMA PoolInvariant ==
  ASSUME Pool!PoolAssumption PROVE Pool!Spec => []PoolInv
<1>1. Pool!Init => PoolInv
  BY PoolAtFirst
<1>2. PoolInv /\ [Pool!Next]_(Pool!vars) => PoolInv'
  BY PoolStep
<1> QED BY <1>1, <1>2, PTL DEF Pool!Spec

\* Types; no address has more idle connections than Put allows (pool.go's
\* maxSize), however many workers take, give back and close at once.
THEOREM PoolTypeCorrect ==
  ASSUME Pool!PoolAssumption PROVE Pool!Spec => [](Pool!TypeOK)
<1>1. PoolInv => Pool!TypeOK
  BY DEF PoolInv
<1> QED BY <1>1, PoolInvariant, PTL

\* Get, which tests a connection with the mutex released, Put and the reaper
\* never leave one with two workers, or with a worker and in a list.
THEOREM ConnectionsHaveOneOwner ==
  ASSUME Pool!PoolAssumption PROVE Pool!Spec => [](Pool!OneOwner)
<1>1. PoolInv => Pool!OneOwner
  BY DEF PoolInv
<1> QED BY <1>1, PoolInvariant, PTL

\* What is open is exactly what a worker holds or a list has: nobody uses a
\* connection that was closed, and none leaks.
THEOREM NoneLeaksOrIsUsedClosed ==
  ASSUME Pool!PoolAssumption PROVE Pool!Spec => [](Pool!OpenExactlyWhileOwned)
<1>1. PoolInv => Pool!OpenExactlyWhileOwned
  BY DEF PoolInv
<1> QED BY <1>1, PoolInvariant, PTL

\* A worker gets a connection to the address it asked for, however often it
\* has changed hands.
THEOREM ReuseIsToTheSameAddress ==
  ASSUME Pool!PoolAssumption PROVE Pool!Spec => [](Pool!ReusedForItsAddress)
<1>1. PoolInv => Pool!ReusedForItsAddress
  BY DEF PoolInv
<1> QED BY <1>1, PoolInvariant, PTL

-----------------------------------------------------------------------------
(* What is shared, side by side.  A behaviour is about one component, which  *)
(* it never changes: it is one of that component's own.                      *)

LEMMA PacerStays ==
  /\ Init /\ which = "pacer" => Pace!Init
  /\ which = "pacer" /\ [Next]_vars
       => [Pace!Next]_(Pace!vars) /\ (which = "pacer")'
  /\ ~ (which = "pacer") /\ [Next]_vars => (~ (which = "pacer"))'
<1>1. UNCHANGED vars => UNCHANGED <<which, Pace!vars>>
  BY DEF vars, pacing, Pace!vars, Pace!locals, Pace!history
<1> QED BY <1>1 DEF Init, Next

LEMMA PoolStays ==
  /\ Init /\ which = "pool" => Pool!Init
  /\ which = "pool" /\ [Next]_vars
       => [Pool!Next]_(Pool!vars) /\ (which = "pool")'
  /\ ~ (which = "pool") /\ [Next]_vars => (~ (which = "pool"))'
<1>1. UNCHANGED vars => UNCHANGED <<which, Pool!vars>>
  BY DEF vars, pooling, Pool!vars
<1> QED BY <1>1 DEF Init, Next

LEMMA RateStays ==
  /\ Init /\ which = "rate" => Rate!Init
  /\ which = "rate" /\ [Next]_vars
       => [Rate!Next]_(Rate!vars) /\ (which = "rate")'
  /\ ~ (which = "rate") /\ [Next]_vars => (~ (which = "rate"))'
<1>1. UNCHANGED vars => UNCHANGED <<which, Rate!vars>>
  BY DEF vars, rating, Rate!vars, Rate!estimator, Rate!limiter
<1> QED BY <1>1 DEF Init, Next

LEMMA IdleStays ==
  /\ Init /\ which = "idle" => Idle!Init
  /\ which = "idle" /\ [Next]_vars
       => [Idle!Next]_(Idle!vars) /\ (which = "idle")'
  /\ ~ (which = "idle") /\ [Next]_vars => (~ (which = "idle"))'
<1>1. UNCHANGED vars => UNCHANGED <<which, Idle!vars>>
  BY DEF vars, probing, idling, Idle!vars
<1> QED BY <1>1 DEF Init, Next

LEMMA WaitStays ==
  /\ Init /\ which = "probes" => Wait!Init
  /\ which = "probes" /\ [Next]_vars
       => [Wait!Next]_(Wait!vars) /\ (which = "probes")'
  /\ ~ (which = "probes") /\ [Next]_vars => (~ (which = "probes"))'
<1>1. UNCHANGED vars => UNCHANGED <<which, Wait!vars>>
  BY DEF vars, probing, waiting, Wait!vars, Wait!env, Wait!loopVars
<1> QED BY <1>1 DEF Init, Next

LEMMA XDPStays ==
  /\ Init /\ which = "xdp probes" => XDP!Init
  /\ which = "xdp probes" /\ [Next]_vars
       => [XDP!Next]_(XDP!vars) /\ (which = "xdp probes")'
  /\ ~ (which = "xdp probes") /\ [Next]_vars => (~ (which = "xdp probes"))'
<1>1. UNCHANGED vars => UNCHANGED <<which, XDP!vars>>
  BY DEF vars, probing, waiting, hopping, XDP!vars, XDP!env, XDP!receiving
<1> QED BY <1>1 DEF Init, Next

LEMMA UDPStays ==
  /\ Init /\ which = "udp" => UDP!Init
  /\ which = "udp" /\ [Next]_vars
       => [UDP!Next]_(UDP!vars) /\ (which = "udp")'
  /\ ~ (which = "udp") /\ [Next]_vars => (~ (which = "udp"))'
<1>1. UNCHANGED vars => UNCHANGED <<which, UDP!vars>>
  BY DEF vars, probing, waiting, asking, UDP!vars
<1> QED BY <1>1 DEF Init, Next

\* The slots of a batch are spent once each, for any number of workers, size of
\* the batch and rate (adaptive_rate.go's acquireBatched).
THEOREM SlotsAreSpentOnce == Spec => []SlotsConserved
<1>1. Pace!Spec => [](Pace!TypeOK)
  BY SharedAssumption, Pace!TypeCorrect
<1>2. Pace!Spec => [](Pace!SlotsConserved)
  BY SharedAssumption, Pace!SlotsAreConserved
<1>3. ~ (which = "pacer") => SlotsConserved
  BY DEF SlotsConserved
<1>4. Pace!TypeOK /\ Pace!SlotsConserved => SlotsConserved
  BY DEF SlotsConserved
<1> QED BY <1>1, <1>2, <1>3, <1>4, PacerStays, PTL DEF Spec, Pace!Spec

\* The workers together keep to the average rate, whatever they do between the
\* loads and the compare-and-swaps of WaitN (adaptive_rate.go).
THEOREM TheAverageRateIsKept == Spec => []AverageRate
<1>1. Pace!Spec => [](Pace!WindowsDisjoint)
  BY SharedAssumption, Pace!WindowsAreDisjoint
<1>2. Pace!Spec => [](Pace!AverageRate)
  BY SharedAssumption, Pace!KeepsTheAverageRate
<1>3. ~ (which = "pacer") => AverageRate
  BY DEF AverageRate
<1>4. Pace!WindowsDisjoint /\ Pace!AverageRate => AverageRate
  BY DEF AverageRate
<1> QED BY <1>1, <1>2, <1>3, <1>4, PacerStays, PTL DEF Spec, Pace!Spec

\* No two workers have one connection, none is used after it is closed or left
\* open with no owner, and none is reused for another address, for any number
\* of workers, addresses and connections (connpool/pool.go, connect.go).
THEOREM ConnectionsAreOwned == Spec => []OneOwner
<1>1. Pool!Spec => [](Pool!TypeOK)
  BY SharedAssumption, PoolTypeCorrect
<1>2. Pool!Spec => [](Pool!OneOwner)
  BY SharedAssumption, ConnectionsHaveOneOwner
<1>3. Pool!Spec => [](Pool!OpenExactlyWhileOwned)
  BY SharedAssumption, NoneLeaksOrIsUsedClosed
<1>4. Pool!Spec => [](Pool!ReusedForItsAddress)
  BY SharedAssumption, ReuseIsToTheSameAddress
<1>5. ~ (which = "pool") => OneOwner
  BY DEF OneOwner
<1>6. Pool!TypeOK /\ Pool!OneOwner /\ Pool!OpenExactlyWhileOwned
        /\ Pool!ReusedForItsAddress => OneOwner
  BY DEF OneOwner
<1> QED BY <1>1, <1>2, <1>3, <1>4, <1>5, <1>6, PoolStays, PTL DEF Spec, Pool!Spec

\* Every report and every loss is judged once, and the estimate stays among the
\* samples, for any workers, latencies and window (adaptive_rate.go).
THEOREM LossesAreJudgedOnce == Spec => []LossesConserved
<1>1. Rate!Spec => [](Rate!LossesConserved)
  BY SharedAssumption, EveryLossIsJudgedOnce
<1>2. Rate!Spec => [](Rate!SettledWithinSamples)
  BY SharedAssumption, EstimateIsAmongTheSamples
<1>3. ~ (which = "rate") => LossesConserved
  BY DEF LossesConserved
<1>4. Rate!LossesConserved /\ Rate!SettledWithinSamples => LossesConserved
  BY DEF LossesConserved
<1> QED BY <1>1, <1>2, <1>3, <1>4, RateStays, PTL DEF Spec, Rate!Spec

\* An idle scan is misled by another packet of the zombie's between its two
\* readings or by a reading that is late, and by nothing else: with neither
\* another to raise the counter nor a timeout there is none, for any number of
\* jobs and identifiers (idle.go).
THEOREM OnlyDisturbedAreMisled == Spec => []OnlyDisturbedMislead
<1>1. Idle!Spec => [](Idle!UndisturbedIsRight)
  BY SharedAssumption, TheUndisturbedAreRight
<1>2. Idle!Spec => [](Idle!AloneIsUndisturbed)
  BY SharedAssumption, TheAloneAreUndisturbed
<1>3. ~ (which = "idle") => OnlyDisturbedMislead
  BY DEF OnlyDisturbedMislead
<1>4. Idle!UndisturbedIsRight /\ Idle!AloneIsUndisturbed => OnlyDisturbedMislead
  BY DEF OnlyDisturbedMislead, Idle!OnlyDisturbedMislead
<1> QED BY <1>1, <1>2, <1>3, <1>4, IdleStays, PTL DEF Spec, Idle!Spec

\* Whatever a port is probed with, its verdict is what its host answered, for
\* any probes, hosts, ports and attempts (raw_tcp.go, xdp.go, udp.go).
THEOREM EveryVerdictIsTheHosts == Spec => []VerdictIsTheHosts
<1>1. Wait!Spec => [](Wait!TypeOK)
  BY SharedAssumption, ProbesTypeCorrect
<1>2. Wait!Spec => [](Wait!VerdictIsTheHosts)
  BY SharedAssumption, VerdictsAreTheHosts
<1>3. /\ ~ (which = "probes") \/ (Wait!TypeOK /\ Wait!VerdictIsTheHosts)
      /\ ~ (which = "xdp probes") \/ XDP!VerdictIsTheHosts
      /\ ~ (which = "udp") \/ UDP!VerdictIsTheHosts
      => VerdictIsTheHosts
  BY DEF VerdictIsTheHosts
<1>4. Spec => [](~ (which = "probes") \/ (Wait!TypeOK /\ Wait!VerdictIsTheHosts))
  BY <1>1, <1>2, WaitStays, PTL DEF Spec, Wait!Spec
<1>5. Spec => [](~ (which = "xdp probes") \/ XDP!VerdictIsTheHosts)
  BY XDPVerdictsAreTheHosts, XDPStays, PTL DEF Spec, XDP!Spec
<1>6. Spec => [](~ (which = "udp") \/ UDP!VerdictIsTheHosts)
  BY UDPVerdictsAreTheHosts, UDPStays, PTL DEF Spec, UDP!Spec
<1> QED BY <1>3, <1>4, <1>5, <1>6, PTL

\* Where no two probes have one host and port, none misses a reply that comes
\* while it waits, over raw sockets or AF_XDP; over UDP none ever does
\* (raw_tcp.go:212-221, xdp_waiters.go, udp.go).
THEOREM EveryReplyIsHeard == ASSUME OneProbeAKey PROVE Spec => []NoReplyUnheard
<1>1. Wait!Spec => [](Wait!NoReplyUnheard)
  BY SharedAssumption, NoReplyIsUnheard
<1>2. XDP!Spec => [](XDP!NoReplyUnheard)
  BY NoFrameIsUnheard
<1>3. /\ ~ (which = "probes") \/ Wait!NoReplyUnheard
      /\ ~ (which = "xdp probes") \/ XDP!NoReplyUnheard
      /\ ~ (which = "udp") \/ UDP!NoReplyUnheard
      => NoReplyUnheard
  BY DEF NoReplyUnheard
<1>4. Spec => [](~ (which = "probes") \/ Wait!NoReplyUnheard)
  BY <1>1, WaitStays, PTL DEF Spec, Wait!Spec
<1>5. Spec => [](~ (which = "xdp probes") \/ XDP!NoReplyUnheard)
  BY <1>2, XDPStays, PTL DEF Spec, XDP!Spec
<1>6. Spec => [](~ (which = "udp") \/ UDP!NoReplyUnheard)
  BY NoDatagramIsUnheard, UDPStays, PTL DEF Spec, UDP!Spec
<1> QED BY <1>3, <1>4, <1>5, <1>6, PTL

\* No reply or frame that came during one attempt is taken for the answer to a
\* later one: each attempt first empties the channel (raw_tcp.go:241,
\* xdp.go:865-870).
THEOREM StaleRepliesAreDiscarded == Spec => DrainDiscards
<1> DEFINE Fresh == /\ which = "probes"     => Wait!TakesOnlyFresh
                    /\ which = "xdp probes" => XDP!TakesOnlyFresh
<1>1. Wait!Spec => [][Wait!TakesOnlyFresh]_(Wait!vars)
  BY SharedAssumption, RepliesTakenAreFresh DEF Wait!DrainDiscards
<1>2. ~ (which = "probes") /\ ~ (which = "xdp probes") => [Fresh]_vars
  OBVIOUS
<1>3. which = "probes" /\ [Next]_vars /\ [Wait!TakesOnlyFresh]_(Wait!vars)
        => [Fresh]_vars
  <2>1. UNCHANGED Wait!vars => Wait!TakesOnlyFresh
    BY DEF Wait!vars, Wait!TakesOnlyFresh
  <2> QED BY <2>1
<1>4. which = "xdp probes" /\ [Next]_vars /\ [XDP!TakesOnlyFresh]_(XDP!vars)
        => [Fresh]_vars
  <2>1. UNCHANGED XDP!vars => XDP!TakesOnlyFresh
    BY DEF XDP!vars, XDP!TakesOnlyFresh
  <2> QED BY <2>1
<1>5. (Spec => DrainDiscards) <=> (Spec => [][Fresh]_vars)
  BY DEF DrainDiscards
<1> HIDE DEF Fresh
<1>6. Spec => [][Fresh]_vars
  BY <1>1, <1>2, <1>3, <1>4, FramesTakenAreFresh, WaitStays, XDPStays, PTL
     DEF Spec, Wait!Spec, XDP!Spec
<1> QED BY <1>5, <1>6
=============================================================================
