---------------------------- MODULE CommandProofs ----------------------------
(***************************************************************************)
(* Proofs about the commands: what outlives one, or is asked of it from    *)
(* outside (the web server, the resume checkpoint, the installers and      *)
(* evidence bundles), and what one decides itself (the session, its policy *)
(* check and its scripts); for any number of clients, jobs, commands,      *)
(* targets, rules, files and keys, and without the bounds of a run; and    *)
(* about the sum of them, which the runs check.                            *)
(*                                                                         *)
(* The parts do not touch each other's state; a variable stands for the    *)
(* one of that name in each module that has it.                            *)
(***************************************************************************)
EXTENDS CommandParts, WellFoundedInduction, FiniteSetTheorems, SequenceTheorems, TLAPS

\* A set of numbers that is not empty has a least element.
LEMMA LeastNumber ==
  ASSUME NEW S \in SUBSET Nat, S # {}
  PROVE  \E n \in S : \A m \in S : n <= m
<1> DEFINE R == { p \in Nat \X Nat : p[1] < p[2] }
<1>1. IsWellFoundedOn(R, Nat)
  BY NatLessThanWellFounded DEF OpToRel
<1>2. \A m, n \in Nat : m < n => <<m, n>> \in R
  OBVIOUS
<1> HIDE DEF R
<1>3. PICK n \in S : \A m \in S : ~ (<<m, n>> \in R)
  BY <1>1, WFMin
<1>4. \A m \in S : n <= m
  <2> TAKE m \in S
  <2>1. n \in Nat /\ m \in Nat
    OBVIOUS
  <2>2. ~ (m < n)
    BY <1>2, <1>3, <2>1
  <2> QED BY <2>1, <2>2
<1> QED BY <1>4

-----------------------------------------------------------------------------
(* The web server. *)

\* What has passed the checks is without fault.
RequestsChecked ==
  /\ asked \in [Clients -> (SUBSET Web!CheckNames) \cup {Web!NoRequest}]
  /\ status \in [Clients -> Nat]
  /\ admitted \subseteq Clients /\ \A c \in admitted : asked[c] = {}
  /\ served \subseteq {{}}

\* The scan that runs is the last started, with nothing of another shown beside
\* its progress; between two scans the last is shown, and all of it.
LastScanShown ==
  /\ started \in Nat /\ running \in BOOLEAN
  /\ progress \in [scan : {started}, done : 0 .. Total]
  /\ running => started > 0 /\ shown = 0 /\ scanners = {progress}
  /\ ~ running => scanners = {} /\ shown = started
  /\ ~ running /\ started > 0 => progress.done = Total
  /\ \A c \in Clients : status[c] = 409 => started > 0

\* No client has been shown more than there is.
SeenSoFar ==
  /\ seen \in [Clients -> [scan : Nat, done : Nat]]
  /\ \A c \in Clients :
       \/ seen[c].scan < progress.scan
       \/ seen[c].scan = progress.scan /\ seen[c].done <= progress.done

WebInv == RequestsChecked /\ LastScanShown /\ SeenSoFar

\* The answer to a request is 0 only if the checks find nothing wrong with it.
LEMMA VerdictOfNone ==
  ASSUME NEW faults \in SUBSET Web!CheckNames
  PROVE  /\ Web!Verdict(faults) \in Nat /\ Web!Verdict(faults) # 409
         /\ Web!Verdict(faults) = 0 => faults = {}
<1> DEFINE hit == { i \in 1 .. Len(Web!Checks) : Web!Checks[i][1] \in faults }
<1>1. /\ Len(Web!Checks) = 14
      /\ \A i \in 1 .. 14 : Web!Checks[i][2] \in Nat \ {0, 409}
  BY DEF Web!Checks
<1>2. CASE hit = {}
  <2>1. faults = {}
    BY <1>2 DEF Web!CheckNames
  <2> QED BY <1>2, <2>1 DEF Web!Verdict
<1>3. CASE hit # {}
  <2>1. hit \in SUBSET Nat
    BY <1>1
  <2>2. Web!Verdict(faults) = Web!Checks[CHOOSE i \in hit : \A k \in hit : i <= k][2]
    BY <1>3 DEF Web!Verdict
  <2> DEFINE first == CHOOSE i \in hit : \A k \in hit : i <= k
  <2>3. \E i \in hit : \A k \in hit : i <= k
    <3> HIDE DEF hit
    <3> QED BY <1>3, <2>1, LeastNumber
  <2>4. first \in hit
    <3> HIDE DEF hit
    <3> QED BY <2>3
  <2>5. first \in 1 .. 14
    <3> HIDE DEF first
    <3> QED BY <1>1, <2>4
  <2>6. Web!Verdict(faults) = Web!Checks[first][2]
    BY <2>2
  <2> HIDE DEF first
  <2>7. Web!Checks[first][2] \in Nat \ {0, 409}
    BY <1>1, <2>5
  <2> QED BY <2>6, <2>7
<1> QED BY <1>2, <1>3

\* There is no check called "none".
LEMMA NoneIsNoCheck == Web!NoRequest \notin SUBSET Web!CheckNames
<1>1. "none" \notin Web!CheckNames
  <2> DEFINE Named(i) == Web!Checks[i][1] # "none"
  <2>1. /\ Named(1) /\ Named(2) /\ Named(3) /\ Named(4) /\ Named(5)
        /\ Named(6) /\ Named(7) /\ Named(8) /\ Named(9) /\ Named(10)
        /\ Named(11) /\ Named(12) /\ Named(13) /\ Named(14)
    BY DEF Web!Checks
  <2> HIDE DEF Named
  <2>3. \A i \in 1 .. 14 : Named(i)
    BY <2>1
  <2>2. Len(Web!Checks) = 14
    BY DEF Web!Checks
  <2> QED BY <2>2, <2>3 DEF Web!CheckNames, Named
<1> QED BY <1>1 DEF Web!NoRequest

LEMMA WebInit == ASSUME Web!WebAssumption, Web!Init PROVE WebInv
<1>1. RequestsChecked
  BY DEF Web!Init, RequestsChecked
<1>2. LastScanShown
  <2>1. progress = [scan |-> 0, done |-> 0] /\ started = 0
    BY DEF Web!Init, Web!Idle
  <2>2. progress \in [scan : {started}, done : 0 .. Total]
    BY <2>1 DEF Web!WebAssumption
  <2>3. \A c \in Clients : status[c] = 0
    BY DEF Web!Init
  <2>4. running \in BOOLEAN /\ ~ running /\ scanners = {} /\ shown = started
    BY DEF Web!Init
  <2>6. started \in Nat /\ ~ (started > 0)
    BY <2>1
  <2>5. \A c \in Clients : status[c] # 409
    BY <2>3
  <2> QED BY <2>2, <2>4, <2>5, <2>6 DEF LastScanShown
<1>3. SeenSoFar
  BY DEF Web!Init, Web!Idle, SeenSoFar
<1> QED BY <1>1, <1>2, <1>3 DEF WebInv

LEMMA WebStep ==
  ASSUME Web!WebAssumption, WebInv, Web!Next PROVE WebInv' /\ Web!GoesOn
<1>0. RequestsChecked /\ LastScanShown /\ SeenSoFar /\ Total \in Nat
  BY DEF WebInv, Web!WebAssumption
<1>s. SeenSoFar /\ UNCHANGED <<seen, progress>> => SeenSoFar' /\ Web!GoesOn
  BY DEF SeenSoFar, Web!GoesOn
<1>1. ASSUME NEW c \in Clients, Web!Request(c) PROVE WebInv' /\ Web!GoesOn
  <2>1. PICK faults \in Requests : asked' = [asked EXCEPT ![c] = faults]
    BY <1>1 DEF Web!Request
  <2>2. asked' \in [Clients -> (SUBSET Web!CheckNames) \cup {Web!NoRequest}]
    BY <1>0, <2>1 DEF RequestsChecked, Web!WebAssumption
  <2>3. c \notin admitted
    BY <1>0, <1>1 DEF Web!Request, RequestsChecked, Web!NoRequest
  <2>4. RequestsChecked'
    BY <1>0, <1>1, <2>1, <2>2, <2>3 DEF Web!Request, RequestsChecked
  <2>5. LastScanShown'
    BY <1>0, <1>1 DEF Web!Request, RequestsChecked, LastScanShown
  <2> QED BY <1>0, <1>1, <1>s, <2>4, <2>5 DEF Web!Request, WebInv
<1>2. ASSUME NEW c \in Clients, Web!Check(c) PROVE WebInv' /\ Web!GoesOn
  <2> DEFINE v == Web!Verdict(asked[c])
  <2>1. asked[c] \in SUBSET Web!CheckNames
    BY <1>0, <1>2 DEF Web!Check, RequestsChecked
  <2>2. v \in Nat /\ v # 409 /\ (v = 0 => asked[c] = {})
    BY <2>1, VerdictOfNone
  <2> HIDE DEF v
  <2>3. CASE v = 0
    <3>1. admitted' = admitted \cup {c} /\ UNCHANGED <<asked, status>>
      BY <1>2, <2>3 DEF Web!Check, v
    <3> QED BY <1>0, <1>2, <1>s, <2>2, <2>3, <3>1
            DEF Web!Check, WebInv, RequestsChecked, LastScanShown
  <2>4. CASE v # 0
    <3>1. /\ status' = [status EXCEPT ![c] = v]
          /\ asked' = [asked EXCEPT ![c] = Web!NoRequest]
          /\ admitted' = admitted \ {c}
      BY <1>2, <2>4 DEF Web!Check, Web!Answer, v
    <3>2. RequestsChecked'
      BY <1>0, <1>2, <2>2, <3>1 DEF Web!Check, RequestsChecked
    <3>3. LastScanShown'
      BY <1>0, <1>2, <2>2, <3>1 DEF Web!Check, RequestsChecked, LastScanShown
    <3> QED BY <1>0, <1>2, <1>s, <3>2, <3>3 DEF Web!Check, WebInv
  <2> QED BY <2>3, <2>4
<1>3. ASSUME NEW c \in Clients, Web!Start(c) PROVE WebInv' /\ Web!GoesOn
  <2>1. c \in admitted /\ asked[c] = {}
    BY <1>0, <1>3 DEF Web!Start, RequestsChecked
  <2>2. /\ asked' = [asked EXCEPT ![c] = Web!NoRequest]
        /\ admitted' = admitted \ {c} /\ seen' = seen
    BY <1>3 DEF Web!Start, Web!Answer
  <2>3. CASE running
    <3>1. /\ status' = [status EXCEPT ![c] = 409]
          /\ UNCHANGED <<running, progress, shown, scanners, started, served>>
      BY <1>3, <2>3 DEF Web!Start, Web!Busy, Web!Answer
    <3>2. RequestsChecked'
      BY <1>0, <2>2, <3>1 DEF RequestsChecked
    <3>3. LastScanShown'
      BY <1>0, <2>3, <3>1 DEF RequestsChecked, LastScanShown
    <3> QED BY <1>0, <1>s, <2>2, <3>1, <3>2, <3>3 DEF WebInv
  <2>4. CASE ~ running
    <3>1. /\ status' = [status EXCEPT ![c] = 202]
          /\ started' = started + 1 /\ running' = TRUE /\ shown' = 0
          /\ progress' = [scan |-> started', done |-> 0]
          /\ scanners' = scanners \cup {[scan |-> started', done |-> 0]}
          /\ served' = served \cup {asked[c]}
      BY <1>3, <2>4 DEF Web!Start, Web!Busy, Web!Answer
    <3>2. RequestsChecked'
      BY <1>0, <2>1, <2>2, <3>1 DEF RequestsChecked
    <3>3. LastScanShown'
      BY <1>0, <2>4, <3>1 DEF LastScanShown
    <3>4. SeenSoFar' /\ Web!GoesOn
      BY <1>0, <2>2, <3>1 DEF SeenSoFar, LastScanShown, Web!GoesOn
    <3> QED BY <3>2, <3>3, <3>4 DEF WebInv
  <2> QED BY <2>3, <2>4, <1>0 DEF LastScanShown
<1>4. ASSUME NEW c \in Clients, Web!Status(c) PROVE WebInv' /\ Web!GoesOn
  <2>1. seen' = [seen EXCEPT ![c] = progress]
    BY <1>4 DEF Web!Status, Web!Shown
  <2>2. progress \in [scan : Nat, done : Nat]
    BY <1>0 DEF LastScanShown
  <2>3. RequestsChecked' /\ LastScanShown'
    BY <1>0, <1>4 DEF Web!Status, RequestsChecked, LastScanShown
  <2>4. progress' = progress
    BY <1>4 DEF Web!Status
  <2>5. SeenSoFar' /\ Web!GoesOn
    BY <1>0, <2>1, <2>2, <2>4 DEF SeenSoFar, Web!GoesOn
  <2> QED BY <2>3, <2>5 DEF WebInv
<1>5. ASSUME NEW s \in scanners, Web!Progress(s) PROVE WebInv' /\ Web!GoesOn
  <2>1. running /\ s = progress /\ scanners = {progress} /\ started > 0
    BY <1>0, <1>5 DEF LastScanShown
  <2> DEFINE next == [progress EXCEPT !.done = @ + 1]
  <2>2. next \in [scan : {started}, done : 0 .. Total]
        /\ next.scan = progress.scan /\ next.done = progress.done + 1
    BY <1>0, <1>5, <2>1 DEF Web!Progress, LastScanShown
  <2>3. /\ scanners' = {next} /\ progress' = next
        /\ UNCHANGED <<asked, admitted, status, running, shown, started, served, seen>>
    BY <1>5, <2>1 DEF Web!Progress
  <2> HIDE DEF next
  <2>4. RequestsChecked' /\ LastScanShown'
    BY <1>0, <2>1, <2>2, <2>3 DEF RequestsChecked, LastScanShown
  <2>5. SeenSoFar' /\ Web!GoesOn
    BY <1>0, <2>2, <2>3 DEF SeenSoFar, LastScanShown, Web!GoesOn
  <2> QED BY <2>4, <2>5 DEF WebInv
<1>6. ASSUME NEW s \in scanners, Web!Finish(s) PROVE WebInv' /\ Web!GoesOn
  <2>1. running /\ s = progress /\ scanners = {progress} /\ started > 0
    BY <1>0, <1>6 DEF LastScanShown
  <2>2. /\ scanners' = {} /\ shown' = started /\ running' = FALSE
        /\ progress.done = Total
        /\ UNCHANGED <<asked, admitted, status, progress, started, served, seen>>
    BY <1>0, <1>6, <2>1 DEF Web!Finish, LastScanShown
  <2>3. RequestsChecked' /\ LastScanShown'
    BY <1>0, <2>1, <2>2 DEF RequestsChecked, LastScanShown
  <2> QED BY <1>0, <1>s, <2>2, <2>3 DEF WebInv
<1> QED BY <1>1, <1>2, <1>3, <1>4, <1>5, <1>6 DEF Web!Next, Web!Scanner

LEMMA WebInvariant ==
  ASSUME Web!WebAssumption PROVE Web!SafetySpec => []WebInv /\ [][Web!GoesOn]_Web!vars
<1>1. Web!Init => WebInv
  BY WebInit
<1>2. WebInv /\ [Web!Next]_Web!vars => WebInv' /\ [Web!GoesOn]_Web!vars
  <2>1. WebInv /\ UNCHANGED Web!vars => WebInv'
    BY DEF WebInv, RequestsChecked, LastScanShown, SeenSoFar, Web!vars
  <2> QED BY <2>1, WebStep
<1> QED BY <1>1, <1>2, PTL DEF Web!SafetySpec

\* handleScan takes one scan at a time, for a request that has passed the guard
\* and the checks, whichever requests race for scanState.running.
THEOREM OneScanRunsAtATime ==
  ASSUME Web!WebAssumption PROVE Web!SafetySpec => []Web!OneScanAtATime
<1>1. WebInv => Web!OneScanAtATime
  BY DEF WebInv, RequestsChecked, LastScanShown, Web!OneScanAtATime
<1> QED BY <1>1, WebInvariant, PTL

\* The results a poll is given are those of the last scan, all of them, or none
\* while one runs.
THEOREM ResultsAreTheLastScans ==
  ASSUME Web!WebAssumption PROVE Web!SafetySpec => []Web!ResultsOfThisScan
<1>1. WebInv => Web!ResultsOfThisScan
  BY DEF WebInv, LastScanShown, Web!ResultsOfThisScan
<1> QED BY <1>1, WebInvariant, PTL

\* No client that polls the status sees a scan go back.
THEOREM PollsGoOn ==
  ASSUME Web!WebAssumption PROVE Web!SafetySpec => Web!StatusNeverGoesBack
BY WebInvariant, PTL DEF Web!StatusNeverGoesBack

-----------------------------------------------------------------------------
(* The installers. *)

Contents == Versions \cup {Install!Absent}
Torn     == Contents \cup {Install!Torn}
Steps    == {"idle", "fetch", "verify", "create", "write", "rename", "cleanup",
             "stat", "remove"}

\* Nothing that is not a whole version, or no file, is where a scan finds it.
InstallTypes ==
  /\ file \in [Install!Paths -> Contents]
  /\ temp \in [Processes -> Torn] /\ data \in [Processes -> Torn]
  /\ want \in [Processes -> Contents]
  /\ path \in [Processes -> Install!Paths]
  /\ pc \in [Processes -> Steps]
  /\ loaded \subseteq Contents

\* What a command at this step has in hand: from the digest on, the content that
\* is wanted; before the rename, all of it in its temporary file.
InHand(c) ==
  /\ pc[c] \in {"fetch", "verify", "create", "write", "rename"} => want[c] \in Versions
  /\ pc[c] \in {"create", "write", "rename"} => data[c] = want[c]
  /\ pc[c] = "rename" => temp[c] = want[c]
  /\ pc[c] \in {"stat", "remove"} => path[c] \in Modules
  /\ pc[c] \notin {"write", "rename", "cleanup"} => temp[c] = Install!Absent

InstallInv == InstallTypes /\ \A c \in Processes : InHand(c)

LEMMA InstallInit == ASSUME Install!Init PROVE InstallInv
BY DEF Install!Init, InstallInv, InstallTypes, InHand, Contents, Torn, Steps,
       Install!Paths

\* The fields of other commands are as they were.
LEMMA OthersInHand ==
  ASSUME InstallInv, NEW c \in Processes,
         \A d \in Processes \ {c} :
            /\ pc'[d] = pc[d] /\ path'[d] = path[d] /\ want'[d] = want[d]
            /\ data'[d] = data[d] /\ temp'[d] = temp[d]
  PROVE  \A d \in Processes \ {c} : InHand(d)'
BY DEF InstallInv, InHand

LEMMA InstallStep ==
  ASSUME InstallInv, Install!Next PROVE InstallInv' /\ Install!Whole
<1>0. InstallTypes /\ \A c \in Processes : InHand(c)
  BY DEF InstallInv
<1>w. UNCHANGED file => Install!Whole
  BY DEF Install!Whole
<1>q. ASSUME NEW c \in Processes, InstallTypes', InHand(c)',
             \A d \in Processes \ {c} :
               /\ pc'[d] = pc[d] /\ path'[d] = path[d] /\ want'[d] = want[d]
               /\ data'[d] = data[d] /\ temp'[d] = temp[d]
      PROVE  InstallInv'
  BY <1>q, OthersInHand DEF InstallInv
<1>1. ASSUME NEW c \in Processes, Install!Begin(c) PROVE InstallInv' /\ Install!Whole
  <2>1. PICK p \in Install!Paths, v \in Versions :
          path' = [path EXCEPT ![c] = p] /\ want' = [want EXCEPT ![c] = v]
    BY <1>1 DEF Install!Begin
  <2>2. /\ pc' = [pc EXCEPT ![c] = "fetch"] /\ pc[c] = "idle"
        /\ UNCHANGED <<file, temp, data, loaded>>
    BY <1>1 DEF Install!Begin, Install!Go
  <2>3. InstallTypes'
    BY <1>0, <2>1, <2>2 DEF InstallTypes, Contents, Steps
  <2>4. InHand(c)'
    BY <1>0, <2>1, <2>2 DEF InstallTypes, InHand
  <2> QED BY <1>0, <1>q, <1>w, <2>1, <2>2, <2>3, <2>4 DEF InstallTypes
<1>2. ASSUME NEW c \in Processes, Install!Fetch(c) PROVE InstallInv' /\ Install!Whole
  <2>1. /\ pc[c] = "fetch" /\ UNCHANGED <<file, temp, path, want, loaded>>
        /\ \/ \E d \in Versions \cup {Install!Torn} :
                /\ data' = [data EXCEPT ![c] = d]
                /\ pc' = [pc EXCEPT ![c] = "verify"]
           \/ pc' = [pc EXCEPT ![c] = "cleanup"] /\ UNCHANGED data
    BY <1>2 DEF Install!Fetch, Install!Fail, Install!Go
  <2>2. InstallTypes'
    BY <1>0, <2>1 DEF InstallTypes, Contents, Torn, Steps
  <2>3. InHand(c)'
    BY <1>0, <2>1 DEF InstallTypes, InHand
  <2> QED BY <1>0, <1>q, <1>w, <2>1, <2>2, <2>3 DEF InstallTypes
<1>3. ASSUME NEW c \in Processes, Install!Verify(c) PROVE InstallInv' /\ Install!Whole
  <2>1. /\ pc[c] = "verify" /\ UNCHANGED <<file, temp, path, want, data, loaded>>
        /\ \/ data[c] = want[c] /\ pc' = [pc EXCEPT ![c] = "create"]
           \/ pc' = [pc EXCEPT ![c] = "cleanup"]
    BY <1>3 DEF Install!Verify, Install!Verified, Install!Fail, Install!Go
  <2>2. InstallTypes'
    BY <1>0, <2>1 DEF InstallTypes, Steps
  <2>3. InHand(c)'
    BY <1>0, <2>1 DEF InstallTypes, InHand
  <2> QED BY <1>0, <1>q, <1>w, <2>1, <2>2, <2>3 DEF InstallTypes
<1>4. ASSUME NEW c \in Processes, Install!Create(c) PROVE InstallInv' /\ Install!Whole
  <2>1. /\ pc[c] = "create" /\ UNCHANGED <<file, path, want, data, loaded>>
        /\ \/ /\ temp' = [temp EXCEPT ![c] = Install!Torn]
              /\ pc' = [pc EXCEPT ![c] = "write"]
           \/ pc' = [pc EXCEPT ![c] = "cleanup"] /\ UNCHANGED temp
    BY <1>4 DEF Install!Create, Install!Fail, Install!Go
  <2>2. InstallTypes'
    BY <1>0, <2>1 DEF InstallTypes, Torn, Steps
  <2>3. InHand(c)'
    BY <1>0, <2>1 DEF InstallTypes, InHand
  <2> QED BY <1>0, <1>q, <1>w, <2>1, <2>2, <2>3 DEF InstallTypes
<1>5. ASSUME NEW c \in Processes, Install!Write(c) PROVE InstallInv' /\ Install!Whole
  <2>1. /\ pc[c] = "write" /\ UNCHANGED <<file, path, want, data, loaded>>
        /\ \/ /\ temp' = [temp EXCEPT ![c] = data[c]]
              /\ pc' = [pc EXCEPT ![c] = "rename"]
           \/ pc' = [pc EXCEPT ![c] = "cleanup"] /\ UNCHANGED temp
    BY <1>5 DEF Install!Write, Install!AfterShortWrite, Install!Go
  <2>2. InstallTypes'
    BY <1>0, <2>1 DEF InstallTypes, Steps
  <2>3. InHand(c)'
    BY <1>0, <2>1 DEF InstallTypes, InHand
  <2> QED BY <1>0, <1>q, <1>w, <2>1, <2>2, <2>3 DEF InstallTypes
<1>6. ASSUME NEW c \in Processes, Install!Rename(c) PROVE InstallInv' /\ Install!Whole
  <2>1. /\ pc[c] = "rename" /\ pc' = [pc EXCEPT ![c] = "cleanup"]
        /\ UNCHANGED <<path, want, data, loaded>>
        /\ \/ /\ file' = [file EXCEPT ![path[c]] = temp[c]]
              /\ temp' = [temp EXCEPT ![c] = Install!Absent]
           \/ UNCHANGED <<file, temp>>
    BY <1>6 DEF Install!Rename, Install!Go
  <2>2. temp[c] = want[c] /\ want[c] \in Versions
    BY <1>0, <2>1 DEF InHand
  <2>3. InstallTypes'
    BY <1>0, <2>1, <2>2 DEF InstallTypes, Contents, Torn, Steps
  <2>4. InHand(c)'
    BY <1>0, <2>1 DEF InstallTypes, InHand
  <2>5. Install!Whole
    BY <1>0, <2>1, <2>2 DEF InstallTypes, Install!Whole
  <2> QED BY <1>0, <1>q, <2>1, <2>3, <2>4, <2>5 DEF InstallTypes
<1>7. ASSUME NEW c \in Processes, Install!Cleanup(c) \/ Install!Kill(c)
      PROVE  InstallInv' /\ Install!Whole
  <2>1. /\ pc' = [pc EXCEPT ![c] = "idle"] /\ UNCHANGED <<file, loaded>>
        /\ temp' = [temp EXCEPT ![c] = Install!Absent]
        /\ path' = [path EXCEPT ![c] = Executable]
        /\ want' = [want EXCEPT ![c] = Install!Absent]
        /\ data' = [data EXCEPT ![c] = Install!Absent]
    BY <1>7 DEF Install!Cleanup, Install!DropTemp, Install!Kill, Install!Go
  <2>2. InstallTypes'
    BY <1>0, <2>1 DEF InstallTypes, Install!Paths, Contents, Torn, Steps
  <2>3. InHand(c)'
    BY <1>0, <2>1 DEF InstallTypes, InHand
  <2> QED BY <1>0, <1>q, <1>w, <2>1, <2>2, <2>3 DEF InstallTypes
<1>8. ASSUME NEW c \in Processes, Install!BeginRemove(c) PROVE InstallInv' /\ Install!Whole
  <2>1. PICK p \in Modules : path' = [path EXCEPT ![c] = p]
    BY <1>8 DEF Install!BeginRemove
  <2>2. /\ pc' = [pc EXCEPT ![c] = "stat"] /\ pc[c] = "idle"
        /\ UNCHANGED <<file, temp, want, data, loaded>>
    BY <1>8 DEF Install!BeginRemove, Install!Go
  <2>3. InstallTypes'
    BY <1>0, <2>1, <2>2 DEF InstallTypes, Install!Paths, Steps
  <2>4. InHand(c)'
    BY <1>0, <2>1, <2>2 DEF InstallTypes, InHand
  <2> QED BY <1>0, <1>q, <1>w, <2>1, <2>2, <2>3, <2>4 DEF InstallTypes
<1>9. ASSUME NEW c \in Processes, Install!Stat(c) PROVE InstallInv' /\ Install!Whole
  <2>1. /\ pc[c] = "stat" /\ UNCHANGED <<file, temp, path, want, data, loaded>>
        /\ \E to \in {"cleanup", "remove"} : pc' = [pc EXCEPT ![c] = to]
    BY <1>9 DEF Install!Stat, Install!Fail, Install!Go
  <2>2. InstallTypes'
    BY <1>0, <2>1 DEF InstallTypes, Steps
  <2>3. InHand(c)'
    BY <1>0, <2>1 DEF InstallTypes, InHand
  <2> QED BY <1>0, <1>q, <1>w, <2>1, <2>2, <2>3 DEF InstallTypes
<1>10. ASSUME NEW c \in Processes, Install!Remove(c) PROVE InstallInv' /\ Install!Whole
  <2>1. /\ pc[c] = "remove" /\ pc' = [pc EXCEPT ![c] = "cleanup"]
        /\ UNCHANGED <<temp, path, want, data, loaded>>
        /\ \/ UNCHANGED file
           \/ file' = [file EXCEPT ![path[c]] = Install!Absent]
    BY <1>10 DEF Install!Remove, Install!Go
  <2>2. path[c] \in Modules
    BY <1>0, <2>1 DEF InHand
  <2>3. InstallTypes'
    BY <1>0, <2>1 DEF InstallTypes, Contents, Steps
  <2>4. InHand(c)'
    BY <1>0, <2>1 DEF InstallTypes, InHand
  <2>5. Install!Whole
    BY <1>0, <2>1, <2>2 DEF InstallTypes, Install!Whole
  <2> QED BY <1>0, <1>q, <2>1, <2>3, <2>4, <2>5 DEF InstallTypes
<1>11. ASSUME Install!Load PROVE InstallInv' /\ Install!Whole
  <2>1. { file[p] : p \in Install!Paths } \subseteq Contents
    BY <1>0 DEF InstallTypes
  <2> QED BY <1>0, <1>11, <1>w, <2>1 DEF Install!Load, InstallInv, InstallTypes, InHand
<1> QED
  BY <1>1, <1>2, <1>3, <1>4, <1>5, <1>6, <1>7, <1>8, <1>9, <1>10, <1>11
     DEF Install!Next, Install!Install, Install!Uninstall

LEMMA InstallInvariant ==
  Install!Spec => []InstallInv /\ [][Install!Whole]_Install!vars
<1>1. Install!Init => InstallInv
  BY InstallInit
<1>2. InstallInv /\ [Install!Next]_Install!vars => InstallInv' /\ [Install!Whole]_Install!vars
  <2>1. InstallInv /\ UNCHANGED Install!vars => InstallInv'
    BY DEF InstallInv, InstallTypes, InHand, Install!vars
  <2> QED BY <2>1, InstallStep
<1> QED BY <1>1, <1>2, PTL DEF Install!Spec

\* Whichever installs and removals overlap, fail or are killed half way, a scan
\* that starts loads whole files with the digest expected, and nothing torn.
THEOREM ScansLoadWholeFiles == Install!Spec => []Install!LoadsWholeFiles
<1>1. InstallInv => Install!LoadsWholeFiles
  BY DEF InstallInv, InstallTypes, Contents, Install!LoadsWholeFiles
<1> QED BY <1>1, InstallInvariant, PTL

\* A command that has ended, whether or not it failed, has removed its temporary
\* file.
THEOREM NoTemporaryFileStays == Install!Spec => []Install!NothingLeftBehind
<1>1. InstallInv => Install!NothingLeftBehind
  BY DEF InstallInv, InHand, Install!NothingLeftBehind
<1> QED BY <1>1, InstallInvariant, PTL

\* A file changes only for the version whose digest was expected, or is a module
\* that scripts remove takes away: the executable is never absent.
THEOREM FilesAreReplacedWhole == Install!Spec => Install!ReplacedWhole
BY InstallInvariant, PTL DEF Install!ReplacedWhole

-----------------------------------------------------------------------------
(* Evidence bundles. *)

\* A digest or a signature that is whole is of a scan's evidence, and so is what a
\* scan is about to write.
OfScans ==
  /\ \A r \in recorded : r = <<r[1], r[2]>>
  /\ digest \in {NotThere, CutShort} \cup { r[1] : r \in recorded }
  /\ sig \in {NotThere, CutShort} \cup { <<r[2], r[1]>> : r \in recorded }
  /\ pc \in {"write bundle", "write digest", "sign"} => <<data, new>> \in recorded

\* The key that signed is in its file, or was moved away.
SignersKept ==
  \A r \in recorded : r[2] # None =>
      Evid!Whole(r[2]) /\ (key = r[2] \/ r[2] \in moved)

\* What was read when the bundle verified is what a scan recorded.
ReadWasRecorded ==
  \E r \in recorded : r[1] = last.read /\ (withPub => r[2] = last.by)

\* What is known of the last verify or replay at each step: nothing while another
\* command runs, the connections accepted so far while findings are probed, and
\* what the property says when it has ended.
LastJudged ==
  /\ pc \in {"idle", "probe", "write key", "write pub", "write bundle",
             "write digest", "sign"}
  /\ pc \notin {"idle", "probe"} => last = None
  /\ pc = "probe" =>
       /\ last = [command |-> "replay", read |-> last.read, by |-> last.by,
                  probed |-> last.probed]
       /\ ReadWasRecorded
       /\ still \in Nat
       /\ still > 0 <=> \E p \in last.probed : p[2] = "open"
  /\ pc = "idle" => Evid!VerifiedIsRecorded

EvidenceInv == OfScans /\ SignersKept /\ LastJudged

LEMMA EvidenceInit == ASSUME Evid!Init PROVE EvidenceInv
BY DEF Evid!Init, EvidenceInv, OfScans, SignersKept, LastJudged,
       Evid!VerifiedIsRecorded

\* What verifies, by its digest or by its signature, is what a scan recorded.
LEMMA VerifiesOnlyRecorded ==
  ASSUME OfScans, NEW byKey, Evid!verifyBundle(byKey)
  PROVE  \E r \in recorded : r[1] = bundle /\ (byKey => r[2] = pub)
<1>1. CASE byKey
  <2>1. sig = <<pub, bundle>> /\ sig \notin {NotThere, CutShort}
    BY <1>1 DEF Evid!verifyBundle, Evid!Verify, Evid!Whole
  <2>2. PICK r \in recorded : sig = <<r[2], r[1]>>
    BY <2>1 DEF OfScans
  <2> QED BY <2>1, <2>2
<1>2. CASE ~ byKey
  <2>1. digest = bundle /\ digest \notin {NotThere, CutShort}
    BY <1>2 DEF Evid!verifyBundle, Evid!VerifyDigest, Evid!Whole
  <2> QED BY <1>2, <2>1 DEF OfScans
<1> QED BY <1>1, <1>2

\* A step that is not one of a scan's writes, and leaves digest and signature.
LEMMA OfScansKept ==
  ASSUME OfScans, UNCHANGED <<digest, sig, recorded>>,
         pc' \notin {"write bundle", "write digest", "sign"}
  PROVE  OfScans'
BY DEF OfScans

LEMMA SignersStay ==
  ASSUME SignersKept, UNCHANGED <<key, recorded, moved>>
  PROVE  SignersKept'
BY DEF SignersKept

LEMMA LastStays ==
  ASSUME LastJudged, UNCHANGED <<pc, withPub, still, exit, recorded, last>>
  PROVE  LastJudged'
<1>1. ReadWasRecorded => ReadWasRecorded'
  BY DEF ReadWasRecorded
<1>2. Evid!VerifiedIsRecorded => Evid!VerifiedIsRecorded'
  BY DEF Evid!VerifiedIsRecorded
<1> QED BY <1>1, <1>2 DEF LastJudged

LEMMA EvidenceStep == ASSUME EvidenceInv, Evid!Next PROVE EvidenceInv'
<1>0. OfScans /\ SignersKept /\ LastJudged
  BY DEF EvidenceInv
<1>1. ASSUME NEW k \in Keys, Evid!Generate(k) PROVE EvidenceInv'
  <2>1. /\ pc' = "write key" /\ last' = None
        /\ UNCHANGED <<key, digest, sig, recorded, moved>>
    BY <1>1 DEF Evid!Generate, Evid!Begin, Evid!files
  <2>2. LastJudged'
    BY <2>1 DEF LastJudged
  <2> QED BY <1>0, <2>1, <2>2, OfScansKept, SignersStay DEF EvidenceInv
<1>2. ASSUME Evid!WriteKey PROVE EvidenceInv'
  <2>1. /\ pc = "write key" /\ pc' \in {"write pub", "idle"}
        /\ IF key = NotThere THEN TRUE ELSE key' = key
        /\ UNCHANGED <<digest, sig, recorded, moved, last>>
    BY <1>2 DEF Evid!WriteKey, Evid!writeNew
  <2>2. last' = None
    BY <1>0, <2>1 DEF LastJudged
  <2>3. SignersKept'
    BY <1>0, <2>1 DEF SignersKept, Evid!Whole
  <2>4. LastJudged'
    BY <2>1, <2>2 DEF LastJudged, Evid!VerifiedIsRecorded
  <2> QED BY <1>0, <2>1, <2>3, <2>4, OfScansKept DEF EvidenceInv
<1>3. ASSUME Evid!WritePub PROVE EvidenceInv'
  <2>1. /\ pc = "write pub" /\ pc' = "idle"
        /\ UNCHANGED <<key, digest, sig, recorded, moved, last>>
    BY <1>3 DEF Evid!WritePub
  <2>2. last' = None
    BY <1>0, <2>1 DEF LastJudged
  <2>3. LastJudged'
    BY <2>1, <2>2 DEF LastJudged, Evid!VerifiedIsRecorded
  <2> QED BY <1>0, <2>1, <2>3, OfScansKept, SignersStay DEF EvidenceInv
<1>4. ASSUME NEW signed \in BOOLEAN, NEW findings \in SUBSET Listeners,
             Evid!Record(signed, findings)
      PROVE  EvidenceInv'
  <2>1. /\ pc' \in {"idle", "write bundle"} /\ last' = None
        /\ new' = IF signed /\ Evid!Whole(key) THEN key ELSE None
        /\ recorded' = IF pc' = "idle" THEN recorded
                       ELSE recorded \cup {<<data', new'>>}
        /\ UNCHANGED <<key, digest, sig, moved>>
    BY <1>4 DEF Evid!Record, Evid!Begin, Evid!files
  <2> DEFINE r == <<data', new'>>
  <2>2. \/ pc' = "idle" /\ recorded' = recorded
        \/ pc' = "write bundle" /\ recorded' = recorded \cup {r}
    BY <2>1
  <2>3. /\ r = <<r[1], r[2]>>
        /\ r[2] # None => r[2] = key /\ Evid!Whole(r[2])
    BY <2>1
  <2>4. OfScans'
    BY <1>0, <2>1, <2>2, <2>3 DEF OfScans
  <2>5. SignersKept'
    <3> HIDE DEF r
    <3> QED BY <1>0, <2>1, <2>2, <2>3 DEF SignersKept, Evid!Whole
  <2>6. LastJudged'
    BY <2>1 DEF LastJudged, Evid!VerifiedIsRecorded
  <2> QED BY <2>4, <2>5, <2>6 DEF EvidenceInv
<1>5. ASSUME Evid!WriteBundle \/ Evid!WriteDigest \/ Evid!WriteSig PROVE EvidenceInv'
  <2>1. /\ pc \in {"write bundle", "write digest", "sign"}
        /\ pc' \in {"idle", "write digest", "sign"}
        /\ digest' \in {digest, data, CutShort}
        /\ sig' \in {sig, <<new, data>>, CutShort}
        /\ UNCHANGED <<key, new, data, recorded, moved, last>>
    BY <1>5 DEF Evid!WriteBundle, Evid!WriteDigest, Evid!WriteSig, Evid!WriteFile
  <2>2. <<data, new>> \in recorded /\ last' = None
    BY <1>0, <2>1 DEF OfScans, LastJudged
  <2>3. OfScans'
    BY <1>0, <2>1, <2>2 DEF OfScans
  <2>4. LastJudged'
    BY <2>1, <2>2 DEF LastJudged, Evid!VerifiedIsRecorded
  <2> QED BY <1>0, <2>1, <2>3, <2>4, SignersStay DEF EvidenceInv
<1>6. ASSUME NEW byKey \in BOOLEAN, Evid!VerifyOnly(byKey) PROVE EvidenceInv'
  <2>1. /\ pc' = "idle" /\ withPub' = byKey
        /\ exit' = IF Evid!verifyBundle(byKey) THEN 0 ELSE 1
        /\ last' = [command |-> "verify", read |-> bundle, by |-> pub, probed |-> {}]
        /\ UNCHANGED <<key, digest, sig, recorded, moved>>
    BY <1>6 DEF Evid!VerifyOnly, Evid!Begin, Evid!files
  <2>2. exit' = 0 => ReadWasRecorded'
    BY <1>0, <2>1, VerifiesOnlyRecorded DEF ReadWasRecorded
  <2>3. last'.command = "verify" /\ last'.read = bundle /\ last'.by = pub
    BY <2>1
  <2>4. Evid!VerifiedIsRecorded'
    BY <2>1, <2>2, <2>3 DEF ReadWasRecorded, Evid!VerifiedIsRecorded
  <2>5. LastJudged'
    BY <2>1, <2>4 DEF LastJudged
  <2> QED BY <1>0, <2>1, <2>5, OfScansKept, SignersStay DEF EvidenceInv
<1>7. ASSUME NEW byKey \in BOOLEAN, NEW only \in SUBSET Listeners,
             Evid!BeginReplay(byKey, only)
      PROVE  EvidenceInv'
  <2>1. /\ pc' \in {"idle", "probe"}
        /\ pc' = "probe" => Evid!verifyBundle(byKey)
        /\ withPub' = byKey /\ still' = 0
        /\ last' = [command |-> "replay", read |-> bundle, by |-> pub, probed |-> {}]
        /\ UNCHANGED <<key, digest, sig, recorded, moved>>
    BY <1>7 DEF Evid!BeginReplay, Evid!Begin, Evid!files
  <2>2. pc' = "probe" => ReadWasRecorded'
    BY <1>0, <2>1, VerifiesOnlyRecorded DEF ReadWasRecorded
  <2>3. /\ last'.command = "replay" /\ last'.read = bundle /\ last'.by = pub
        /\ last'.probed = {}
    BY <2>1
  <2>4. Evid!VerifiedIsRecorded' \/ pc' = "probe"
    BY <2>1, <2>3 DEF Evid!VerifiedIsRecorded
  <2>5. still' \in Nat /\ ~ (still' > 0) /\ ~ \E p \in last'.probed : p[2] = "open"
    BY <2>1, <2>3
  <2>6. LastJudged'
    BY <2>1, <2>2, <2>3, <2>4, <2>5 DEF LastJudged
  <2> QED BY <1>0, <2>1, <2>6, OfScansKept, SignersStay DEF EvidenceInv
<1>8. ASSUME NEW f \in Listeners, NEW answer \in Evid!Answers, Evid!Probe(f, answer)
      PROVE  EvidenceInv'
  <2>1. /\ pc = "probe" /\ pc' = "probe"
        /\ still' = IF answer = "open" THEN still + 1 ELSE still
        /\ last' = [last EXCEPT !.probed = @ \cup {<<f, answer>>}]
        /\ UNCHANGED <<key, digest, sig, withPub, recorded, moved>>
    BY <1>8 DEF Evid!Probe, Evid!TCPProbe, Evid!Result, Evid!files
  <2>2. /\ last = [command |-> "replay", read |-> last.read, by |-> last.by,
                   probed |-> last.probed]
        /\ ReadWasRecorded /\ still \in Nat
        /\ still > 0 <=> \E p \in last.probed : p[2] = "open"
    BY <1>0, <2>1 DEF LastJudged
  <2>3. PICK read, by, ps :
          last = [command |-> "replay", read |-> read, by |-> by, probed |-> ps]
    BY <2>2
  <2>4. /\ last.read = read /\ last.by = by /\ last.probed = ps
        /\ last' = [command |-> "replay", read |-> read, by |-> by,
                    probed |-> ps \cup {<<f, answer>>}]
    BY <2>1, <2>3
  <2>5. /\ last'.read = read /\ last'.by = by
        /\ last'.probed = ps \cup {<<f, answer>>}
        /\ last' = [command |-> "replay", read |-> last'.read, by |-> last'.by,
                    probed |-> last'.probed]
    BY <2>4
  <2>6. ReadWasRecorded'
    BY <2>1, <2>2, <2>4, <2>5 DEF ReadWasRecorded
  <2>7. still' \in Nat /\ (still' > 0 <=> still > 0 \/ answer = "open")
    BY <2>1, <2>2
  <2>8. (\E p \in last'.probed : p[2] = "open") <=>
          (\E p \in ps : p[2] = "open") \/ answer = "open"
    <3>1. <<f, answer>>[2] = answer
      OBVIOUS
    <3> QED BY <2>5, <3>1, Zenon
  <2>9. LastJudged'
    BY <2>1, <2>2, <2>4, <2>5, <2>6, <2>7, <2>8 DEF LastJudged
  <2> QED BY <1>0, <2>1, <2>9, OfScansKept, SignersStay DEF EvidenceInv
<1>9. ASSUME Evid!EndReplay PROVE EvidenceInv'
  <2>1. /\ pc = "probe" /\ pc' = "idle" /\ exit' \in {IF still > 0 THEN 1 ELSE 0, 2}
        /\ UNCHANGED <<key, digest, sig, withPub, recorded, moved, last>>
    BY <1>9 DEF Evid!EndReplay, Evid!files
  <2>2. /\ ReadWasRecorded /\ still \in Nat
        /\ still > 0 <=> \E p \in last.probed : p[2] = "open"
    BY <1>0, <2>1 DEF LastJudged
  <2>3. \E r \in recorded' : r[1] = last'.read /\ (withPub' => r[2] = last'.by)
    BY <2>1, <2>2 DEF ReadWasRecorded
  <2>4. /\ exit' = 0 => \A p \in last'.probed : p[2] # "open"
        /\ exit' = 1 => \E p \in last'.probed : p[2] # "closed"
    BY <2>1, <2>2
  <2>5. LastJudged'
    BY <2>1, <2>3, <2>4 DEF LastJudged, Evid!VerifiedIsRecorded
  <2> QED BY <1>0, <2>1, <2>5, OfScansKept, SignersStay DEF EvidenceInv
<1>10. ASSUME Evid!Kill PROVE EvidenceInv'
  <2>1. /\ pc \in {"write pub", "write digest", "sign", "probe"}
        /\ pc' = "idle" /\ exit' = 2
        /\ UNCHANGED <<key, digest, sig, withPub, recorded, moved, last>>
    BY <1>10 DEF Evid!Kill, Evid!files
  <2>2. pc # "probe" => last' = None
    BY <1>0, <2>1 DEF LastJudged
  <2>3. pc = "probe" =>
          \E r \in recorded' : r[1] = last'.read /\ (withPub' => r[2] = last'.by)
    BY <1>0, <2>1 DEF LastJudged, ReadWasRecorded
  <2>4. Evid!VerifiedIsRecorded'
    <3>1. exit' = 2
      BY <2>1
    <3>2. exit' \notin {0, 1}
      BY <3>1
    <3> QED BY <2>2, <2>3, <3>2 DEF Evid!VerifiedIsRecorded
  <2>5. LastJudged'
    BY <2>1, <2>4 DEF LastJudged
  <2> QED BY <1>0, <2>1, <2>5, OfScansKept, SignersStay DEF EvidenceInv
<1>11. ASSUME \/ \E findings \in SUBSET Listeners : Evid!Edit(findings)
              \/ Evid!MoveKey \/ Evid!MovePub
       PROVE  EvidenceInv'
  <2>1. /\ pc = "idle" /\ pc' = "idle"
        /\ \/ key' = key /\ moved \subseteq moved'
           \/ moved' = moved \cup {key}
        /\ UNCHANGED <<digest, sig, withPub, still, exit, recorded, last>>
    BY <1>11 DEF Evid!Edit, Evid!MoveKey, Evid!MovePub, Evid!work
  <2>2. SignersKept'
    BY <1>0, <2>1 DEF SignersKept
  <2>3. LastJudged'
    BY <1>0, <2>1, LastStays
  <2> QED BY <1>0, <2>1, <2>2, <2>3, OfScansKept DEF EvidenceInv
<1> QED
  BY <1>1, <1>2, <1>3, <1>4, <1>5, <1>6, <1>7, <1>8, <1>9, <1>10, <1>11
     DEF Evid!Next

LEMMA EvidenceInvariant == Evid!Spec => []EvidenceInv
<1>1. Evid!Init => EvidenceInv
  BY EvidenceInit
<1>2. EvidenceInv /\ [Evid!Next]_Evid!vars => EvidenceInv'
  <2>1. ASSUME EvidenceInv, UNCHANGED Evid!vars PROVE EvidenceInv'
    <3>1. UNCHANGED <<key, digest, sig, pc, new, data, withPub, still, exit,
                      recorded, moved, last>>
      BY <2>1 DEF Evid!vars, Evid!files, Evid!work
    <3>2. OfScans' /\ SignersKept'
      BY <2>1, <3>1 DEF EvidenceInv, OfScans, SignersKept
    <3> QED BY <2>1, <3>1, <3>2, LastStays DEF EvidenceInv
  <2> QED BY <2>1, EvidenceStep
<1> QED BY <1>1, <1>2, PTL DEF Evid!Spec

\* What evidence verify accepts, and what replay probes, is the evidence of one
\* scan as that scan built it, with --pub the evidence it signed with that key,
\* whichever writes were cut short and whatever was edited or moved since; and
\* replay's status is 0 only when none accepted a connection, and 1 only when one
\* did not refuse it.
THEOREM VerifiedEvidenceIsAScans == Evid!Spec => []Evid!VerifiedIsRecorded
<1>1. EvidenceInv => Evid!VerifiedIsRecorded
  BY DEF EvidenceInv, LastJudged, ReadWasRecorded, Evid!VerifiedIsRecorded
<1> QED BY <1>1, EvidenceInvariant, PTL

\* keygen never takes the place of a key that has signed evidence.
THEOREM SigningKeysAreKept == Evid!Spec => []Evid!KeysKept
<1>1. EvidenceInv => Evid!KeysKept
  BY DEF EvidenceInv, SignersKept, Evid!KeysKept
<1> QED BY <1>1, EvidenceInvariant, PTL

-----------------------------------------------------------------------------
(* The resume file.  The first unit of a job's record is written at most      *)
(* once: a run makes one record of a job it did not load, and a file that     *)
(* loads has the first unit of no job but those it loads.                     *)

Units == {Resume!NL} \cup (Jobs \X Nat)

Heads(s)  == { j \in Jobs : \E p \in 1 .. Len(s) : s[p] = <<j, 1>> }
Single(s) == \A j \in Jobs : \A p, q \in 1 .. Len(s) :
               s[p] = <<j, 1>> /\ s[q] = <<j, 1>> => p = q

LEMMA NewlineIsNoRecord == \A u \in Jobs \X Nat : u # Resume!NL
  BY DEF Resume!NL

LEMMA HeadsOfCat ==
  ASSUME NEW s \in Seq(Units), NEW t \in Seq(Units)
  PROVE  /\ s \o t \in Seq(Units)
         /\ Heads(s \o t) = Heads(s) \cup Heads(t)
         /\ Single(s) /\ Single(t) /\ Heads(s) \cap Heads(t) = {} => Single(s \o t)
<1> DEFINE c == s \o t
<1>1. /\ c \in Seq(Units) /\ Len(s) \in Nat /\ Len(t) \in Nat
      /\ Len(c) = Len(s) + Len(t)
      /\ \A p \in 1 .. Len(s) : c[p] = s[p]
      /\ \A p \in 1 .. Len(t) : c[Len(s) + p] = t[p]
  BY ConcatProperties
<1>2. \A p \in 1 .. Len(c) :
        \/ p \in 1 .. Len(s)
        \/ \E q \in 1 .. Len(t) : p = Len(s) + q
  <2> TAKE p \in 1 .. Len(c)
  <2>1. p \notin 1 .. Len(s) => p - Len(s) \in 1 .. Len(t) /\ p = Len(s) + (p - Len(s))
    BY <1>1
  <2> QED BY <2>1
<1> HIDE DEF c
<1>3. Heads(c) = Heads(s) \cup Heads(t)
  <2>1. ASSUME NEW j \in Jobs, NEW p \in 1 .. Len(c), c[p] = <<j, 1>>
        PROVE  j \in Heads(s) \cup Heads(t)
    BY <1>1, <1>2, <2>1 DEF Heads
  <2>2. ASSUME NEW j \in Jobs, NEW p \in 1 .. Len(s), s[p] = <<j, 1>>
        PROVE  j \in Heads(c)
    BY <1>1, <2>2 DEF Heads
  <2>3. ASSUME NEW j \in Jobs, NEW p \in 1 .. Len(t), t[p] = <<j, 1>>
        PROVE  j \in Heads(c)
    <3>1. Len(s) + p \in 1 .. Len(c)
      BY <1>1
    <3> QED BY <1>1, <2>3, <3>1 DEF Heads
  <2> QED BY <2>1, <2>2, <2>3 DEF Heads
<1>4. ASSUME Single(s), Single(t), Heads(s) \cap Heads(t) = {} PROVE Single(c)
  <2> SUFFICES ASSUME NEW j \in Jobs, NEW p \in 1 .. Len(c), NEW q \in 1 .. Len(c),
                      c[p] = <<j, 1>>, c[q] = <<j, 1>>
               PROVE  p = q
    BY DEF Single
  <2>1. \A i \in 1 .. Len(s) : s[i] = <<j, 1>> => j \in Heads(s)
    BY DEF Heads
  <2>2. \A i \in 1 .. Len(t) : t[i] = <<j, 1>> => j \in Heads(t)
    BY DEF Heads
  <2>3. CASE p \in 1 .. Len(s) /\ q \in 1 .. Len(s)
    BY <1>1, <1>4, <2>3 DEF Single
  <2>4. CASE p \in 1 .. Len(s) /\ q \notin 1 .. Len(s)
    BY <1>1, <1>2, <1>4, <2>1, <2>2, <2>4
  <2>5. CASE p \notin 1 .. Len(s) /\ q \in 1 .. Len(s)
    BY <1>1, <1>2, <1>4, <2>1, <2>2, <2>5
  <2>6. CASE p \notin 1 .. Len(s) /\ q \notin 1 .. Len(s)
    <3>1. PICK i \in 1 .. Len(t) : p = Len(s) + i
      BY <1>2, <2>6
    <3>2. PICK k \in 1 .. Len(t) : q = Len(s) + k
      BY <1>2, <2>6
    <3>3. t[i] = <<j, 1>> /\ t[k] = <<j, 1>>
      BY <1>1, <3>1, <3>2
    <3> QED BY <1>4, <3>1, <3>2, <3>3 DEF Single
  <2> QED BY <2>3, <2>4, <2>5, <2>6
<1> QED BY <1>1, <1>3, <1>4 DEF c

LEMMA HeadsOfSub ==
  ASSUME NEW s \in Seq(Units), NEW m \in Nat \ {0}, NEW n \in 0 .. Len(s)
  PROVE  /\ SubSeq(s, m, n) \in Seq(Units)
         /\ Heads(SubSeq(s, m, n)) \subseteq Heads(s)
         /\ Single(s) => Single(SubSeq(s, m, n))
<1> DEFINE c == SubSeq(s, m, n)
<1>0. m \in Int /\ n \in Int /\ Len(s) \in Nat /\ m .. n \subseteq 1 .. Len(s)
  OBVIOUS
<1>1. \A i \in m .. n : s[i] \in Units
  BY <1>0
<1>2. /\ c \in Seq(Units) /\ Len(c) = (IF m <= n THEN n - m + 1 ELSE 0)
      /\ \A i \in 1 .. n - m + 1 : c[i] = s[m + i - 1]
  BY <1>0, <1>1, SubSeqProperties
<1> HIDE DEF c
<1>3. \A i \in 1 .. Len(c) : m + i - 1 \in 1 .. Len(s) /\ c[i] = s[m + i - 1]
  BY <1>0, <1>2
<1>4. Heads(c) \subseteq Heads(s)
  BY <1>3 DEF Heads
<1>5. Single(s) => Single(c)
  <2> SUFFICES ASSUME Single(s), NEW j \in Jobs, NEW p \in 1 .. Len(c), NEW q \in 1 .. Len(c),
                      c[p] = <<j, 1>>, c[q] = <<j, 1>>
               PROVE  p = q
    BY DEF Single
  <2>1. m + p - 1 = m + q - 1
    BY <1>3 DEF Single
  <2> QED BY <1>2, <2>1
<1> QED BY <1>2, <1>4, <1>5 DEF c

LEMMA UnitsOfPrefix ==
  ASSUME NEW s \in Seq(Units), NEW k \in 0 .. Len(s)
  PROVE  /\ SubSeq(s, 1, k) \in Seq(Units) /\ Len(SubSeq(s, 1, k)) = k
         /\ \A i \in 1 .. k : SubSeq(s, 1, k)[i] = s[i]
<1>0. /\ 1 \in Int /\ k \in Int /\ \A i \in 1 .. k : s[i] \in Units
      /\ k - 1 + 1 = k /\ (1 <= k \/ k = 0)
  OBVIOUS
<1> DEFINE c == SubSeq(s, 1, k)
<1>1. /\ c \in Seq(Units) /\ Len(c) = (IF 1 <= k THEN k - 1 + 1 ELSE 0)
      /\ \A i \in 1 .. k - 1 + 1 : c[i] = s[1 + i - 1]
  BY <1>0, SubSeqProperties
<1> HIDE DEF c
<1>2. \A i \in 1 .. k : c[i] = s[i]
  BY <1>0, <1>1
<1>3. Len(c) = k
  BY <1>0, <1>1
<1> QED BY <1>1, <1>2, <1>3 DEF c

LEMMA HeadsOfSplit ==
  ASSUME NEW s \in Seq(Units), NEW k \in 0 .. Len(s), Single(s)
  PROVE  Heads(SubSeq(s, 1, k)) \cap Heads(SubSeq(s, k + 1, Len(s))) = {}
<1>1. ASSUME NEW m \in Nat \ {0}, NEW n \in 0 .. Len(s), NEW j \in Heads(SubSeq(s, m, n))
      PROVE  \E p \in m .. n : s[p] = <<j, 1>>
  <2> DEFINE c == SubSeq(s, m, n)
  <2>0. m \in Int /\ n \in Int /\ m .. n \subseteq 1 .. Len(s)
    OBVIOUS
  <2>1. \A i \in m .. n : s[i] \in Units
    BY <2>0
  <2>2. /\ Len(c) = (IF m <= n THEN n - m + 1 ELSE 0)
        /\ \A i \in 1 .. n - m + 1 : c[i] = s[m + i - 1]
    BY <2>0, <2>1, SubSeqProperties
  <2>3. PICK i \in 1 .. Len(c) : c[i] = <<j, 1>>
    BY DEF Heads
  <2> HIDE DEF c
  <2>4. m + i - 1 \in m .. n /\ c[i] = s[m + i - 1]
    BY <2>0, <2>2
  <2> QED BY <2>3, <2>4
<1>2. ASSUME NEW j \in Jobs, j \in Heads(SubSeq(s, 1, k)),
             j \in Heads(SubSeq(s, k + 1, Len(s)))
      PROVE  FALSE
  <2>0. /\ k \in Nat /\ Len(s) \in Nat /\ Len(s) \in 0 .. Len(s)
        /\ 1 \in Nat \ {0} /\ k + 1 \in Nat \ {0}
    OBVIOUS
  <2>1. PICK p \in 1 .. k : s[p] = <<j, 1>>
    BY <1>1, <1>2, <2>0
  <2>2. PICK q \in k + 1 .. Len(s) : s[q] = <<j, 1>>
    BY <1>1, <1>2, <2>0
  <2>3. p = q
    BY <2>0, <2>1, <2>2 DEF Single
  <2> QED BY <2>0, <2>3
<1> QED BY <1>2 DEF Heads

LEMMA HeadsOfLine ==
  ASSUME Resume!ResumableAssumption, NEW j \in Jobs
  PROVE  /\ Resume!Data(j) \in Seq(Units) /\ Len(Resume!Data(j)) = Size[j]
         /\ Resume!Line(j) \in Seq(Units) /\ Len(Resume!Line(j)) = Size[j] + 1
         /\ \A i \in 1 .. Size[j] : Resume!Data(j)[i] = <<j, i>> /\ Resume!Line(j)[i] = <<j, i>>
         /\ Resume!Line(j)[Size[j] + 1] = Resume!NL
         /\ Heads(Resume!Line(j)) = {j} /\ Single(Resume!Line(j))
<1>1. Size[j] \in Nat \ {0}
  BY DEF Resume!ResumableAssumption
<1>2. \A i \in 1 .. Size[j] : <<j, i>> \in Units
  BY <1>1 DEF Units
<1>3. /\ Resume!Data(j) \in Seq(Units) /\ Len(Resume!Data(j)) = Size[j]
      /\ \A i \in 1 .. Size[j] : Resume!Data(j)[i] = <<j, i>>
  BY <1>1, <1>2 DEF Resume!Data
<1>4. Resume!NL \in Units
  BY DEF Units
<1>5. /\ Resume!Line(j) \in Seq(Units) /\ Len(Resume!Line(j)) = Size[j] + 1
      /\ \A i \in 1 .. Size[j] : Resume!Line(j)[i] = <<j, i>>
      /\ Resume!Line(j)[Size[j] + 1] = Resume!NL
  BY <1>1, <1>3, <1>4, AppendProperties DEF Resume!Line
<1>6. \A k \in Jobs : <<k, 1>> # Resume!NL
  BY NewlineIsNoRecord
<1>7. \A k \in Jobs, p \in 1 .. Size[j] + 1 :
        Resume!Line(j)[p] = <<k, 1>> => k = j /\ p = 1
  <2> SUFFICES ASSUME NEW k \in Jobs, NEW p \in 1 .. Size[j] + 1, Resume!Line(j)[p] = <<k, 1>>
               PROVE  k = j /\ p = 1
    OBVIOUS
  <2>1. p \in 1 .. Size[j]
    <3>1. p # Size[j] + 1
      BY <1>5, <1>6
    <3> QED BY <1>1, <3>1
  <2>2. <<j, p>> = <<k, 1>>
    BY <1>5, <2>1
  <2> QED BY <2>2
<1>8. 1 \in 1 .. Size[j] /\ 1 \in 1 .. Size[j] + 1
  BY <1>1
<1>9. Heads(Resume!Line(j)) = {j}
  BY <1>5, <1>7, <1>8 DEF Heads
<1>10. Single(Resume!Line(j))
  BY <1>5, <1>7 DEF Single
<1> QED BY <1>3, <1>5, <1>9, <1>10

-----------------------------------------------------------------------------
(* Lines.  Each ends before the newline, or the end, that closes it, and      *)
(* begins after the newline before.                                           *)

\* A set of numbers below a bound that is not empty has a greatest element.
LEMMA GreatestNumber ==
  ASSUME NEW N \in Nat, NEW S \in SUBSET (0 .. N), S # {}
  PROVE  \E n \in S : \A m \in S : m <= n
<1> DEFINE D == { N - n : n \in S }
<1>1. D \in SUBSET Nat /\ D # {}
  <2>1. \A n \in S : N - n \in Nat
    OBVIOUS
  <2> QED BY <2>1
<1>2. PICK d \in D : \A e \in D : d <= e
  <2> HIDE DEF D
  <2> QED BY <1>1, LeastNumber
<1>3. PICK n \in S : d = N - n
  OBVIOUS
<1>4. \A m \in S : m <= n
  <2> TAKE m \in S
  <2>1. N - m \in D
    OBVIOUS
  <2>2. N - n <= N - m
    BY <1>2, <1>3, <2>1
  <2> QED BY <2>2
<1> QED BY <1>4

LineFrom(f, b, i) ==
  /\ b = 0 \/ f[b] = Resume!NL
  /\ \A k \in b + 1 .. i - 1 : f[k] # Resume!NL

LEMMA LineIs ==
  ASSUME NEW f \in Seq(Units), NEW i \in 1 .. Len(f) + 1, NEW b \in 0 .. i - 1,
         LineFrom(f, b, i)
  PROVE  Resume!LineTo(f, i) = SubSeq(f, b + 1, i - 1)
<1> DEFINE breaks == { k \in 1 .. i - 1 : f[k] = Resume!NL } \cup {0}
           begin  == CHOOSE k \in breaks : \A l \in breaks : l <= k
<1>0. Len(f) \in Nat /\ i \in Nat /\ b \in Nat
  OBVIOUS
<1>1. b \in breaks
  BY <1>0 DEF LineFrom
<1>2. \A l \in breaks : l <= b
  BY <1>0 DEF LineFrom
<1>3. breaks \subseteq Nat
  BY <1>0
<1>4. Resume!LineTo(f, i) = SubSeq(f, begin + 1, i - 1)
  BY DEF Resume!LineTo
<1> HIDE DEF breaks
<1>5. begin \in breaks /\ \A l \in breaks : l <= begin
  BY <1>1, <1>2
<1> HIDE DEF begin
<1>6. begin = b
  BY <1>1, <1>2, <1>3, <1>5
<1> QED BY <1>4, <1>6

LEMMA LineBegins ==
  ASSUME NEW f \in Seq(Units), NEW i \in 1 .. Len(f) + 1
  PROVE  \E b \in 0 .. i - 1 : LineFrom(f, b, i)
<1> DEFINE breaks == { k \in 1 .. i - 1 : f[k] = Resume!NL } \cup {0}
<1>0. Len(f) \in Nat /\ i \in Nat /\ i - 1 \in Nat
  OBVIOUS
<1>1. breaks \in SUBSET (0 .. i - 1) /\ breaks # {}
  BY <1>0
<1>2. PICK b \in breaks : \A l \in breaks : l <= b
  <2> HIDE DEF breaks
  <2> QED BY <1>0, <1>1, GreatestNumber
<1>3. \A k \in b + 1 .. i - 1 : f[k] # Resume!NL
  BY <1>0, <1>1, <1>2
<1> QED BY <1>1, <1>3 DEF LineFrom

\* What a line is made of, unit by unit.
LEMMA UnitsOfLine ==
  ASSUME NEW f \in Seq(Units), NEW i \in 1 .. Len(f) + 1, NEW b \in 0 .. i - 1,
         LineFrom(f, b, i)
  PROVE  /\ Resume!LineTo(f, i) \in Seq(Units)
         /\ Len(Resume!LineTo(f, i)) = i - 1 - b
         /\ \A k \in 1 .. i - 1 - b : Resume!LineTo(f, i)[k] = f[b + k]
<1>0. Len(f) \in Nat /\ i \in Nat /\ b \in Nat /\ b + 1 \in Int /\ i - 1 \in Int
  OBVIOUS
<1>1. \A k \in b + 1 .. i - 1 : f[k] \in Units
  BY <1>0
<1>2. /\ SubSeq(f, b + 1, i - 1) \in Seq(Units)
      /\ Len(SubSeq(f, b + 1, i - 1))
           = IF b + 1 <= i - 1 THEN i - 1 - (b + 1) + 1 ELSE 0
      /\ \A k \in 1 .. i - 1 - (b + 1) + 1 : SubSeq(f, b + 1, i - 1)[k] = f[b + 1 + k - 1]
  BY <1>0, <1>1, SubSeqProperties
<1>3. Resume!LineTo(f, i) = SubSeq(f, b + 1, i - 1)
  BY LineIs
<1> HIDE DEF Resume!LineTo
<1> QED BY <1>0, <1>2, <1>3

\* A line that parses as the record of j has the first unit of j's record.
LEMMA RecordHasHead ==
  ASSUME Resume!ResumableAssumption, NEW f \in Seq(Units), NEW j \in Jobs,
         NEW i \in Resume!LineEnds(f), Resume!LineTo(f, i) = Resume!Data(j)
  PROVE  \E p \in 1 .. Len(f) : f[p] = <<j, 1>> /\ i = p + Size[j]
<1>1. i \in 1 .. Len(f) + 1
  BY DEF Resume!LineEnds
<1>2. PICK b \in 0 .. i - 1 : LineFrom(f, b, i)
  BY <1>1, LineBegins
<1>3. /\ Len(Resume!LineTo(f, i)) = i - 1 - b
      /\ \A k \in 1 .. i - 1 - b : Resume!LineTo(f, i)[k] = f[b + k]
  BY <1>1, <1>2, UnitsOfLine
<1>4. /\ Len(Resume!Data(j)) = Size[j] /\ Size[j] \in Nat \ {0}
      /\ \A k \in 1 .. Size[j] : Resume!Data(j)[k] = <<j, k>>
  BY HeadsOfLine DEF Resume!ResumableAssumption
<1>5. Len(f) \in Nat /\ i \in Nat /\ b \in Nat
  BY <1>1
<1>6. Size[j] = i - 1 - b /\ 1 \in 1 .. Size[j]
  BY <1>3, <1>4
<1>7. f[b + 1] = <<j, 1>>
  BY <1>3, <1>4, <1>6
<1>8. b + 1 \in 1 .. Len(f) /\ i = b + 1 + Size[j]
  <2>1. Size[j] \in Nat \ {0}
    BY <1>4
  <2>2. i <= Len(f) + 1 /\ Size[j] = i - 1 - b
    BY <1>1, <1>6
  <2> QED BY <1>5, <2>1, <2>2
<1> QED BY <1>7, <1>8

LEMMA SameCardinality == ASSUME NEW S PROVE Resume!Cardinality(S) = Cardinality(S)
  BY DEF Resume!Cardinality, Cardinality

LEMMA Parsed ==
  ASSUME NEW f \in Seq(Units), NEW j \in Jobs
  PROVE  j \in Resume!Recorded(f)
           <=> \E i \in Resume!LineEnds(f) : Resume!LineTo(f, i) = Resume!Data(j)
<1> DEFINE P == { i \in Resume!LineEnds(f) : Resume!LineTo(f, i) = Resume!Data(j) }
<1>1. P \subseteq 1 .. Len(f) + 1 /\ IsFiniteSet(1 .. Len(f) + 1)
  BY FS_Interval DEF Resume!LineEnds
<1>2. IsFiniteSet(P)
  BY <1>1, FS_Subset
<1>3. Resume!Copies(f, j) = Cardinality(P)
  BY SameCardinality DEF Resume!Copies
<1>4. Cardinality(P) \in Nat /\ (Cardinality(P) = 0 <=> P = {})
  <2> HIDE DEF P
  <2> QED BY <1>2, FS_CardinalityType, FS_EmptySet
<1>5. j \in Resume!Recorded(f) <=> P # {}
  BY <1>3, <1>4 DEF Resume!Recorded
<1> QED BY <1>5

LEMMA RecordedHaveHeads ==
  ASSUME Resume!ResumableAssumption, NEW f \in Seq(Units)
  PROVE  Resume!Recorded(f) \subseteq Heads(f)
<1>1. ASSUME NEW j \in Resume!Recorded(f) PROVE j \in Heads(f)
  <2>1. j \in Jobs
    BY DEF Resume!Recorded
  <2>2. PICK i \in Resume!LineEnds(f) : Resume!LineTo(f, i) = Resume!Data(j)
    BY <2>1, Parsed
  <2> QED BY <2>1, <2>2, RecordHasHead DEF Heads
<1> QED BY <1>1

LEMMA OneCopy ==
  ASSUME Resume!ResumableAssumption, NEW f \in Seq(Units), Single(f), NEW j \in Jobs
  PROVE  Resume!Copies(f, j) <= 1
<1> DEFINE P == { i \in Resume!LineEnds(f) : Resume!LineTo(f, i) = Resume!Data(j) }
<1>1. \A i, k \in P : i = k
  <2> SUFFICES ASSUME NEW i \in P, NEW k \in P PROVE i = k
    OBVIOUS
  <2>1. PICK p \in 1 .. Len(f) : f[p] = <<j, 1>> /\ i = p + Size[j]
    BY RecordHasHead
  <2>2. PICK q \in 1 .. Len(f) : f[q] = <<j, 1>> /\ k = q + Size[j]
    BY RecordHasHead
  <2> QED BY <2>1, <2>2 DEF Single
<1>2. Resume!Copies(f, j) = Cardinality(P)
  BY SameCardinality DEF Resume!Copies
<1> HIDE DEF P
<1>3. P = {} \/ \E i : P = {i}
  <2>1. CASE P = {}
    BY <2>1
  <2>2. CASE P # {}
    <3>1. PICK i : i \in P
      BY <2>2
    <3>2. P = {i}
      BY <1>1, <3>1
    <3> QED BY <3>2
  <2> QED BY <2>1, <2>2
<1>4. Cardinality(P) = 0 \/ Cardinality(P) = 1
  BY <1>3, FS_EmptySet, FS_Singleton
<1> QED BY <1>2, <1>4

\* In a file that loads, every unit is one of a record that is loaded.
LEMMA LoadedAreAll ==
  ASSUME Resume!ResumableAssumption, NEW f \in Seq(Units), ~ Resume!Corrupt(f)
  PROVE  Heads(f) = Resume!Recorded(f)
<1>1. ASSUME NEW j \in Jobs, NEW p \in 1 .. Len(f), f[p] = <<j, 1>>
      PROVE  j \in Resume!Recorded(f)
  <2>0. Len(f) \in Nat /\ p \in Nat
    OBVIOUS
  <2>1. f[p] # Resume!NL
    BY <1>1, NewlineIsNoRecord
  <2> DEFINE after == { i \in p + 1 .. Len(f) + 1 : i <= Len(f) => f[i] = Resume!NL }
  <2>2. after \in SUBSET Nat /\ Len(f) + 1 \in after
    BY <2>0
  <2>3. PICK i \in after : \A k \in after : i <= k
    <3> HIDE DEF after
    <3> QED BY <2>2, LeastNumber
  <2>4. i \in Resume!LineEnds(f) /\ i \in 1 .. Len(f) + 1 /\ p < i
    BY <2>0 DEF Resume!LineEnds
  <2>5. PICK b \in 0 .. i - 1 : LineFrom(f, b, i)
    BY <2>4, LineBegins
  <2>6. \A k \in p + 1 .. i - 1 : f[k] # Resume!NL
    <3> SUFFICES ASSUME NEW k \in p + 1 .. i - 1, f[k] = Resume!NL PROVE FALSE
      OBVIOUS
    <3>1. k \in after /\ k < i
      BY <2>0, <2>4
    <3> QED BY <2>3, <3>1
  <2>7. b < p
    <3>1. b # p /\ b \notin p + 1 .. i - 1
      BY <2>1, <2>4, <2>5, <2>6 DEF LineFrom
    <3> QED BY <2>0, <2>4, <3>1
  <2>8. p - b \in 1 .. i - 1 - b
    BY <2>0, <2>4, <2>7
  <2>9. /\ Resume!LineTo(f, i) \in Seq(Units)
        /\ Len(Resume!LineTo(f, i)) = i - 1 - b
        /\ Resume!LineTo(f, i)[p - b] = <<j, 1>>
    <3>1. b + (p - b) = p
      BY <2>0, <2>4
    <3> QED BY <1>1, <2>4, <2>5, <2>8, <3>1, UnitsOfLine
  <2> HIDE DEF after
  <2>10. Resume!LineTo(f, i) # <<>>
    BY <2>4, <2>8, <2>9
  <2>11. PICK k \in Jobs : Resume!LineTo(f, i) = Resume!Data(k)
    BY <2>4, <2>10 DEF Resume!Corrupt
  <2>12. Resume!Data(k)[p - b] = <<k, p - b>>
    <3>1. Size[k] = i - 1 - b
      BY <2>9, <2>11, HeadsOfLine
    <3>2. p - b \in 1 .. Size[k]
      BY <2>8, <3>1
    <3> QED BY <3>2, HeadsOfLine
  <2>13. k = j
    BY <2>9, <2>11, <2>12
  <2> QED BY <2>4, <2>11, <2>13, Parsed
<1>2. Heads(f) \subseteq Resume!Recorded(f)
  BY <1>1 DEF Heads
<1> QED BY <1>2, RecordedHaveHeads

\* Whole lines, each the record of a job.
WholeLines(f) == f \in Seq(Units) /\ ~ Resume!Corrupt(f) /\ ~ Resume!EndsRagged(f)

LEMMA AddLine ==
  ASSUME Resume!ResumableAssumption, NEW f, WholeLines(f), NEW j \in Jobs
  PROVE  /\ WholeLines(f \o Resume!Line(j))
         /\ Resume!Recorded(f \o Resume!Line(j)) = Resume!Recorded(f) \cup {j}
<1> DEFINE g == f \o Resume!Line(j)
           n == Len(f)
           m == Len(f) + Size[j]
<1>0. /\ f \in Seq(Units) /\ n \in Nat /\ Size[j] \in Nat \ {0}
      /\ m \in Nat /\ n < m /\ n = Len(f) /\ m = n + Size[j]
  BY DEF WholeLines, Resume!ResumableAssumption
<1> HIDE DEF n, m
<1>1. /\ g \in Seq(Units) /\ Len(g) = m + 1
      /\ \A p \in 1 .. n : g[p] = f[p]
      /\ \A k \in 1 .. Size[j] : g[n + k] = <<j, k>>
      /\ g[m + 1] = Resume!NL
  <2>1. /\ Resume!Line(j) \in Seq(Units) /\ Len(Resume!Line(j)) = Size[j] + 1
        /\ \A k \in 1 .. Size[j] : Resume!Line(j)[k] = <<j, k>>
        /\ Resume!Line(j)[Size[j] + 1] = Resume!NL
    BY HeadsOfLine
  <2> HIDE DEF Resume!Line
  <2>2. /\ g \in Seq(Units) /\ Len(g) = n + (Size[j] + 1)
        /\ \A i \in 1 .. n + (Size[j] + 1) : g[i] =
             IF i <= n THEN f[i] ELSE Resume!Line(j)[i - n]
    <3>1. /\ g \in Seq(Units) /\ Len(g) = Len(f) + Len(Resume!Line(j))
          /\ \A i \in 1 .. Len(f) + Len(Resume!Line(j)) : g[i] =
               IF i <= Len(f) THEN f[i] ELSE Resume!Line(j)[i - Len(f)]
      BY <1>0, <2>1, ConcatProperties
    <3> QED BY <1>0, <2>1, <3>1
  <2> HIDE DEF g
  <2>3. \A k \in 1 .. Size[j] + 1 : g[n + k] = Resume!Line(j)[k]
    <3> TAKE k \in 1 .. Size[j] + 1
    <3>1. PICK p : p = n + k
      OBVIOUS
    <3>2. p \in 1 .. n + (Size[j] + 1) /\ ~ (p <= n) /\ p - n = k
      BY <1>0, <3>1
    <3> QED BY <2>2, <3>1, <3>2
  <2>4. g[m + 1] = Resume!NL /\ Len(g) = m + 1
    <3>1. n + (Size[j] + 1) = m + 1 /\ Size[j] + 1 \in 1 .. Size[j] + 1
      BY <1>0
    <3>2. g[n + (Size[j] + 1)] = Resume!NL
      BY <2>1, <2>3, <3>1
    <3> QED BY <2>2, <3>1, <3>2
  <2>5. \A k \in 1 .. Size[j] : g[n + k] = <<j, k>>
    <3> TAKE k \in 1 .. Size[j]
    <3>1. k \in 1 .. Size[j] + 1
      BY <1>0
    <3> QED BY <2>1, <2>3, <3>1
  <2>6. \A p \in 1 .. n : g[p] = f[p]
    <3> TAKE p \in 1 .. n
    <3>1. p \in 1 .. n + (Size[j] + 1) /\ p <= n
      BY <1>0
    <3> QED BY <2>2, <3>1
  <2> QED BY <2>2, <2>4, <2>5, <2>6
<1> HIDE DEF g
<1>2. n = 0 \/ f[n] = Resume!NL
  BY <1>0 DEF WholeLines, Resume!EndsRagged
<1>3. \A p \in n + 1 .. m : g[p] # Resume!NL
  <2> TAKE p \in n + 1 .. m
  <2>1. p - n \in 1 .. Size[j] /\ n + (p - n) = p
    BY <1>0
  <2>2. g[p] = <<j, p - n>> /\ p - n \in Nat
    BY <1>1, <2>1
  <2> QED BY <2>2, NewlineIsNoRecord
\* The lines of f, the new one, and an empty one.
<1>4. \A i \in 1 .. n : (i \in Resume!LineEnds(f) <=> i \in Resume!LineEnds(g))
  <2> TAKE i \in 1 .. n
  <2>1. i \in 1 .. Len(f) + 1 /\ i # Len(f) + 1 /\ g[i] = f[i]
    BY <1>0, <1>1
  <2>2. i \in 1 .. Len(g) + 1 /\ i # Len(g) + 1
    BY <1>0, <1>1
  <2>3. i \in Resume!LineEnds(f) <=> f[i] = Resume!NL
    BY <2>1 DEF Resume!LineEnds
  <2>4. i \in Resume!LineEnds(g) <=> g[i] = Resume!NL
    BY <2>2 DEF Resume!LineEnds
  <2> QED BY <2>1, <2>3, <2>4
<1>5. \A i \in Resume!LineEnds(g) : i \in 1 .. n \/ i = m + 1 \/ i = m + 2
  <2> SUFFICES ASSUME NEW i \in Resume!LineEnds(g), i \notin 1 .. n, i # m + 2
               PROVE  i = m + 1
    OBVIOUS
  <2>1. i \in 1 .. m + 2 /\ i <= m + 1 /\ g[i] = Resume!NL
    <3>1. i \in 1 .. m + 2 /\ i <= m + 1
      <4>1. i \in 1 .. Len(g) + 1
        BY DEF Resume!LineEnds
      <4>2. Len(g) + 1 = m + 2
        BY <1>0, <1>1
      <4> QED BY <1>0, <4>1, <4>2
    <3> QED BY <1>1, <3>1 DEF Resume!LineEnds
  <2>2. i \notin n + 1 .. m
    BY <1>3, <2>1
  <2> QED BY <1>0, <2>1, <2>2
<1>6. m + 1 \in Resume!LineEnds(g)
  BY <1>0, <1>1 DEF Resume!LineEnds
<1>7. \A i \in Resume!LineEnds(f) : i \in 1 .. n \/ i = n + 1
  BY <1>0 DEF Resume!LineEnds
<1>8. ASSUME NEW i \in 1 .. n PROVE Resume!LineTo(g, i) = Resume!LineTo(f, i)
  <2>0. i \in 1 .. Len(f) + 1 /\ i \in 1 .. Len(g) + 1
    BY <1>0, <1>1
  <2>1. PICK b \in 0 .. i - 1 : LineFrom(f, b, i)
    BY <1>0, <2>0, LineBegins
  <2>2. b = 0 \/ b \in 1 .. n
    BY <1>0
  <2>3. \A k \in b + 1 .. i - 1 : k \in 1 .. n
    BY <1>0
  <2>4. LineFrom(g, b, i)
    BY <1>1, <2>1, <2>2, <2>3 DEF LineFrom
  <2>5. /\ Resume!LineTo(f, i) \in Seq(Units) /\ Len(Resume!LineTo(f, i)) = i - 1 - b
        /\ \A k \in 1 .. i - 1 - b : Resume!LineTo(f, i)[k] = f[b + k]
    BY <1>0, <2>0, <2>1, UnitsOfLine
  <2>6. /\ Resume!LineTo(g, i) \in Seq(Units) /\ Len(Resume!LineTo(g, i)) = i - 1 - b
        /\ \A k \in 1 .. i - 1 - b : Resume!LineTo(g, i)[k] = g[b + k]
    BY <1>1, <2>0, <2>4, UnitsOfLine
  <2>7. \A k \in 1 .. i - 1 - b : b + k \in 1 .. n
    BY <1>0
  <2> HIDE DEF Resume!LineTo
  <2>8. \A k \in 1 .. i - 1 - b : Resume!LineTo(g, i)[k] = Resume!LineTo(f, i)[k]
    BY <1>1, <2>5, <2>6, <2>7
  <2> QED BY <2>5, <2>6, <2>8, SeqEqual
<1>9. Resume!LineTo(g, m + 1) = Resume!Data(j)
  <2>1. PICK i : i = m + 1
    OBVIOUS
  <2>2. /\ i \in 1 .. Len(g) + 1 /\ n \in 0 .. i - 1 /\ i - 1 = m
        /\ i - 1 - n = Size[j] /\ (n = 0 \/ n \in 1 .. n)
    BY <1>0, <1>1, <2>1
  <2>3. LineFrom(g, n, i)
    BY <1>1, <1>2, <1>3, <2>2 DEF LineFrom
  <2>4. /\ Resume!LineTo(g, i) \in Seq(Units)
        /\ Len(Resume!LineTo(g, i)) = i - 1 - n
        /\ \A k \in 1 .. i - 1 - n : Resume!LineTo(g, i)[k] = g[n + k]
    BY <1>1, <2>2, <2>3, UnitsOfLine
  <2>5. /\ Resume!Data(j) \in Seq(Units) /\ Len(Resume!Data(j)) = Size[j]
        /\ \A k \in 1 .. Size[j] : Resume!Data(j)[k] = <<j, k>>
    BY HeadsOfLine
  <2> HIDE DEF Resume!LineTo, Resume!Data
  <2>6. \A k \in 1 .. Size[j] : Resume!LineTo(g, i)[k] = Resume!Data(j)[k]
    BY <1>1, <2>2, <2>4, <2>5
  <2>7. Resume!LineTo(g, i) = Resume!Data(j)
    BY <2>2, <2>4, <2>5, <2>6, SeqEqual
  <2> QED BY <2>1, <2>7
<1>10. Resume!LineTo(g, m + 2) = <<>>
  <2>1. PICK i, b : i = m + 2 /\ b = m + 1
    OBVIOUS
  <2>2. i \in 1 .. Len(g) + 1 /\ b \in 0 .. i - 1 /\ g[b] = Resume!NL
    <3>1. Len(g) + 1 = m + 2 /\ g[m + 1] = Resume!NL
      BY <1>0, <1>1
    <3>2. i \in 1 .. m + 2 /\ b \in 0 .. i - 1 /\ b = m + 1
      BY <1>0, <2>1
    <3>3. g[b] = Resume!NL
      BY <3>1, <3>2
    <3> QED BY <3>1, <3>2, <3>3
  <2>3. LineFrom(g, b, i)
    <3>1. \A k \in b + 1 .. i - 1 : FALSE
      BY <1>0, <2>1
    <3> QED BY <2>2, <3>1 DEF LineFrom
  <2>4. Resume!LineTo(g, i) = SubSeq(g, b + 1, i - 1)
    BY <1>1, <2>2, <2>3, LineIs
  <2>5. b + 1 \in Int /\ i - 1 \in Int /\ i - 1 < b + 1
    <3>1. m \in Int /\ i = m + 2 /\ b = m + 1
      BY <1>0, <2>1
    <3> QED BY <3>1
  <2> QED BY <2>1, <2>4, <2>5, SubSeqEmpty
<1>11. Resume!LineTo(f, n + 1) = <<>>
  <2>1. PICK i : i = n + 1
    OBVIOUS
  <2>2. i \in 1 .. Len(f) + 1 /\ n \in 0 .. i - 1
    BY <1>0, <2>1
  <2>3. LineFrom(f, n, i)
    BY <1>0, <1>2, <2>1, <2>2 DEF LineFrom
  <2>4. Resume!LineTo(f, i) = SubSeq(f, n + 1, i - 1)
    BY <1>0, <2>2, <2>3, LineIs
  <2>5. n + 1 \in Int /\ i - 1 \in Int /\ i - 1 < n + 1
    BY <1>0, <2>1
  <2> QED BY <2>1, <2>4, <2>5, SubSeqEmpty
<1>12. \A k \in Jobs : Resume!Data(k) # <<>> /\ (Resume!Data(k) = Resume!Data(j) => k = j)
  <2> TAKE k \in Jobs
  <2>1. Len(Resume!Data(k)) = Size[k] /\ Size[k] \in Nat \ {0} /\ 1 \in 1 .. Size[k]
    BY HeadsOfLine DEF Resume!ResumableAssumption
  <2>2. Resume!Data(k)[1] = <<k, 1>> /\ Resume!Data(j)[1] = <<j, 1>>
    BY <1>0, <2>1, HeadsOfLine
  <2> HIDE DEF Resume!Data
  <2> QED BY <2>1, <2>2
<1> HIDE DEF Resume!LineTo, Resume!Data, Resume!LineEnds
<1>13. ~ Resume!Corrupt(g)
  <2> SUFFICES ASSUME NEW i \in Resume!LineEnds(g), Resume!LineTo(g, i) # <<>>
               PROVE  \E k \in Jobs : Resume!LineTo(g, i) = Resume!Data(k)
    BY DEF Resume!Corrupt
  <2>1. CASE i \in 1 .. n
    <3>1. i \in Resume!LineEnds(f) /\ Resume!LineTo(f, i) = Resume!LineTo(g, i)
      BY <1>4, <1>8, <2>1
    <3> QED BY <3>1 DEF WholeLines, Resume!Corrupt
  <2> QED BY <1>5, <1>9, <1>10, <2>1
<1>14. ~ Resume!EndsRagged(g)
  BY <1>1 DEF Resume!EndsRagged
<1>15. \A k \in Jobs : k \in Resume!Recorded(g) <=> k \in Resume!Recorded(f) \/ k = j
  <2> TAKE k \in Jobs
  <2>1. ASSUME k \in Resume!Recorded(f) PROVE k \in Resume!Recorded(g)
    <3>1. PICK i \in Resume!LineEnds(f) : Resume!LineTo(f, i) = Resume!Data(k)
      BY <1>0, <2>1, Parsed
    <3>2. i \in 1 .. n
      BY <1>7, <1>11, <1>12, <3>1
    <3>3. i \in Resume!LineEnds(g) /\ Resume!LineTo(g, i) = Resume!Data(k)
      BY <1>4, <1>8, <3>1, <3>2
    <3> QED BY <1>1, <3>3, Parsed
  <2>2. j \in Resume!Recorded(g)
    BY <1>1, <1>6, <1>9, Parsed
  <2>3. ASSUME k \in Resume!Recorded(g) PROVE k \in Resume!Recorded(f) \/ k = j
    <3>1. PICK i \in Resume!LineEnds(g) : Resume!LineTo(g, i) = Resume!Data(k)
      BY <1>1, <2>3, Parsed
    <3>2. CASE i \in 1 .. n
      <4>1. i \in Resume!LineEnds(f) /\ Resume!LineTo(f, i) = Resume!Data(k)
        BY <1>4, <1>8, <3>1, <3>2
      <4> QED BY <1>0, <4>1, Parsed
    <3>3. CASE i = m + 1
      BY <1>9, <1>12, <3>1, <3>3
    <3>4. i # m + 2
      BY <1>10, <1>12, <3>1
    <3> QED BY <1>5, <3>2, <3>3, <3>4
  <2> QED BY <2>1, <2>2, <2>3
<1>16. Resume!Recorded(g) = Resume!Recorded(f) \cup {j}
  <2>1. Resume!Recorded(g) \subseteq Jobs /\ Resume!Recorded(f) \subseteq Jobs
    BY DEF Resume!Recorded
  <2> HIDE DEF Resume!Recorded
  <2> QED BY <1>15, <2>1
<1> QED BY <1>1, <1>13, <1>14, <1>16 DEF WholeLines, g

-----------------------------------------------------------------------------
(* The checkpoint.  What the file, the buffer and the record in hand have     *)
(* between them stays together as it moves from one to the next; what is not  *)
(* written is lost to all three.                                              *)

Reported == { j \in Jobs : reports[j] = 1 }
Stream   == (file \o buf) \o pend

ResumeTypes ==
  /\ file \in Seq(Units) /\ buf \in Seq(Units) /\ pend \in Seq(Units)
  /\ Resume!TypeOK
  /\ phase # "run" => buf = <<>> /\ pend = <<>>
  /\ pend # <<>> => pend[Len(pend)] = Resume!NL

Apart(f, b, p) ==
  /\ Single(f) /\ Single(b) /\ Single(p)
  /\ Heads(f) \cap Heads(b) = {} /\ Heads(f) \cap Heads(p) = {} /\ Heads(b) \cap Heads(p) = {}

\* What is written, or about to be, has been produced, and by this run or one
\* whose results this run has loaded.
WrittenOnce ==
  /\ Apart(file, buf, pend)
  /\ Heads(file) \cup Heads(buf) \cup Heads(pend) \subseteq produced
  /\ phase = "run" =>
       Heads(file) \cup Heads(buf) \cup Heads(pend) \subseteq skipped \cup Reported

\* As long as the writer has accepted everything, the file and what is still to
\* be written to it are whole records, of what was loaded and what is reported.
NothingDropped ==
  /\ phase = "run" /\ ~ werr /\ ~ ragged =>
       WholeLines(Stream) /\ Resume!Recorded(Stream) = skipped \cup Reported
  /\ phase = "closed" /\ ~ warned /\ ~ ragged =>
       ~ Resume!Corrupt(file) /\ Resume!Recorded(file) = Jobs

ResumeInv == ResumeTypes /\ WrittenOnce /\ NothingDropped

LEMMA HeadsOfNothing ==
  /\ <<>> \in Seq(Units) /\ Heads(<<>>) = {} /\ Single(<<>>)
  /\ <<Resume!NL>> \in Seq(Units) /\ Heads(<<Resume!NL>>) = {} /\ Single(<<Resume!NL>>)
<1>1. <<>> \in Seq(Units) /\ Heads(<<>>) = {} /\ Single(<<>>)
  BY DEF Heads, Single
<1>2. \A j \in Jobs : <<j, 1>> # Resume!NL
  BY NewlineIsNoRecord
<1>3. <<Resume!NL>> \in Seq(Units)
  BY DEF Units
<1>4. \A p \in 1 .. Len(<<Resume!NL>>) : <<Resume!NL>>[p] = Resume!NL
  OBVIOUS
<1>5. Heads(<<Resume!NL>>) = {} /\ Single(<<Resume!NL>>)
  BY <1>2, <1>4 DEF Heads, Single
<1> QED BY <1>1, <1>3, <1>5

\* A stream cut in two.
LEMMA Cut ==
  ASSUME NEW s \in Seq(Units), Single(s), NEW k \in 0 .. Len(s)
  PROVE  LET a == SubSeq(s, 1, k)
             z == SubSeq(s, k + 1, Len(s))
         IN  /\ a \in Seq(Units) /\ z \in Seq(Units) /\ a \o z = s
             /\ Single(a) /\ Single(z) /\ Heads(a) \cap Heads(z) = {}
             /\ Heads(a) \cup Heads(z) = Heads(s)
<1> DEFINE a == SubSeq(s, 1, k)
           z == SubSeq(s, k + 1, Len(s))
<1>0. /\ Len(s) \in Nat /\ k \in Nat /\ 1 \in Nat \ {0} /\ k + 1 \in Nat \ {0}
      /\ Len(s) \in 0 .. Len(s)
      /\ 1 \in 1 .. Len(s) + 1 /\ k \in 1 - 1 .. Len(s) /\ Len(s) \in k .. Len(s)
  OBVIOUS
<1>1. a \in Seq(Units) /\ Single(a)
  BY <1>0, HeadsOfSub
<1>2. z \in Seq(Units) /\ Single(z)
  BY <1>0, HeadsOfSub
<1>3. Heads(a) \cap Heads(z) = {}
  BY HeadsOfSplit
<1>4. a \o z = s
  BY <1>0, ConcatAdjacentSubSeq, SubSeqFull
<1> HIDE DEF a, z
<1>5. Heads(a) \cup Heads(z) = Heads(s)
  BY <1>1, <1>2, <1>4, HeadsOfCat
<1> QED BY <1>1, <1>2, <1>3, <1>4, <1>5 DEF a, z

LEMMA Associative ==
  \A f, b, p \in Seq(Units) : (f \o b) \o p = f \o (b \o p) /\ f \o b \in Seq(Units)
  BY ConcatAssociative, ConcatProperties

LEMMA Joined ==
  ASSUME NEW f \in Seq(Units), NEW b \in Seq(Units), NEW p \in Seq(Units)
  PROVE  /\ (f \o b) \o p = f \o (b \o p) /\ (f \o b) \o p \in Seq(Units)
         /\ f \o <<>> = f /\ <<>> \o p = p
  BY ConcatAssociative, ConcatProperties, ConcatEmptySeq

\* One write, all of it or a part: the file has no more than it had and was given.
LEMMA Written ==
  ASSUME file \in Seq(Units), Single(file), NEW s \in Seq(Units), Single(s),
         Heads(file) \cap Heads(s) = {}, Resume!WriteToDisk(s),
         werr \in BOOLEAN, failed \in BOOLEAN
  PROVE  /\ file' \in Seq(Units) /\ Single(file')
         /\ Heads(file') \subseteq Heads(file) \cup Heads(s)
         /\ werr' \in BOOLEAN /\ failed' \in BOOLEAN
         /\ werr' \/ (file' = file \o s /\ werr' = werr)
<1>1. CASE file' = file \o s /\ UNCHANGED <<werr, failed>>
  BY <1>1, HeadsOfCat
<1>2. ASSUME NEW n \in 0 .. Len(s) - 1, file' = file \o SubSeq(s, 1, n),
             werr' = TRUE, failed' = TRUE
      PROVE  /\ file' \in Seq(Units) /\ Single(file')
             /\ Heads(file') \subseteq Heads(file) \cup Heads(s)
  <2>1. n \in 0 .. Len(s) /\ 1 \in Nat \ {0}
    OBVIOUS
  <2>2. /\ SubSeq(s, 1, n) \in Seq(Units) /\ Single(SubSeq(s, 1, n))
        /\ Heads(SubSeq(s, 1, n)) \subseteq Heads(s)
    BY <2>1, HeadsOfSub
  <2> QED BY <1>2, <2>2, HeadsOfCat
<1> QED BY <1>1, <1>2 DEF Resume!WriteToDisk

\* A step of record moves units along, or loses them and says so.
Moved ==
  /\ file' \in Seq(Units) /\ buf' \in Seq(Units) /\ pend' \in Seq(Units)
  /\ Len(buf') <= Cap /\ werr' \in BOOLEAN /\ failed' \in BOOLEAN
  /\ pend' # <<>> => pend'[Len(pend')] = Resume!NL
  /\ Apart(file', buf', pend')
  /\ Heads(file') \cup Heads(buf') \cup Heads(pend')
       \subseteq Heads(file) \cup Heads(buf) \cup Heads(pend)
  /\ werr' \/ (Stream' = Stream /\ werr' = werr)

LEMMA MovedKeeps ==
  ASSUME ResumeInv, Moved, phase = "run",
         UNCHANGED <<skipped, reports, finished, phase, warned, runs, produced, ragged>>
  PROVE  ResumeInv'
<1>1. ResumeTypes'
  <2>1. Resume!TypeOK'
    BY DEF ResumeInv, ResumeTypes, Resume!TypeOK, Moved
  <2> QED BY <2>1 DEF Moved, ResumeTypes
<1>2. Reported' = Reported
  BY DEF Reported
<1>3. WrittenOnce'
  <2>1. Apart(file, buf, pend)'
    BY DEF Moved
  <2>2. Heads(file') \cup Heads(buf') \cup Heads(pend') \subseteq produced
    BY DEF ResumeInv, WrittenOnce, Moved
  <2>3. Heads(file') \cup Heads(buf') \cup Heads(pend') \subseteq skipped \cup Reported
    BY DEF ResumeInv, WrittenOnce, Moved
  <2> QED BY <1>2, <2>1, <2>2, <2>3 DEF WrittenOnce, Heads
<1>4. NothingDropped'
  <2>1. ~ werr' => Stream' = Stream /\ ~ werr
    BY DEF Moved
  <2>2. ~ werr /\ ~ ragged => WholeLines(Stream) /\ Resume!Recorded(Stream) = skipped \cup Reported
    BY DEF ResumeInv, NothingDropped
  <2>3. ~ werr' /\ ~ ragged' =>
          WholeLines(Stream)' /\ Resume!Recorded(Stream)' = skipped' \cup Reported'
    BY <1>2, <2>1, <2>2
  <2> QED BY <2>3 DEF NothingDropped
<1> QED BY <1>1, <1>3, <1>4 DEF ResumeInv

LEMMA RecordStep == 
  ASSUME Resume!ResumableAssumption, ResumeInv, Resume!Record PROVE ResumeInv'
<1>0. /\ file \in Seq(Units) /\ buf \in Seq(Units) /\ pend \in Seq(Units)
      /\ Len(buf) <= Cap /\ werr \in BOOLEAN /\ failed \in BOOLEAN
      /\ pend # <<>> => pend[Len(pend)] = Resume!NL
      /\ Single(file) /\ Single(buf) /\ Single(pend)
      /\ Heads(file) \cap Heads(buf) = {} /\ Heads(file) \cap Heads(pend) = {}
      /\ Heads(buf) \cap Heads(pend) = {}
      /\ Cap \in Nat \ {0} /\ Len(buf) \in Nat /\ Len(pend) \in Nat
  BY DEF ResumeInv, ResumeTypes, Resume!TypeOK, WrittenOnce, Apart, Resume!ResumableAssumption
<1>1. ASSUME Resume!WriteData PROVE ResumeInv'
  <2> DEFINE n    == Len(pend) - 1
             text == SubSeq(pend, 1, n)
             room == Cap - Len(buf)
  <2>0. /\ phase = "run" /\ ~ werr /\ n \in Nat /\ n > 0 /\ n \in 0 .. Len(pend)
        /\ room \in Nat /\ pend # <<>>
        /\ UNCHANGED <<skipped, reports, finished, phase, warned, runs, produced, ragged>>
    BY <1>0, <1>1 DEF Resume!WriteData, Resume!scanVars
  <2>1. /\ text \in Seq(Units) /\ Len(text) = n /\ Single(text)
        /\ Heads(text) = Heads(pend) /\ pend = text \o <<Resume!NL>>
    <3> DEFINE z == SubSeq(pend, n + 1, Len(pend))
    <3>1. /\ text \in Seq(Units) /\ z \in Seq(Units) /\ text \o z = pend
          /\ Single(text) /\ Heads(text) \cup Heads(z) = Heads(pend)
      BY <1>0, <2>0, Cut
    <3>2. z = <<Resume!NL>>
      <4>1. n + 1 = Len(pend)
        BY <1>0
      <4>2. PICK l \in Nat \ {0} : l = Len(pend)
        BY <1>0, <2>0
      <4>3. l \in Int /\ \A i \in l .. l : pend[i] \in Units
        BY <1>0, <4>2
      <4>4. /\ SubSeq(pend, l, l) \in Seq(Units) /\ Len(SubSeq(pend, l, l)) = 1
            /\ SubSeq(pend, l, l)[1] = pend[l]
        <5>1. /\ SubSeq(pend, l, l) \in Seq(Units)
              /\ Len(SubSeq(pend, l, l)) = IF l <= l THEN l - l + 1 ELSE 0
              /\ \A i \in 1 .. l - l + 1 : SubSeq(pend, l, l)[i] = pend[l + i - 1]
          BY <4>3, SubSeqProperties
        <5>2. l - l + 1 = 1 /\ 1 \in 1 .. l - l + 1 /\ l + 1 - 1 = l /\ l <= l
          BY <4>3
        <5> QED BY <5>1, <5>2
      <4> HIDE DEF z, n
      <4>5. SubSeq(pend, l, l) = <<Resume!NL>>
        <5>1. SubSeq(pend, l, l)[1] = Resume!NL
          BY <1>0, <2>0, <4>2, <4>4
        <5>2. /\ <<Resume!NL>> \in Seq(Units) /\ Len(<<Resume!NL>>) = 1
              /\ \A i \in 1 .. 1 : <<Resume!NL>>[i] = SubSeq(pend, l, l)[i]
          BY <5>1, HeadsOfNothing
        <5> QED BY <4>4, <5>2, SeqEqual
      <4> QED BY <4>1, <4>2, <4>5 DEF z
    <3>3. Len(text) = n
      BY <1>0, <2>0
    <3> HIDE DEF z, text, n
    <3> QED BY <3>1, <3>2, <3>3, HeadsOfNothing
  <2>2. \/ /\ n <= room /\ buf' = buf \o text /\ pend' = <<Resume!NL>>
           /\ UNCHANGED <<file, werr, failed>>
        \/ /\ n > room /\ buf # <<>> /\ Resume!WriteToDisk(buf \o SubSeq(text, 1, room))
           /\ buf' = <<>> /\ pend' = SubSeq(pend, room + 1, Len(pend))
        \/ /\ n > room /\ buf = <<>> /\ Resume!WriteToDisk(text)
           /\ pend' = <<Resume!NL>> /\ buf' = buf
    <3>1. Len(text) = n
      BY <2>1
    <3> QED BY <1>1, <3>1 DEF Resume!WriteData
  <2>3. ASSUME n <= room, buf' = buf \o text, pend' = <<Resume!NL>>,
               UNCHANGED <<file, werr, failed>>
        PROVE  Moved
    <3> HIDE DEF text
    <3>1. /\ buf' \in Seq(Units) /\ Heads(buf') = Heads(buf) \cup Heads(text) /\ Single(buf')
          /\ Len(buf') = Len(buf) + n
      BY <1>0, <2>1, <2>3, HeadsOfCat, ConcatProperties
    <3>2. Len(buf') <= Cap
      BY <1>0, <2>0, <2>3, <3>1
    <3>3. Stream' = Stream
      <4>1. Stream' = (file \o (buf \o text)) \o <<Resume!NL>>
        BY <2>3 DEF Stream
      <4>2. (file \o (buf \o text)) \o <<Resume!NL>> = ((file \o buf) \o text) \o <<Resume!NL>>
        BY <1>0, <2>1, ConcatAssociative
      <4>3. ((file \o buf) \o text) \o <<Resume!NL>> = (file \o buf) \o (text \o <<Resume!NL>>)
        <5>1. file \o buf \in Seq(Units) /\ text \in Seq(Units) /\ <<Resume!NL>> \in Seq(Units)
          BY <1>0, <2>1, Associative, HeadsOfNothing
        <5> QED BY <5>1, Associative
      <4> QED BY <2>1, <4>1, <4>2, <4>3 DEF Stream
    <3>4. pend' # <<>> => pend'[Len(pend')] = Resume!NL
      BY <2>3
    <3> HIDE DEF n, room
    <3>5. Apart(file', buf', pend')
      BY <1>0, <2>1, <2>3, <3>1, HeadsOfNothing DEF Apart
    <3>6. Heads(file') \cup Heads(buf') \cup Heads(pend')
            \subseteq Heads(file) \cup Heads(buf) \cup Heads(pend)
      BY <2>1, <2>3, <3>1, HeadsOfNothing
    <3>7. file' \in Seq(Units) /\ pend' \in Seq(Units) /\ werr' \in BOOLEAN /\ failed' \in BOOLEAN
      BY <1>0, <2>3, HeadsOfNothing
    <3> QED BY <2>3, <3>1, <3>2, <3>3, <3>4, <3>5, <3>6, <3>7 DEF Moved
  <2>4. ASSUME n > room, buf # <<>>, Resume!WriteToDisk(buf \o SubSeq(text, 1, room)),
               buf' = <<>>, pend' = SubSeq(pend, room + 1, Len(pend))
        PROVE  Moved
    <3> DEFINE a == SubSeq(pend, 1, room)
    <3>1. room \in 0 .. Len(pend) /\ room < Len(pend)
      BY <1>0, <2>0, <2>4
    <3>2. /\ a \in Seq(Units) /\ pend' \in Seq(Units) /\ a \o pend' = pend
          /\ Single(a) /\ Single(pend') /\ Heads(a) \cap Heads(pend') = {}
          /\ Heads(a) \cup Heads(pend') = Heads(pend)
      BY <1>0, <2>4, <3>1, Cut
    <3>3. SubSeq(text, 1, room) = a
      <4>1. /\ Len(a) = room /\ \A i \in 1 .. room : a[i] = pend[i]
        BY <1>0, <3>1, UnitsOfPrefix
      <4>2. room \in 0 .. Len(text) /\ \A i \in 1 .. n : text[i] = pend[i]
        <5>1. \A i \in 1 .. n : text[i] = pend[i]
          BY <1>0, <2>0, UnitsOfPrefix
        <5>2. room \in Nat /\ n \in Nat /\ room < n /\ Len(text) = n
          BY <2>0, <2>1, <2>4
        <5> QED BY <5>1, <5>2
      <4>3. /\ SubSeq(text, 1, room) \in Seq(Units) /\ Len(SubSeq(text, 1, room)) = room
            /\ \A i \in 1 .. room : SubSeq(text, 1, room)[i] = text[i]
        BY <2>1, <4>2, UnitsOfPrefix
      <4> HIDE DEF text, a
      <4>4. \A i \in 1 .. room : SubSeq(text, 1, room)[i] = a[i]
        <5> TAKE i \in 1 .. room
        <5>1. i \in 1 .. n
          BY <2>0, <2>4
        <5> QED BY <4>1, <4>2, <4>3, <5>1
      <4> QED BY <3>2, <4>1, <4>3, <4>4, SeqEqual
    <3> HIDE DEF a, text, room, n
    <3>4. /\ buf \o a \in Seq(Units) /\ Heads(buf \o a) = Heads(buf) \cup Heads(a)
          /\ Single(buf \o a)
      <4>1. Heads(buf) \cap Heads(a) = {}
        BY <1>0, <3>2
      <4> QED BY <1>0, <3>2, <4>1, HeadsOfCat
    <3>5. /\ file' \in Seq(Units) /\ Single(file')
          /\ Heads(file') \subseteq Heads(file) \cup Heads(buf \o a)
          /\ werr' \in BOOLEAN /\ failed' \in BOOLEAN
          /\ werr' \/ (file' = file \o (buf \o a) /\ werr' = werr)
      <4>1. Heads(file) \cap Heads(buf \o a) = {}
        BY <1>0, <3>2, <3>4
      <4>2. Resume!WriteToDisk(buf \o a)
        BY <2>4, <3>3
      <4> QED BY <1>0, <3>4, <4>1, <4>2, Written
    <3>6. werr' \/ (Stream' = Stream /\ werr' = werr)
      <4> SUFFICES ASSUME file' = file \o (buf \o a) PROVE Stream' = Stream
        BY <3>5
      <4>1. Stream' = (file \o (buf \o a)) \o pend'
        BY <2>4, <3>5, Joined DEF Stream
      <4>2. (file \o (buf \o a)) \o pend' = (file \o buf) \o (a \o pend')
        <5>0. file \in Seq(Units) /\ buf \in Seq(Units) /\ a \in Seq(Units)
              /\ pend' \in Seq(Units)
          BY <1>0, <3>2
        <5>1. file \o (buf \o a) = (file \o buf) \o a /\ file \o buf \in Seq(Units)
          BY <5>0, Associative
        <5>3. ((file \o buf) \o a) \o pend' = (file \o buf) \o (a \o pend')
          BY <5>0, <5>1, Associative
        <5> QED BY <5>1, <5>3
      <4> QED BY <3>2, <4>1, <4>2 DEF Stream
    <3>7. Apart(file', buf', pend')
      BY <1>0, <2>4, <3>2, <3>4, <3>5, HeadsOfNothing DEF Apart
    <3>8. Heads(file') \cup Heads(buf') \cup Heads(pend')
            \subseteq Heads(file) \cup Heads(buf) \cup Heads(pend)
      BY <2>4, <3>2, <3>4, <3>5, HeadsOfNothing
    <3>9. pend' # <<>> => pend'[Len(pend')] = Resume!NL
      <4>1. Len(pend') = Len(pend) - room /\ room \in Nat /\ room < Len(pend)
            /\ \A i \in 1 .. Len(pend) - room : pend'[i] = pend[room + i]
        BY <1>0, <2>0, <2>4, <3>1
      <4>2. Len(pend) - room \in 1 .. Len(pend) - room /\ room + (Len(pend) - room) = Len(pend)
        BY <1>0, <4>1
      <4> QED BY <1>0, <2>0, <4>1, <4>2
    <3>10. buf' \in Seq(Units) /\ Len(buf') <= Cap
      BY <1>0, <2>4, HeadsOfNothing
    <3> QED BY <3>2, <3>5, <3>6, <3>7, <3>8, <3>9, <3>10 DEF Moved
  <2>5. ASSUME n > room, buf = <<>>, Resume!WriteToDisk(text), pend' = <<Resume!NL>>, buf' = buf
        PROVE  Moved
    <3> HIDE DEF text, n, room
    <3>1. /\ file' \in Seq(Units) /\ Single(file')
          /\ Heads(file') \subseteq Heads(file) \cup Heads(text)
          /\ werr' \in BOOLEAN /\ failed' \in BOOLEAN
          /\ werr' \/ (file' = file \o text /\ werr' = werr)
      BY <1>0, <2>1, <2>5, Written
    <3>2. werr' \/ (Stream' = Stream /\ werr' = werr)
      <4> SUFFICES ASSUME file' = file \o text PROVE Stream' = Stream
        BY <3>1
      <4>1. Stream' = (file \o text) \o <<Resume!NL>> /\ Stream = file \o (text \o <<Resume!NL>>)
        BY <1>0, <2>1, <2>5, <3>1, Joined DEF Stream
      <4>2. file \in Seq(Units) /\ text \in Seq(Units) /\ <<Resume!NL>> \in Seq(Units)
        BY <1>0, <2>1, HeadsOfNothing
      <4> QED BY <4>1, <4>2, Associative
    <3>3. Apart(file', buf', pend')
      BY <1>0, <2>1, <2>5, <3>1, HeadsOfNothing DEF Apart
    <3>4. Heads(file') \cup Heads(buf') \cup Heads(pend')
            \subseteq Heads(file) \cup Heads(buf) \cup Heads(pend)
      BY <2>1, <2>5, <3>1, HeadsOfNothing
    <3>5. buf' \in Seq(Units) /\ pend' \in Seq(Units) /\ Len(buf') <= Cap
          /\ (pend' # <<>> => pend'[Len(pend')] = Resume!NL)
      BY <1>0, <2>5, HeadsOfNothing
    <3> QED BY <3>1, <3>2, <3>3, <3>4, <3>5 DEF Moved
  <2> QED BY <2>0, <2>2, <2>3, <2>4, <2>5, MovedKeeps
<1>2. ASSUME Resume!WriteNewline PROVE ResumeInv'
  <2>0. /\ phase = "run" /\ ~ werr /\ Len(pend) = 1 /\ pend' = <<>>
        /\ UNCHANGED <<skipped, reports, finished, phase, warned, runs, produced, ragged>>
    BY <1>2 DEF Resume!WriteNewline, Resume!scanVars
  <2>1. pend = <<Resume!NL>>
    BY <1>0, <2>0
  <2>2. CASE Resume!BufferHasByte
    <3>1. buf' = Append(buf, Resume!NL) /\ UNCHANGED <<file, werr, failed>> /\ Len(buf) < Cap
      BY <1>2, <2>2 DEF Resume!WriteNewline, Resume!BufferHasByte
    <3>2. buf' = buf \o <<Resume!NL>>
      BY <1>0, <3>1, AppendIsConcat DEF Units
    <3>3. /\ buf' \in Seq(Units) /\ Heads(buf') = Heads(buf) /\ Single(buf')
          /\ Len(buf') = Len(buf) + 1
      <4>1. <<Resume!NL>> \in Seq(Units) /\ Len(<<Resume!NL>>) = 1
        BY HeadsOfNothing
      <4>2. Len(buf \o <<Resume!NL>>) = Len(buf) + 1
        BY <1>0, <4>1, ConcatProperties
      <4>3. Heads(buf) \cap Heads(<<Resume!NL>>) = {} /\ Single(<<Resume!NL>>)
        BY HeadsOfNothing
      <4>4. /\ buf \o <<Resume!NL>> \in Seq(Units) /\ Single(buf \o <<Resume!NL>>)
            /\ Heads(buf \o <<Resume!NL>>) = Heads(buf) \cup Heads(<<Resume!NL>>)
        BY <1>0, <4>1, <4>3, HeadsOfCat
      <4> QED BY <3>2, <4>2, <4>4, HeadsOfNothing
    <3>4. Stream' = Stream
      <4>1. Stream' = file \o (buf \o <<Resume!NL>>)
        BY <2>0, <3>1, <3>2, <3>3, <1>0, Joined, HeadsOfNothing, ConcatProperties DEF Stream
      <4>2. Stream = (file \o buf) \o <<Resume!NL>>
        BY <2>1 DEF Stream
      <4> QED BY <1>0, <4>1, <4>2, HeadsOfNothing, ConcatAssociative
    <3>5. Moved
      <4>1. Len(buf') <= Cap
        BY <1>0, <3>1, <3>3
      <4>2. Apart(file', buf', pend')
        BY <1>0, <2>0, <3>1, <3>3, HeadsOfNothing DEF Apart
      <4>3. Heads(file') \cup Heads(buf') \cup Heads(pend')
              \subseteq Heads(file) \cup Heads(buf) \cup Heads(pend)
        BY <2>0, <3>1, <3>3, HeadsOfNothing
      <4> QED BY <1>0, <2>0, <3>1, <3>3, <3>4, <4>1, <4>2, <4>3, HeadsOfNothing DEF Moved
    <3> QED BY <2>0, <3>5, MovedKeeps
  <2>3. CASE ~ Resume!BufferHasByte
    <3>1. Resume!WriteToDisk(buf) /\ buf' = <<Resume!NL>>
      BY <1>2, <2>3 DEF Resume!WriteNewline
    <3>2. /\ file' \in Seq(Units) /\ Single(file')
          /\ Heads(file') \subseteq Heads(file) \cup Heads(buf)
          /\ werr' \in BOOLEAN /\ failed' \in BOOLEAN
          /\ werr' \/ (file' = file \o buf /\ werr' = werr)
      BY <1>0, <3>1, Written
    <3>3. werr' \/ (Stream' = Stream /\ werr' = werr)
      <4> SUFFICES ASSUME file' = file \o buf PROVE Stream' = Stream
        BY <3>2
      <4>1. Stream' = ((file \o buf) \o <<Resume!NL>>) \o <<>>
        BY <2>0, <3>1 DEF Stream
      <4>2. (file \o buf) \o <<Resume!NL>> \in Seq(Units)
        BY <1>0, HeadsOfNothing, ConcatProperties
      <4> QED BY <2>1, <4>1, <4>2, ConcatEmptySeq DEF Stream
    <3>4. Moved
      <4>1. Apart(file', buf', pend')
        BY <1>0, <2>0, <3>1, <3>2, HeadsOfNothing DEF Apart
      <4>2. Heads(file') \cup Heads(buf') \cup Heads(pend')
              \subseteq Heads(file) \cup Heads(buf) \cup Heads(pend)
        BY <2>0, <3>1, <3>2, HeadsOfNothing
      <4>3. Len(buf') <= Cap
        BY <1>0, <3>1
      <4> QED BY <2>0, <3>1, <3>2, <3>3, <4>1, <4>2, <4>3, HeadsOfNothing DEF Moved
    <3> QED BY <2>0, <3>4, MovedKeeps
  <2> QED BY <2>2, <2>3
<1>3. ASSUME Resume!WriteDropped PROVE ResumeInv'
  <2>0. /\ phase = "run" /\ werr /\ pend' = <<>> /\ UNCHANGED <<file, buf, werr, failed>>
        /\ UNCHANGED <<skipped, reports, finished, phase, warned, runs, produced, ragged>>
    BY <1>3 DEF Resume!WriteDropped, Resume!scanVars, Resume!diskVars
  <2>1. Apart(file', buf', pend')
    BY <1>0, <2>0, HeadsOfNothing DEF Apart
  <2>2. Moved
    BY <1>0, <2>0, <2>1, HeadsOfNothing DEF Moved
  <2> QED BY <2>0, <2>2, MovedKeeps
<1> QED BY <1>1, <1>2, <1>3 DEF Resume!Record

LEMMA ResumeAtFirst ==
  ASSUME Resume!ResumableAssumption, Resume!Init PROVE ResumeInv
<1>1. ResumeTypes
  <2>1. Len(buf) <= Cap /\ runs \in 0 .. MaxRuns
    BY DEF Resume!Init, Resume!ResumableAssumption
  <2>2. reports \in [Jobs -> 0 .. 1]
    BY DEF Resume!Init
  <2>3. Resume!TypeOK
    BY <2>1, <2>2 DEF Resume!Init, Resume!TypeOK
  <2> QED BY <2>3, HeadsOfNothing DEF Resume!Init, ResumeTypes
<1>2. WrittenOnce /\ NothingDropped
  BY HeadsOfNothing DEF Resume!Init, WrittenOnce, Apart, NothingDropped
<1> QED BY <1>1, <1>2 DEF ResumeInv

LEMMA OpenStep ==
  ASSUME Resume!ResumableAssumption, ResumeInv, Resume!Open PROVE ResumeInv'
<1>0. /\ runs' = runs + 1 /\ runs < MaxRuns /\ buf' = <<>> /\ pend' = <<>>
      /\ werr' = FALSE /\ warned' = FALSE /\ reports' = [j \in Jobs |-> 0]
      /\ finished' = FALSE /\ UNCHANGED <<file, failed, produced>>
      /\ \/ phase' = "refused" /\ UNCHANGED <<skipped, ragged>>
         \/ /\ ~ Resume!Corrupt(file) /\ phase' = "run" /\ skipped' = Resume!Recorded(file)
            /\ ragged' = (ragged \/ Resume!EndsRagged(file))
  BY DEF Resume!Open, Resume!Loaded
<1>1. /\ file \in Seq(Units) /\ skipped \subseteq Jobs /\ produced \subseteq Jobs
      /\ runs \in 0 .. MaxRuns /\ MaxRuns \in Nat /\ Cap \in Nat /\ ragged \in BOOLEAN
      /\ failed \in BOOLEAN /\ Single(file) /\ Heads(file) \subseteq produced
  BY DEF ResumeInv, ResumeTypes, Resume!TypeOK, WrittenOnce, Apart, Resume!ResumableAssumption
<1>2. ~ Resume!Corrupt(file) => Heads(file) = Resume!Recorded(file)
  BY <1>1, LoadedAreAll
<1>3. skipped' \subseteq Jobs /\ ragged' \in BOOLEAN /\ phase' \in {"run", "refused"}
  <2>1. Resume!Recorded(file) \subseteq Jobs
    BY DEF Resume!Recorded
  <2>2. Resume!EndsRagged(file) \in BOOLEAN
    BY DEF Resume!EndsRagged
  <2> HIDE DEF Resume!Recorded, Resume!EndsRagged
  <2> QED BY <1>0, <1>1, <2>1, <2>2
<1>4. ResumeTypes'
  <2>1. runs' \in 0 .. MaxRuns /\ Len(buf') <= Cap
    BY <1>0, <1>1
  <2>2. reports' \in [Jobs -> 0 .. 1]
    BY <1>0
  <2> QED BY <1>0, <1>1, <1>3, <2>1, <2>2, HeadsOfNothing DEF ResumeTypes, Resume!TypeOK
<1>5. Reported' = {}
  BY <1>0 DEF Reported
<1>6. WrittenOnce'
  <2>1. Apart(file', buf', pend')
    BY <1>0, <1>1, HeadsOfNothing DEF Apart
  <2>2. Heads(file') \cup Heads(buf') \cup Heads(pend') = Heads(file)
    BY <1>0, HeadsOfNothing
  <2>3. Heads(file) \subseteq produced'
    BY <1>0, <1>1
  <2>4. phase' = "run" => Heads(file) \subseteq skipped'
    BY <1>0, <1>2
  <2> QED BY <2>1, <2>2, <2>3, <2>4 DEF WrittenOnce
<1>7. Stream' = file
  BY <1>0, <1>1, ConcatEmptySeq DEF Stream
<1>8. NothingDropped'
  <2>1. phase' = "run" /\ ~ ragged' => WholeLines(file) /\ Resume!Recorded(file) = skipped'
    BY <1>0, <1>1 DEF WholeLines
  <2> HIDE DEF WholeLines
  <2>2. phase' # "closed"
    BY <1>3
  <2>3. phase' = "run" /\ ~ ragged' =>
          WholeLines(Stream)' /\ Resume!Recorded(Stream)' = skipped' \cup Reported'
    BY <1>5, <1>7, <2>1
  <2> QED BY <2>2, <2>3 DEF NothingDropped
<1> QED BY <1>4, <1>6, <1>8 DEF ResumeInv

LEMMA ReportStep ==
  ASSUME Resume!ResumableAssumption, ResumeInv, NEW j \in Jobs, Resume!Report(j)
  PROVE  ResumeInv'
<1>0. /\ phase = "run" /\ pend = <<>> /\ j \notin skipped /\ reports[j] = 0
      /\ reports' = [reports EXCEPT ![j] = 1] /\ pend' = Resume!Line(j)
      /\ produced' = produced \cup {j}
      /\ UNCHANGED <<skipped, finished, file, buf, werr, failed, phase, warned, runs, ragged>>
  BY DEF Resume!Report, Resume!Scan!Report, Resume!diskVars
<1>1. /\ file \in Seq(Units) /\ buf \in Seq(Units) /\ Single(file) /\ Single(buf)
      /\ Heads(file) \cap Heads(buf) = {} /\ Heads(file) \cup Heads(buf) \subseteq produced
      /\ Heads(file) \cup Heads(buf) \subseteq skipped \cup Reported
      /\ reports \in [Jobs -> 0 .. 1] /\ produced \subseteq Jobs /\ Resume!TypeOK
  BY <1>0 DEF ResumeInv, ResumeTypes, Resume!TypeOK, WrittenOnce, Apart
<1>2. /\ pend' \in Seq(Units) /\ Heads(pend') = {j} /\ Single(pend')
      /\ pend'[Len(pend')] = Resume!NL
  BY <1>0, HeadsOfLine
<1>3. Reported' = Reported \cup {j} /\ j \notin Reported
  BY <1>0, <1>1 DEF Reported
<1>4. ResumeTypes'
  <2>1. reports' \in [Jobs -> 0 .. 1] /\ produced' \subseteq Jobs
    BY <1>0, <1>1
  <2> QED BY <1>0, <1>1, <1>2, <2>1 DEF ResumeTypes, Resume!TypeOK
<1>5. WrittenOnce'
  <2>1. Apart(file', buf', pend')
    <3>1. j \notin Heads(file) /\ j \notin Heads(buf)
      BY <1>0, <1>1, <1>3
    <3>2. Single(file') /\ Single(buf') /\ Heads(file') = Heads(file) /\ Heads(buf') = Heads(buf)
      BY <1>0, <1>1
    <3> QED BY <1>1, <1>2, <3>1, <3>2 DEF Apart
  <2>2. Heads(file') \cup Heads(buf') \cup Heads(pend') = Heads(file) \cup Heads(buf) \cup {j}
    BY <1>0, <1>2
  <2>3. Heads(file) \cup Heads(buf) \cup {j} \subseteq produced'
    BY <1>0, <1>1
  <2>4. Heads(file) \cup Heads(buf) \cup {j} \subseteq skipped' \cup Reported'
    BY <1>0, <1>1, <1>3
  <2> QED BY <2>1, <2>2, <2>3, <2>4 DEF WrittenOnce
<1>6. NothingDropped'
  <2>1. Stream = file \o buf /\ Stream' = (file \o buf) \o Resume!Line(j)
    BY <1>0, <1>1, Joined, ConcatEmptySeq, ConcatProperties DEF Stream
  <2> HIDE DEF Stream, Resume!Line
  <2>2. ~ werr /\ ~ ragged => WholeLines(Stream) /\ Resume!Recorded(Stream) = skipped \cup Reported
    BY <1>0 DEF ResumeInv, NothingDropped
  <2>3. ~ werr /\ ~ ragged =>
          WholeLines(Stream)' /\ Resume!Recorded(Stream)' = Resume!Recorded(Stream) \cup {j}
    BY <2>1, <2>2, AddLine
  <2>4. ~ werr /\ ~ ragged => Resume!Recorded(Stream)' = skipped' \cup Reported'
    BY <1>0, <1>3, <2>2, <2>3
  <2> QED BY <1>0, <2>3, <2>4 DEF NothingDropped
<1> QED BY <1>4, <1>5, <1>6 DEF ResumeInv

LEMMA CloseStep ==
  ASSUME Resume!ResumableAssumption, ResumeInv, Resume!Close PROVE ResumeInv'
<1>0. /\ phase = "run" /\ pend = <<>> /\ phase' = "closed" /\ warned' = werr' /\ buf' = <<>>
      /\ \A j \in Jobs \ skipped : reports[j] = 1
      /\ finished' = TRUE /\ UNCHANGED <<skipped, reports, pend, runs, produced, ragged>>
      /\ \/ (werr \/ buf = <<>>) /\ UNCHANGED <<file, werr, failed>>
         \/ Resume!WriteToDisk(buf)
  BY DEF Resume!Close, Resume!FlushBuffer, Resume!Scan!Finish
<1>1. /\ file \in Seq(Units) /\ buf \in Seq(Units) /\ Single(file) /\ Single(buf)
      /\ Heads(file) \cap Heads(buf) = {} /\ Heads(file) \cup Heads(buf) \subseteq produced
      /\ werr \in BOOLEAN /\ failed \in BOOLEAN /\ Resume!TypeOK /\ Cap \in Nat
      /\ skipped \subseteq Jobs /\ reports \in [Jobs -> 0 .. 1]
  BY DEF ResumeInv, ResumeTypes, Resume!TypeOK, WrittenOnce, Apart, Resume!ResumableAssumption
<1>2. /\ file' \in Seq(Units) /\ Single(file')
      /\ Heads(file') \subseteq Heads(file) \cup Heads(buf)
      /\ werr' \in BOOLEAN /\ failed' \in BOOLEAN
      /\ werr' \/ (file' = file \o buf /\ ~ werr)
  <2>1. CASE (werr \/ buf = <<>>) /\ UNCHANGED <<file, werr, failed>>
    <3>1. file \o <<>> = file
      BY <1>1, ConcatEmptySeq
    <3> QED BY <1>1, <2>1, <3>1
  <2>2. CASE Resume!WriteToDisk(buf)
    BY <1>1, <2>2, Written
  <2> QED BY <1>0, <2>1, <2>2
<1>3. ResumeTypes'
  <2>1. Len(buf') <= Cap
    BY <1>0, <1>1
  <2> QED BY <1>0, <1>1, <1>2, <2>1, HeadsOfNothing DEF ResumeTypes, Resume!TypeOK
<1>4. WrittenOnce'
  <2>1. Apart(file', buf', pend')
    BY <1>0, <1>2, HeadsOfNothing DEF Apart
  <2>2. Heads(file') \cup Heads(buf') \cup Heads(pend') \subseteq produced'
    BY <1>0, <1>1, <1>2, HeadsOfNothing
  <2> QED BY <1>0, <2>1, <2>2 DEF WrittenOnce
<1>5. skipped \cup Reported = Jobs
  BY <1>0, <1>1 DEF Reported
<1>6. NothingDropped'
  <2> SUFFICES ASSUME ~ werr', ~ ragged
               PROVE  ~ Resume!Corrupt(file') /\ Resume!Recorded(file') = Jobs
    BY <1>0 DEF NothingDropped
  <2>1. file' = file \o buf /\ ~ werr
    BY <1>2
  <2>2. Stream = file \o buf
    BY <1>0, <1>1, ConcatEmptySeq, ConcatProperties DEF Stream
  <2>3. WholeLines(Stream) /\ Resume!Recorded(Stream) = skipped \cup Reported
    BY <1>0, <2>1 DEF ResumeInv, NothingDropped
  <2> QED BY <1>5, <2>1, <2>2, <2>3 DEF WholeLines
<1> QED BY <1>3, <1>4, <1>6 DEF ResumeInv

LEMMA StopStep ==
  ASSUME Resume!ResumableAssumption, ResumeInv, Resume!Interrupt \/ Resume!Exit
  PROVE  ResumeInv'
<1>0. /\ phase' = "off" /\ buf' = <<>> /\ pend' = <<>> /\ werr' \in BOOLEAN
      /\ UNCHANGED <<skipped, reports, finished, file, failed, warned, runs, produced, ragged>>
  BY DEF Resume!Interrupt, Resume!Exit, Resume!scanVars, Resume!diskVars, ResumeInv,
         ResumeTypes, Resume!TypeOK
<1>1. ResumeTypes'
  <2>1. Len(buf') <= Cap
    BY <1>0 DEF Resume!ResumableAssumption
  <2> QED BY <1>0, <2>1, HeadsOfNothing DEF ResumeInv, ResumeTypes, Resume!TypeOK
<1>2. WrittenOnce'
  <2>1. Single(file) /\ Heads(file) \subseteq produced
    BY DEF ResumeInv, WrittenOnce, Apart
  <2>2. Apart(file', buf', pend')
    BY <1>0, <2>1, HeadsOfNothing DEF Apart
  <2>3. Heads(file') \cup Heads(buf') \cup Heads(pend') \subseteq produced'
    BY <1>0, <2>1, HeadsOfNothing
  <2> QED BY <1>0, <2>2, <2>3 DEF WrittenOnce
<1> QED BY <1>0, <1>1, <1>2 DEF ResumeInv, NothingDropped

LEMMA ResumeInvariant ==
  ASSUME Resume!ResumableAssumption PROVE Resume!Spec => []ResumeInv
<1>1. Resume!Init => ResumeInv
  BY ResumeAtFirst
<1>2. ResumeInv /\ [Resume!Next]_(Resume!vars) => ResumeInv'
  <2>1. ASSUME ResumeInv, Resume!Next PROVE ResumeInv'
    BY <2>1, OpenStep, ReportStep, RecordStep, CloseStep, StopStep DEF Resume!Next
  <2>2. ASSUME ResumeInv, UNCHANGED Resume!vars PROVE ResumeInv'
    <3>1. UNCHANGED <<skipped, reports, finished, file, buf, werr, failed, pend, phase,
                      warned, runs, produced, ragged>>
      BY <2>2 DEF Resume!vars, Resume!scanVars, Resume!diskVars
    <3>2. ResumeTypes'
      BY <2>2, <3>1 DEF ResumeInv, ResumeTypes, Resume!TypeOK
    <3>3. Reported' = Reported /\ Stream' = Stream
      BY <3>1 DEF Reported, Stream
    <3>4. WrittenOnce'
      <4> HIDE DEF Reported
      <4> QED BY <2>2, <3>1, <3>3 DEF ResumeInv, WrittenOnce
    <3>5. NothingDropped'
      <4> HIDE DEF Reported, Stream
      <4>1. Resume!Recorded(Stream)' = Resume!Recorded(Stream) /\ WholeLines(Stream)' = WholeLines(Stream)
        BY <3>3
      <4>2. Resume!Recorded(file)' = Resume!Recorded(file) /\ Resume!Corrupt(file)' = Resume!Corrupt(file)
        BY <3>1
      <4> QED BY <2>2, <3>1, <3>3, <4>1, <4>2 DEF ResumeInv, NothingDropped
    <3> QED BY <3>2, <3>4, <3>5 DEF ResumeInv
  <2> QED BY <2>1, <2>2
<1> QED BY <1>1, <1>2, PTL DEF Resume!Spec

\* Type correctness of the checkpoint.
THEOREM ResumeTypeCorrect ==
  ASSUME Resume!ResumableAssumption PROVE Resume!Spec => []Resume!TypeOK
<1>1. ResumeInv => Resume!TypeOK
  BY DEF ResumeInv, ResumeTypes
<1> QED BY <1>1, ResumeInvariant, PTL

\* A torn or interrupted write never passes for a result, and no result is
\* counted twice, for any jobs, sizes of their records, buffer and number of
\* runs (checkpoint.go's openCheckpoint and record).
THEOREM LoadedResultsAreGenuine ==
  ASSUME Resume!ResumableAssumption PROVE Resume!Spec => []Resume!LoadedIsGenuine
<1>1. ResumeInv => Resume!LoadedIsGenuine
  <2> SUFFICES ASSUME ResumeInv PROVE Resume!LoadedIsGenuine
    OBVIOUS
  <2>1. file \in Seq(Units) /\ Single(file) /\ Heads(file) \subseteq produced
    BY DEF ResumeInv, ResumeTypes, WrittenOnce, Apart
  <2>2. Resume!Recorded(file) \subseteq Heads(file)
    BY <2>1, RecordedHaveHeads
  <2>3. \A j \in Jobs : Resume!Copies(file, j) <= 1
    BY <2>1, OneCopy
  <2> QED BY <2>1, <2>2, <2>3 DEF Resume!LoadedIsGenuine
<1> QED BY <1>1, ResumeInvariant, PTL

\* A run that closes its checkpoint without a warning has left every result in
\* a file that loads, whatever of its writes were cut short (checkpoint.go's
\* record and close), unless it began after a cut just before a newline.
THEOREM AQuietCloseIsComplete ==
  ASSUME Resume!ResumableAssumption PROVE Resume!Spec => []Resume!QuietCloseIsComplete
<1>1. ResumeInv => Resume!QuietCloseIsComplete
  BY DEF ResumeInv, NothingDropped, Resume!QuietCloseIsComplete
<1> QED BY <1>1, ResumeInvariant, PTL

\* A result that is on disk is not scanned again (checkpoint.go, engine.go).
THEOREM NoResultIsMadeAgain ==
  ASSUME Resume!ResumableAssumption PROVE Resume!Spec => Resume!NoRescan
<1>1. ResumeInv /\ [Resume!Next]_(Resume!vars) => [Resume!NotAgain]_(Resume!vars)
  <2> SUFFICES ASSUME ResumeInv, Resume!Next, NEW j \in Jobs, reports'[j] > reports[j]
               PROVE  j \notin Resume!Recorded(file)
    BY DEF Resume!NotAgain
  <2>1. /\ reports \in [Jobs -> 0 .. 1] /\ file \in Seq(Units)
        /\ phase = "run" => Heads(file) \subseteq skipped \cup Reported
    BY DEF ResumeInv, ResumeTypes, Resume!TypeOK, WrittenOnce
  <2>2. ASSUME NEW k \in Jobs, Resume!Report(k)
        PROVE  phase = "run" /\ j = k /\ j \notin skipped /\ reports[j] = 0
    BY <2>1, <2>2 DEF Resume!Report, Resume!Scan!Report
  <2>3. \E k \in Jobs : Resume!Report(k)
    <3>1. ASSUME UNCHANGED reports PROVE FALSE
      BY <2>1, <3>1
    <3>2. ASSUME Resume!Open PROVE FALSE
      BY <2>1, <3>2 DEF Resume!Open
    <3> QED BY <3>1, <3>2
            DEF Resume!Next, Resume!Record, Resume!WriteData, Resume!WriteNewline,
                Resume!WriteDropped, Resume!Close, Resume!Scan!Finish, Resume!Interrupt,
                Resume!Exit, Resume!scanVars
  <2>4. j \notin Heads(file)
    BY <2>1, <2>2, <2>3 DEF Reported
  <2> QED BY <2>1, <2>4, RecordedHaveHeads
<1> QED BY <1>1, ResumeInvariant, PTL DEF Resume!Spec, Resume!NoRescan

-----------------------------------------------------------------------------
(* The session of a scan.  What a filter keeps of a sequence is computed one *)
(* element after the other.                                                  *)

\* f[k] is what the filter keeps of the first k elements, for every k up to n.
Filters(s, S, f, n) ==
  /\ f[0] = <<>>
  /\ \A k \in 1 .. n :
       f[k] = IF s[k] \in S THEN Append(f[k - 1], s[k]) ELSE f[k - 1]

LEMMA AmongIs ==
  ASSUME NEW T, NEW s \in Seq(T), NEW S
  PROVE  \E f \in [0 .. Len(s) -> Seq(T)] :
           Filters(s, S, f, Len(s)) /\ Sess!Among(s, S) = f[Len(s)]
<1> DEFINE Filtered(n) == \E f \in [0 .. n -> Seq(T)] : Filters(s, S, f, n)
           Bad == { n \in 0 .. Len(s) : ~ Filtered(n) }
<1>0. Len(s) \in Nat /\ \A i \in 1 .. Len(s) : s[i] \in T
  OBVIOUS
<1>1. Filtered(0)
  <2>1. [k \in 0 .. 0 |-> <<>>] \in [0 .. 0 -> Seq(T)]
    OBVIOUS
  <2>2. Filters(s, S, [k \in 0 .. 0 |-> <<>>], 0)
    BY DEF Filters
  <2> QED BY <2>1, <2>2
<1>2. ASSUME NEW n \in 0 .. Len(s) - 1, Filtered(n) PROVE Filtered(n + 1)
  <2>1. PICK f \in [0 .. n -> Seq(T)] : Filters(s, S, f, n)
    BY <1>2
  <2> DEFINE x == IF s[n + 1] \in S THEN Append(f[n], s[n + 1]) ELSE f[n]
             g == [k \in 0 .. n + 1 |-> IF k = n + 1 THEN x ELSE f[k]]
  <2>2. n \in Nat /\ n + 1 \in 1 .. Len(s) /\ n \in 0 .. n
    BY <1>0
  <2>3. x \in Seq(T)
    <3>1. f[n] \in Seq(T) /\ s[n + 1] \in T
      BY <2>2, <1>0
    <3> QED BY <3>1
  <2>4. /\ g \in [0 .. n + 1 -> Seq(T)] /\ g[n + 1] = x
        /\ \A k \in 0 .. n : g[k] = f[k]
    <3> HIDE DEF x
    <3> QED BY <2>2, <2>3
  <2> HIDE DEF g
  <2>5. Filters(s, S, g, n + 1)
    <3>1. g[0] = <<>>
      BY <2>1, <2>2, <2>4 DEF Filters
    <3>2. ASSUME NEW k \in 1 .. n + 1
          PROVE  g[k] = IF s[k] \in S THEN Append(g[k - 1], s[k]) ELSE g[k - 1]
      <4>1. CASE k = n + 1
        <5>1. k - 1 = n
          BY <4>1, <2>2
        <5> QED BY <4>1, <5>1, <2>4, <2>2
      <4>2. CASE k # n + 1
        <5>1. k \in 1 .. n /\ k \in 0 .. n /\ k - 1 \in 0 .. n
          BY <4>2, <2>2
        <5> QED BY <5>1, <2>1, <2>4 DEF Filters
      <4> QED BY <4>1, <4>2
    <3> QED BY <3>1, <3>2 DEF Filters
  <2> QED BY <2>4, <2>5
<1>3. Bad = {}
  <2> SUFFICES ASSUME Bad # {} PROVE FALSE
    OBVIOUS
  <2>1. Bad \in SUBSET Nat
    BY <1>0
  <2>2. PICK n \in Bad : \A m \in Bad : n <= m
    BY <2>1, LeastNumber
  <2> HIDE DEF Filtered
  <2>3. n \in 0 .. Len(s) /\ ~ Filtered(n) /\ n # 0
    BY <1>1
  <2>4. n - 1 \in 0 .. Len(s) - 1 /\ n - 1 \in 0 .. Len(s) /\ (n - 1) + 1 = n
        /\ ~ (n <= n - 1)
    BY <2>3, <1>0
  <2>5. Filtered(n - 1)
    BY <2>2, <2>4
  <2>6. Filtered((n - 1) + 1)
    BY <1>2, <2>4, <2>5
  <2> QED BY <2>3, <2>4, <2>6
<1>4. PICK f \in [0 .. Len(s) -> Seq(T)] : Filters(s, S, f, Len(s))
  <2> HIDE DEF Filtered
  <2>1. Len(s) \in 0 .. Len(s)
    BY <1>0
  <2>2. Filtered(Len(s))
    BY <1>3, <2>1
  <2> QED BY <2>2 DEF Filtered
<1> DEFINE Eq(f1) == f1 = [n \in 0 .. Len(s) |->
                     IF n = 0 THEN <<>>
                     ELSE IF s[n] \in S THEN Append(f1[n - 1], s[n]) ELSE f1[n - 1]]
<1>5. Eq(f)
  <2>1. \A n \in 0 .. Len(s) :
          f[n] = IF n = 0 THEN <<>>
                 ELSE IF s[n] \in S THEN Append(f[n - 1], s[n]) ELSE f[n - 1]
    <3> TAKE n \in 0 .. Len(s)
    <3>1. CASE n = 0
      BY <3>1, <1>4 DEF Filters
    <3>2. CASE n # 0
      <4>1. n \in 1 .. Len(s)
        BY <3>2, <1>0
      <4> QED BY <3>2, <4>1, <1>4 DEF Filters
    <3> QED BY <3>1, <3>2
  <2> QED BY <1>4, <2>1
<1> DEFINE c == CHOOSE f1 : Eq(f1)
<1>6. Eq(c)
  <2> HIDE DEF Eq
  <2> QED BY <1>5
<1>7. Sess!Among(s, S) = c[Len(s)]
  BY DEF Sess!Among
<1> HIDE DEF c
<1>8. ASSUME NEW n \in 0 .. Len(s)
      PROVE  c[n] = f[n]
  <2> DEFINE Off == { k \in 0 .. Len(s) : c[k] # f[k] }
  <2>1. Off = {}
    <3> SUFFICES ASSUME Off # {} PROVE FALSE
      OBVIOUS
    <3>1. Off \in SUBSET Nat
      BY <1>0
    <3>2. PICK k \in Off : \A m \in Off : k <= m
      BY <3>1, LeastNumber
    <3>3. c[0] = f[0]
      BY <1>5, <1>6, <1>0
    <3>4. k \in 0 .. Len(s) /\ k # 0 /\ c[k] # f[k]
      BY <3>3
    <3>5. k - 1 \in 0 .. Len(s) /\ ~ (k <= k - 1)
      BY <3>4, <1>0
    <3>6. c[k - 1] = f[k - 1]
      BY <3>2, <3>5
    <3> QED BY <3>4, <3>5, <3>6, <1>5, <1>6, <1>0
  <2> QED BY <2>1
<1>9. Sess!Among(s, S) = f[Len(s)]
  BY <1>7, <1>8, <1>0
<1> QED BY <1>4, <1>9

\* Where a sequence has an element.
Places(s, a) == { k \in DOMAIN s : s[k] = a }

LEMMA PlacesFinite ==
  ASSUME NEW T, NEW s \in Seq(T), NEW a, NEW P \in SUBSET Places(s, a)
  PROVE  IsFiniteSet(P) /\ Cardinality(P) \in Nat
<1>1. DOMAIN s = 1 .. Len(s) /\ Len(s) \in Nat /\ 1 \in Int
  OBVIOUS
<1>2. P \in SUBSET (1 .. Len(s))
  BY <1>1 DEF Places
<1>3. IsFiniteSet(P)
  <2>1. IsFiniteSet(1 .. Len(s))
    BY <1>1, FS_Interval
  <2> QED BY <1>2, <2>1, FS_Subset
<1> QED BY <1>3, FS_CardinalityType

\* One more element is one more place of that element, and of no other.
LEMMA OneMorePlace ==
  ASSUME NEW T, NEW s \in Seq(T), NEW x \in T, NEW a
  PROVE  Cardinality(Places(Append(s, x), a)) =
           Cardinality(Places(s, a)) + (IF x = a THEN 1 ELSE 0)
<1>1. /\ DOMAIN s = 1 .. Len(s) /\ Len(s) \in Nat
      /\ DOMAIN Append(s, x) = 1 .. Len(s) + 1
      /\ Append(s, x)[Len(s) + 1] = x
      /\ \A k \in 1 .. Len(s) : Append(s, x)[k] = s[k]
  OBVIOUS
<1>2. IsFiniteSet(Places(s, a)) /\ Cardinality(Places(s, a)) \in Nat
  BY PlacesFinite
<1>3. CASE x = a
  <2>1. Places(Append(s, x), a) = Places(s, a) \cup {Len(s) + 1}
    BY <1>1, <1>3 DEF Places
  <2>2. Len(s) + 1 \notin Places(s, a)
    BY <1>1 DEF Places
  <2> QED BY <1>2, <1>3, <2>1, <2>2, FS_AddElement
<1>4. CASE x # a
  <2>1. Places(Append(s, x), a) = Places(s, a)
    BY <1>1, <1>4 DEF Places
  <2> QED BY <1>2, <1>4, <2>1
<1> QED BY <1>3, <1>4

\* A filter keeps the elements of its set, each as often as there were.
LEMMA AmongKeeps ==
  ASSUME NEW T, NEW s \in Seq(T), NEW S
  PROVE  /\ Sess!Among(s, S) \in Seq(T \cap S)
         /\ \A a \in S : Cardinality(Places(Sess!Among(s, S), a)) = Cardinality(Places(s, a))
<1>1. PICK f \in [0 .. Len(s) -> Seq(T)] :
        Filters(s, S, f, Len(s)) /\ Sess!Among(s, S) = f[Len(s)]
  BY AmongIs
<1>0. Len(s) \in Nat /\ (\A i \in 1 .. Len(s) : s[i] \in T) /\ DOMAIN s = 1 .. Len(s)
  OBVIOUS
<1> DEFINE First(n, a) == { k \in 1 .. n : s[k] = a }
           Keeps(n) == /\ f[n] \in Seq(T \cap S)
                       /\ \A a \in S : Cardinality(Places(f[n], a)) = Cardinality(First(n, a))
           Bad == { n \in 0 .. Len(s) : ~ Keeps(n) }
<1>2. Keeps(0)
  <2>1. f[0] = <<>> /\ f[0] \in Seq(T \cap S)
    BY <1>1 DEF Filters
  <2>2. \A a \in S : Places(f[0], a) = {} /\ First(0, a) = {}
    BY <2>1 DEF Places
  <2> QED BY <2>1, <2>2
<1>3. ASSUME NEW n \in 1 .. Len(s), Keeps(n - 1) PROVE Keeps(n)
  <2>1. n \in Nat /\ n - 1 \in Nat /\ n - 1 \in 0 .. Len(s) /\ s[n] \in T
    BY <1>0
  <2>2. f[n] = IF s[n] \in S THEN Append(f[n - 1], s[n]) ELSE f[n - 1]
    BY <1>1 DEF Filters
  <2>3. f[n] \in Seq(T \cap S)
    BY <1>3, <2>1, <2>2
  <2>4. ASSUME NEW a \in S
        PROVE  Cardinality(Places(f[n], a)) = Cardinality(First(n, a))
    <3>1. Cardinality(Places(f[n - 1], a)) = Cardinality(First(n - 1, a))
      BY <1>3, <2>4
    <3>2. IsFiniteSet(First(n - 1, a)) /\ Cardinality(First(n - 1, a)) \in Nat
      <4>1. First(n - 1, a) \in SUBSET Places(s, a)
        BY <2>1, <1>0 DEF Places
      <4> HIDE DEF First
      <4> QED BY <4>1, PlacesFinite
    <3>3. CASE s[n] = a
      <4>1. First(n, a) = First(n - 1, a) \cup {n} /\ n \notin First(n - 1, a)
        BY <2>1, <3>3
      <4>2. Cardinality(First(n, a)) = Cardinality(First(n - 1, a)) + 1
        <5> HIDE DEF First
        <5> QED BY <4>1, <3>2, FS_AddElement
      <4>3. f[n] = Append(f[n - 1], s[n])
        BY <2>2, <2>4, <3>3
      <4>4. f[n - 1] \in Seq(T)
        BY <2>1
      <4> HIDE DEF First
      <4>5. Cardinality(Places(f[n], a)) = Cardinality(Places(f[n - 1], a)) + 1
        BY <4>3, <4>4, <2>1, <3>3, OneMorePlace
      <4> QED BY <4>2, <4>5, <3>1
    <3>4. CASE s[n] # a
      <4>1. First(n, a) = First(n - 1, a)
        BY <2>1, <3>4
      <4>4. f[n - 1] \in Seq(T)
        BY <2>1
      <4>5. CASE s[n] \in S
        <5>1. f[n] = Append(f[n - 1], s[n])
          BY <2>2, <4>5
        <5>2. Cardinality(Places(f[n], a)) = Cardinality(Places(f[n - 1], a)) + 0
          BY <5>1, <4>4, <2>1, <3>4, OneMorePlace
        <5> HIDE DEF First
        <5> QED BY <4>1, <5>2, <3>1, <3>2
      <4>6. CASE s[n] \notin S
        <5>1. f[n] = f[n - 1]
          BY <2>2, <4>6
        <5> HIDE DEF First
        <5> QED BY <4>1, <5>1, <3>1
      <4> QED BY <4>5, <4>6
    <3> QED BY <3>3, <3>4
  <2> QED BY <2>3, <2>4
<1>4. Bad = {}
  <2> SUFFICES ASSUME Bad # {} PROVE FALSE
    OBVIOUS
  <2>1. Bad \in SUBSET Nat
    BY <1>0
  <2>2. PICK n \in Bad : \A m \in Bad : n <= m
    BY <2>1, LeastNumber
  <2> HIDE DEF Keeps
  <2>3. n \in 1 .. Len(s) /\ ~ Keeps(n)
    BY <1>2, <1>0
  <2>4. n - 1 \in 0 .. Len(s) /\ ~ (n <= n - 1)
    BY <2>3, <1>0
  <2>5. Keeps(n - 1)
    BY <2>2, <2>4
  <2> QED BY <1>3, <2>3, <2>5
<1>5. Keeps(Len(s))
  <2> HIDE DEF Keeps
  <2>1. Len(s) \in 0 .. Len(s)
    BY <1>0
  <2> QED BY <1>4, <2>1
<1>6. \A a \in S : First(Len(s), a) = Places(s, a)
  BY <1>0 DEF Places
<1> QED BY <1>1, <1>5, <1>6

-----------------------------------------------------------------------------
\* The targets are narrowed to what is authorized before anything is sent.
PhaseNames ==
  {"load", "scope", "exclude", "traceroute", "discover", "ping", "ports", "scan",
   "dualstack", "inspect", "services", "vulns", "gaps", "baseline", "export",
   "compare", "exited"}
InScope == IF opts.scope = Sess!NoFile THEN Sess!All ELSE opts.scope
TargetsNarrowed ==
  /\ phase \in PhaseNames
  /\ opts \in Commands /\ targets \in Seq(Sess!All)
  /\ phase \notin {"load", "exited"} => targets # <<>>
  /\ phase \notin {"load", "scope", "exited"} => targets \in Seq(InScope)
  /\ phase \notin {"load", "scope", "exclude", "exited"}
       => targets \in Seq(Sess!Authorized)

\* Nothing else is sent to but the counterparts of the active targets, and those
\* only once the active targets stay as they are.
Finding == {"load", "scope", "exclude", "traceroute", "discover", "ping"}
SentToAuthorized ==
  /\ active \in Seq(Sess!Authorized)
  /\ DOMAIN results \subseteq Sess!Authorized \cup Sess!V6Targets
  /\ probed \subseteq Sess!Authorized \cup Sess!V6Targets
  /\ phase \in Finding => probed \subseteq Sess!Authorized /\ results = <<>>

\* The active targets so far are those that are up among the answered, each as
\* often as it was listed.
Asking == pending \cup pinging
CountedSoFar ==
  /\ phase \in Finding \ {"ping"} => active = <<>>
  /\ phase \notin {"ping", "exited"} => pending = {} /\ pinging = {}
  /\ phase # "exited" =>
       /\ pending \subseteq DOMAIN targets /\ pinging \subseteq DOMAIN targets
       /\ pending \cap pinging = {}
  /\ phase \notin (Finding \ {"ping"}) \cup {"exited"} /\ ~ opts.skip =>
       \A a \in Sess!All :
         Cardinality(Places(active, a)) =
           IF a \in up THEN Cardinality(Places(targets, a) \ Asking) ELSE 0

\* The file is what it was as the run began until the export, which comes after
\* it is read.
BaselineFirst ==
  /\ phase \notin {"compare", "exited"} => stateFile = before /\ compared = 0
  /\ phase \in {"export", "compare"} =>
       baseline = IF opts.baseline /\ before # Sess!Torn THEN before ELSE 0
  /\ compared = 0 \/ compared = before

\* No finding is there before the gaps are looked for, and none is lost.
Reporting == {"baseline", "export", "compare"}
Scanned == [open : BOOLEAN, service : BOOLEAN, findings : {{}}, risk : Nat]
GapsFound ==
  opts.dualStack /\ ~ opts.udp =>
    \A a \in DOMAIN results :
      ("ipv6-only" \in results[a].findings <=> Sess!GapOf(a))
        /\ (Sess!GapOf(a) => results[a].risk > 0)
GapsLast ==
  /\ phase \notin Reporting \cup {"exited"} => results \in [DOMAIN results -> Scanned]
  /\ phase \in Reporting => GapsFound

SessInv ==
  TargetsNarrowed /\ SentToAuthorized /\ CountedSoFar /\ BaselineFirst /\ GapsLast

\* The order of main.
LEMMA PhaseOrder ==
  /\ Len(Sess!Phases) = 16
  /\ \A i \in 1 .. 16 : Sess!Index(Sess!Phases[i]) = i
  /\ \A i \in 1 .. 16 : Sess!Phases[i] # "exited"
<1>1. Len(Sess!Phases) = 16
  BY DEF Sess!Phases
<1>2. \A i, j \in 1 .. 16 : Sess!Phases[i] = Sess!Phases[j] => i = j
  BY DEF Sess!Phases
<1>3. ASSUME NEW i \in 1 .. 16 PROVE Sess!Index(Sess!Phases[i]) = i
  BY <1>1, <1>2 DEF Sess!Index
<1>4. \A i \in 1 .. 16 : Sess!Phases[i] # "exited"
  BY DEF Sess!Phases
<1> QED BY <1>1, <1>3, <1>4

LEMMA PhaseNumbers ==
  /\ Sess!Index("load") = 1 /\ Sess!Index("scope") = 2
  /\ Sess!Index("exclude") = 3 /\ Sess!Index("traceroute") = 4
  /\ Sess!Index("discover") = 5 /\ Sess!Index("ping") = 6
  /\ Sess!Index("ports") = 7 /\ Sess!Index("scan") = 8
  /\ Sess!Index("dualstack") = 9 /\ Sess!Index("inspect") = 10
  /\ Sess!Index("services") = 11 /\ Sess!Index("vulns") = 12
  /\ Sess!Index("gaps") = 13 /\ Sess!Index("baseline") = 14
  /\ Sess!Index("export") = 15 /\ Sess!Index("compare") = 16
<1>1. /\ Sess!Phases[1] = "load" /\ Sess!Phases[2] = "scope"
      /\ Sess!Phases[3] = "exclude" /\ Sess!Phases[4] = "traceroute"
      /\ Sess!Phases[5] = "discover" /\ Sess!Phases[6] = "ping"
      /\ Sess!Phases[7] = "ports" /\ Sess!Phases[8] = "scan"
      /\ Sess!Phases[9] = "dualstack" /\ Sess!Phases[10] = "inspect"
      /\ Sess!Phases[11] = "services" /\ Sess!Phases[12] = "vulns"
      /\ Sess!Phases[13] = "gaps" /\ Sess!Phases[14] = "baseline"
      /\ Sess!Phases[15] = "export" /\ Sess!Phases[16] = "compare"
  BY DEF Sess!Phases
<1> QED BY <1>1, PhaseOrder

LEMMA After ==
  ASSUME Sess!Done
  PROVE  /\ phase = "load" => phase' = "scope"
         /\ phase = "scope" => phase' = "exclude"
         /\ phase = "exclude" => phase' = "traceroute"
         /\ phase = "traceroute" => phase' = "discover"
         /\ phase = "discover" => phase' = "ping"
         /\ phase = "ping" => phase' = "ports"
         /\ phase = "ports" => phase' = "scan"
         /\ phase = "scan" => phase' = "dualstack"
         /\ phase = "dualstack" => phase' = "inspect"
         /\ phase = "inspect" => phase' = "services"
         /\ phase = "services" => phase' = "vulns"
         /\ phase = "vulns" => phase' = "gaps"
         /\ phase = "gaps" => phase' = "baseline"
         /\ phase = "baseline" => phase' = "export"
         /\ phase = "export" => phase' = "compare"
         /\ phase = "compare" => phase' = "exited"
<1>1. ASSUME NEW i \in 1 .. 15, phase = Sess!Phases[i] PROVE phase' = Sess!Phases[i + 1]
  <2>1. Sess!Index(phase) = i
    BY <1>1, PhaseOrder
  <2>2. phase # Sess!Phases[16]
    <3> SUFFICES ASSUME phase = Sess!Phases[16] PROVE FALSE
      OBVIOUS
    <3>1. Sess!Index(phase) = 16
      BY PhaseOrder
    <3> QED BY <2>1, <3>1
  <2> QED BY <2>1, <2>2, PhaseOrder DEF Sess!Done
<1>2. phase = Sess!Phases[16] => phase' = "exited"
  BY PhaseOrder DEF Sess!Done
<1>3. \A i \in 1 .. 15 : phase = Sess!Phases[i] => phase' = Sess!Phases[i + 1]
  BY <1>1
<1> QED BY <1>2, <1>3 DEF Sess!Phases

LEMMA SessInit == ASSUME Sess!SessionAssumption, Sess!Init PROVE SessInv
<1>0. /\ phase = "load" /\ targets = <<>> /\ pending = {} /\ pinging = {}
      /\ active = <<>> /\ results = <<>> /\ baseline = 0 /\ probed = {}
      /\ compared = 0 /\ stateFile = 0 /\ before = 0 /\ opts \in Commands
  BY DEF Sess!Init, Sess!Fresh
<1>1. TargetsNarrowed
  BY <1>0 DEF TargetsNarrowed, PhaseNames
<1>2. SentToAuthorized
  BY <1>0 DEF SentToAuthorized, Finding
<1>3. CountedSoFar
  BY <1>0 DEF CountedSoFar, Finding
<1>4. BaselineFirst
  BY <1>0 DEF BaselineFirst
<1>5. GapsLast
  BY <1>0 DEF GapsLast, Reporting
<1> QED BY <1>1, <1>2, <1>3, <1>4, <1>5 DEF SessInv

\* The filters let nothing else through.
LEMMA NarrowStep ==
  ASSUME TargetsNarrowed, NEW to, Sess!Narrow(to), phase # "exited", NEW T,
         targets \in Seq(T)
  PROVE  /\ targets' \in Seq(T \cap to)
         /\ phase' # "exited" => targets' # <<>> /\ Sess!Done
         /\ phase' = "exited" \/ Sess!Done
<1>1. targets' \in Seq(T \cap to)
  BY AmongKeeps DEF Sess!Narrow
<1>2. phase' # "exited" => targets' # <<>> /\ Sess!Done
  BY DEF Sess!Narrow, Sess!Exit
<1> QED BY <1>1, <1>2

LEMMA NarrowedStep ==
  ASSUME Sess!SessionAssumption, TargetsNarrowed, Sess!Next
  PROVE  TargetsNarrowed'
<1>0. /\ targets \in Seq(Sess!All) /\ opts \in Commands /\ phase \in PhaseNames
      /\ InScope = IF opts.scope = Sess!NoFile THEN Sess!All ELSE opts.scope
      /\ Sess!Authorized = InScope \ opts.exclude
  BY DEF TargetsNarrowed, InScope, Sess!Authorized
<1>u. UNCHANGED opts => InScope' = InScope /\ Sess!Authorized' = Sess!Authorized
  BY DEF InScope, Sess!Authorized
<1>e. ASSUME phase' = "exited", UNCHANGED opts, targets' \in Seq(Sess!All)
      PROVE  TargetsNarrowed'
  BY <1>0, <1>e DEF TargetsNarrowed, PhaseNames
<1>1. CASE Sess!Load
  <2>1. UNCHANGED opts
    BY <1>1 DEF Sess!Load, Sess!world
  <2>2. CASE Sess!Exit(1) /\ UNCHANGED targets
    BY <1>0, <1>e, <2>1, <2>2 DEF Sess!Exit
  <2>3. CASE targets' = opts.targets /\ Sess!Done
    <3>1. phase' = "scope"
      BY <1>1, <2>3, After DEF Sess!Load
    <3>2. targets' \in Seq(Sess!All) /\ targets' # <<>>
      BY <1>0, <2>3 DEF Sess!SessionAssumption
    <3> QED BY <1>0, <2>1, <3>1, <3>2 DEF TargetsNarrowed, PhaseNames
  <2> QED BY <1>1, <2>2, <2>3 DEF Sess!Load
<1>2. CASE Sess!Scope
  <2>1. UNCHANGED opts /\ phase = "scope" /\ targets # <<>>
    BY <1>2 DEF Sess!Scope, Sess!world, TargetsNarrowed
  <2>2. CASE opts.scope = Sess!NoFile /\ Sess!Done /\ UNCHANGED targets
    <3>1. phase' = "exclude"
      BY <2>1, <2>2, After
    <3> QED BY <1>0, <1>u, <2>1, <2>2, <3>1 DEF TargetsNarrowed, PhaseNames
  <2>3. CASE opts.scope # Sess!NoFile /\ Sess!Narrow(opts.scope)
    <3>1. targets' \in Seq(Sess!All \cap opts.scope)
      BY <1>0, <2>1, <2>3, NarrowStep
    <3>2. targets' \in Seq(Sess!All) /\ targets' \in Seq(InScope')
      BY <1>0, <1>u, <2>1, <2>3, <3>1
    <3>3. CASE phase' = "exited"
      BY <1>e, <2>1, <3>2, <3>3
    <3>4. CASE phase' # "exited"
      <4>1. phase' = "exclude" /\ targets' # <<>>
        BY <1>0, <2>1, <2>3, <3>4, NarrowStep, After
      <4> QED BY <1>0, <2>1, <3>2, <4>1 DEF TargetsNarrowed, PhaseNames
    <3> QED BY <3>3, <3>4
  <2>4. CASE Sess!Exit(1) /\ UNCHANGED targets
    BY <1>0, <1>e, <2>1, <2>4 DEF Sess!Exit
  <2> QED BY <1>2, <2>2, <2>3, <2>4 DEF Sess!Scope
<1>3. CASE Sess!Exclude
  <2>1. UNCHANGED opts /\ phase = "exclude" /\ targets # <<>> /\ targets \in Seq(InScope)
    BY <1>3 DEF Sess!Exclude, Sess!world, TargetsNarrowed
  <2>2. CASE opts.exclude = {} /\ Sess!Done /\ UNCHANGED targets
    <3>1. phase' = "traceroute"
      BY <2>1, <2>2, After
    <3>2. Sess!Authorized = InScope
      BY <1>0, <2>2
    <3> QED BY <1>0, <1>u, <2>1, <2>2, <3>1, <3>2 DEF TargetsNarrowed, PhaseNames
  <2>3. CASE Sess!Narrow(Sess!All \ opts.exclude)
    <3> DEFINE T == InScope \cap Sess!All
    <3>0. targets \in Seq(T)
      BY <1>0, <2>1
    <3>1. targets' \in Seq(T \cap (Sess!All \ opts.exclude))
      <4> HIDE DEF T
      <4> QED BY <2>1, <2>3, <3>0, NarrowStep
    <3>2. /\ targets' \in Seq(Sess!All) /\ targets' \in Seq(InScope')
          /\ targets' \in Seq(Sess!Authorized')
      BY <1>0, <1>u, <2>1, <3>1
    <3>3. CASE phase' = "exited"
      BY <1>e, <2>1, <3>2, <3>3
    <3>4. CASE phase' # "exited"
      <4>1. phase' = "traceroute" /\ targets' # <<>>
        BY <1>0, <2>1, <2>3, <3>4, NarrowStep, After
      <4> QED BY <1>0, <2>1, <3>2, <4>1 DEF TargetsNarrowed, PhaseNames
    <3> QED BY <3>3, <3>4
  <2> QED BY <1>3, <2>2, <2>3 DEF Sess!Exclude
<1>4. ASSUME UNCHANGED <<opts, targets>>, Sess!Done,
             phase \notin {"load", "scope", "exclude", "exited"}
      PROVE  TargetsNarrowed'
  <2>1. phase' \in PhaseNames \ {"load", "scope", "exclude"}
    BY <1>0, <1>4, After DEF PhaseNames
  <2> QED BY <1>0, <1>4, <1>u, <2>1 DEF TargetsNarrowed
<1>5. ASSUME UNCHANGED <<opts, targets, phase>> PROVE TargetsNarrowed'
  BY <1>5, <1>u DEF TargetsNarrowed
<1>6. CASE Sess!Traceroute
  BY <1>6, <1>0, <1>4, <1>e DEF Sess!Traceroute, Sess!Exit, Sess!world
<1>7. CASE Sess!Discover
  <2>1. UNCHANGED <<opts, targets>> /\ phase = "discover"
    BY <1>7 DEF Sess!Discover, Sess!world
  <2>2. CASE phase' = "ports"
    BY <1>0, <1>u, <2>1, <2>2 DEF TargetsNarrowed, PhaseNames
  <2>3. CASE Sess!Done
    BY <1>4, <2>1, <2>3
  <2> QED BY <1>7, <2>2, <2>3 DEF Sess!Discover
<1>8. CASE Sess!Ping \/ Sess!Goroutine
  BY <1>8, <1>5 DEF Sess!Ping, Sess!Goroutine, Sess!Pinged, Sess!world
<1>9. CASE Sess!Waited
  BY <1>9, <1>0, <1>4, <1>e DEF Sess!Waited, Sess!Exit, Sess!world
<1>10. CASE Sess!Ports
  BY <1>10, <1>0, <1>4, <1>e DEF Sess!Ports, Sess!Exit, Sess!world
<1>11. CASE Sess!Scan \/ Sess!DualStack \/ Sess!Inspect
  BY <1>11, <1>4 DEF Sess!Scan, Sess!DualStack, Sess!Inspect, Sess!world
<1>12. CASE Sess!Services \/ Sess!Vulns \/ Sess!Gaps
  BY <1>12, <1>4 DEF Sess!Services, Sess!Vulns, Sess!Gaps, Sess!world
<1>13. CASE Sess!LoadBaseline \/ Sess!Export \/ Sess!Compare
  BY <1>13, <1>4 DEF Sess!LoadBaseline, Sess!Export, Sess!Compare, Sess!world
<1>14. CASE Sess!Interrupt
  BY <1>14, <1>0, <1>e DEF Sess!Interrupt, Sess!Exit, Sess!world
<1>15. CASE Sess!Again
  BY <1>15, <1>0 DEF Sess!Again, TargetsNarrowed, PhaseNames
<1> QED BY <1>1, <1>2, <1>3, <1>6, <1>7, <1>8, <1>9, <1>10, <1>11, <1>12, <1>13,
          <1>14, <1>15 DEF Sess!Next, Sess!Main

\* The next address to ping is taken from the pending ones.
LEMMA PingsOne ==
  ASSUME TargetsNarrowed, CountedSoFar, Sess!Ping
  PROVE  \E i \in pending : /\ pending' = pending \ {i}
                            /\ pinging' = pinging \cup {i}
                            /\ probed' = probed \cup {targets[i]}
<1> DEFINE i == CHOOSE i \in pending : \A k \in pending : i <= k
<1>1. pending \in SUBSET Nat /\ pending # {}
  <2>1. targets \in Seq(Sess!All) /\ pending \subseteq DOMAIN targets
    BY DEF TargetsNarrowed, CountedSoFar, Sess!Ping
  <2> QED BY <2>1 DEF Sess!Ping
<1>2. i \in pending
  BY <1>1, LeastNumber
<1>3. /\ pending' = pending \ {i} /\ pinging' = pinging \cup {i}
      /\ probed' = probed \cup {targets[i]}
  BY DEF Sess!Ping
<1> QED BY <1>2, <1>3

LEMMA SentStep ==
  ASSUME TargetsNarrowed, SentToAuthorized, CountedSoFar, Sess!Next
  PROVE  SentToAuthorized'
<1>0. /\ active \in Seq(Sess!Authorized) /\ phase \in PhaseNames
      /\ DOMAIN results \subseteq Sess!Authorized \cup Sess!V6Targets
      /\ probed \subseteq Sess!Authorized \cup Sess!V6Targets
      /\ phase \in Finding => probed \subseteq Sess!Authorized /\ results = <<>>
  BY DEF TargetsNarrowed, SentToAuthorized
<1>t. phase \notin {"load", "scope", "exclude", "exited"}
        => targets \in Seq(Sess!Authorized) /\ targets # <<>>
  BY DEF TargetsNarrowed
<1>u. /\ UNCHANGED opts => Sess!Authorized' = Sess!Authorized
      /\ UNCHANGED <<active, aaaa>> => Sess!V6Targets' = Sess!V6Targets
  BY DEF Sess!Authorized, Sess!V6Targets, Sess!Pairs, Sess!Range
\* While the active targets are looked for.
<1>1. ASSUME UNCHANGED <<opts, results>>, phase \in Finding,
             active' \in Seq(Sess!Authorized),
             probed' \subseteq Sess!Authorized
      PROVE  SentToAuthorized'
  BY <1>0, <1>1, <1>u DEF SentToAuthorized
\* And once they are known.
<1>2. ASSUME UNCHANGED <<opts, aaaa, active>>, phase' \notin Finding,
             DOMAIN results' \subseteq Sess!Authorized \cup Sess!V6Targets,
             probed' \subseteq Sess!Authorized \cup Sess!V6Targets
      PROVE  SentToAuthorized'
  BY <1>0, <1>2, <1>u DEF SentToAuthorized
<1>r. Sess!Range(active) \subseteq Sess!Authorized
  BY <1>0 DEF Sess!Range
<1>3. CASE Sess!Load \/ Sess!Scope \/ Sess!Exclude
  BY <1>3, <1>0, <1>1 DEF Sess!Load, Sess!Scope, Sess!Exclude, Sess!world,
                          Sess!history, Finding
<1>4. CASE Sess!Traceroute
  <2>1. targets[1] \in Sess!Authorized
    BY <1>4, <1>t DEF Sess!Traceroute
  <2> QED BY <1>4, <1>0, <1>1, <2>1 DEF Sess!Traceroute, Sess!world, Finding
<1>5. CASE Sess!Discover
  <2>0. /\ UNCHANGED <<opts, results>> /\ phase = "discover" /\ phase \in Finding
        /\ targets \in Seq(Sess!Authorized) /\ probed \subseteq Sess!Authorized
    BY <1>5, <1>t, <1>0 DEF Sess!Discover, Sess!world, Finding
  <2>1. active' \in Seq(Sess!Authorized)
    <3>1. Sess!Among(targets, opts.local \cap up) \in Seq(Sess!Authorized \cap (opts.local \cap up))
      BY <2>0, AmongKeeps
    <3>2. Sess!Among(targets, opts.local \cap up) \in Seq(Sess!Authorized)
      BY <3>1
    <3> QED BY <1>5, <1>0, <2>0, <3>2 DEF Sess!Discover
  <2>2. probed' \subseteq Sess!Authorized
    BY <1>5, <2>0 DEF Sess!Discover
  <2> QED BY <1>1, <2>0, <2>1, <2>2
<1>6. CASE Sess!Ping
  <2>0. /\ UNCHANGED <<opts, results, active>> /\ phase = "ping" /\ phase \in Finding
        /\ targets \in Seq(Sess!Authorized) /\ probed \subseteq Sess!Authorized
    BY <1>6, <1>t, <1>0 DEF Sess!Ping, Sess!world, Finding
  <2>1. PICK i \in pending : probed' = probed \cup {targets[i]}
    BY <1>6, PingsOne
  <2>2. targets[i] \in Sess!Authorized
    BY <2>0, <2>1, <1>6 DEF CountedSoFar
  <2> QED BY <1>1, <1>0, <2>0, <2>1, <2>2
<1>7. CASE Sess!Goroutine
  <2>1. PICK i \in pinging : phase # "exited" /\ Sess!Pinged(i)
    BY <1>7 DEF Sess!Goroutine
  <2>2. phase = "ping" /\ i \in DOMAIN targets
    BY <2>1 DEF CountedSoFar
  <2>3. targets \in Seq(Sess!Authorized) /\ targets[i] \in Sess!Authorized
    BY <1>t, <2>2
  <2>4. active' \in Seq(Sess!Authorized)
    BY <1>0, <2>1, <2>3 DEF Sess!Pinged
  <2> QED BY <1>0, <1>1, <2>1, <2>2, <2>4 DEF Sess!Pinged, Sess!world, Sess!history, Finding
<1>8. CASE Sess!Waited \/ Sess!Ports
  BY <1>8, <1>0, <1>2, After DEF Sess!Waited, Sess!Ports, Sess!Exit, Sess!world,
                          Sess!history, Finding
<1>9. CASE Sess!Scan
  <2>1. phase' \notin Finding
    BY <1>9, After DEF Sess!Scan, Finding
  <2>2. DOMAIN results' = Sess!Range(active)
    BY <1>9 DEF Sess!Scan, Sess!ResultsOf
  <2> QED BY <1>9, <1>0, <1>2, <1>r, <2>1, <2>2 DEF Sess!Scan, Sess!world
<1>10. CASE Sess!DualStack
  <2>1. phase' \notin Finding
    BY <1>10, After DEF Sess!DualStack, Finding
  <2> DEFINE toScan == IF opts.dualStack /\ ~ opts.udp
                         THEN Sess!V6Targets \ DOMAIN results ELSE {}
  <2>2. DOMAIN results' = DOMAIN results \cup toScan /\ probed' = probed \cup toScan
    BY <1>10 DEF Sess!DualStack
  <2> QED BY <1>10, <1>0, <1>2, <2>1, <2>2 DEF Sess!DualStack, Sess!world
<1>11. CASE Sess!Inspect
  <2>1. phase' \notin Finding
    BY <1>11, After DEF Sess!Inspect, Finding
  <2> QED BY <1>11, <1>0, <1>2, <2>1 DEF Sess!Inspect, Sess!Open, Sess!world
<1>12. CASE Sess!Services \/ Sess!Vulns \/ Sess!Gaps
  <2>1. phase' \notin Finding
    BY <1>12, After DEF Sess!Services, Sess!Vulns, Sess!Gaps, Finding
  <2>2. DOMAIN results' = DOMAIN results
    BY <1>12 DEF Sess!Services, Sess!Vulns, Sess!Gaps
  <2> QED BY <1>12, <1>0, <1>2, <2>1, <2>2
          DEF Sess!Services, Sess!Vulns, Sess!Gaps, Sess!world
<1>13. CASE Sess!LoadBaseline \/ Sess!Export \/ Sess!Compare
  <2>1. phase' \notin Finding
    BY <1>13, After DEF Sess!LoadBaseline, Sess!Export, Sess!Compare, Finding
  <2> QED BY <1>13, <1>0, <1>2, <2>1
          DEF Sess!LoadBaseline, Sess!Export, Sess!Compare, Sess!world, Sess!history
<1>14. CASE Sess!Interrupt
  <2>1. phase' \notin Finding
    BY <1>14 DEF Sess!Interrupt, Sess!Exit, Finding
  <2> QED BY <1>14, <1>0, <1>2, <2>1 DEF Sess!Interrupt, Sess!world, Sess!history
<1>15. CASE Sess!Again
  BY <1>15 DEF Sess!Again, SentToAuthorized
<1> QED BY <1>3, <1>4, <1>5, <1>6, <1>7, <1>8, <1>9, <1>10, <1>11, <1>12, <1>13,
          <1>14, <1>15 DEF Sess!Next, Sess!Main

LEMMA CountedStep ==
  ASSUME TargetsNarrowed, SentToAuthorized, CountedSoFar, Sess!Next
  PROVE  CountedSoFar'
<1> DEFINE First == Finding \ {"ping"}
           Count(a) == Cardinality(Places(active, a)) =
                         IF a \in up THEN Cardinality(Places(targets, a) \ Asking) ELSE 0
<1>0. /\ phase \in PhaseNames /\ targets \in Seq(Sess!All) /\ active \in Seq(Sess!Authorized)
      /\ phase \in First => active = <<>>
      /\ phase \notin {"ping", "exited"} => pending = {} /\ pinging = {}
      /\ phase # "exited" =>
           /\ pending \subseteq DOMAIN targets /\ pinging \subseteq DOMAIN targets
           /\ pending \cap pinging = {}
      /\ phase \notin First \cup {"exited"} /\ ~ opts.skip => \A a \in Sess!All : Count(a)
  BY DEF TargetsNarrowed, SentToAuthorized, CountedSoFar
<1>n. /\ First = {"load", "scope", "exclude", "traceroute", "discover"}
  BY DEF Finding
<1>1. CASE Sess!Load \/ Sess!Scope \/ Sess!Exclude \/ Sess!Traceroute
  <2>1. UNCHANGED <<active, pending, pinging>> /\ phase \in First
    BY <1>1, <1>n DEF Sess!Load, Sess!Scope, Sess!Exclude, Sess!Traceroute
  <2>2. phase' \in First \cup {"exited"}
    BY <1>1, <1>n, After DEF Sess!Load, Sess!Scope, Sess!Exclude, Sess!Traceroute,
                            Sess!Narrow, Sess!Exit
  <2>3. active = <<>> /\ pending = {} /\ pinging = {}
    BY <1>0, <1>n, <2>1
  <2> QED BY <1>n, <2>1, <2>2, <2>3 DEF CountedSoFar
<1>2. CASE Sess!Discover
  <2>0. /\ UNCHANGED <<opts, up, targets, pinging>> /\ phase = "discover"
        /\ active = <<>> /\ pending = {} /\ pinging = {}
    BY <1>2, <1>0, <1>n DEF Sess!Discover, Sess!world
  <2> DEFINE here == { i \in DOMAIN targets : targets[i] \in opts.local }
  <2>1. CASE opts.skip /\ phase' = "ports" /\ UNCHANGED pending
    BY <2>0, <2>1 DEF CountedSoFar, Finding
  <2>2. CASE /\ ~ opts.skip /\ active' = Sess!Among(targets, opts.local \cap up)
             /\ pending' = DOMAIN targets \ here /\ Sess!Done
    <3>1. phase' = "ping"
      BY <2>0, <2>2, After
    <3>2. ASSUME NEW a \in Sess!All PROVE Count(a)'
      <4>1. /\ active' \in Seq(Sess!All \cap (opts.local \cap up))
            /\ a \in opts.local \cap up
                 => Cardinality(Places(active', a)) = Cardinality(Places(targets, a))
        BY <1>0, <2>2, AmongKeeps
      <4>2. CASE a \in opts.local \cap up
        <5>1. Places(targets, a) \ (pending' \cup pinging') = Places(targets, a)
          BY <2>0, <2>2, <4>2 DEF Places
        <5> QED BY <2>0, <4>1, <4>2, <5>1 DEF Asking, Places
      <4>3. CASE a \notin opts.local \cap up
        <5>1. Places(active', a) = {}
          BY <4>1, <4>3 DEF Places
        <5>2. a \in up => Places(targets, a) \ (pending' \cup pinging') = {}
          BY <2>0, <2>2, <4>3 DEF Places
        <5>3. Cardinality({}) = 0
          BY FS_EmptySet
        <5> QED BY <2>0, <5>1, <5>2, <5>3 DEF Asking, Places
      <4> QED BY <4>2, <4>3
    <3> QED BY <2>0, <2>2, <3>1, <3>2, <1>n DEF CountedSoFar, Places
  <2>3. CASE /\ ~ opts.skip /\ pending' = DOMAIN targets /\ Sess!Done /\ UNCHANGED active
    <3>1. phase' = "ping"
      BY <2>0, <2>3, After
    <3>2. ASSUME NEW a \in Sess!All PROVE Count(a)'
      <4>1. Places(active', a) = {} /\ Places(targets', a) \ Asking' = {}
        BY <2>0, <2>3 DEF Places, Asking
      <4>2. Cardinality({}) = 0
        BY FS_EmptySet
      <4> QED BY <4>1, <4>2
    <3> QED BY <2>0, <2>3, <3>1, <3>2, <1>n DEF CountedSoFar
  <2> QED BY <1>2, <2>1, <2>2, <2>3 DEF Sess!Discover, Sess!WithFallback
<1>3. CASE Sess!Ping
  <2>0. /\ UNCHANGED <<opts, up, targets, active, phase>> /\ phase = "ping"
    BY <1>3 DEF Sess!Ping, Sess!world
  <2>1. PICK i \in pending : pending' = pending \ {i} /\ pinging' = pinging \cup {i}
    BY <1>3, PingsOne
  <2>2. Asking' = Asking
    BY <2>1 DEF Asking
  <2>3. /\ pending' \subseteq DOMAIN targets' /\ pinging' \subseteq DOMAIN targets'
        /\ pending' \cap pinging' = {}
    BY <1>0, <2>0, <2>1
  <2> QED BY <2>0, <2>2, <2>3 DEF CountedSoFar, Finding, Places
<1>4. CASE Sess!Goroutine
  <2>1. PICK i \in pinging : phase # "exited" /\ Sess!Pinged(i)
    BY <1>4 DEF Sess!Goroutine
  <2>2. /\ UNCHANGED <<opts, up, targets, pending, phase>> /\ phase = "ping"
        /\ pinging' = pinging \ {i} /\ i \in DOMAIN targets /\ i \notin pending
        /\ targets[i] \in Sess!All
    BY <1>0, <2>1 DEF Sess!Pinged, Sess!world
  <2>3. Asking' = Asking \ {i} /\ i \in Asking
    BY <2>2, <2>1 DEF Asking
  <2>4. ASSUME ~ opts.skip, NEW a \in Sess!All PROVE Count(a)'
    <3>0. Count(a) /\ Cardinality(Places(active, a)) \in Nat
      BY <1>0, <1>n, <2>2, <2>4, PlacesFinite
    <3> DEFINE P == Places(targets, a)
    <3>1. /\ IsFiniteSet(P \ Asking) /\ Cardinality(P \ Asking) \in Nat
      BY <1>0, PlacesFinite
    <3>2. CASE targets[i] = a /\ a \in up
      <4>1. active' = Append(active, a)
        BY <2>1, <3>2 DEF Sess!Pinged
      <4>2. active \in Seq(Sess!Authorized \cup {a})
        BY <1>0
      <4>3. Cardinality(Places(active', a)) = Cardinality(Places(active, a)) + 1
        BY <4>1, <4>2, OneMorePlace
      <4>4. P \ Asking' = (P \ Asking) \cup {i} /\ i \notin P \ Asking
        BY <2>2, <2>3, <3>2 DEF Places
      <4>5. Cardinality(P \ Asking') = Cardinality(P \ Asking) + 1
        BY <3>1, <4>4, FS_AddElement
      <4> QED BY <2>2, <3>0, <3>2, <4>3, <4>5 DEF Places
    <3>3. CASE targets[i] # a
      <4>1. P \ Asking' = P \ Asking
        BY <2>2, <2>3, <3>3 DEF Places
      <4>2. Cardinality(Places(active', a)) = Cardinality(Places(active, a))
        <5>1. CASE targets[i] \in up
          <6>1. active' = Append(active, targets[i])
            BY <2>1, <5>1 DEF Sess!Pinged
          <6>2. active \in Seq(Sess!Authorized \cup {targets[i]})
            BY <1>0
          <6>3. Cardinality(Places(active', a)) = Cardinality(Places(active, a)) + 0
            BY <6>1, <6>2, <3>3, OneMorePlace
          <6> QED BY <6>3, <3>0
        <5>2. CASE targets[i] \notin up
          BY <2>1, <5>2 DEF Sess!Pinged, Places
        <5> QED BY <5>1, <5>2
      <4> QED BY <2>2, <3>0, <4>1, <4>2 DEF Places
    <3>4. CASE a \notin up /\ targets[i] = a
      <4>1. active' = active
        BY <2>1, <3>4 DEF Sess!Pinged
      <4> QED BY <2>2, <3>0, <3>4, <4>1 DEF Places
    <3> QED BY <3>2, <3>3, <3>4
  <2>5. /\ pending' \subseteq DOMAIN targets' /\ pinging' \subseteq DOMAIN targets'
        /\ pending' \cap pinging' = {}
    BY <1>0, <2>2
  <2> QED BY <1>n, <2>2, <2>4, <2>5 DEF CountedSoFar
<1>5. CASE Sess!Waited
  <2>1. /\ UNCHANGED <<opts, up, targets, active, pending, pinging>> /\ phase = "ping"
        /\ pending = {} /\ pinging = {}
    BY <1>5 DEF Sess!Waited, Sess!AllPinged, Sess!world
  <2>2. phase' \in {"ports", "exited"}
    BY <1>5, After DEF Sess!Waited, Sess!Exit
  <2> QED BY <1>0, <1>n, <2>1, <2>2 DEF CountedSoFar, Places, Asking
<1>6. ASSUME UNCHANGED <<opts, up, targets, active, pending, pinging>>,
             phase \notin Finding \cup {"exited"}, phase' \notin Finding
      PROVE  CountedSoFar'
  BY <1>0, <1>n, <1>6 DEF CountedSoFar, Places, Asking, Finding
<1>7. CASE Sess!Ports \/ Sess!Scan \/ Sess!DualStack \/ Sess!Inspect
  <2>1. phase' \notin Finding /\ phase \notin Finding \cup {"exited"}
    BY <1>7, After DEF Sess!Ports, Sess!Scan, Sess!DualStack, Sess!Inspect, Sess!Exit, Finding
  <2> QED BY <1>6, <1>7, <2>1
          DEF Sess!Ports, Sess!Scan, Sess!DualStack, Sess!Inspect, Sess!world
<1>8. CASE Sess!Services \/ Sess!Vulns \/ Sess!Gaps
  <2>1. phase' \notin Finding /\ phase \notin Finding \cup {"exited"}
    BY <1>8, After DEF Sess!Services, Sess!Vulns, Sess!Gaps, Finding
  <2> QED BY <1>6, <1>8, <2>1 DEF Sess!Services, Sess!Vulns, Sess!Gaps, Sess!world
<1>9. CASE Sess!LoadBaseline \/ Sess!Export \/ Sess!Compare
  <2>1. phase' \notin Finding /\ phase \notin Finding \cup {"exited"}
    BY <1>9, After DEF Sess!LoadBaseline, Sess!Export, Sess!Compare, Finding
  <2> QED BY <1>6, <1>9, <2>1 DEF Sess!LoadBaseline, Sess!Export, Sess!Compare, Sess!world
<1>10. CASE Sess!Interrupt
  BY <1>10 DEF Sess!Interrupt, Sess!Exit, CountedSoFar, Finding
<1>11. CASE Sess!Again
  BY <1>11 DEF Sess!Again, CountedSoFar, Finding
<1> QED BY <1>1, <1>2, <1>3, <1>4, <1>5, <1>7, <1>8, <1>9, <1>10, <1>11
        DEF Sess!Next, Sess!Main

LEMMA BaselineStep ==
  ASSUME TargetsNarrowed, BaselineFirst, Sess!Next
  PROVE  BaselineFirst'
<1>0. /\ phase \in PhaseNames
      /\ phase \notin {"compare", "exited"} => stateFile = before /\ compared = 0
      /\ phase \in {"export", "compare"} =>
           baseline = IF opts.baseline /\ before # Sess!Torn THEN before ELSE 0
      /\ compared = 0 \/ compared = before
  BY DEF TargetsNarrowed, BaselineFirst
\* A step before the baseline is read, or one that ends the command.
<1>1. ASSUME UNCHANGED <<stateFile, before, compared>>,
             phase \notin {"compare", "exited"},
             phase' \notin {"export", "compare"}
      PROVE  BaselineFirst'
  BY <1>0, <1>1 DEF BaselineFirst
<1>2. CASE Sess!Load \/ Sess!Scope \/ Sess!Exclude \/ Sess!Traceroute
  <2>1. phase' \notin {"export", "compare"} /\ phase \notin {"compare", "exited"}
    BY <1>2, After DEF Sess!Load, Sess!Scope, Sess!Exclude, Sess!Traceroute,
                       Sess!Narrow, Sess!Exit
  <2> QED BY <1>1, <1>2, <2>1
          DEF Sess!Load, Sess!Scope, Sess!Exclude, Sess!Traceroute, Sess!history
<1>3. CASE Sess!Discover \/ Sess!Ping \/ Sess!Waited \/ Sess!Ports
  <2>1. phase' \notin {"export", "compare"} /\ phase \notin {"compare", "exited"}
    BY <1>3, After DEF Sess!Discover, Sess!Ping, Sess!Waited, Sess!Ports, Sess!Exit
  <2> QED BY <1>1, <1>3, <2>1
          DEF Sess!Discover, Sess!Ping, Sess!Waited, Sess!Ports, Sess!history
<1>4. CASE Sess!Scan \/ Sess!DualStack \/ Sess!Inspect
  <2>1. phase' \notin {"export", "compare"} /\ phase \notin {"compare", "exited"}
    BY <1>4, After DEF Sess!Scan, Sess!DualStack, Sess!Inspect
  <2> QED BY <1>1, <1>4, <2>1 DEF Sess!Scan, Sess!DualStack, Sess!Inspect
<1>5. CASE Sess!Services \/ Sess!Vulns \/ Sess!Gaps
  <2>1. phase' \notin {"export", "compare"} /\ phase \notin {"compare", "exited"}
    BY <1>5, After DEF Sess!Services, Sess!Vulns, Sess!Gaps
  <2> QED BY <1>1, <1>5, <2>1 DEF Sess!Services, Sess!Vulns, Sess!Gaps
<1>6. CASE Sess!LoadBaseline
  <2>1. phase = "baseline" /\ phase' = "export"
    BY <1>6, After DEF Sess!LoadBaseline
  <2> QED BY <1>0, <1>6, <2>1 DEF Sess!LoadBaseline, Sess!world, Sess!history,
                                  BaselineFirst, Sess!Torn
<1>7. CASE Sess!Export
  <2>1. phase = "export" /\ phase' = "compare"
    BY <1>7, After DEF Sess!Export
  <2> QED BY <1>0, <1>7, <2>1 DEF Sess!Export, Sess!world, Sess!history,
                                  BaselineFirst, Sess!Torn
<1>8. CASE Sess!Compare
  <2>1. phase = "compare" /\ phase' = "exited"
    BY <1>8, After DEF Sess!Compare
  <2> QED BY <1>0, <1>8, <2>1 DEF Sess!Compare, BaselineFirst
<1>9. CASE Sess!Goroutine
  BY <1>9, <1>0 DEF Sess!Goroutine, Sess!Pinged, Sess!world, Sess!history, BaselineFirst,
                    Sess!Torn
<1>10. CASE Sess!Interrupt
  BY <1>10, <1>0 DEF Sess!Interrupt, Sess!Exit, Sess!history, BaselineFirst
<1>11. CASE Sess!Again
  BY <1>11 DEF Sess!Again, BaselineFirst
<1> QED BY <1>2, <1>3, <1>4, <1>5, <1>6, <1>7, <1>8, <1>9, <1>10, <1>11
        DEF Sess!Next, Sess!Main

LEMMA GapsStep ==
  ASSUME TargetsNarrowed, CountedSoFar, GapsLast, Sess!Next
  PROVE  GapsLast'
<1>0. /\ phase \in PhaseNames
      /\ phase \notin Reporting \cup {"exited"} => results \in [DOMAIN results -> Scanned]
      /\ phase \in Reporting => GapsFound
  BY DEF TargetsNarrowed, GapsLast
\* A step before the gaps are looked for that leaves the findings empty.
<1>1. ASSUME phase' \notin Reporting, results' \in [DOMAIN results' -> Scanned]
      PROVE  GapsLast'
  BY <1>1 DEF GapsLast
<1>2. ASSUME phase' = "exited" PROVE GapsLast'
  BY <1>2 DEF GapsLast, Reporting
<1>3. CASE Sess!Load \/ Sess!Scope \/ Sess!Exclude \/ Sess!Traceroute
  <2>1. phase' \notin Reporting /\ phase \notin Reporting \cup {"exited"}
    BY <1>3, After DEF Sess!Load, Sess!Scope, Sess!Exclude, Sess!Traceroute,
                       Sess!Narrow, Sess!Exit, Reporting
  <2> QED BY <1>0, <1>1, <1>3, <2>1
          DEF Sess!Load, Sess!Scope, Sess!Exclude, Sess!Traceroute
<1>4. CASE Sess!Discover \/ Sess!Ping \/ Sess!Waited \/ Sess!Ports
  <2>1. phase' \notin Reporting /\ phase \notin Reporting \cup {"exited"}
    BY <1>4, After DEF Sess!Discover, Sess!Ping, Sess!Waited, Sess!Ports, Sess!Exit,
                       Reporting
  <2> QED BY <1>0, <1>1, <1>4, <2>1
          DEF Sess!Discover, Sess!Ping, Sess!Waited, Sess!Ports
<1>r. \A a : Sess!Result(a) \in Scanned
  BY DEF Sess!Result, Scanned
<1>5. CASE Sess!Scan
  <2>1. phase' \notin Reporting
    BY <1>5, After DEF Sess!Scan, Reporting
  <2>2. results' \in [DOMAIN results' -> Scanned]
    BY <1>5, <1>r DEF Sess!Scan, Sess!ResultsOf
  <2> QED BY <1>1, <2>1, <2>2
<1>6. CASE Sess!DualStack
  <2>1. phase' \notin Reporting /\ phase \notin Reporting \cup {"exited"}
    BY <1>6, After DEF Sess!DualStack, Reporting
  <2> DEFINE toScan == IF opts.dualStack /\ ~ opts.udp
                         THEN Sess!V6Targets \ DOMAIN results ELSE {}
  <2>2. results' = [a \in DOMAIN results \cup toScan |->
                      IF a \in toScan THEN Sess!Result(a) ELSE results[a]]
    BY <1>6 DEF Sess!DualStack
  <2>3. results' \in [DOMAIN results' -> Scanned]
    <3> HIDE DEF toScan
    <3> QED BY <1>0, <1>r, <2>1, <2>2
  <2> QED BY <1>1, <2>1, <2>3
<1>7. CASE Sess!Inspect
  <2>1. phase' \notin Reporting /\ phase \notin Reporting \cup {"exited"}
    BY <1>7, After DEF Sess!Inspect, Reporting
  <2> QED BY <1>0, <1>1, <1>7, <2>1 DEF Sess!Inspect
<1>8. CASE Sess!Services
  <2>1. phase' \notin Reporting /\ phase \notin Reporting \cup {"exited"}
    BY <1>8, After DEF Sess!Services, Reporting
  <2>2. results' \in [DOMAIN results' -> Scanned]
    <3>1. CASE opts.services
      <4>1. PICK known \in SUBSET Sess!Open :
              results' = [a \in DOMAIN results |->
                IF a \in Sess!Open
                  THEN [results[a] EXCEPT !.service = a \in known, !.findings = {}]
                  ELSE results[a]]
        BY <1>8, <3>1 DEF Sess!Services
      <4>2. \A a \in DOMAIN results : results[a] \in Scanned
        BY <1>0, <2>1
      <4>3. \A a \in DOMAIN results :
              [results[a] EXCEPT !.service = a \in known, !.findings = {}] \in Scanned
        <5>1. \A r \in Scanned, b \in BOOLEAN :
                [r EXCEPT !.service = b, !.findings = {}] \in Scanned
          BY DEF Scanned
        <5>2. \A a : (a \in known) \in BOOLEAN
          OBVIOUS
        <5> QED BY <4>2, <5>1, <5>2
      <4> QED BY <4>1, <4>2, <4>3
    <3>2. CASE ~ opts.services
      BY <1>0, <1>8, <2>1, <3>2 DEF Sess!Services
    <3> QED BY <3>1, <3>2
  <2> QED BY <1>1, <2>1, <2>2
<1>9. CASE Sess!Vulns
  <2>1. phase' \notin Reporting /\ phase \notin Reporting \cup {"exited"}
    BY <1>9, After DEF Sess!Vulns, Reporting
  <2>2. results' \in [DOMAIN results' -> Scanned]
    <3>1. CASE opts.services
      <4>1. PICK risky \in SUBSET { a \in Sess!Open : results[a].service } :
              results' = [a \in DOMAIN results |->
                IF a \in risky THEN [results[a] EXCEPT !.risk = 2] ELSE results[a]]
        BY <1>9, <3>1 DEF Sess!Vulns
      <4>2. \A a \in DOMAIN results : results[a] \in Scanned
        BY <1>0, <2>1
      <4>3. \A a \in DOMAIN results : [results[a] EXCEPT !.risk = 2] \in Scanned
        BY <4>2 DEF Scanned
      <4> QED BY <4>1, <4>2, <4>3
    <3>2. CASE ~ opts.services
      BY <1>0, <1>9, <2>1, <3>2 DEF Sess!Vulns
    <3> QED BY <3>1, <3>2
  <2> QED BY <1>1, <2>1, <2>2
<1>10. CASE Sess!Gaps
  <2>1. phase' = "baseline" /\ phase \notin Reporting \cup {"exited"}
        /\ UNCHANGED <<opts, aaaa, active>>
    BY <1>10, After DEF Sess!Gaps, Reporting, Sess!world
  <2>2. ASSUME opts.dualStack, ~ opts.udp, NEW a \in DOMAIN results'
        PROVE  /\ "ipv6-only" \in results'[a].findings <=> Sess!GapOf(a)'
               /\ Sess!GapOf(a)' => results'[a].risk > 0
    <3> DEFINE marked(b) == [results[b] EXCEPT !.findings = @ \cup {"ipv6-only"},
                                               !.risk = IF @ = 0 THEN 1 ELSE @]
    <3>1. results' = [b \in DOMAIN results |->
                        IF Sess!GapOf(b) THEN marked(b) ELSE results[b]]
      BY <1>10, <2>2 DEF Sess!Gaps
    <3>2. \A b \in DOMAIN results : results[b] \in Scanned
      BY <1>0, <2>1
    <3>3. \A b \in DOMAIN results :
            /\ marked(b).open = results[b].open /\ "ipv6-only" \in marked(b).findings
            /\ marked(b).risk > 0 /\ results[b].findings = {}
      BY <3>2 DEF Scanned
    <3> HIDE DEF marked
    <3>4. Sess!Open' = Sess!Open
      BY <3>1, <3>3 DEF Sess!Open
    <3>5. Sess!GapOf(a)' <=> Sess!GapOf(a)
      BY <2>1, <3>4 DEF Sess!GapOf, Sess!Pairs, Sess!Range
    <3> QED BY <3>1, <3>3, <3>5
  <2>3. GapsFound'
    BY <2>1, <2>2 DEF GapsFound
  <2> QED BY <2>1, <2>3 DEF GapsLast, Reporting
<1>11. CASE Sess!LoadBaseline \/ Sess!Export
  <2>1. phase \in Reporting /\ phase' \in Reporting
        /\ UNCHANGED <<opts, aaaa, active, results>>
    BY <1>11, After DEF Sess!LoadBaseline, Sess!Export, Reporting, Sess!world
  <2>2. GapsFound'
    BY <1>0, <2>1 DEF GapsFound, Sess!GapOf, Sess!Pairs, Sess!Open, Sess!Range
  <2> QED BY <2>1, <2>2 DEF GapsLast
<1>12. CASE Sess!Compare
  <2>1. phase' = "exited"
    BY <1>12, After DEF Sess!Compare
  <2> QED BY <1>2, <2>1
<1>13. CASE Sess!Goroutine
  <2>1. UNCHANGED <<opts, aaaa, results, phase>> /\ phase = "ping"
    BY <1>13, <1>0 DEF Sess!Goroutine, Sess!Pinged, Sess!world, CountedSoFar
  <2> QED BY <1>0, <1>1, <2>1 DEF Reporting
<1>14. CASE Sess!Interrupt
  BY <1>14, <1>2 DEF Sess!Interrupt, Sess!Exit
<1>15. CASE Sess!Again
  BY <1>15 DEF Sess!Again, GapsLast, Reporting
<1> QED BY <1>3, <1>4, <1>5, <1>6, <1>7, <1>8, <1>9, <1>10, <1>11, <1>12, <1>13,
          <1>14, <1>15 DEF Sess!Next, Sess!Main

LEMMA SessInvariant ==
  ASSUME Sess!SessionAssumption PROVE Sess!SafetySpec => []SessInv
<1>1. Sess!Init => SessInv
  BY SessInit
<1>2. SessInv /\ [Sess!Next]_(Sess!vars) => SessInv'
  <2>1. SessInv /\ Sess!Next => SessInv'
    BY NarrowedStep, SentStep, CountedStep, BaselineStep, GapsStep DEF SessInv
  <2>2. ASSUME SessInv, UNCHANGED Sess!vars PROVE SessInv'
    <3>0. UNCHANGED <<opts, up, aaaa, phase, targets, pending, pinging, active, results,
                      baseline, stateFile, probed, before, compared>>
      BY <2>2 DEF Sess!vars, Sess!world, Sess!history
    <3>1. TargetsNarrowed'
      BY <2>2, <3>0 DEF SessInv, TargetsNarrowed, InScope, Sess!Authorized
    <3>2. SentToAuthorized'
      BY <2>2, <3>0 DEF SessInv, SentToAuthorized, Sess!Authorized, Sess!V6Targets,
                        Sess!Pairs, Sess!Range
    <3>3. CountedSoFar'
      BY <2>2, <3>0 DEF SessInv, CountedSoFar, Asking, Places
    <3>4. BaselineFirst'
      BY <2>2, <3>0 DEF SessInv, BaselineFirst, Sess!Torn
    <3>5. GapsLast'
      <4>1. GapsFound' <=> GapsFound
        BY <3>0 DEF GapsFound, Sess!GapOf, Sess!Open, Sess!Pairs, Sess!Range
      <4> QED BY <2>2, <3>0, <4>1 DEF SessInv, GapsLast
    <3> QED BY <3>1, <3>2, <3>3, <3>4, <3>5 DEF SessInv
  <2> QED BY <2>1, <2>2
<1> QED BY <1>1, <1>2, PTL DEF Sess!SafetySpec

\* Nothing but targets in scope and not excluded, and the IPv6 counterparts of
\* --dual-stack, is sent to (cmd/tcpcat/main.go:260-290).
LEMMA Authorization == SessInv => Sess!TargetsAuthorized
<1>1. SessInv => probed \subseteq Sess!Authorized \cup Sess!V6Targets
  BY DEF SessInv, SentToAuthorized
<1> QED BY <1>1 DEF Sess!TargetsAuthorized

\* What is after a phase.
LEMMA PastOf ==
  ASSUME TargetsNarrowed
  PROVE  /\ Sess!Past("ping") => phase \notin Finding \cup {"exited"}
         /\ Sess!Past("gaps") => phase \in Reporting
BY PhaseNumbers DEF TargetsNarrowed, PhaseNames, Sess!Past, Finding, Reporting

LEMMA Discovery == SessInv => Sess!DiscoveryExact
<1>0. \A S : Sess!Cardinality(S) = Cardinality(S)
  BY DEF Sess!Cardinality, Cardinality
<1> SUFFICES ASSUME SessInv, Sess!Past("ping"), ~ opts.skip, NEW a \in Sess!All
             PROVE  Cardinality({ k \in DOMAIN active : active[k] = a }) =
                      IF a \in up THEN Cardinality({ i \in DOMAIN targets : targets[i] = a })
                      ELSE 0
  BY <1>0 DEF Sess!DiscoveryExact
<1>1. phase \notin Finding \cup {"exited"}
  BY PastOf DEF SessInv
<1>2. pending = {} /\ pinging = {}
  BY <1>1 DEF SessInv, CountedSoFar, Finding
<1>3. Places(targets, a) \ Asking = Places(targets, a)
  BY <1>2 DEF Asking
<1> QED BY <1>1, <1>3 DEF SessInv, CountedSoFar, Places

LEMMA Comparison == SessInv => Sess!ComparedWithPrevious /\ Sess!GapsReported
<1>1. SessInv => Sess!ComparedWithPrevious
  BY DEF SessInv, BaselineFirst, Sess!ComparedWithPrevious
<1>2. SessInv => Sess!GapsReported
  BY PastOf DEF SessInv, GapsLast, GapsFound, Sess!GapsReported
<1> QED BY <1>1, <1>2

-----------------------------------------------------------------------------
(* Policy checks. *)

\* What a rule is scanned for: the addresses of its zone, each of which is there.
ZoneOf(p, rule) == UNION { Resolves[e] : e \in Policy!ToSet(Policy!Members(p, rule)) }

\* Each rule that has been scanned was judged by what was reachable then.
PassedIffKept ==
  /\ DOMAIN nets = DOMAIN results
  /\ \A i \in DOMAIN results :
       /\ results[i] \in {"pass", "fail"}
       /\ results[i] = "pass"
            <=> Policy!Kept(policy.rules[i], ZoneOf(policy, policy.rules[i]), nets[i])

\* The checks are those of all the rules of the vantage.
ChecksAll(these, p, v) ==
  /\ DOMAIN these = Policy!RulesFrom(p, v)
  /\ \A i \in DOMAIN these :
       LET rule == p.rules[i] IN
       these[i] = [rule |-> rule, targets |-> ZoneOf(p, rule),
                   ports |-> Policy!mergePorts(rule.ports, rule.require)]
EveryRuleChecked == ChecksAll(checks, policy, vantage) /\ DOMAIN checks # {}

PolicyInv ==
  /\ pc \in {"idle", "plan", "scan"} /\ vantage \in Vantages
  /\ reports \in [Vantages -> {Policy!NoReport, "pass", "fail"}]
  /\ DOMAIN truth = Vantages
  /\ \A v \in Vantages : /\ reports[v] = "pass" => truth[v] = {TRUE}
                         /\ reports[v] = "fail" => truth[v] = {FALSE}
  /\ pc = "plan" => DOMAIN results = {} /\ DOMAIN nets = {} /\ asked = {}
  /\ pc = "scan" => /\ EveryRuleChecked /\ PassedIffKept /\ asked = {}
                    /\ DOMAIN results \subseteq DOMAIN checks
  /\ Policy!ExitIsTheVerdict

\* A rule passes exactly if what is found open of what is probed for it is what
\* it allows and all it requires.
LEMMA PassIsKept ==
  ASSUME NEW rule, NEW ips, NEW net \in SUBSET Policy!Endpoints,
         NEW c, c = [rule |-> rule, targets |-> ips,
                     ports |-> Policy!mergePorts(rule.ports, rule.require)]
  PROVE  LET found == net \cap (c.targets \X c.ports) IN
         /\ Policy!NewCheckResult(c, found) \in {"pass", "fail"}
         /\ Policy!NewCheckResult(c, found) = "pass" <=> Policy!Kept(rule, ips, net)
<1> DEFINE found  == net \cap (ips \X Policy!mergePorts(rule.ports, rule.require))
           req    == Policy!ToSet(rule.require)
           ports  == Policy!ToSet(rule.ports)
           wrong  == { o \in found : o[2] \notin rule.allow }
           missed == (ips \X req) \ found
<1>1. /\ c.rule = rule /\ c.targets = ips
      /\ c.ports = Policy!mergePorts(rule.ports, rule.require)
      /\ Policy!mergePorts(rule.ports, rule.require) = ports \cup req
  BY DEF Policy!mergePorts
<1>2. Policy!Evaluate(c, found) = {} <=> wrong = {} /\ missed = {}
  <2> DEFINE W == { <<"unexpected-open", e>> : e \in wrong }
             M == { <<"required-unreachable", e>> : e \in missed }
  <2>1. Policy!Evaluate(c, found) = W \cup M
    BY <1>1 DEF Policy!Evaluate
  <2>2. W = {} <=> wrong = {}
    <3> HIDE DEF wrong
    <3> QED OBVIOUS
  <2>3. M = {} <=> missed = {}
    <3> HIDE DEF missed
    <3> QED OBVIOUS
  <2> HIDE DEF W, M
  <2> QED BY <2>1, <2>2, <2>3
<1>3. \A e \in net : e = <<e[1], e[2]>>
  BY DEF Policy!Endpoints
<1>4. ASSUME wrong = {}, missed = {} PROVE Policy!Kept(rule, ips, net)
  <2>1. ASSUME NEW e \in net, e[1] \in ips, e[2] \in ports PROVE e[2] \in rule.allow
    <3>1. e \in found
      BY <1>1, <1>3, <2>1
    <3> QED BY <1>4, <3>1
  <2>2. ASSUME NEW ip \in ips, NEW port \in req
        PROVE  <<ip, port>> \in net /\ port \in rule.allow
    <3>1. <<ip, port>> \in found
      BY <1>4, <2>2
    <3>2. <<ip, port>>[2] \in rule.allow
      BY <1>4, <3>1
    <3> QED BY <3>1, <3>2
  <2> QED BY <2>1, <2>2 DEF Policy!Kept
<1>5. ASSUME Policy!Kept(rule, ips, net) PROVE wrong = {} /\ missed = {}
  <2>1. ASSUME NEW o \in found PROVE o[2] \in rule.allow
    <3>1. o \in net /\ o[1] \in ips /\ (o[2] \in ports \/ o[2] \in req)
      BY <1>1, <2>1
    <3> QED BY <1>5, <3>1 DEF Policy!Kept
  <2>2. ASSUME NEW e \in ips \X req PROVE e \in found
    <3>1. e = <<e[1], e[2]>> /\ e[1] \in ips /\ e[2] \in req
      OBVIOUS
    <3>2. <<e[1], e[2]>> \in net
      BY <1>5, <3>1 DEF Policy!Kept
    <3> QED BY <1>1, <3>1, <3>2
  <2> QED BY <2>1, <2>2
<1>6. wrong = {} /\ missed = {} <=> Policy!Kept(rule, ips, net)
  BY <1>4, <1>5
<1>7. c.targets \X c.ports = ips \X Policy!mergePorts(rule.ports, rule.require)
  BY <1>1
<1> HIDE DEF wrong, missed, found
<1>8. /\ Policy!NewCheckResult(c, found) \in {"pass", "fail"}
      /\ Policy!NewCheckResult(c, found) = "pass" <=> Policy!Evaluate(c, found) = {}
  BY DEF Policy!NewCheckResult
<1> QED BY <1>2, <1>6, <1>7, <1>8 DEF found

\* A plan leaves no rule and no entry of a zone out.
LEMMA PlanIsWhole ==
  ASSUME NEW p, NEW v, NEW ips, DOMAIN Policy!Plan(p, v, ips) # {}
  PROVE  ChecksAll(Policy!Plan(p, v, ips), p, v)
<1> DEFINE mine == Policy!RulesFrom(p, v)
           within(r) == Policy!resolve(Policy!Members(p, r), ips)
           check(r) == [rule |-> r, targets |-> within(r),
                        ports |-> Policy!mergePorts(r.ports, r.require)]
           plan == [i \in mine |-> check(p.rules[i])]
<1>1. /\ Policy!Plan(p, v, ips) = plan
      /\ \A i \in mine : plan[i].targets # {}
  <2>1. ~ \E i \in DOMAIN plan : plan[i].targets = {}
    <3> SUFFICES ASSUME \E i \in DOMAIN plan : plan[i].targets = {} PROVE FALSE
      OBVIOUS
    <3>1. Policy!Plan(p, v, ips) = <<>>
      BY DEF Policy!Plan
    <3>2. DOMAIN Policy!Plan(p, v, ips) = {}
      BY <3>1
    <3> QED BY <3>2
  <2>2. Policy!Plan(p, v, ips) = plan
    BY <2>1 DEF Policy!Plan
  <2> QED BY <2>1, <2>2
<1>2. ASSUME NEW i \in mine PROVE within(p.rules[i]) = ZoneOf(p, p.rules[i])
  <2> DEFINE entries == Policy!Members(p, p.rules[i])
             all == [k \in DOMAIN entries |-> Resolves[entries[k]]]
  <2>1. plan[i].targets = within(p.rules[i])
    OBVIOUS
  <2>2. within(p.rules[i]) # {}
    BY <1>1, <2>1
  <2>3. within(p.rules[i]) = UNION Policy!ToSet(all)
    BY <2>2 DEF Policy!resolve
  <2>4. Policy!ToSet(all) = { Resolves[e] : e \in Policy!ToSet(entries) }
    BY DEF Policy!ToSet
  <2> QED BY <2>3, <2>4 DEF ZoneOf
<1>3. \A i \in mine : check(p.rules[i]) =
        [rule |-> p.rules[i], targets |-> ZoneOf(p, p.rules[i]),
         ports |-> Policy!mergePorts(p.rules[i].ports, p.rules[i].require)]
  BY <1>2
<1> HIDE DEF check
<1> QED BY <1>1, <1>3 DEF ChecksAll

LEMMA PolicyInit == ASSUME Policy!Init PROVE PolicyInv
<1>1. /\ pc = "idle" /\ vantage \in Vantages /\ asked = {} /\ exit = 3
      /\ reports = [v \in Vantages |-> Policy!NoReport]
      /\ truth = [v \in Vantages |-> {}]
  BY DEF Policy!Init, Policy!Running
<1>2. Policy!ExitIsTheVerdict
  BY <1>1 DEF Policy!ExitIsTheVerdict
<1> QED BY <1>1, <1>2 DEF PolicyInv, Policy!NoReport

\* A verdict is given of rules that have all been scanned.
LEMMA AllKeptIs ==
  ASSUME PassedIffKept
  PROVE  Policy!AllKept <=> Policy!Status(results) # "fail"
<1>1. Policy!AllKept <=> \A i \in DOMAIN results : results[i] = "pass"
  BY DEF PassedIffKept, Policy!AllKept, ZoneOf
<1>2. Policy!Status(results) # "fail" <=> \A i \in DOMAIN results : results[i] # "fail"
  BY DEF Policy!Status
<1> QED BY <1>1, <1>2 DEF PassedIffKept

LEMMA PolicyStep == ASSUME PolicyInv, Policy!Next PROVE PolicyInv'
<1>0. /\ pc \in {"idle", "plan", "scan"} /\ vantage \in Vantages
      /\ reports \in [Vantages -> {Policy!NoReport, "pass", "fail"}]
      /\ DOMAIN truth = Vantages
      /\ \A v \in Vantages : /\ reports[v] = "pass" => truth[v] = {TRUE}
                             /\ reports[v] = "fail" => truth[v] = {FALSE}
      /\ pc = "plan" => DOMAIN results = {} /\ DOMAIN nets = {} /\ asked = {}
      /\ pc = "scan" => /\ EveryRuleChecked /\ PassedIffKept /\ asked = {}
                        /\ DOMAIN results \subseteq DOMAIN checks
  BY DEF PolicyInv
<1>1. ASSUME NEW v \in Vantages, Policy!Begin(v) PROVE PolicyInv'
  <2>1. Policy!ExitIsTheVerdict'
    BY <1>1 DEF Policy!Begin, Policy!ExitIsTheVerdict
  <2>2. DOMAIN <<>> = {}
    OBVIOUS
  <2>3. /\ pc' = "plan" /\ vantage' = v /\ asked' = {} /\ UNCHANGED <<reports, truth>>
        /\ DOMAIN results' = {} /\ DOMAIN nets' = {}
    BY <1>1, <2>2 DEF Policy!Begin
  <2> QED BY <1>0, <2>1, <2>3 DEF PolicyInv
<1>2. CASE Policy!PlanChecks
  <2> DEFINE plan == Policy!Plan(policy, vantage, scope)
  <2>0. /\ pc = "plan" /\ DOMAIN results = {} /\ DOMAIN nets = {} /\ asked = {}
        /\ UNCHANGED <<policy, vantage, scope, results, reports, nets, truth, asked>>
    BY <1>0, <1>2 DEF Policy!PlanChecks
  <2>1. CASE Policy!validate(policy) /\ DOMAIN plan # {}
    <3>1. pc' = "scan" /\ checks' = plan
      BY <1>2, <2>1 DEF Policy!PlanChecks
    <3>2. EveryRuleChecked'
      <4>1. /\ DOMAIN Policy!Plan(policy', vantage', scope') # {}
            /\ checks' = Policy!Plan(policy', vantage', scope')
        BY <2>0, <2>1, <3>1
      <4>2. ChecksAll(checks', policy', vantage')
        BY <4>1, PlanIsWhole
      <4> QED BY <2>1, <3>1, <4>2 DEF EveryRuleChecked
    <3>3. PassedIffKept'
      BY <2>0 DEF PassedIffKept
    <3>4. Policy!ExitIsTheVerdict'
      BY <3>1 DEF Policy!ExitIsTheVerdict
    <3> QED BY <1>0, <2>0, <3>1, <3>2, <3>3, <3>4 DEF PolicyInv
  <2>2. CASE ~ (Policy!validate(policy) /\ DOMAIN plan # {})
    <3>1. pc' = "idle" /\ exit' = 2
      BY <1>2, <2>2 DEF Policy!PlanChecks, Policy!Exit
    <3>2. Policy!ExitIsTheVerdict'
      BY <3>1 DEF Policy!ExitIsTheVerdict
    <3> QED BY <1>0, <2>0, <3>1, <3>2 DEF PolicyInv
  <2> QED BY <2>1, <2>2
<1>3. ASSUME NEW net \in SUBSET Policy!Endpoints, Policy!ScanRule(net) PROVE PolicyInv'
  <2>0. /\ pc = "scan" /\ EveryRuleChecked /\ PassedIffKept /\ asked = {}
        /\ DOMAIN results \subseteq DOMAIN checks
        /\ UNCHANGED <<pc, policy, vantage, checks, reports, truth, asked>>
    BY <1>0, <1>3 DEF Policy!ScanRule
  <2>1. PICK i \in DOMAIN checks \ DOMAIN results :
          LET found == net \cap (checks[i].targets \X checks[i].ports)
          IN  /\ results' = Policy!With(results, i, Policy!NewCheckResult(checks[i], found))
              /\ nets' = Policy!With(nets, i, net)
    BY <1>3 DEF Policy!ScanRule
  <2> DEFINE found == net \cap (checks[i].targets \X checks[i].ports)
             verdict == Policy!NewCheckResult(checks[i], found)
             rule == policy.rules[i]
  <2>2. verdict \in {"pass", "fail"} /\ (verdict = "pass" <=> Policy!Kept(rule, ZoneOf(policy, rule), net))
    <3>1. checks[i] = [rule |-> rule, targets |-> ZoneOf(policy, rule),
                       ports |-> Policy!mergePorts(rule.ports, rule.require)]
      BY <2>0, <2>1 DEF EveryRuleChecked, ChecksAll
    <3> QED BY <3>1, PassIsKept
  <2>3. /\ DOMAIN results' = DOMAIN results \cup {i} /\ DOMAIN nets' = DOMAIN nets \cup {i}
        /\ results'[i] = verdict /\ nets'[i] = net
        /\ \A k \in DOMAIN results : results'[k] = results[k] /\ nets'[k] = nets[k]
    <3> HIDE DEF verdict
    <3>1. results' = Policy!With(results, i, verdict) /\ nets' = Policy!With(nets, i, net)
      BY <2>1 DEF verdict
    <3>2. DOMAIN nets = DOMAIN results
      BY <2>0 DEF PassedIffKept
    <3> QED BY <2>1, <3>1, <3>2 DEF Policy!With
  <2> HIDE DEF verdict
  <2>4. \A r : ZoneOf(policy, r)' = ZoneOf(policy, r)
    BY <2>0 DEF ZoneOf, Policy!Members
  <2>5. PassedIffKept'
    BY <2>0, <2>2, <2>3, <2>4 DEF PassedIffKept, Policy!Kept
  <2>6. EveryRuleChecked'
    BY <2>0, <2>4 DEF EveryRuleChecked, ChecksAll
  <2>7. Policy!ExitIsTheVerdict'
    BY <2>0 DEF Policy!ExitIsTheVerdict
  <2> QED BY <1>0, <2>0, <2>1, <2>3, <2>5, <2>6, <2>7 DEF PolicyInv
<1>4. ASSUME NEW written \in BOOLEAN, Policy!Save(written) PROVE PolicyInv'
  <2>0. /\ pc = "scan" /\ EveryRuleChecked /\ PassedIffKept /\ asked = {}
        /\ DOMAIN results = DOMAIN checks /\ pc' = "idle"
        /\ UNCHANGED <<policy, vantage, checks, results, nets, asked>>
    BY <1>0, <1>4 DEF Policy!Save, Policy!Exit
  <2>1. /\ Policy!AllKept' <=> Policy!AllKept
        /\ Policy!AllKept <=> Policy!Status(results) # "fail"
        /\ Policy!Status(results) \in {"pass", "fail"}
    <3>1. Policy!AllKept' <=> Policy!AllKept
      BY <2>0 DEF Policy!AllKept, Policy!Kept, Policy!Members
    <3> QED BY <3>1, <2>0, AllKeptIs DEF Policy!Status
  <2>2. CASE written
    <3>1. /\ reports' = [reports EXCEPT ![vantage] = Policy!Status(results)]
          /\ truth' = [truth EXCEPT ![vantage] = {Policy!AllKept}]
          /\ exit' = IF Policy!Status(results) = "fail" THEN 1 ELSE 0
      BY <1>4, <2>2 DEF Policy!Save, Policy!Exit
    <3>2. /\ reports' \in [Vantages -> {Policy!NoReport, "pass", "fail"}]
          /\ DOMAIN truth' = Vantages
      BY <1>0, <2>1, <3>1
    <3>3. ASSUME NEW v \in Vantages
          PROVE  /\ reports'[v] = "pass" => truth'[v] = {TRUE}
                 /\ reports'[v] = "fail" => truth'[v] = {FALSE}
      <4>1. CASE Policy!AllKept
        <5>1. Policy!AllKept = TRUE
          BY <4>1
        <5> QED BY <1>0, <2>1, <3>1, <4>1, <5>1
      <4>2. CASE ~ Policy!AllKept
        <5>1. Policy!AllKept = FALSE
          BY <4>2
        <5> QED BY <1>0, <2>1, <3>1, <4>2, <5>1
      <4> QED BY <4>1, <4>2
    <3>4. Policy!ExitIsTheVerdict'
      <4>1. /\ Policy!RulesFrom(policy', vantage') # {}
            /\ DOMAIN nets' = Policy!RulesFrom(policy', vantage')
        BY <2>0 DEF EveryRuleChecked, ChecksAll, PassedIffKept
      <4>2. exit' = 0 <=> Policy!AllKept'
        BY <2>1, <3>1
      <4> QED BY <2>0, <4>1, <4>2 DEF Policy!ExitIsTheVerdict
    <3> QED BY <1>0, <2>0, <3>2, <3>3, <3>4 DEF PolicyInv
  <2>3. CASE ~ written
    <3>1. exit' = 2 /\ UNCHANGED <<reports, truth>>
      BY <1>4, <2>3 DEF Policy!Save, Policy!Exit
    <3>2. Policy!ExitIsTheVerdict'
      BY <3>1 DEF Policy!ExitIsTheVerdict
    <3> QED BY <1>0, <2>0, <3>1, <3>2 DEF PolicyInv
  <2> QED BY <2>2, <2>3
<1>5. ASSUME NEW paths \in SUBSET Vantages, Policy!Matrix(paths) PROVE PolicyInv'
  <2>0. /\ paths # {} /\ asked' = paths /\ pc' = "idle"
        /\ exit' = IF \E v \in paths : reports[v] = Policy!NoReport THEN 2
                   ELSE IF \E v \in paths : reports[v] = "fail" THEN 1 ELSE 0
        /\ UNCHANGED <<policy, vantage, reports, truth>>
    BY <1>5 DEF Policy!Matrix, Policy!Exit
  <2>1. ASSUME exit' \in {0, 1} PROVE exit' = 0 <=> \A v \in paths : truth[v] = {TRUE}
    <3>1. \A v \in paths : reports[v] \in {"pass", "fail"}
      BY <1>0, <2>0, <2>1
    <3>2. {TRUE} # {FALSE}
      OBVIOUS
    <3>3. \A v \in paths : truth[v] = {TRUE} <=> reports[v] = "pass"
      BY <1>0, <3>1, <3>2
    <3>4. "pass" # "fail"
      OBVIOUS
    <3>5. exit' = 0 <=> ~ \E v \in paths : reports[v] = "fail"
      BY <2>0, <2>1
    <3>6. (~ \E v \in paths : reports[v] = "fail") <=> \A v \in paths : reports[v] = "pass"
      BY <3>1, <3>4
    <3> QED BY <3>3, <3>5, <3>6
  <2>2. Policy!ExitIsTheVerdict'
    BY <2>0, <2>1 DEF Policy!ExitIsTheVerdict
  <2> QED BY <1>0, <2>0, <2>2 DEF PolicyInv
<1> QED BY <1>1, <1>2, <1>3, <1>4, <1>5 DEF Policy!Next

\* The exit status is the verdict over every rule and address there was to check.
THEOREM PolicyVerdict == Policy!Spec => []Policy!ExitIsTheVerdict
<1>1. Policy!Init => PolicyInv
  BY PolicyInit
<1>2. PolicyInv /\ [Policy!Next]_(Policy!vars) => PolicyInv'
  <2>1. PolicyInv /\ Policy!Next => PolicyInv'
    BY PolicyStep
  <2>2. PolicyInv /\ UNCHANGED Policy!vars => PolicyInv'
    <3>1. UNCHANGED Policy!vars => Policy!ExitIsTheVerdict' = Policy!ExitIsTheVerdict
      BY DEF Policy!vars, Policy!ExitIsTheVerdict, Policy!AllKept, Policy!Kept,
             Policy!RulesFrom, Policy!Members
    <3> QED BY <3>1 DEF Policy!vars, PolicyInv, EveryRuleChecked, ChecksAll, PassedIffKept, ZoneOf,
            Policy!Members
  <2> QED BY <2>1, <2>2
<1>3. PolicyInv => Policy!ExitIsTheVerdict
  BY DEF PolicyInv
<1> QED BY <1>1, <1>2, <1>3, PTL DEF Policy!Spec

-----------------------------------------------------------------------------
(* The scripts of a scan. *)

\* The results that have been taken from the list, and what has been said.
Taken == IF phase = "running" THEN at + 1 ELSE at
UpTo(n) == { k \in Script!Shown : k <= n }
Spoken == { [script |-> p.script, says |-> p.says] : p \in said }
OpenPort(i) == Script!Examined(results[i])

Rows == [port : Nat, state : STRING]
FinalRows == [port : Nat, state : STRING, scripts : SUBSET Spoken]

\* The results taken so far are there in their order, those whose scripts have
\* ended with what these said.
ResultsInOrder ==
  /\ results \in Seq(Rows)
  /\ finalResults \in Seq(FinalRows)
  /\ at \in 0 .. Len(results) /\ phase \in {"loop", "running", "over"}
  /\ phase = "running" => at < Len(results) /\ OpenPort(at + 1)
  /\ phase = "over" => at = Len(results)
  /\ Len(finalResults) = Cardinality(UpTo(Taken))
  /\ \A i \in Script!Shown : i <= Taken =>
       LET r == finalResults[Script!Rank(i)]
       IN  /\ r.port = results[i].port /\ r.state = results[i].state
           /\ i <= at => r.scripts = Script!Outputs(i)

\* The channel holds what the ended runs of this port have said and nothing else,
\* and every script has run on every open port that is past.
ChannelIsThisPorts ==
  /\ (open <=> phase = "running") /\ ~ panicked
  /\ \A p \in said : p.of \in 1 .. Taken /\ OpenPort(p.of) /\ p.script \in Scripts
  /\ \A i \in 1 .. at : OpenPort(i) =>
       \A s \in Scripts : \E p \in said : p.script = s /\ p.of = i
  /\ resultsChan \in Seq(Spoken)
  /\ DOMAIN pc = Scripts
  /\ phase = "running" =>
       /\ \A s \in Scripts : pc[s] \in {"run", "ended", "done"}
       /\ \A s \in Scripts : pc[s] # "run" => \E p \in said : p.script = s /\ p.of = at + 1
       /\ Script!ToSet(resultsChan) =
            { [script |-> p.script, says |-> p.says] : p \in
                { q \in said : q.of = at + 1 /\ ~ Script!Silent(q.says) } }
  /\ phase # "running" => \A s \in Scripts : pc[s] # "run" /\ pc[s] # "ended"

\* No run is over its budget of probes.
WithinBudget ==
  /\ probes \in [Scripts -> 0 .. MaxProbes]
  /\ \A q \in asked : q.nth <= MaxProbes /\ OpenPort(q.of)

ScriptInv == ResultsInOrder /\ ChannelIsThisPorts /\ WithinBudget

LEMMA UpToFinite ==
  ASSUME ResultsInOrder, NEW n
  PROVE  /\ IsFiniteSet(UpTo(n)) /\ Cardinality(UpTo(n)) \in Nat
         /\ Script!Shown \subseteq 1 .. Len(results)
<1>1. Script!Shown \subseteq 1 .. Len(results) /\ Len(results) \in Nat
  BY DEF ResultsInOrder, Script!Shown
<1>2. IsFiniteSet(1 .. Len(results))
  BY <1>1, FS_Interval
<1>3. UpTo(n) \in SUBSET (1 .. Len(results))
  BY <1>1 DEF UpTo
<1>4. IsFiniteSet(UpTo(n))
  BY <1>2, <1>3, FS_Subset
<1> QED BY <1>1, <1>4, FS_CardinalityType

LEMMA ScriptCardinality == ASSUME NEW S PROVE Script!Cardinality(S) = Cardinality(S)
BY DEF Script!Cardinality, Cardinality

\* A shown result comes after those shown before it, and before the others.
LEMMA RankOf ==
  ASSUME ResultsInOrder, NEW i \in Script!Shown, NEW n \in Nat
  PROVE  /\ Script!Rank(i) = Cardinality(UpTo(i)) /\ Script!Rank(i) \in Nat \ {0}
         /\ i <= n => Script!Rank(i) <= Cardinality(UpTo(n))
         /\ i > n => Script!Rank(i) > Cardinality(UpTo(n))
<1>0. i \in 1 .. Len(results) /\ i \in Nat /\ Script!Shown \subseteq Nat
  BY UpToFinite
<1>1. Script!Rank(i) = Cardinality(UpTo(i))
  <2>1. Script!Cardinality(UpTo(i)) = Cardinality(UpTo(i))
    BY ScriptCardinality
  <2> QED BY <2>1 DEF Script!Rank, UpTo
<1>2. IsFiniteSet(UpTo(i)) /\ Cardinality(UpTo(i)) \in Nat
      /\ IsFiniteSet(UpTo(n)) /\ Cardinality(UpTo(n)) \in Nat
  BY UpToFinite
<1>3. ASSUME i <= n PROVE Cardinality(UpTo(i)) <= Cardinality(UpTo(n))
  <2>1. \A k \in Script!Shown : k <= i => k <= n
    BY <1>0, <1>3
  <2>2. UpTo(i) \subseteq UpTo(n)
    BY <2>1 DEF UpTo
  <2> QED BY <1>2, <2>2, FS_Subset
<1>4. ASSUME i > n PROVE Cardinality(UpTo(i)) > Cardinality(UpTo(n))
  <2>0. /\ \A k \in Script!Shown : k <= n => k <= i
        /\ i <= i /\ ~ (i <= n)
    BY <1>0, <1>4
  <2>1. UpTo(n) \cup {i} \subseteq UpTo(i) /\ i \notin UpTo(n)
    BY <2>0 DEF UpTo
  <2>2. Cardinality(UpTo(n) \cup {i}) = Cardinality(UpTo(n)) + 1
    BY <1>2, <2>1, FS_AddElement
  <2>3. Cardinality(UpTo(n) \cup {i}) <= Cardinality(UpTo(i))
    BY <1>2, <2>1, FS_Subset
  <2> QED BY <1>2, <2>2, <2>3
<1>5. Cardinality(UpTo(i)) # 0
  <2>1. i \in UpTo(i)
    BY <1>0 DEF UpTo
  <2> QED BY <1>2, <2>1, FS_EmptySet
<1> QED BY <1>1, <1>2, <1>3, <1>4, <1>5

LEMMA ScriptInit == ASSUME Script!ScriptAssumption, Script!Init PROVE ScriptInv
<1>0. /\ phase = "loop" /\ results \in AllResults /\ at = 0 /\ finalResults = <<>>
      /\ pc = [s \in Scripts |-> "none"] /\ resultsChan = <<>> /\ open = FALSE
      /\ probes = [s \in Scripts |-> 0] /\ asked = {} /\ said = {} /\ panicked = FALSE
      /\ MaxProbes \in Nat /\ results \in Seq(Rows)
  BY DEF Script!Init, Script!ScriptAssumption, Rows
<1>1. ResultsInOrder
  <2>1. Taken = 0 /\ Len(results) \in Nat
    BY <1>0 DEF Taken
  <2>2. Script!Shown \subseteq 1 .. Len(results)
    BY <1>0 DEF Script!Shown
  <2>3. UpTo(0) = {}
    <3>1. \A k \in Script!Shown : ~ (k <= 0)
      BY <2>1, <2>2
    <3> QED BY <3>1 DEF UpTo
  <2>4. Len(finalResults) = Cardinality(UpTo(Taken))
    BY <1>0, <2>1, <2>3, FS_EmptySet
  <2>5. \A i \in Script!Shown : ~ (i <= Taken)
    BY <2>1, <2>2
  <2> QED BY <1>0, <2>1, <2>4, <2>5 DEF ResultsInOrder
<1>2. ChannelIsThisPorts
  <2>1. DOMAIN pc = Scripts /\ \A s \in Scripts : pc[s] # "run" /\ pc[s] # "ended"
    BY <1>0
  <2>2. resultsChan \in Seq(Spoken)
    BY <1>0
  <2>3. 1 .. at = {}
    BY <1>0
  <2>4. (open <=> phase = "running") /\ ~ panicked /\ phase # "running"
    BY <1>0
  <2>5. \A p \in said : FALSE
    BY <1>0
  <2> QED BY <2>1, <2>2, <2>3, <2>4, <2>5 DEF ChannelIsThisPorts
<1>3. WithinBudget
  BY <1>0 DEF WithinBudget
<1> QED BY <1>1, <1>2, <1>3 DEF ScriptInv

\* What is unchanged with the results and the flags.
LEMMA SameShown ==
  ASSUME UNCHANGED <<results, flags>>
  PROVE  /\ Script!Shown' = Script!Shown
         /\ \A i : /\ Script!Rank(i)' = Script!Rank(i) /\ UpTo(i)' = UpTo(i)
                   /\ OpenPort(i)' <=> OpenPort(i)
<1>1. Script!Shown' = Script!Shown
  BY DEF Script!Shown, Script!Kept
<1> QED BY <1>1 DEF Script!Rank, UpTo, OpenPort, Script!Examined

LEMMA TakesTheNext ==
  ASSUME ScriptInv, Script!NextResult PROVE ScriptInv'
<1> DEFINE n == at + 1
<1>0. /\ ResultsInOrder /\ ChannelIsThisPorts /\ WithinBudget /\ phase = "loop"
      /\ at < Len(results) /\ at \in Nat /\ Len(results) \in Nat /\ n \in 1 .. Len(results)
      /\ Taken = at /\ UNCHANGED <<results, flags, asked, said, panicked>>
  BY DEF ScriptInv, ResultsInOrder, Taken, Script!NextResult
<1>1. Taken' = n
  BY <1>0 DEF Script!NextResult, Taken
<1>2. /\ Script!Shown' = Script!Shown
      /\ \A i : /\ Script!Rank(i)' = Script!Rank(i) /\ UpTo(i)' = UpTo(i)
                /\ OpenPort(i)' <=> OpenPort(i)
  BY <1>0, SameShown
<1>3. /\ \A i : Script!Outputs(i)' = Script!Outputs(i)
      /\ Spoken' = Spoken
  BY <1>0 DEF Script!Outputs, Spoken
<1>4. Script!Outputs(n) = {}
  BY <1>0 DEF ChannelIsThisPorts, Script!Outputs
<1>5. n \in Script!Shown <=> Script!Kept(Script!res)
  BY <1>0 DEF ResultsInOrder, Script!Shown, Script!res
<1>6. OpenPort(n) <=> Script!Examined(Script!res)
  BY DEF OpenPort, Script!res
<1>7. OpenPort(n) => n \in Script!Shown
  BY <1>5, <1>6 DEF Script!Kept, Script!Examined
<1>8. results[n] \in Rows /\ Script!res = results[n]
  <2>1. results \in Seq(Rows)
    BY <1>0 DEF ResultsInOrder
  <2>2. n \in 1 .. Len(results)
    BY <1>0
  <2> HIDE DEF n
  <2>3. results[n] \in Rows
    BY <2>1, <2>2
  <2> QED BY <2>3 DEF n, Script!res
<1>9. \/ OpenPort(n) /\ phase' = "running" /\ at' = at
      \/ ~ OpenPort(n) /\ phase' = "loop" /\ at' = n
  BY <1>0, <1>6 DEF Script!NextResult
<1>10. finalResults' \in Seq(FinalRows')
  <2>1. finalResults \in Seq(FinalRows)
    BY <1>0 DEF ResultsInOrder
  <2> DEFINE r == [port |-> results[n].port, state |-> results[n].state, scripts |-> {}]
  <2>2. finalResults' = Append(finalResults, r) \/ finalResults' = finalResults
    BY <1>8 DEF Script!NextResult
  <2>3. r \in FinalRows
    BY <1>8 DEF Rows, FinalRows
  <2> HIDE DEF r
  <2>4. finalResults' \in Seq(FinalRows)
    BY <2>1, <2>2, <2>3
  <2> QED BY <1>3, <2>4 DEF FinalRows
<1>11. Len(finalResults) = Cardinality(UpTo(at)) /\ Len(finalResults) \in Nat
  BY <1>0 DEF ResultsInOrder
<1>12. Script!Shown \subseteq 1 .. Len(results)
  BY <1>0, UpToFinite
<1>13. ASSUME NEW i \in Script!Shown, i <= at
       PROVE  /\ Script!Rank(i) \in 1 .. Len(finalResults)
              /\ finalResults'[Script!Rank(i)] = finalResults[Script!Rank(i)]
  <2>1. Script!Rank(i) \in 1 .. Len(finalResults)
    BY <1>0, <1>11, <1>13, RankOf
  <2> QED BY <1>0, <2>1 DEF ResultsInOrder, Script!NextResult
<1>14. /\ Len(finalResults') = Cardinality(UpTo(n))
       /\ n \in Script!Shown =>
            finalResults'[Script!Rank(n)] =
              [port |-> results[n].port, state |-> results[n].state, scripts |-> {}]
  <2>1. CASE n \in Script!Shown
    <3>1. UpTo(n) = UpTo(at) \cup {n} /\ n \notin UpTo(at)
      <4>1. \A k \in 1 .. Len(results) : k <= n <=> k <= at \/ k = n
        BY <1>0
      <4>2. ~ (n <= at)
        BY <1>0
      <4> HIDE DEF n
      <4> QED BY <1>12, <2>1, <4>1, <4>2 DEF UpTo
    <3>2. Cardinality(UpTo(n)) = Len(finalResults) + 1
      BY <1>0, <1>11, <3>1, UpToFinite, FS_AddElement
    <3>3. Script!Rank(n) = Len(finalResults) + 1
      BY <1>0, <2>1, <3>2, RankOf
    <3>4. finalResults' = Append(finalResults, [port |-> results[n].port,
                                    state |-> results[n].state, scripts |-> {}])
      BY <1>5, <1>8, <2>1 DEF Script!NextResult
    <3> QED BY <1>0, <3>2, <3>3, <3>4 DEF ResultsInOrder
  <2>2. CASE n \notin Script!Shown
    <3>1. UpTo(n) = UpTo(at)
      <4>1. \A k \in 1 .. Len(results) : k <= n <=> k <= at \/ k = n
        BY <1>0
      <4> HIDE DEF n
      <4> QED BY <1>12, <2>2, <4>1 DEF UpTo
    <3>2. finalResults' = finalResults
      BY <1>5, <2>2 DEF Script!NextResult
    <3> QED BY <1>11, <2>2, <3>1, <3>2
  <2> QED BY <2>1, <2>2
<1>15. ASSUME NEW i \in Script!Shown, i <= n
       PROVE  LET r == finalResults'[Script!Rank(i)]
              IN  /\ r.port = results[i].port /\ r.state = results[i].state
                  /\ i <= at' => r.scripts = Script!Outputs(i)
  <2>1. CASE i <= at
    BY <1>0, <1>13, <1>15, <2>1 DEF ResultsInOrder
  <2>2. CASE i = n
    <3>1. finalResults'[Script!Rank(n)] =
            [port |-> results[n].port, state |-> results[n].state, scripts |-> {}]
      BY <1>14, <2>2
    <3> HIDE DEF n
    <3> QED BY <1>4, <2>2, <3>1
  <2>3. i <= at \/ i = n
    BY <1>0, <1>12, <1>15
  <2> QED BY <2>1, <2>2, <2>3
<1>16. ResultsInOrder'
  <2>1. at' \in 0 .. Len(results') /\ phase' \in {"loop", "running", "over"}
    BY <1>0, <1>9
  <2>2. phase' = "running" => at' < Len(results') /\ OpenPort(at + 1)'
    BY <1>0, <1>9 DEF OpenPort, Script!Examined
  <2>3. phase' # "over"
    BY <1>9
  <2>4. Len(finalResults') = Cardinality({ k \in Script!Shown' : k <= Taken' })
    BY <1>1, <1>2, <1>14 DEF UpTo
  <2>5. \A i \in Script!Shown' : i <= Taken' =>
          LET r == finalResults'[Script!Rank(i)']
          IN  /\ r.port = results'[i].port /\ r.state = results'[i].state
              /\ i <= at' => r.scripts = Script!Outputs(i)'
    BY <1>0, <1>1, <1>2, <1>3, <1>15
  <2>6. results' \in Seq(Rows)
    BY <1>0 DEF ResultsInOrder
  <2> HIDE DEF n
  <2> QED BY <1>10, <2>1, <2>2, <2>3, <2>4, <2>5, <2>6 DEF ResultsInOrder, UpTo
<1>17. ChannelIsThisPorts'
  <2>1. \A p \in said : p.of \in 1 .. at /\ OpenPort(p.of) /\ p.script \in Scripts
    BY <1>0 DEF ChannelIsThisPorts
  <2>2. CASE phase' = "running"
    <3>1. /\ at' = at /\ open' = TRUE /\ resultsChan' = <<>>
          /\ pc' = [s \in Scripts |-> "run"]
      BY <1>0, <1>6, <1>9, <2>2 DEF Script!NextResult
    <3>2. { q \in said' : q.of = at' + 1 /\ ~ Script!Silent(q.says) } = {}
      BY <1>0, <2>1, <3>1
    <3>3. Script!ToSet(resultsChan') = {}
      BY <3>1 DEF Script!ToSet
    <3>4. \A p \in said' : p.of \in 1 .. Taken' /\ OpenPort(p.of)' /\ p.script \in Scripts
      BY <1>0, <1>1, <1>2, <2>1
    <3>5. \A i \in 1 .. at' : OpenPort(i)' =>
            \A s \in Scripts : \E p \in said' : p.script = s /\ p.of = i
      BY <1>0, <1>2, <3>1 DEF ChannelIsThisPorts
    <3>6. { [script |-> p.script, says |-> p.says] : p \in
             { q \in said' : q.of = at' + 1 /\ ~ Script!Silent(q.says) } } = {}
      BY <3>2
    <3>7. resultsChan' \in Seq(Spoken') /\ DOMAIN pc' = Scripts
      BY <3>1
    <3>8. ~ panicked' /\ (open' <=> phase' = "running")
      BY <1>0, <2>2, <3>1 DEF ChannelIsThisPorts
    <3>9. \A s \in Scripts : pc'[s] = "run"
      BY <3>1
    <3> HIDE DEF n
    <3> QED BY <2>2, <3>3, <3>4, <3>5, <3>6, <3>7, <3>8, <3>9 DEF ChannelIsThisPorts
  <2>3. CASE phase' = "loop"
    <3>1. at' = n /\ ~ OpenPort(n) /\ UNCHANGED <<pc, resultsChan, open>>
      BY <1>0, <1>6, <1>9, <2>3 DEF Script!NextResult
    <3>2. \A i \in 1 .. n : OpenPort(i) => i \in 1 .. at
      BY <1>0, <3>1
    <3> QED BY <1>0, <1>1, <1>2, <1>3, <2>1, <2>3, <3>1, <3>2 DEF ChannelIsThisPorts
  <2> QED BY <1>9, <2>2, <2>3
<1>18. WithinBudget'
  <2>1. MaxProbes \in Nat /\ \A q \in asked' : q.nth <= MaxProbes /\ OpenPort(q.of)'
    BY <1>0, <1>2, CommandAssumption DEF WithinBudget, CommandAssumption, Script!ScriptAssumption
  <2>2. probes' = probes \/ probes' = [s \in Scripts |-> 0]
    BY DEF Script!NextResult
  <2>3. probes' \in [Scripts -> 0 .. MaxProbes]
    BY <1>0, <2>1, <2>2 DEF WithinBudget
  <2> QED BY <2>1, <2>3 DEF WithinBudget
<1> QED BY <1>16, <1>17, <1>18 DEF ScriptInv

\* While a result is being examined, what was said of those before it stays.
LEMMA SameResults ==
  ASSUME ResultsInOrder, UNCHANGED <<phase, results, flags, at, finalResults>>,
         said \subseteq said', \A p \in said' : p \in said \/ p.of = at + 1
  PROVE  ResultsInOrder'
<1>0. at \in Nat
  BY DEF ResultsInOrder
<1>1. /\ Script!Shown' = Script!Shown
      /\ \A i : /\ Script!Rank(i)' = Script!Rank(i) /\ UpTo(i)' = UpTo(i)
                /\ OpenPort(i)' <=> OpenPort(i)
  BY SameShown
<1>2. Taken' = Taken
  BY DEF Taken
<1>3. finalResults \in Seq(FinalRows')
  <2>1. FinalRows \subseteq FinalRows'
    <3>1. Spoken \subseteq Spoken'
      BY DEF Spoken
    <3> QED BY <3>1 DEF FinalRows
  <2>2. finalResults \in Seq(FinalRows)
    BY DEF ResultsInOrder
  <2> QED BY <2>1, <2>2
<1>4. ASSUME NEW i \in Script!Shown, i <= at
      PROVE  Script!Outputs(i)' = Script!Outputs(i)
  <2>1. i \in Nat
    BY UpToFinite
  <2>2. i # at + 1
    BY <1>0, <1>4, <2>1
  <2>3. { q \in said' : q.of = i /\ q.says.kind = "output" }
          = { q \in said : q.of = i /\ q.says.kind = "output" }
    BY <2>2
  <2> QED BY <2>3 DEF Script!Outputs
<1>5. Len(finalResults) = Cardinality({ k \in Script!Shown' : k <= Taken' })
  BY <1>1, <1>2 DEF UpTo, ResultsInOrder
<1>6. \A i \in Script!Shown' : i <= Taken' =>
        LET r == finalResults[Script!Rank(i)']
        IN  /\ r.port = results[i].port /\ r.state = results[i].state
            /\ i <= at => r.scripts = Script!Outputs(i)'
  BY <1>1, <1>2, <1>4 DEF ResultsInOrder
<1>7. phase = "running" => at < Len(results) /\ OpenPort(at + 1)'
  BY <1>1 DEF ResultsInOrder
<1>8. /\ results \in Seq(Rows) /\ at \in 0 .. Len(results)
      /\ phase \in {"loop", "running", "over"} /\ (phase = "over" => at = Len(results))
  BY DEF ResultsInOrder
<1>9. /\ phase' = phase /\ results' = results /\ at' = at /\ finalResults' = finalResults
      /\ Rows' = Rows
  BY DEF Rows
<1>10. phase' = "running" => at' < Len(results') /\ OpenPort(at + 1)'
  BY <1>7, <1>9
<1> QED BY <1>3, <1>5, <1>6, <1>8, <1>9, <1>10 DEF ResultsInOrder, UpTo

\* Nothing else is said on the channel while no run ends.
LEMMA SameChannel ==
  ASSUME ChannelIsThisPorts, phase = "running",
         UNCHANGED <<phase, results, flags, at, resultsChan, open, said, panicked>>,
         DOMAIN pc' = Scripts, \A t \in Scripts : pc'[t] \in {"run", "ended", "done"},
         \A t \in Scripts : pc'[t] # "run" => pc[t] # "run"
  PROVE  ChannelIsThisPorts'
<1>1. /\ \A i : OpenPort(i)' <=> OpenPort(i)
      /\ Taken' = Taken /\ Spoken' = Spoken
  BY SameShown DEF Taken, Spoken
<1>2. \A p \in said' : p.of \in 1 .. Taken' /\ OpenPort(p.of)' /\ p.script \in Scripts
  BY <1>1 DEF ChannelIsThisPorts
<1>3. \A i \in 1 .. at' : OpenPort(i)' =>
        \A t \in Scripts : \E p \in said' : p.script = t /\ p.of = i
  BY <1>1 DEF ChannelIsThisPorts
<1>4. \A t \in Scripts : pc'[t] # "run" => \E p \in said' : p.script = t /\ p.of = at' + 1
  BY DEF ChannelIsThisPorts
<1>5. Script!ToSet(resultsChan') =
        { [script |-> p.script, says |-> p.says] : p \in
            { q \in said' : q.of = at' + 1 /\ ~ Script!Silent(q.says) } }
  BY DEF ChannelIsThisPorts, Script!ToSet
<1>6. /\ (open' <=> phase' = "running") /\ ~ panicked' /\ phase' = "running"
      /\ resultsChan' \in Seq(Spoken')
  BY <1>1 DEF ChannelIsThisPorts
<1> QED BY <1>2, <1>3, <1>4, <1>5, <1>6 DEF ChannelIsThisPorts

\* A goroutine is only running, or on its way out, while its port is examined.
LEMMA RunsOnThisPort ==
  ASSUME ScriptInv, NEW s \in Scripts, pc[s] \in {"run", "ended"}
  PROVE  /\ phase = "running" /\ open /\ OpenPort(at + 1) /\ Taken = at + 1
         /\ at \in Nat /\ ResultsInOrder /\ ChannelIsThisPorts /\ WithinBudget
<1>1. phase = "running"
  BY DEF ScriptInv, ChannelIsThisPorts
<1> QED BY <1>1 DEF ScriptInv, ChannelIsThisPorts, ResultsInOrder, Taken

LEMMA ScriptProbes ==
  ASSUME ScriptInv, NEW s \in Scripts, Script!Probe(s) PROVE ScriptInv'
<1>0. /\ phase = "running" /\ OpenPort(at + 1) /\ Taken = at + 1 /\ at \in Nat
      /\ ResultsInOrder /\ ChannelIsThisPorts /\ WithinBudget
  BY RunsOnThisPort DEF Script!Probe
<1>1. /\ UNCHANGED <<phase, results, flags, at, finalResults, pc, resultsChan, open,
                     said, panicked>>
      /\ probes[s] < MaxProbes /\ probes' = [probes EXCEPT ![s] = @ + 1]
      /\ asked' = asked \cup {[of |-> at + 1, nth |-> probes'[s]]}
  BY DEF Script!Probe
<1>2. ResultsInOrder'
  BY <1>0, <1>1, SameResults
<1>3. \A i : OpenPort(i)' <=> OpenPort(i)
  BY <1>1, SameShown
<1>4. ChannelIsThisPorts'
  <2>1. /\ DOMAIN pc' = Scripts /\ \A t \in Scripts : pc'[t] \in {"run", "ended", "done"}
        /\ \A t \in Scripts : pc'[t] # "run" => pc[t] # "run"
    BY <1>0, <1>1 DEF ChannelIsThisPorts
  <2> QED BY <1>0, <1>1, <2>1, SameChannel
<1>5. WithinBudget'
  <2>1. MaxProbes \in Nat
    BY CommandAssumption DEF CommandAssumption, Script!ScriptAssumption
  <2>2. probes \in [Scripts -> 0 .. MaxProbes]
    BY <1>0 DEF WithinBudget
  <2>3. probes' \in [Scripts -> 0 .. MaxProbes] /\ probes'[s] <= MaxProbes
    BY <1>1, <2>1, <2>2
  <2>4. \A q \in asked' : q.nth <= MaxProbes /\ OpenPort(q.of)
    BY <1>0, <1>1, <2>3 DEF WithinBudget
  <2> QED BY <1>3, <2>3, <2>4 DEF WithinBudget
<1> QED BY <1>2, <1>4, <1>5 DEF ScriptInv

LEMMA ScriptFinishes ==
  ASSUME ScriptInv, NEW s \in Scripts, Script!Finish(s) PROVE ScriptInv'
<1>0. /\ phase = "running" /\ open /\ OpenPort(at + 1) /\ Taken = at + 1 /\ at \in Nat
      /\ ResultsInOrder /\ ChannelIsThisPorts /\ WithinBudget
  BY RunsOnThisPort DEF Script!Finish
<1>1. PICK says \in Script!Outcomes(Script!res.port) :
        /\ resultsChan' = IF Script!Silent(says) \/ ~ open THEN resultsChan
                          ELSE Append(resultsChan, [script |-> s, says |-> says])
        /\ panicked' = (panicked \/ (~ Script!Silent(says) /\ ~ open))
        /\ said' = said \cup {[script |-> s, of |-> at + 1, says |-> says]}
  BY DEF Script!Finish
<1> DEFINE m == [script |-> s, says |-> says]
           p == [script |-> s, of |-> at + 1, says |-> says]
<1>2. /\ UNCHANGED <<phase, results, flags, at, finalResults, open, probes, asked>>
      /\ pc' = [pc EXCEPT ![s] = "ended"]
  BY DEF Script!Finish
<1>3. said' = said \cup {p} /\ p.of = at + 1 /\ p.script = s /\ p.says = says
  BY <1>1
<1> HIDE DEF p
<1>4. ResultsInOrder'
  BY <1>0, <1>2, <1>3, SameResults
<1>5. \A i : OpenPort(i)' <=> OpenPort(i)
  BY <1>2, SameShown
<1>6. m \in Spoken' /\ Spoken \subseteq Spoken'
  BY <1>3 DEF Spoken
<1>7. /\ resultsChan' = IF Script!Silent(says) THEN resultsChan ELSE Append(resultsChan, m)
      /\ resultsChan \in Seq(Spoken)
  BY <1>0, <1>1 DEF ChannelIsThisPorts
<1>8. [script |-> p.script, says |-> p.says] = m
  BY <1>3
<1> HIDE DEF m
<1>9. resultsChan' \in Seq(Spoken')
  <2>1. resultsChan \in Seq(Spoken')
    BY <1>6, <1>7
  <2> QED BY <1>6, <1>7, <2>1
<1>10. Script!ToSet(resultsChan') =
         { [script |-> x.script, says |-> x.says] : x \in
             { q \in said' : q.of = at' + 1 /\ ~ Script!Silent(q.says) } }
  <2> DEFINE Q == { q \in said : q.of = at + 1 /\ ~ Script!Silent(q.says) }
  <2>1. Script!ToSet(resultsChan) = { [script |-> x.script, says |-> x.says] : x \in Q }
    BY <1>0 DEF ChannelIsThisPorts
  <2>2. CASE Script!Silent(says)
    <3>1. { q \in said' : q.of = at' + 1 /\ ~ Script!Silent(q.says) } = Q
      BY <1>2, <1>3, <2>2
    <3> QED BY <1>7, <2>1, <2>2, <3>1 DEF Script!ToSet
  <2>3. CASE ~ Script!Silent(says)
    <3>1. { q \in said' : q.of = at' + 1 /\ ~ Script!Silent(q.says) } = Q \cup {p}
      BY <1>2, <1>3, <2>3
    <3>2. Script!ToSet(resultsChan') = Script!ToSet(resultsChan) \cup {m}
      <4>1. resultsChan' = Append(resultsChan, m) /\ Len(resultsChan) \in Nat
        BY <1>7, <2>3
      <4>2. DOMAIN resultsChan' = 1 .. Len(resultsChan) + 1
        BY <1>7, <4>1
      <4>3. \A k \in 1 .. Len(resultsChan) : resultsChan'[k] = resultsChan[k]
        BY <1>7, <4>1
      <4>4. resultsChan'[Len(resultsChan) + 1] = m
        BY <1>7, <4>1
      <4>5. 1 .. Len(resultsChan) + 1 = (1 .. Len(resultsChan)) \cup {Len(resultsChan) + 1}
        BY <4>1
      <4>6. DOMAIN resultsChan = 1 .. Len(resultsChan)
        BY <1>7
      <4> QED BY <4>2, <4>3, <4>4, <4>5, <4>6 DEF Script!ToSet
    <3> HIDE DEF Q
    <3> QED BY <1>8, <2>1, <3>1, <3>2
  <2> QED BY <2>2, <2>3
<1>11. ChannelIsThisPorts'
  <2>1. (open' <=> phase' = "running") /\ ~ panicked' /\ phase' = "running" /\ Taken' = at + 1
    BY <1>0, <1>1, <1>2 DEF ChannelIsThisPorts, Taken
  <2>2. \A q \in said' : q.of \in 1 .. Taken' /\ OpenPort(q.of)' /\ q.script \in Scripts
    <3>1. \A q \in said : q.of \in 1 .. at + 1 /\ OpenPort(q.of) /\ q.script \in Scripts
      BY <1>0 DEF ChannelIsThisPorts
    <3>2. p.of \in 1 .. at + 1 /\ OpenPort(p.of) /\ p.script \in Scripts
      BY <1>0, <1>3
    <3> QED BY <1>3, <1>5, <2>1, <3>1, <3>2
  <2>3. \A i \in 1 .. at' : OpenPort(i)' =>
          \A t \in Scripts : \E q \in said' : q.script = t /\ q.of = i
    <3>1. \A i \in 1 .. at : OpenPort(i) =>
            \A t \in Scripts : \E q \in said : q.script = t /\ q.of = i
      BY <1>0 DEF ChannelIsThisPorts
    <3> QED BY <1>2, <1>3, <1>5, <3>1
  <2>4. /\ DOMAIN pc = Scripts /\ \A t \in Scripts : pc[t] \in {"run", "ended", "done"}
        /\ \A t \in Scripts : pc[t] # "run" => \E q \in said : q.script = t /\ q.of = at + 1
    BY <1>0 DEF ChannelIsThisPorts
  <2>5. DOMAIN pc' = Scripts /\ \A t \in Scripts : pc'[t] \in {"run", "ended", "done"}
    BY <1>2, <2>4
  <2>6. \A t \in Scripts : pc'[t] # "run" => \E q \in said' : q.script = t /\ q.of = at' + 1
    <3> SUFFICES ASSUME NEW t \in Scripts, pc'[t] # "run"
                 PROVE  \E q \in said' : q.script = t /\ q.of = at + 1
      BY <1>2
    <3>1. CASE t = s
      BY <1>3, <3>1
    <3>2. CASE t # s
      BY <1>2, <1>3, <2>4, <3>2
    <3> QED BY <3>1, <3>2
  <2> QED BY <1>9, <1>10, <2>1, <2>2, <2>3, <2>5, <2>6 DEF ChannelIsThisPorts
<1>12. WithinBudget'
  BY <1>0, <1>2, <1>5 DEF WithinBudget
<1> QED BY <1>4, <1>11, <1>12 DEF ScriptInv

LEMMA ScriptIsDone ==
  ASSUME ScriptInv, NEW s \in Scripts, Script!Done(s) PROVE ScriptInv'
<1>0. /\ phase = "running" /\ open /\ OpenPort(at + 1) /\ Taken = at + 1 /\ at \in Nat
      /\ ResultsInOrder /\ ChannelIsThisPorts /\ WithinBudget
  BY RunsOnThisPort DEF Script!Done
<1>1. /\ UNCHANGED <<phase, results, flags, at, finalResults, resultsChan, open,
                     probes, asked, said, panicked>>
      /\ pc[s] = "ended" /\ pc' = [pc EXCEPT ![s] = "done"]
  BY DEF Script!Done
<1>2. ResultsInOrder'
  BY <1>0, <1>1, SameResults
<1>3. \A i : OpenPort(i)' <=> OpenPort(i)
  BY <1>1, SameShown
<1>4. /\ DOMAIN pc' = Scripts /\ \A t \in Scripts : pc'[t] \in {"run", "ended", "done"}
      /\ \A t \in Scripts : pc'[t] # "run" => pc[t] # "run"
  BY <1>0, <1>1 DEF ChannelIsThisPorts
<1>5. ChannelIsThisPorts'
  BY <1>0, <1>1, <1>4, SameChannel
<1>6. WithinBudget'
  BY <1>0, <1>1, <1>3 DEF WithinBudget
<1> QED BY <1>2, <1>5, <1>6 DEF ScriptInv

LEMMA ScriptCollects ==
  ASSUME ScriptInv, Script!Collect PROVE ScriptInv'
<1> DEFINE n == at + 1
           outputs == { x \in Script!ToSet(resultsChan) : x.says.kind = "output" }
           len == Len(finalResults)
<1>0. /\ phase = "running" /\ OpenPort(n) /\ Taken = n /\ at \in Nat /\ at < Len(results)
      /\ ResultsInOrder /\ ChannelIsThisPorts /\ WithinBudget /\ n \in Nat /\ ~ (n <= at)
  BY DEF Script!Collect, ScriptInv, ResultsInOrder, ChannelIsThisPorts, Taken
<1>1. /\ \A s \in Scripts : pc[s] = "done"
      /\ finalResults' = [finalResults EXCEPT ![len].scripts = outputs]
      /\ resultsChan' = <<>> /\ open' = FALSE /\ at' = n /\ phase' = "loop"
      /\ UNCHANGED <<results, flags, pc, probes, asked, said, panicked>>
  BY DEF Script!Collect, Script!AllDone
<1>2. /\ Script!Shown' = Script!Shown
      /\ \A i : /\ Script!Rank(i)' = Script!Rank(i) /\ UpTo(i)' = UpTo(i)
                /\ OpenPort(i)' <=> OpenPort(i)
  BY <1>1, SameShown
<1>3. /\ \A i : Script!Outputs(i)' = Script!Outputs(i)
      /\ Spoken' = Spoken /\ FinalRows' = FinalRows
  BY <1>1 DEF Script!Outputs, Spoken, FinalRows
<1>4. Taken' = n
  BY <1>1 DEF Taken
<1>5. outputs = Script!Outputs(n) /\ outputs \subseteq Spoken
  <2>1. Script!ToSet(resultsChan) = { [script |-> p.script, says |-> p.says] : p \in
               { q \in said : q.of = n /\ ~ Script!Silent(q.says) } }
    BY <1>0 DEF ChannelIsThisPorts
  <2>2. \A q \in said : q.says.kind = "output" => ~ Script!Silent(q.says)
    BY DEF Script!Silent
  <2> HIDE DEF n
  <2> QED BY <2>1, <2>2 DEF Script!Outputs, Spoken
<1>6. n \in Script!Shown /\ n \in 1 .. Len(results)
  <2>1. n \in 1 .. Len(results) /\ DOMAIN results = 1 .. Len(results)
    BY <1>0 DEF ResultsInOrder
  <2> HIDE DEF n
  <2> QED BY <1>0, <2>1 DEF OpenPort, Script!Examined, Script!Shown, Script!Kept
<1> HIDE DEF outputs
<1>7. Script!Rank(n) = len /\ len \in Nat \ {0} /\ len = Cardinality(UpTo(n))
  <2>1. len = Cardinality(UpTo(n)) /\ len \in Nat
    BY <1>0 DEF ResultsInOrder
  <2>2. Script!Rank(n) = Cardinality(UpTo(n)) /\ Script!Rank(n) \in Nat \ {0}
    BY <1>0, <1>6, RankOf
  <2> QED BY <2>1, <2>2
<1>8. /\ finalResults \in Seq(FinalRows) /\ len \in 1 .. len
      /\ DOMAIN finalResults = 1 .. len
  BY <1>0, <1>7 DEF ResultsInOrder
<1> HIDE DEF len
<1>9. finalResults[len] \in FinalRows
  BY <1>8 DEF len
<1>10. /\ finalResults' \in Seq(FinalRows) /\ Len(finalResults') = len
       /\ finalResults'[len].port = finalResults[len].port
       /\ finalResults'[len].state = finalResults[len].state
       /\ finalResults'[len].scripts = outputs
       /\ \A k \in 1 .. len : k # len => finalResults'[k] = finalResults[k]
  <2> DEFINE r == [finalResults[len] EXCEPT !.scripts = outputs]
  <2>1. finalResults' = [finalResults EXCEPT ![len] = r]
    BY <1>1
  <2>2. /\ r \in FinalRows /\ r.scripts = outputs
        /\ r.port = finalResults[len].port /\ r.state = finalResults[len].state
    BY <1>5, <1>9 DEF FinalRows
  <2> HIDE DEF r
  <2>3. finalResults' \in Seq(FinalRows) /\ Len(finalResults') = len
    BY <1>8, <2>1, <2>2 DEF len
  <2>4. finalResults'[len] = r /\ \A k \in 1 .. len : k # len => finalResults'[k] = finalResults[k]
    BY <1>8, <2>1
  <2> QED BY <2>2, <2>3, <2>4
<1>11. ASSUME NEW i \in Script!Shown, i <= n
       PROVE  LET r == finalResults'[Script!Rank(i)]
              IN  /\ r.port = results[i].port /\ r.state = results[i].state
                  /\ r.scripts = Script!Outputs(i)
  <2>0. /\ finalResults[Script!Rank(i)].port = results[i].port
        /\ finalResults[Script!Rank(i)].state = results[i].state
        /\ i <= at => finalResults[Script!Rank(i)].scripts = Script!Outputs(i)
    BY <1>0, <1>11 DEF ResultsInOrder
  <2>1. CASE i = n
    BY <1>5, <1>7, <1>10, <2>0, <2>1
  <2>2. CASE i <= at
    <3>1. Script!Rank(i) \in Nat \ {0} /\ Script!Rank(i) <= Cardinality(UpTo(at))
      BY <1>0, <2>2, RankOf
    <3>2. Script!Rank(n) > Cardinality(UpTo(at))
      <4>1. n > at
        BY <1>0
      <4> HIDE DEF n
      <4> QED BY <1>0, <1>6, <4>1, RankOf
    <3>3. Cardinality(UpTo(at)) \in Nat
      BY <1>0, UpToFinite
    <3>4. Script!Rank(i) \in 1 .. len /\ Script!Rank(i) # len
      BY <1>7, <3>1, <3>2, <3>3
    <3> QED BY <1>10, <2>0, <2>2, <3>4
  <2>3. i = n \/ i <= at
    <3>1. i \in Nat
      BY <1>0, UpToFinite
    <3> QED BY <1>0, <1>11, <3>1
  <2> QED BY <2>1, <2>2, <2>3
<1>12. ResultsInOrder'
  <2>1. at' \in 0 .. Len(results') /\ phase' \in {"loop", "running", "over"}
    BY <1>0, <1>1
  <2>2. phase' # "running" /\ phase' # "over"
    BY <1>1
  <2>3. Len(finalResults') = Cardinality({ k \in Script!Shown' : k <= Taken' })
    BY <1>2, <1>4, <1>7, <1>10 DEF UpTo
  <2>4. \A i \in Script!Shown' : i <= Taken' =>
          LET r == finalResults'[Script!Rank(i)']
          IN  /\ r.port = results'[i].port /\ r.state = results'[i].state
              /\ i <= at' => r.scripts = Script!Outputs(i)'
    BY <1>1, <1>2, <1>3, <1>4, <1>11
  <2>5. results' \in Seq(Rows) /\ finalResults' \in Seq(FinalRows')
    BY <1>0, <1>1, <1>3, <1>10 DEF ResultsInOrder
  <2> HIDE DEF n
  <2> QED BY <2>1, <2>2, <2>3, <2>4, <2>5 DEF ResultsInOrder, UpTo
<1>13. ChannelIsThisPorts'
  <2>1. (open' <=> phase' = "running") /\ ~ panicked' /\ phase' # "running"
    BY <1>0, <1>1 DEF ChannelIsThisPorts
  <2>2. \A p \in said' : p.of \in 1 .. Taken' /\ OpenPort(p.of)' /\ p.script \in Scripts
    BY <1>0, <1>1, <1>2, <1>4 DEF ChannelIsThisPorts
  <2>3. \A i \in 1 .. at' : OpenPort(i)' =>
          \A s \in Scripts : \E p \in said' : p.script = s /\ p.of = i
    <3>1. \A i \in 1 .. n : i \in 1 .. at \/ i = n
      BY <1>0
    <3>2. \A s \in Scripts : \E p \in said : p.script = s /\ p.of = n
      BY <1>0, <1>1 DEF ChannelIsThisPorts
    <3>3. \A i \in 1 .. at : OpenPort(i) =>
            \A s \in Scripts : \E p \in said : p.script = s /\ p.of = i
      BY <1>0 DEF ChannelIsThisPorts
    <3> HIDE DEF n
    <3> QED BY <1>1, <1>2, <3>1, <3>2, <3>3
  <2>4. resultsChan' \in Seq(Spoken') /\ DOMAIN pc' = Scripts
    BY <1>0, <1>1 DEF ChannelIsThisPorts
  <2>5. \A s \in Scripts : pc'[s] # "run" /\ pc'[s] # "ended"
    BY <1>1
  <2> QED BY <2>1, <2>2, <2>3, <2>4, <2>5 DEF ChannelIsThisPorts
<1>14. WithinBudget'
  BY <1>0, <1>1, <1>2 DEF WithinBudget
<1> QED BY <1>12, <1>13, <1>14 DEF ScriptInv

LEMMA ScriptsAreOver ==
  ASSUME ScriptInv, Script!Return PROVE ScriptInv'
<1>1. /\ phase = "loop" /\ at = Len(results) /\ phase' = "over"
      /\ UNCHANGED <<results, flags, at, finalResults, pc, resultsChan, open, probes,
                     asked, said, panicked>>
      /\ ResultsInOrder /\ ChannelIsThisPorts /\ WithinBudget
  BY DEF Script!Return, ScriptInv
<1>2. /\ Script!Shown' = Script!Shown
      /\ \A i : /\ Script!Rank(i)' = Script!Rank(i) /\ UpTo(i)' = UpTo(i)
                /\ OpenPort(i)' <=> OpenPort(i)
                /\ Script!Outputs(i)' = Script!Outputs(i)
  BY <1>1, SameShown DEF Script!Outputs
<1>3. /\ Taken' = Taken /\ Spoken' = Spoken /\ FinalRows' = FinalRows
  BY <1>1 DEF Taken, Spoken, FinalRows
<1>4. ResultsInOrder'
  <2>1. \A i \in Script!Shown' : i <= Taken' =>
          LET r == finalResults'[Script!Rank(i)']
          IN  /\ r.port = results'[i].port /\ r.state = results'[i].state
              /\ i <= at' => r.scripts = Script!Outputs(i)'
    BY <1>1, <1>2, <1>3 DEF ResultsInOrder
  <2>2. Len(finalResults') = Cardinality({ k \in Script!Shown' : k <= Taken' })
    BY <1>1, <1>2, <1>3 DEF UpTo, ResultsInOrder
  <2>3. results' \in Seq(Rows) /\ finalResults' \in Seq(FinalRows')
    BY <1>1, <1>3 DEF ResultsInOrder
  <2>4. /\ at' \in 0 .. Len(results') /\ phase' \in {"loop", "running", "over"}
        /\ phase' # "running" /\ at' = Len(results')
    BY <1>1 DEF ResultsInOrder
  <2> QED BY <2>1, <2>2, <2>3, <2>4 DEF ResultsInOrder, UpTo
<1>5. ChannelIsThisPorts'
  BY <1>1, <1>2, <1>3 DEF ChannelIsThisPorts
<1>6. WithinBudget'
  BY <1>1, <1>2 DEF WithinBudget
<1> QED BY <1>4, <1>5, <1>6 DEF ScriptInv

LEMMA ScriptSteps ==
  ASSUME ScriptInv, [Script!Next]_(Script!vars) PROVE ScriptInv'
<1>1. CASE Script!NextResult
  BY <1>1, TakesTheNext
<1>2. CASE Script!Collect
  BY <1>2, ScriptCollects
<1>3. CASE Script!Return
  BY <1>3, ScriptsAreOver
<1>4. CASE \E s \in Scripts : Script!Finish(s)
  BY <1>4, ScriptFinishes
<1>5. CASE \E s \in Scripts : Script!Done(s)
  BY <1>5, ScriptIsDone
<1>6. CASE \E s \in Scripts : Script!Probe(s)
  BY <1>6, ScriptProbes
<1>7. CASE UNCHANGED Script!vars
  <2>1. UNCHANGED <<phase, results, flags, at, finalResults, pc, resultsChan, open,
                    probes, asked, said, panicked>>
    BY <1>7 DEF Script!vars
  <2>2. /\ Script!Shown' = Script!Shown
        /\ \A i : OpenPort(i)' <=> OpenPort(i)
    BY <2>1, SameShown
  <2>3. ResultsInOrder'
    BY <2>1, SameResults DEF ScriptInv
  <2>4. ChannelIsThisPorts'
    BY <2>1, <2>2 DEF ScriptInv, ChannelIsThisPorts, Taken, Spoken, Script!ToSet
  <2>5. WithinBudget'
    BY <2>1, <2>2 DEF ScriptInv, WithinBudget
  <2> QED BY <2>3, <2>4, <2>5 DEF ScriptInv
<1> QED BY <1>1, <1>2, <1>3, <1>4, <1>5, <1>6, <1>7
        DEF Script!Next, Script!Main, Script!Goroutine

\* Every result that is shown is in its place, with what the scripts said of it.
LEMMA ScriptInvMeans == ASSUME ScriptInv PROVE Script!ScriptsOnTheirResult
<1>0. ResultsInOrder /\ ChannelIsThisPorts /\ WithinBudget
  BY DEF ScriptInv
<1>1. /\ at \in Nat /\ Taken \in Nat /\ DOMAIN results = 1 .. Len(results)
      /\ Len(finalResults) = Cardinality(UpTo(Taken)) /\ Len(finalResults) \in Nat
      /\ (phase = "running" /\ Taken = at + 1) \/ (phase # "running" /\ Taken = at)
  BY <1>0 DEF ResultsInOrder, Taken
<1>2. ASSUME NEW i \in Script!Shown, Script!Rank(i) <= Len(finalResults)
      PROVE  LET r == finalResults[Script!Rank(i)]
             IN  /\ r.port = results[i].port /\ r.state = results[i].state
                 /\ r.scripts = Script!Outputs(i) \/ (phase = "running" /\ i = at + 1)
  <2>1. i \in Nat /\ Script!Rank(i) \in Nat
        /\ (i > Taken => Script!Rank(i) > Cardinality(UpTo(Taken)))
    BY <1>0, <1>1, UpToFinite, RankOf
  <2>2. i <= Taken
    BY <1>1, <1>2, <2>1
  <2>3. i <= at \/ (phase = "running" /\ i = at + 1)
    BY <1>1, <2>1, <2>2
  <2> QED BY <1>0, <2>2, <2>3 DEF ResultsInOrder
<1>3. \A q \in asked : q.nth <= MaxProbes /\ Script!Examined(results[q.of])
  BY <1>0 DEF WithinBudget, OpenPort
<1>4. ASSUME phase = "over"
      PROVE  /\ Len(finalResults) = Script!Cardinality(Script!Shown)
             /\ { <<p.script, p.of>> : p \in said }
                  = Scripts \X { i \in DOMAIN results : Script!Examined(results[i]) }
  <2>1. at = Len(results) /\ Taken = Len(results) /\ Len(results) \in Nat
    BY <1>0, <1>1, <1>4 DEF ResultsInOrder
  <2>2. Len(finalResults) = Script!Cardinality(Script!Shown)
    <3>1. \A k \in Script!Shown : k <= Taken
      BY <1>0, <2>1, UpToFinite
    <3>2. UpTo(Taken) = Script!Shown
      BY <3>1 DEF UpTo
    <3>3. Script!Cardinality(Script!Shown) = Cardinality(Script!Shown)
      BY ScriptCardinality
    <3> QED BY <1>1, <3>2, <3>3
  <2>3. \A p \in said : /\ p.script \in Scripts /\ p.of \in DOMAIN results
                        /\ Script!Examined(results[p.of])
    <3>1. Taken = Len(results) /\ DOMAIN results = 1 .. Len(results)
      BY <1>1, <2>1
    <3>2. \A p \in said : p.of \in 1 .. Taken /\ OpenPort(p.of) /\ p.script \in Scripts
      BY <1>0 DEF ChannelIsThisPorts
    <3> QED BY <3>1, <3>2 DEF OpenPort
  <2>4. \A s \in Scripts, i \in DOMAIN results :
          Script!Examined(results[i]) => \E p \in said : p.script = s /\ p.of = i
    BY <1>0, <1>1, <2>1 DEF ChannelIsThisPorts, OpenPort
  <2>5. \A x \in { <<p.script, p.of>> : p \in said } :
          x \in Scripts \X { i \in DOMAIN results : Script!Examined(results[i]) }
    BY <2>3
  <2>6. \A x \in Scripts \X { i \in DOMAIN results : Script!Examined(results[i]) } :
          x \in { <<p.script, p.of>> : p \in said }
    BY <2>4
  <2> QED BY <2>2, <2>5, <2>6
<1> QED BY <1>0, <1>2, <1>3, <1>4 DEF Script!ScriptsOnTheirResult, ChannelIsThisPorts

\* However the scripts of a port interleave and end, the results of a scan are
\* there in its order, each with what the scripts said of it
\* (scan/engine.go:351-420, scripting/engine.go:144-182).
THEOREM ScriptResults == Script!SafetySpec => []Script!ScriptsOnTheirResult
<1>1. Script!Init => ScriptInv
  BY CommandAssumption, ScriptInit DEF CommandAssumption
<1>2. ScriptInv /\ [Script!Next]_(Script!vars) => ScriptInv'
  BY ScriptSteps
<1>3. ScriptInv => Script!ScriptsOnTheirResult
  BY ScriptInvMeans
<1> QED BY <1>1, <1>2, <1>3, PTL DEF Script!SafetySpec

-----------------------------------------------------------------------------
(* The parts side by side.  A behaviour is about one part, which it never    *)
(* changes: it is one of that part's own.                                    *)

LEMMA SessionStays ==
  /\ Init /\ which = "session" => Sess!Init
  /\ which = "session" /\ [Next]_vars
       => [Sess!Next]_(Sess!vars) /\ (which = "session")'
  /\ ~ (which = "session") /\ [Next]_vars => (~ (which = "session"))'
<1>1. UNCHANGED vars => UNCHANGED <<which, Sess!vars>>
  BY DEF vars, sessionVars, Sess!vars, Sess!world, Sess!history
<1> QED BY <1>1 DEF Init, Next

LEMMA WebStays ==
  /\ Init /\ which = "web" => Web!Init
  /\ which = "web" /\ [Next]_vars
       => [Web!Next]_(Web!vars) /\ (which = "web")'
  /\ ~ (which = "web") /\ [Next]_vars => (~ (which = "web"))'
<1>1. UNCHANGED vars => UNCHANGED <<which, Web!vars>>
  BY DEF vars, webVars, Web!vars
<1> QED BY <1>1 DEF Init, Next

LEMMA ResumeStays ==
  /\ Init /\ which = "resume" => Resume!Init
  /\ which = "resume" /\ [Next]_vars
       => [Resume!Next]_(Resume!vars) /\ (which = "resume")'
  /\ ~ (which = "resume") /\ [Next]_vars => (~ (which = "resume"))'
<1>1. UNCHANGED vars => UNCHANGED <<which, Resume!vars>>
  BY DEF vars, resumeVars, Resume!vars, Resume!scanVars, Resume!diskVars
<1> QED BY <1>1 DEF Init, Next

LEMMA InstallStays ==
  /\ Init /\ which = "install" => Install!Init
  /\ which = "install" /\ [Next]_vars
       => [Install!Next]_(Install!vars) /\ (which = "install")'
  /\ ~ (which = "install") /\ [Next]_vars => (~ (which = "install"))'
<1>1. UNCHANGED vars => UNCHANGED <<which, Install!vars>>
  BY DEF vars, installVars, Install!vars
<1> QED BY <1>1 DEF Init, Next

LEMMA EvidenceStays ==
  /\ Init /\ which = "evidence" => Evid!Init
  /\ which = "evidence" /\ [Next]_vars
       => [Evid!Next]_(Evid!vars) /\ (which = "evidence")'
  /\ ~ (which = "evidence") /\ [Next]_vars => (~ (which = "evidence"))'
<1>1. UNCHANGED vars => UNCHANGED <<which, Evid!vars>>
  BY DEF vars, evidenceVars, Evid!vars, Evid!files, Evid!work
<1> QED BY <1>1 DEF Init, Next

LEMMA PolicyStays ==
  /\ Init /\ which = "policy" => Policy!Init
  /\ which = "policy" /\ [Next]_vars
       => [Policy!Next]_(Policy!vars) /\ (which = "policy")'
  /\ ~ (which = "policy") /\ [Next]_vars => (~ (which = "policy"))'
<1>1. UNCHANGED vars => UNCHANGED <<which, Policy!vars>>
  BY DEF vars, policyVars, Policy!vars
<1> QED BY <1>1 DEF Init, Next

LEMMA ScriptStays ==
  /\ Init /\ which = "scripts" => Script!Init
  /\ which = "scripts" /\ [Next]_vars
       => [Script!Next]_(Script!vars) /\ (which = "scripts")'
  /\ ~ (which = "scripts") /\ [Next]_vars => (~ (which = "scripts"))'
<1>1. UNCHANGED vars => UNCHANGED <<which, Script!vars>>
  BY DEF vars, scriptVars, Script!vars
<1> QED BY <1>1 DEF Init, Next

\* The traceroute, the ARP sweep, the pings, the scan and what follows it send to
\* no address that is out of scope or excluded, for any targets and options, the
\* IPv6 counterparts of --dual-stack apart (cmd/tcpcat/main.go).
THEOREM OnlyTargetsAreSentTo == Spec => []TargetsAuthorized
<1>1. Sess!SafetySpec => []SessInv
  BY CommandAssumption, SessInvariant DEF CommandAssumption
<1>2. ~ (which = "session") => TargetsAuthorized
  BY DEF TargetsAuthorized
<1>3. SessInv => TargetsAuthorized
  BY Authorization DEF TargetsAuthorized
<1> QED BY <1>1, <1>2, <1>3, SessionStays, PTL DEF Spec, Sess!SafetySpec

\* Host discovery finds exactly the targets that are up, each as often as it was
\* listed, for any number of targets, of goroutines that ping and in whatever
\* order those end (main.go:355-440).
THEOREM DiscoveryFindsThemAll == Spec => []DiscoveryExact
<1>1. Sess!SafetySpec => []SessInv
  BY CommandAssumption, SessInvariant DEF CommandAssumption
<1>2. ~ (which = "session") => DiscoveryExact
  BY DEF DiscoveryExact
<1>3. SessInv => DiscoveryExact
  BY Discovery DEF DiscoveryExact
<1> QED BY <1>1, <1>2, <1>3, SessionStays, PTL DEF Spec, Sess!SafetySpec

\* A run is compared with the results the file held as it began, however often
\* and wherever runs are interrupted, and every port that is open on IPv6 alone
\* is reported to the end (main.go:898-981, cmd/tcpcat/dualstack.go).
THEOREM ComparesWithTheRunBefore == Spec => []ComparedWithPrevious
<1>1. Sess!SafetySpec => []SessInv
  BY CommandAssumption, SessInvariant DEF CommandAssumption
<1>2. ~ (which = "session") => ComparedWithPrevious
  BY DEF ComparedWithPrevious
<1>3. SessInv => ComparedWithPrevious
  BY Comparison DEF ComparedWithPrevious
<1> QED BY <1>1, <1>2, <1>3, SessionStays, PTL DEF Spec, Sess!SafetySpec

\* However updates and installs interleave, fail and are killed, there is a
\* whole executable, a scan loads whole modules and no command but a killed one
\* leaves a temporary file (internal/update/update.go, scripthub/hub.go).
THEOREM WholeFilesAreLoaded == Spec => []LoadsWholeFiles
<1>1. ~ (which = "install") => LoadsWholeFiles
  BY DEF LoadsWholeFiles
<1>2. Install!LoadsWholeFiles /\ Install!NothingLeftBehind => LoadsWholeFiles
  BY DEF LoadsWholeFiles
<1> QED BY <1>1, <1>2, InstallStays, ScansLoadWholeFiles, NoTemporaryFileStays,
          PTL DEF Spec, Install!Spec

\* A bundle that verifies is one a scan wrote, and signing keys are kept,
\* whatever commands write the files and whoever tampers (internal/evidence).
THEOREM VerifiedWasRecorded == Spec => []VerifiedIsRecorded
<1>1. ~ (which = "evidence") => VerifiedIsRecorded
  BY DEF VerifiedIsRecorded
<1>2. Evid!VerifiedIsRecorded /\ Evid!KeysKept => VerifiedIsRecorded
  BY DEF VerifiedIsRecorded
<1> QED BY <1>1, <1>2, EvidenceStays, VerifiedEvidenceIsAScans, SigningKeysAreKept,
          PTL DEF Spec, Evid!Spec

\* A resume file gives a scan only results some run has made, each once,
\* whatever of the writes is torn and whenever the runs are interrupted
\* (internal/scan/checkpoint.go).
THEOREM OnlyGenuineResultsLoad == Spec => []LoadedIsGenuine
<1>1. Resume!Spec => []Resume!TypeOK
  BY CommandAssumption, ResumeTypeCorrect
<1>2. Resume!Spec => []Resume!LoadedIsGenuine
  BY CommandAssumption, LoadedResultsAreGenuine
<1>3. ~ (which = "resume") => LoadedIsGenuine
  BY DEF LoadedIsGenuine
<1>4. Resume!TypeOK /\ Resume!LoadedIsGenuine => LoadedIsGenuine
  BY DEF LoadedIsGenuine
<1> QED BY <1>1, <1>2, <1>3, <1>4, ResumeStays, PTL DEF Spec, Resume!Spec

\* No failed or torn write is lost without a warning (checkpoint.go:92-94).
THEOREM NoWarningNothingMissing == Spec => []QuietCloseIsComplete
<1>1. Resume!Spec => []Resume!QuietCloseIsComplete
  BY CommandAssumption, AQuietCloseIsComplete
<1>2. ~ (which = "resume") => QuietCloseIsComplete
  BY DEF QuietCloseIsComplete
<1>3. Resume!QuietCloseIsComplete => QuietCloseIsComplete
  BY DEF QuietCloseIsComplete
<1> QED BY <1>1, <1>2, <1>3, ResumeStays, PTL DEF Spec, Resume!Spec

\* No step undoes what an earlier one has done: results on disk are not made
\* again, files are replaced whole, and no poll sees a scan go back
\* (checkpoint.go, update.go and scripthub/hub.go, web.go).
THEOREM NoStepUndoes == Spec => NothingUndone
<1> DEFINE Kept == /\ which = "resume"  => Resume!NotAgain
                   /\ which = "install" => Install!Whole
                   /\ which = "web"     => Web!GoesOn
<1>1. Resume!Spec => [][Resume!NotAgain]_(Resume!vars)
  BY CommandAssumption, NoResultIsMadeAgain DEF Resume!NoRescan
<1>2. Install!Spec => [][Install!Whole]_(Install!vars)
  BY FilesAreReplacedWhole DEF Install!ReplacedWhole
<1>3. Web!SafetySpec => [][Web!GoesOn]_(Web!vars)
  BY CommandAssumption, PollsGoOn DEF CommandAssumption, Web!StatusNeverGoesBack
<1>4. ~ (which = "resume") /\ ~ (which = "install") /\ ~ (which = "web") => [Kept]_vars
  OBVIOUS
<1>5. which = "resume" /\ [Resume!NotAgain]_(Resume!vars) /\ [Resume!Next]_(Resume!vars)
        /\ Resume!TypeOK => [Kept]_vars
  <2>1. UNCHANGED Resume!vars /\ Resume!TypeOK => Resume!NotAgain
    BY DEF Resume!vars, Resume!scanVars, Resume!TypeOK, Resume!NotAgain
  <2> QED BY <2>1
<1>6. which = "install" /\ [Install!Whole]_(Install!vars) => [Kept]_vars
  <2>1. UNCHANGED Install!vars => Install!Whole
    BY DEF Install!vars, Install!Whole
  <2> QED BY <2>1
<1>7. which = "web" /\ [Web!GoesOn]_(Web!vars) /\ WebInv => [Kept]_vars
  <2>1. UNCHANGED Web!vars /\ WebInv => Web!GoesOn
    BY DEF Web!vars, Web!GoesOn, WebInv, SeenSoFar
  <2> QED BY <2>1
<1>8. (Spec => NothingUndone) <=> (Spec => [][Kept]_vars)
  BY DEF NothingUndone
<1> HIDE DEF Kept
<1>9. Resume!Spec => []Resume!TypeOK
  BY CommandAssumption, ResumeTypeCorrect
<1>10. Web!SafetySpec => []WebInv
  BY CommandAssumption, WebInvariant, PTL DEF CommandAssumption
<1>11. Spec => [][Kept]_vars
  BY <1>1, <1>2, <1>3, <1>4, <1>5, <1>6, <1>7, <1>9, <1>10,
     ResumeStays, InstallStays, WebStays, PTL
     DEF Spec, Resume!Spec, Install!Spec, Web!SafetySpec
<1> QED BY <1>8, <1>11

\* The exit status of policy check and policy matrix is the verdict over every
\* rule and address, for any policies and reports (internal/policy).
THEOREM ExitStatusIsTheVerdict == Spec => []ExitIsTheVerdict
<1>1. ~ (which = "policy") => ExitIsTheVerdict
  BY DEF ExitIsTheVerdict
<1>2. Policy!ExitIsTheVerdict => ExitIsTheVerdict
  BY DEF ExitIsTheVerdict
<1> QED BY <1>1, <1>2, PolicyStays, PolicyVerdict, PTL DEF Spec, Policy!Spec

\* The results shown are those of this scan and of this port, whichever requests
\* race for the web server and however the scripts of a port end (web.go,
\* scan/engine.go, scripting/engine.go).
THEOREM ResultsAreThisScans == Spec => []ResultsOfThisScan
<1>1. Web!SafetySpec => []Web!OneScanAtATime
  BY CommandAssumption, OneScanRunsAtATime DEF CommandAssumption
<1>2. Web!SafetySpec => []Web!ResultsOfThisScan
  BY CommandAssumption, ResultsAreTheLastScans DEF CommandAssumption
<1>3. ~ (which = "web") /\ ~ (which = "scripts") => ResultsOfThisScan
  BY DEF ResultsOfThisScan
<1>4. which = "web" /\ Web!OneScanAtATime /\ Web!ResultsOfThisScan => ResultsOfThisScan
  BY DEF ResultsOfThisScan
<1>5. which = "scripts" /\ Script!ScriptsOnTheirResult => ResultsOfThisScan
  BY DEF ResultsOfThisScan
<1> QED BY <1>1, <1>2, <1>3, <1>4, <1>5, WebStays, ScriptStays, ScriptResults, PTL
        DEF Spec, Web!SafetySpec, Script!SafetySpec
=============================================================================
