--------------------------- MODULE EvidenceBundle ---------------------------
(***************************************************************************)
(* Evidence (internal/evidence, cmd/tcpcat/evidence.go): a scan writes the *)
(* open ports it saw to a bundle, its SHA-256 beside it and, with a key,   *)
(* an Ed25519 signature; the bundle is verified, and replayed to see which *)
(* findings still reproduce.  Commands may be killed between two writes or *)
(* in one, a write may fail half way, and between commands someone edits   *)
(* the bundle, or moves a key file away.                                   *)
(*                                                                         *)
(* A digest stands for the content it is of, a signature for the key and   *)
(* the content: what differs in content differs in both.                   *)
(***************************************************************************)
EXTENDS Naturals, Sequences, FiniteSets, SequencesExt

CONSTANTS
  Endpoints,      \* address and port of what may listen
  Keys,           \* key pairs keygen may come up with, one each time
  MaxCommands,    \* bound: commands run
  NotThere, CutShort,   \* what a file may be that is not whole
  None

VARIABLES
  key, pub,       \* <prefix>.key, <prefix>.pub: the pair they are of
  bundle, digest, sig,      \* <path>, <path>.sha256, <path>.sig
  pc,             \* what the command does next, "idle" when none runs
  new,            \* the pair keygen has made, or the signer of the scan
  data,           \* the bundle a scan has built, or verifyBundle has read
  withPub,        \* --pub is given
  todo,           \* the findings Replay has still to probe
  still,          \* how many of them accepted a connection
  exit,           \* exit status of the last verify or replay
  commands,       \* history: commands run
  used,           \* history: pairs keygen has made
  recorded,       \* history: <<content, signer>> of every scan's evidence
  moved,          \* history: pairs a file of which was moved away
  last            \* history: what the last verify or replay had read and saw

files == <<key, pub, bundle, digest, sig>>
work  == <<pc, new, data, withPub, todo, still, exit>>
vars  == <<files, work, commands, used, recorded, moved, last>>

Whole(f) == f \notin {NotThere, CutShort}

Init ==
  /\ key = NotThere /\ pub = NotThere
  /\ bundle = NotThere /\ digest = NotThere /\ sig = NotThere
  /\ pc = "idle" /\ new = None /\ data = None /\ withPub = FALSE
  /\ todo = {} /\ still = 0 /\ exit = 0
  /\ commands = 0 /\ used = {} /\ recorded = {} /\ moved = {} /\ last = None

Begin(step) ==
  /\ pc = "idle" /\ commands < MaxCommands
  /\ commands' = commands + 1 /\ pc' = step

-----------------------------------------------------------------------------
(* evidence keygen: GenerateKeyPair.                                       *)

Generate(k) ==
  /\ k \notin used
  /\ Begin("write key") /\ new' = k /\ used' = used \cup {k} /\ last' = None
  /\ UNCHANGED <<files, data, withPub, todo, still, exit, recorded, moved>>

\* writeNew refuses a file that exists (O_EXCL); a write that fails leaves
\* what it wrote.
writeNew(f, k) == IF f # NotThere THEN {f} ELSE {k, CutShort}

WriteKey ==
  /\ pc = "write key"
  /\ key' \in writeNew(key, new)
  /\ pc' = IF key' = new THEN "write pub" ELSE "idle"
  /\ UNCHANGED <<pub, bundle, digest, sig, new, data, withPub, todo, still,
                 exit, commands, used, recorded, moved, last>>

WritePub ==
  /\ pc = "write pub"
  /\ pub' \in writeNew(pub, new)
  /\ pc' = "idle"
  /\ UNCHANGED <<key, bundle, digest, sig, new, data, withPub, todo, still,
                 exit, commands, used, recorded, moved, last>>

-----------------------------------------------------------------------------
(* --evidence: writeEvidence of main.go, LoadSigner, Build and Write.      *)

\* The signer is loaded before anything is written; a key that does not
\* load leaves the files of an earlier scan.
Record(signed, findings) ==
  /\ Begin(IF signed /\ ~ Whole(key) THEN "idle" ELSE "write bundle")
  /\ new' = IF signed /\ Whole(key) THEN key ELSE None
  /\ data' = [at |-> commands, findings |-> findings]
  /\ recorded' = IF pc' = "idle" THEN recorded ELSE recorded \cup {<<data', new'>>}
  /\ last' = None
  /\ UNCHANGED <<files, withPub, todo, still, exit, used, moved>>

\* os.WriteFile truncates the file and writes it; a failure ends Write.
WriteFile(file, content, then) == \E c \in {content, CutShort} :
  /\ file' = c
  /\ pc' = IF c = content THEN then ELSE "idle"

WriteBundle ==
  /\ pc = "write bundle"
  /\ WriteFile(bundle, data, "write digest")
  /\ UNCHANGED <<key, pub, digest, sig, new, data, withPub, todo, still,
                 exit, commands, used, recorded, moved, last>>

WriteDigest ==
  /\ pc = "write digest"
  /\ WriteFile(digest, data, IF new = None THEN "idle" ELSE "sign")
  /\ UNCHANGED <<key, pub, bundle, sig, new, data, withPub, todo, still,
                 exit, commands, used, recorded, moved, last>>

WriteSig ==
  /\ pc = "sign"
  /\ WriteFile(sig, <<new, data>>, "idle")
  /\ UNCHANGED <<key, pub, bundle, digest, new, data, withPub, todo, still,
                 exit, commands, used, recorded, moved, last>>

-----------------------------------------------------------------------------
(* evidence verify, and replay, which begins with it.                      *)

\* Load, and Verify with --pub, VerifyDigest without it: the signature must
\* be there, and be that key's of exactly these bytes.
AnySignature(p, d, s) == Whole(s) => s[1] = p /\ s[2] = d
Verify(p, d, s) == Whole(p) /\ Whole(s) /\ s = <<p, d>>
VerifyDigest(d, sum) == Whole(sum) /\ sum = d

verifyBundle(byKey) ==
  /\ Whole(bundle)
  /\ IF byKey THEN Verify(pub, bundle, sig) ELSE VerifyDigest(bundle, digest)

\* runEvidence: 1 for a bundle that does not verify.
VerifyOnly(byKey) ==
  /\ Begin("idle")
  /\ withPub' = byKey /\ new' = None /\ data' = None /\ todo' = {} /\ still' = 0
  /\ exit' = IF verifyBundle(byKey) THEN 0 ELSE 1
  /\ last' = [command |-> "verify", read |-> bundle, by |-> pub, probed |-> {}]
  /\ UNCHANGED <<files, used, recorded, moved>>

\* runReplay: 2 for one, or when --finding names none of its findings
\* ("only", a prefix of the identifier, or every finding without the flag).
BeginReplay(byKey, only) ==
  /\ LET ok    == verifyBundle(byKey)
         chosen == IF ok THEN bundle.findings \cap only ELSE {}
         go    == ok /\ (only = Endpoints \/ chosen # {})
     IN /\ Begin(IF go THEN "probe" ELSE "idle")
        /\ exit' = IF go THEN exit ELSE 2
        /\ todo' = chosen
        /\ data' = IF ok THEN bundle ELSE None
  /\ withPub' = byKey /\ still' = 0 /\ new' = None
  /\ last' = [command |-> "replay", read |-> bundle, by |-> pub, probed |-> {}]
  /\ UNCHANGED <<files, used, recorded, moved>>

\* A probe tells whether the port accepted, and its error.  TCPProbe returns no
\* error: a connection that fails, for an error of this host (no route, no
\* descriptor left) as well, is a port that is not reachable.
Answers == {"open", "closed", "error"}
TCPProbe(answer) == [open |-> answer = "open", err |-> FALSE]

\* Replay, one finding: an error of the probe is treated as not fixed.  A banner
\* that changed counts as one that reproduced.
Result(probed) == CASE probed.err -> "reproduced"
                    [] ~ probed.err /\ ~ probed.open -> "fixed"
                    [] OTHER -> "reproduced"
Probe(f, answer) ==
  /\ pc = "probe" /\ f \in todo
  /\ todo' = todo \ {f}
  /\ still' = IF Result(TCPProbe(answer)) = "reproduced" THEN still + 1 ELSE still
  /\ last' = [last EXCEPT !.probed = @ \cup {<<f, answer>>}]
  /\ UNCHANGED <<files, pc, new, data, withPub, exit, commands, used,
                 recorded, moved>>

\* 2 when the file of -j cannot be written.
EndReplay ==
  /\ pc = "probe" /\ todo = {}
  /\ pc' = "idle" /\ exit' \in {IF still > 0 THEN 1 ELSE 0, 2}
  /\ UNCHANGED <<files, new, data, withPub, todo, still, commands, used,
                 recorded, moved, last>>

-----------------------------------------------------------------------------
\* The process is killed.
Kill ==
  /\ pc \in {"write pub", "write digest", "sign", "probe"}
  /\ pc' = "idle" /\ exit' = 2
  /\ UNCHANGED <<files, new, data, withPub, todo, still, commands, used,
                 recorded, moved, last>>

\* Someone changes the bundle, and not what is beside it.
Edit(findings) ==
  /\ pc = "idle" /\ Whole(bundle) /\ findings # bundle.findings
  /\ bundle' = [bundle EXCEPT !.findings = findings]
  /\ UNCHANGED <<key, pub, digest, sig, work, commands, used, recorded,
                 moved, last>>

\* The private key is put away, or the public key handed over.
MoveKey ==
  /\ pc = "idle" /\ key # NotThere
  /\ key' = NotThere /\ moved' = moved \cup {key}
  /\ UNCHANGED <<pub, bundle, digest, sig, work, commands, used, recorded, last>>
MovePub ==
  /\ pc = "idle" /\ pub # NotThere
  /\ pub' = NotThere /\ moved' = moved \cup {pub}
  /\ UNCHANGED <<key, bundle, digest, sig, work, commands, used, recorded, last>>

Next ==
  \/ \E k \in Keys : Generate(k)
  \/ WriteKey \/ WritePub
  \/ \E signed \in BOOLEAN, findings \in SUBSET Endpoints : Record(signed, findings)
  \/ WriteBundle \/ WriteDigest \/ WriteSig
  \/ \E byKey \in BOOLEAN : VerifyOnly(byKey)
  \/ \E byKey \in BOOLEAN, only \in SUBSET Endpoints : BeginReplay(byKey, only)
  \/ \E f \in Endpoints, answer \in Answers : Probe(f, answer)
  \/ EndReplay \/ Kill
  \/ \E findings \in SUBSET Endpoints : Edit(findings)
  \/ MoveKey \/ MovePub

Spec == Init /\ [][Next]_vars

-----------------------------------------------------------------------------
\* A bundle that verifies was written, whole and as it stands, by a scan; with
\* --pub, by one that signed it with the private half of that key; and
\* nothing else is replayed, with a 1 when a finding accepted a connection and
\* a 0 when all refused; of an attempt that failed for an error of this host
\* nothing is said.  Two scans may have used the same files, the second have
\* been killed between two of its writes, and the bundle have been edited.
VerifiedIsRecorded ==
  last # None /\ (last.command = "verify" => exit = 0)
              /\ (last.command = "replay" => last.probed # {}) =>
    /\ \E r \in recorded : r[1] = last.read /\ (withPub => r[2] = last.by)
    /\ last.command = "replay" /\ pc = "idle" /\ exit \in {0, 1} =>
         /\ exit = 0 => \A p \in last.probed : p[2] # "open"
         /\ exit = 1 => \E p \in last.probed : p[2] # "closed"

\* "Existing files are never overwritten: losing a signing key silently
\* would orphan every bundle signed with it": the key of every signed bundle
\* is where keygen put it, unless it was moved away.
KeysKept ==
  \A r \in recorded : r[2] # None /\ r[2] \notin moved => key = r[2]
=============================================================================
