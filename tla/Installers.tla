------------------------------ MODULE Installers ------------------------------
(***************************************************************************)
(* How tcpcat puts files it has downloaded in their place: the executable  *)
(* (--update, internal/update/update.go) and the detection modules of a    *)
(* hub (tcpcat scripts install and remove, internal/scripthub/hub.go).     *)
(* Both verify a digest, write a temporary file beside the destination and *)
(* rename it.  Several commands run at once, any may be killed at any      *)
(* step, and scans start while they do.                                    *)
(*                                                                         *)
(* A rename is atomic for other processes; a power failure, which may lose *)
(* what was never synced, is not modelled.                                 *)
(***************************************************************************)
EXTENDS Naturals, FiniteSets

CONSTANTS
  Commands,       \* processes
  Executable,     \* the path of tcpcat itself
  Modules,        \* the paths of modules
  Versions,       \* contents a release or an index entry stands for
  MaxStarts       \* bound: commands begun

VARIABLES
  file,           \* file[path]: its content
  temp,           \* temp[c]: the content of c's temporary file, or Absent
  pc,             \* "idle", "fetch", "verify", "create", "write", "rename",
                  \*   "cleanup", "stat", "remove"
  path,           \* path[c]: what c installs or removes
  want,           \* want[c]: the content the digest is of
  data,           \* data[c]: what was downloaded
  left,           \* history: temporary files whose command was killed
  starts,         \* history: commands begun
  loaded          \* history: contents a scan has loaded, or run as

vars == <<file, temp, pc, path, want, data, left, starts, loaded>>

Absent == "absent"
Torn   == "torn"
Paths  == Modules \cup {Executable}

Init ==
  /\ file \in { f \in [Paths -> Versions \cup {Absent}] : f[Executable] # Absent }
  /\ temp = [c \in Commands |-> Absent]
  /\ pc = [c \in Commands |-> "idle"]
  /\ path = [c \in Commands |-> Executable]
  /\ want = [c \in Commands |-> Absent]
  /\ data = [c \in Commands |-> Absent]
  /\ left = 0 /\ starts = 0 /\ loaded = {}

Go(c, to) == pc' = [pc EXCEPT ![c] = to]
Fail(c) == Go(c, "cleanup")

\* update.Run, or scripts install: the release, or the index entry, and the
\* digest it gives.
Begin(c) ==
  /\ pc[c] = "idle" /\ starts < MaxStarts
  /\ starts' = starts + 1
  /\ \E p \in Paths, v \in Versions :
       path' = [path EXCEPT ![c] = p] /\ want' = [want EXCEPT ![c] = v]
  /\ Go(c, "fetch")
  /\ UNCHANGED <<file, temp, data, left, loaded>>

\* The download: what is wanted, something else, or an error.
Fetch(c) ==
  /\ pc[c] = "fetch"
  /\ \/ \E d \in Versions \cup {Torn} :
          data' = [data EXCEPT ![c] = d] /\ Go(c, "verify")
     \/ Fail(c) /\ UNCHANGED data
  /\ UNCHANGED <<file, temp, path, want, left, starts, loaded>>

\* The digest: of the archive, or of the module.
Unverified(c) == TRUE
Verified(c)   == data[c] = want[c]
Verify(c) ==
  /\ pc[c] = "verify"
  /\ IF Verified(c) THEN Go(c, "create") ELSE Fail(c)
  /\ UNCHANGED <<file, temp, path, want, data, left, starts, loaded>>

\* CreateTemp, in the destination's directory.
Create(c) ==
  /\ pc[c] = "create"
  /\ \/ temp' = [temp EXCEPT ![c] = Torn] /\ Go(c, "write")
     \/ Fail(c) /\ UNCHANGED temp
  /\ UNCHANGED <<file, path, want, data, left, starts, loaded>>

\* Where a command goes when a write came short.
AfterShortWriteOn == "rename"
AfterShortWrite   == "cleanup"

\* Write and Close: all of it, or the disk is full.
Write(c) ==
  /\ pc[c] = "write"
  /\ \/ temp' = [temp EXCEPT ![c] = data[c]] /\ Go(c, "rename")
     \/ Go(c, AfterShortWrite) /\ UNCHANGED temp
  /\ UNCHANGED <<file, path, want, data, left, starts, loaded>>

\* The rename replaces what was there, or fails for want of permission.
Rename(c) ==
  /\ pc[c] = "rename"
  /\ \/ /\ file' = [file EXCEPT ![path[c]] = temp[c]]
        /\ temp' = [temp EXCEPT ![c] = Absent]
     \/ UNCHANGED <<file, temp>>
  /\ Go(c, "cleanup")
  /\ UNCHANGED <<path, want, data, left, starts, loaded>>

\* The deferred Remove of the temporary file, if it is still there.
DropTemp(c) == [temp EXCEPT ![c] = Absent]
Cleanup(c) ==
  /\ pc[c] = "cleanup"
  /\ temp' = DropTemp(c)
  /\ path' = [path EXCEPT ![c] = Executable]
  /\ want' = [want EXCEPT ![c] = Absent] /\ data' = [data EXCEPT ![c] = Absent]
  /\ Go(c, "idle")
  /\ UNCHANGED <<file, left, starts, loaded>>

\* scripts remove: Stat, then Remove; the module may be gone, or new, by then.
BeginRemove(c) ==
  /\ pc[c] = "idle" /\ starts < MaxStarts
  /\ starts' = starts + 1
  /\ \E p \in Modules : path' = [path EXCEPT ![c] = p]
  /\ Go(c, "stat")
  /\ UNCHANGED <<file, temp, want, data, left, loaded>>
Stat(c) ==
  /\ pc[c] = "stat"
  /\ IF file[path[c]] = Absent THEN Fail(c) ELSE Go(c, "remove")
  /\ UNCHANGED <<file, temp, path, want, data, left, starts, loaded>>
Remove(c) ==
  /\ pc[c] = "remove"
  /\ file' \in {file, [file EXCEPT ![path[c]] = Absent]}
  /\ Go(c, "cleanup")
  /\ UNCHANGED <<temp, path, want, data, left, starts, loaded>>

\* The process is killed: nothing deferred runs, its temporary file stays.
Kill(c) ==
  /\ pc[c] # "idle"
  /\ left' = IF temp[c] = Absent THEN left ELSE left + 1
  /\ temp' = [temp EXCEPT ![c] = Absent]
  /\ path' = [path EXCEPT ![c] = Executable]
  /\ want' = [want EXCEPT ![c] = Absent] /\ data' = [data EXCEPT ![c] = Absent]
  /\ Go(c, "idle")
  /\ UNCHANGED <<file, starts, loaded>>

\* A scan starts: the executable is run and the modules, *.wasm, are loaded; a
\* temporary file's name ends otherwise.
Load ==
  /\ loaded' = loaded \cup { file[p] : p \in Paths }
  /\ UNCHANGED <<file, temp, pc, path, want, data, left, starts>>

Install(c) ==
  \/ Begin(c) \/ Fetch(c) \/ Verify(c) \/ Create(c) \/ Write(c) \/ Rename(c)
  \/ Cleanup(c)
Uninstall(c) == BeginRemove(c) \/ Stat(c) \/ Remove(c)

Next ==
  \/ \E c \in Commands : Install(c) \/ Uninstall(c) \/ Kill(c)
  \/ Load

Spec == Init /\ [][Next]_vars

-----------------------------------------------------------------------------
(* Properties *)

\* "A partial write never leaves a half-written module the scanner would try to
\* load" (hub.go:165): however commands interleave, fail and are killed, a scan
\* loads whole, verified contents only.
LoadsWholeFiles == loaded \subseteq Versions \cup {Absent}

\* There is an executable to run at every moment, the old one or the new one, and
\* a file changes hands only for a content whose digest was the one expected.
Whole ==
  \A p \in Paths : file'[p] # file[p] =>
      \/ p \in Modules /\ file'[p] = Absent
      \/ \E c \in Commands : path[c] = p /\ file'[p] = want[c]
ReplacedWhole == [][Whole]_vars

\* Only a command that was killed leaves its temporary file: none that fails does.
NothingLeftBehind ==
  \A c \in Commands : pc[c] = "idle" => temp[c] = Absent
=============================================================================
