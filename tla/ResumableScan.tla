--------------------------- MODULE ResumableScan ---------------------------
(***************************************************************************)
(* --resume (internal/scan/checkpoint.go): a scan that appends each result *)
(* to a JSON Lines file through a bufio.Writer, may be interrupted at any  *)
(* moment (the signal handler of main.go calls os.Exit without flushing;   *)
(* a hang-up kills the process), and is run again with the same file.      *)
(*                                                                         *)
(* What a run does between opening and closing the file is the contract    *)
(* of the worker pool, ScanContract.  A file is a sequence of units: a     *)
(* record of job j is Size[j] units of JSON and a newline, so a unit       *)
(* stands for a piece of a line no shorter than what the buffer's edge may *)
(* cut off.  A strict prefix of a JSON object, or two objects on a line,   *)
(* is what json.Unmarshal rejects.                                         *)
(***************************************************************************)
EXTENDS Naturals, Sequences, FiniteSets

CONSTANTS
  Jobs,           \* the address:port pairs of the command, listed once each
  Size,           \* Size[j]: units of the JSON of j's result
  Cap,            \* size of the bufio.Writer's buffer, in units
  MaxRuns,        \* bound: times the command is run
  DiskMayFail     \* a write to the file may fail, cut short

ResumableAssumption ==
  /\ Size \in [Jobs -> Nat \ {0}]
  /\ Cap \in Nat \ {0} /\ MaxRuns \in Nat /\ DiskMayFail \in BOOLEAN

VARIABLES
  skipped,        \* checkpoint.done, the jobs loaded from the file
  reports,        \* reports[j]: results of j collected in this run
  finished,       \* the collector of this run is through
  file,           \* the units on disk
  buf,            \* checkpoint.writer's buffer
  pend,           \* what record() has still to hand to the writer
  werr,           \* the writer's sticky error
  phase,          \* "off", "run", "closed" (cp.close returned), "refused"
  warned,         \* Execute printed "could not flush resume checkpoint"
  runs,           \* runs of the command so far
  produced,       \* history: jobs some run has collected a result of
  ragged,         \* history: some run began with no newline at the file's end
  failed          \* history: some write to the disk has failed

scanVars == <<skipped, reports, finished>>
diskVars == <<file, buf, werr, failed>>
vars == <<scanVars, diskVars, pend, phase, warned, runs, produced, ragged>>

Scan == INSTANCE ScanContract

NL      == <<"newline">>
Data(j) == [i \in 1 .. Size[j] |-> <<j, i>>]
Line(j) == Append(Data(j), NL)

-----------------------------------------------------------------------------
(* Reading the file: bufio.Scanner's lines, the last one with or without   *)
(* its newline, empty ones ignored.                                        *)

LineEnds(f) == { i \in 1 .. Len(f) + 1 : i <= Len(f) => f[i] = NL }
LineTo(f, i) ==
  LET breaks == { k \in 1 .. i - 1 : f[k] = NL } \cup {0}
      begin  == CHOOSE k \in breaks : \A l \in breaks : l <= k
  IN  SubSeq(f, begin + 1, i - 1)
Corrupt(f) == \E i \in LineEnds(f) : /\ LineTo(f, i) # <<>>
                                     /\ \A j \in Jobs : LineTo(f, i) # Data(j)
Copies(f, j) == Cardinality({ i \in LineEnds(f) : LineTo(f, i) = Data(j) })
Recorded(f)  == { j \in Jobs : Copies(f, j) > 0 }
EndsRagged(f) == f # <<>> /\ f[Len(f)] # NL

\* checkpoint.done as openCheckpoint fills it.
LoadedNone == {}
Loaded == Recorded(file)

Init ==
  /\ skipped = {} /\ reports = [j \in Jobs |-> 0] /\ finished = FALSE
  /\ file = <<>> /\ buf = <<>> /\ werr = FALSE /\ failed = FALSE
  /\ pend = <<>> /\ phase = "off" /\ warned = FALSE /\ runs = 0
  /\ produced = {} /\ ragged = FALSE

\* The command starts: openCheckpoint loads the file or refuses it.
Open ==
  /\ phase = "off" /\ runs < MaxRuns
  /\ runs' = runs + 1
  /\ buf' = <<>> /\ pend' = <<>> /\ werr' = FALSE /\ warned' = FALSE
  /\ reports' = [j \in Jobs |-> 0] /\ finished' = FALSE
  /\ IF Corrupt(file) THEN phase' = "refused" /\ UNCHANGED <<skipped, ragged>>
                      ELSE /\ phase' = "run"
                           /\ skipped' = Loaded
                           /\ ragged' = (ragged \/ EndsRagged(file))
  /\ UNCHANGED <<file, failed, produced>>

\* The collector takes a result and starts to record it.
Report(j) ==
  /\ phase = "run" /\ pend = <<>>
  /\ Scan!Report(j)
  /\ pend' = Line(j)
  /\ produced' = produced \cup {j}
  /\ UNCHANGED <<diskVars, phase, warned, runs, ragged>>

\* One write to the file descriptor: all of s, or a part of it and an error.
WriteToDisk(s) ==
  \/ /\ file' = file \o s
     /\ UNCHANGED <<werr, failed>>
  \/ /\ DiskMayFail
     /\ \E n \in 0 .. Len(s) - 1 : file' = file \o SubSeq(s, 1, n)
     /\ werr' = TRUE /\ failed' = TRUE

\* writer.Write(data): while the rest of the data does not fit, top the buffer
\* up and flush it, or, when it is empty, write the rest straight through.
WriteData ==
  /\ phase = "run" /\ Len(pend) > 1 /\ ~werr
  /\ LET data == SubSeq(pend, 1, Len(pend) - 1)
         room == Cap - Len(buf)
     IN  \/ /\ Len(data) <= room
            /\ buf' = buf \o data /\ pend' = <<NL>>
            /\ UNCHANGED <<file, werr, failed>>
         \/ /\ Len(data) > room /\ buf # <<>>
            /\ WriteToDisk(buf \o SubSeq(data, 1, room))
            /\ buf' = <<>>
            /\ pend' = SubSeq(pend, room + 1, Len(pend))
         \/ /\ Len(data) > room /\ buf = <<>>
            /\ WriteToDisk(data)
            /\ pend' = <<NL>> /\ UNCHANGED buf
  /\ UNCHANGED <<scanVars, phase, warned, runs, produced, ragged>>

\* bufio.Writer.Available() > 0
BufferHasByte    == Len(buf) < Cap

\* writer.WriteByte('\n'), which flushes a full buffer first.
WriteNewline ==
  /\ phase = "run" /\ Len(pend) = 1 /\ ~werr
  /\ IF BufferHasByte
       THEN buf' = Append(buf, NL) /\ UNCHANGED <<file, werr, failed>>
       ELSE WriteToDisk(buf) /\ buf' = <<NL>>
  /\ pend' = <<>>
  /\ UNCHANGED <<scanVars, phase, warned, runs, produced, ragged>>

\* After an error the writer accepts nothing more; record ignores that.
WriteDropped ==
  /\ phase = "run" /\ pend # <<>> /\ werr
  /\ pend' = <<>>
  /\ UNCHANGED <<scanVars, diskVars, phase, warned, runs, produced, ragged>>

\* writer.Flush()
FlushForgotten == UNCHANGED <<file, werr, failed>>
FlushBuffer ==
  IF werr \/ buf = <<>> THEN UNCHANGED <<file, werr, failed>>
                        ELSE WriteToDisk(buf)

\* The collector's loop ends and cp.close flushes; its error is printed.
Close ==
  /\ phase = "run" /\ pend = <<>>
  /\ Scan!Finish
  /\ FlushBuffer
  /\ buf' = <<>>
  /\ warned' = werr'
  /\ phase' = "closed"
  /\ UNCHANGED <<pend, runs, produced, ragged>>

\* Ctrl-C, a hang-up, a crash: the process is gone, the file stays.
Interrupt ==
  /\ phase = "run"
  /\ phase' = "off"
  /\ buf' = <<>> /\ pend' = <<>> /\ werr' = FALSE
  /\ UNCHANGED <<scanVars, file, failed, warned, runs, produced, ragged>>

\* The process exits, having returned or been refused.
Exit ==
  /\ phase \in {"closed", "refused"}
  /\ phase' = "off"
  /\ UNCHANGED <<scanVars, diskVars, pend, warned, runs, produced, ragged>>

Record == WriteData \/ WriteNewline \/ WriteDropped
Next == Open \/ (\E j \in Jobs : Report(j)) \/ Record \/ Close
          \/ Interrupt \/ Exit

Spec == Init /\ [][Next]_vars

-----------------------------------------------------------------------------
(* Properties *)

\* Type of the variables.
TypeOK ==
  /\ skipped \subseteq Jobs /\ produced \subseteq Jobs
  /\ reports \in [Jobs -> 0 .. 1]
  /\ Len(buf) <= Cap
  /\ phase \in {"off", "run", "closed", "refused"}
  /\ runs \in 0 .. MaxRuns
  /\ finished \in BOOLEAN /\ werr \in BOOLEAN /\ warned \in BOOLEAN
  /\ ragged \in BOOLEAN /\ failed \in BOOLEAN

\* Whatever the interruptions and the failed writes, a line that parses is the
\* result of a scan some run has made, and no result is there twice: a torn
\* write never passes for a result, and a resumed scan counts none twice.
LoadedIsGenuine ==
  /\ Recorded(file) \subseteq produced
  /\ \A j \in Jobs : Copies(file, j) <= 1

\* A run whose checkpoint was closed without a warning leaves a file that
\* parses, with a result for every job: the error "is surfaced by the caller
\* at close" (checkpoint.go:92-94), never lost on the way.  The exception is
\* a file an interruption cut exactly before a newline.
QuietCloseIsComplete ==
  phase = "closed" /\ ~warned /\ ~ragged
    => ~Corrupt(file) /\ Recorded(file) = Jobs

\* A job whose line an earlier run has written to disk is not scanned again.
NotAgain == \A j \in Jobs : reports'[j] > reports[j] => j \notin Recorded(file)
NoRescan == [][NotAgain]_vars

\* "the same command, re-run with the same --resume file, skips what is
\* already done and finishes the rest" (checkpoint.go:14-15): no interruption
\* leaves a file the next run refuses.
ResumeNeverRefused == phase = "refused" => failed
=============================================================================
