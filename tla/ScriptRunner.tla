---------------------------- MODULE ScriptRunner ----------------------------
(***************************************************************************)
(* The scripts of a scan: the loop over the sorted results at the end of   *)
(* ScanEngine.Run (internal/scan/engine.go) and ScriptingEngine.RunAll     *)
(* (internal/scripting/engine.go), which runs every loaded script on an    *)
(* open port in a goroutine of its own and collects what they say through  *)
(* a channel it closes once all have ended.  What a script computes is its *)
(* own; what it may reach is the one address of its run, MaxProbes times.  *)
(* A script is taken to end: nothing stops one that does not.              *)
(***************************************************************************)
EXTENDS Naturals, Sequences, FiniteSets, SequencesExt

CONSTANTS
  Scripts,        \* the names of the loaded scripts
  AllResults,     \* sequences of [port, state], the sorted results of a scan
  MaxProbes       \* maxProbesPerRun: 4

ScriptAssumption ==
  /\ IsFiniteSet(Scripts) /\ Scripts # {} /\ MaxProbes \in Nat
  /\ AllResults \subseteq Seq([port : Nat, state : STRING])

VARIABLES
  phase,          \* main: "loop", "running" or "over"
  results,        \* allResults
  flags,          \* of "only open" and "quiet", those given
  at,             \* results gone through
  finalResults,   \* sequence of [port, state, scripts]
  pc,             \* pc[s]: "none", "run", "ended" or "done" (wg.Done)
  resultsChan,    \* sequence of [script, says]
  open,           \* is resultsChan open?
  probes,         \* probes[s]: probes of s's present run
  asked,          \* history: [of, nth] of every probe, of the result it is for
  said,           \* history: [script, of, says] of every run that ended
  panicked        \* history: was there a send on the closed channel?

vars == <<phase, results, flags, at, finalResults, pc, resultsChan, open, probes,
          asked, said, panicked>>

\* What a run gives: an output, which says on which port it was computed; an
\* empty one, as that of an error or of a panic, which is recovered; nothing.
Outcomes(port) == [kind : {"output", "empty", "nothing"}, of : {port}]
Silent(says) == says.kind = "nothing"

Init ==
  /\ phase = "loop"
  /\ results \in AllResults
  /\ flags \in SUBSET {"only open", "quiet"}
  /\ at = 0 /\ finalResults = <<>>
  /\ pc = [s \in Scripts |-> "none"]
  /\ resultsChan = <<>> /\ open = FALSE
  /\ probes = [s \in Scripts |-> 0]
  /\ asked = {} /\ said = {} /\ panicked = FALSE

res == results[at + 1]
Kept(r) == r.state = "open" \/ "only open" \notin flags

\* A quiet scan goes on before its scripts are run.
Examined(r) == r.state = "open" /\ "quiet" \notin flags

\* The next result is kept, unless only open ones are, and examined; RunAll
\* starts a goroutine for each script.
NextResult ==
  /\ phase = "loop" /\ at < Len(results)
  /\ finalResults' =
       IF Kept(res) THEN Append(finalResults, [port |-> res.port, state |-> res.state,
                                               scripts |-> {}])
                    ELSE finalResults
  /\ IF Examined(res)
       THEN /\ phase' = "running" /\ at' = at
            /\ pc' = [s \in Scripts |-> "run"]
            /\ probes' = [s \in Scripts |-> 0]
            /\ resultsChan' = <<>> /\ open' = TRUE
       ELSE /\ at' = at + 1
            /\ UNCHANGED <<phase, pc, probes, resultsChan, open>>
  /\ UNCHANGED <<results, flags, asked, said, panicked>>

\* hostProbe: beyond its budget a script gets an error and reaches nothing.
Probe(s) ==
  /\ pc[s] = "run" /\ probes[s] < MaxProbes
  /\ probes' = [probes EXCEPT ![s] = @ + 1]
  /\ asked' = asked \cup {[of |-> at + 1, nth |-> probes'[s]]}
  /\ UNCHANGED <<phase, results, flags, at, finalResults, pc, resultsChan, open,
                 said, panicked>>

\* A run ends and its goroutine says how, if there is anything to say, before
\* the deferred wg.Done: the recover was deferred after it, and runs first.
Finish(s) ==
  /\ pc[s] = "run"
  /\ \E says \in Outcomes(res.port) :
       /\ Silent(says) \/ Len(resultsChan) < Cardinality(Scripts)
       /\ resultsChan' = IF Silent(says) \/ ~ open THEN resultsChan
                         ELSE Append(resultsChan, [script |-> s, says |-> says])
       /\ panicked' = (panicked \/ (~ Silent(says) /\ ~ open))
       /\ said' = said \cup {[script |-> s, of |-> at + 1, says |-> says]}
  /\ pc' = [pc EXCEPT ![s] = "ended"]
  /\ UNCHANGED <<phase, results, flags, at, finalResults, open, probes, asked>>

Done(s) ==
  /\ pc[s] = "ended"
  /\ pc' = [pc EXCEPT ![s] = "done"]
  /\ UNCHANGED <<phase, results, flags, at, finalResults, resultsChan, open,
                 probes, asked, said, panicked>>

AllDone == \A s \in Scripts : pc[s] = "done"

\* After wg.Wait the channel is closed and emptied; the outputs that say
\* something are put on the last result kept.
Collect ==
  /\ phase = "running" /\ AllDone
  /\ LET outputs == { m \in ToSet(resultsChan) : m.says.kind = "output" }
     IN finalResults' = [finalResults EXCEPT ![Len(finalResults)].scripts = outputs]
  /\ resultsChan' = <<>> /\ open' = FALSE
  /\ at' = at + 1 /\ phase' = "loop"
  /\ UNCHANGED <<results, flags, pc, probes, asked, said, panicked>>

Return ==
  /\ phase = "loop" /\ at = Len(results)
  /\ phase' = "over"
  /\ UNCHANGED <<results, flags, at, finalResults, pc, resultsChan, open, probes,
                 asked, said, panicked>>

Main == NextResult \/ Collect \/ Return
Goroutine == \E s \in Scripts : Finish(s) \/ Done(s)
Next == Main \/ Goroutine \/ \E s \in Scripts : Probe(s)

SafetySpec == Init /\ [][Next]_vars

\* The loop goes on, and a script ends (see above).
Spec == SafetySpec /\ WF_vars(Main) /\ WF_vars(Goroutine)

-----------------------------------------------------------------------------
(* Properties *)

\* The results that are kept, which of them one is, and what the scripts said
\* when they ran on it.
Shown == { i \in DOMAIN results : Kept(results[i]) }
Rank(i) == Cardinality({ k \in Shown : k <= i })
Outputs(i) == { [script |-> p.script, says |-> p.says] : p \in
                { q \in said : q.of = i /\ q.says.kind = "output" } }

\* However the goroutines of a run interleave and end, the results are those of
\* the scan in its order, each with exactly what the scripts said when they ran
\* on it, though a port may be there twice; every script ran on every open port
\* that was shown and on no other, none made more than MaxProbes probes in a
\* run, and none sent to a channel closed before (scan/engine.go:351-420,
\* scripting/engine.go:144-182).
ScriptsOnTheirResult ==
  /\ ~ panicked
  /\ \A i \in Shown : Rank(i) <= Len(finalResults) =>
       LET r == finalResults[Rank(i)]
       IN  /\ r.port = results[i].port /\ r.state = results[i].state
           /\ r.scripts = Outputs(i) \/ (phase = "running" /\ i = at + 1)
  /\ \A q \in asked : q.nth <= MaxProbes /\ Examined(results[q.of])
  /\ phase = "over" =>
       /\ Len(finalResults) = Cardinality(Shown)
       /\ { <<p.script, p.of>> : p \in said }
            = Scripts \X { i \in DOMAIN results : Examined(results[i]) }

\* The results of a scan are returned, whatever its scripts end with.
ScriptsReturn == phase # "over" ~> phase = "over"
=============================================================================
