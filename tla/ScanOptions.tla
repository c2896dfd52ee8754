----------------------------- MODULE ScanOptions -----------------------------
(***************************************************************************)
(* From a command line to the probes it makes tcpcat send: the separation  *)
(* of flags, values and names (config/options.go for a scan,               *)
(* splitPositional of cmd/tcpcat/policy.go for the audit subcommands), the *)
(* checks and profiles of config/options.go, and the choice of a technique *)
(* for one port (internal/scan/engine.go, runScanWithOptions and below).   *)
(*                                                                         *)
(* The options that are on or off are a set of flags.  A token of a        *)
(* command line is [kind, text]: a "flag", one with its value (-x=v), or a *)
(* "word"; "number" is a word of digits behind a minus sign.               *)
(***************************************************************************)
EXTENDS Integers, Sequences, FiniteSets, SequencesExt

ScanTypes == {"syn", "connect", "ack", "window", "null", "fin", "xmas", "udp"}

-----------------------------------------------------------------------------
(* Command lines.                                                          *)

IsFlag(t) == t.kind \in {"flag", "flag=", "number"}

\* splitPositional: the first word that is not a listed flag's value is the
\* file, wherever it stands.  A flag takes the next token unless that begins
\* with a minus sign.
splitPositional(tokens, flagTakesValue) ==
  LET step(s, t) ==
        CASE ~ IsFlag(t) /\ s.wants     -> [s EXCEPT !.rest = Append(@, t), !.wants = FALSE]
          [] ~ IsFlag(t) /\ ~ s.wants /\ s.file = "" -> [s EXCEPT !.file = t.text]
          [] ~ IsFlag(t) /\ ~ s.wants /\ s.file # "" -> [s EXCEPT !.rest = Append(@, t)]
          [] IsFlag(t) -> [s EXCEPT !.rest = Append(@, t),
                             !.wants = t.kind # "flag=" /\ t.text \in flagTakesValue]
  IN FoldLeft(step, [file |-> "", rest |-> <<>>, wants |-> FALSE], tokens)

\* flag.Parse: a flag of valued takes the next token whatever it is; the
\* first word that is nobody's value ends the flags.
Parse(tokens, valued) ==
  LET step(s, t) ==
        CASE s.ended        -> [s EXCEPT !.args = Append(@, t.text)]
          [] ~ s.ended /\ s.of # "" -> [s EXCEPT !.given = @ \cup {<<s.of, t.text>>}, !.of = ""]
          [] ~ s.ended /\ s.of = "" /\ t.kind = "flag" /\ t.text \in valued
                            -> [s EXCEPT !.of = t.text]
          [] ~ s.ended /\ s.of = "" /\ IsFlag(t) /\ ~ (t.kind = "flag" /\ t.text \in valued)
                            -> [s EXCEPT !.given = @ \cup {<<t.text, t.value>>}]
          [] ~ s.ended /\ s.of = "" /\ ~ IsFlag(t)
                            -> [s EXCEPT !.ended = TRUE, !.args = Append(@, t.text)]
      end == FoldLeft(step, [given |-> {}, of |-> "", ended |-> FALSE, args |-> <<>>], tokens)
  IN [given |-> end.given, args |-> end.args, ok |-> end.of = ""]

\* ParseFlags' own pass: flags first, names after them.  A flag of valueFlags
\* without a value is dropped; a number behind a minus sign is a value.
looksLikeFlagValue(t) == t.kind \in {"word", "number"}
Separate(tokens, valueFlags) ==
  LET settled(s) == [s EXCEPT !.pending = <<>>]
      step(s, t) ==
        IF s.pending # <<>> /\ looksLikeFlagValue(t)
        THEN [settled(s) EXCEPT !.flags = @ \o s.pending \o <<t>>]
        ELSE CASE t.kind = "flag" /\ t.text \in valueFlags -> [s EXCEPT !.pending = <<t>>]
               [] IsFlag(t) /\ ~ (t.kind = "flag" /\ t.text \in valueFlags) ->
                    [settled(s) EXCEPT !.flags = Append(@, t)]
               [] t.kind = "word" -> [settled(s) EXCEPT !.words = Append(@, t)]
      end == FoldLeft(step, [flags |-> <<>>, words |-> <<>>, pending |-> <<>>], tokens)
  IN end.flags \o end.words

\* What subcommands have as value flags, and what flagTakesValue lists.
policyFlags == {"from", "j", "sarif", "rate", "T", "scope-file"}
flagTakesValue == {"from", "j", "sarif", "rate", "T", "scope-file", "out", "key",
                   "pub", "o", "finding"}

Audit(tokens, valued) ==
  LET split == splitPositional(tokens, flagTakesValue)
  IN [file |-> split.file, flags |-> Parse(split.rest, valued)]

-----------------------------------------------------------------------------
(* Checks and profiles.  Options: [flags, timing, rate, workers, batch,    *)
(* retries, ports, topPorts, evasion, profile].                            *)

Unset == ""             \* a name that is not given

Has(o, f) == f \in o.flags
Requires  == { <<"changes", "baseline">>, <<"notify", "baseline">>,
               <<"fingerprints", "services">>, <<"evidence-key", "evidence">> }

\* validateOptions: refused, or with the parts of --deep-inspect turned on.
Valid(o) ==
  /\ o.timing \in 0 .. 5 /\ o.rate >= 0 /\ o.topPorts >= 0
  /\ ~ (o.topPorts > 0 /\ o.ports # Unset)
  /\ \A r \in Requires : Has(o, r[1]) => Has(o, r[2])
  /\ Cardinality(o.flags \cap ScanTypes) <= 1
  /\ o.profile \in {Unset, "safe-production", "ot"}

validateOptions(o) ==
  IF Has(o, "deep-inspect")
  THEN [o EXCEPT !.flags = @ \cup {"hex-dump", "timing-analysis", "protocol-trace"}]
  ELSE o

\* ValidateScanCompatibility.
Compatible(o) ==
  IF Has(o, "connect") THEN [o EXCEPT !.flags = @ \ {"bypass"}] ELSE o

\* ApplyProfile.
Crafted == {"unsafe", "ttl-jitter", "jitter", "fragment", "decoy", "bypass"}
ApplyProfile(o) ==
  CASE o.profile = "safe-production" ->
         [o EXCEPT !.timing = 2, !.rate = 300, !.evasion = "off",
                   !.flags = (@ \ Crafted) \cup {"services"}]
    [] o.profile = "ot" ->
         [o EXCEPT !.timing = 1, !.rate = 5, !.evasion = "off", !.workers = 1,
                   !.batch = 1, !.retries = 1,
                   !.flags = (@ \ (Crafted \cup ScanTypes \cup {"xdp", "deep-inspect"}))
                               \cup {"connect", "services"},
                   !.ports = IF @ = Unset /\ o.topPorts = 0 THEN "industrial" ELSE @]
    [] OTHER -> o

\* What main runs with; only for options that are Valid.
Options(o) == ApplyProfile(Compatible(validateOptions(o)))

-----------------------------------------------------------------------------
(* The probe of one port.  xsk: the AF_XDP engine runs; loopback: the      *)
(* target is; answers[a]: what an attempt finds, an attempt being          *)
(* <<technique, variant>>.                                                 *)

AnyOffLoopback(o, loopback) == ~ loopback
xdpEligible(o, loopback) == ~ Has(o, "connect") /\ ~ loopback

\* runScanWithOptions: -sI goes before the scan types, and the AF_XDP engine
\* before -sI.
Order == <<"idle", "ack", "window", "udp", "syn", "null", "fin", "xmas">>
Technique(o, xsk, loopback) ==
  LET asked == { i \in DOMAIN Order : Has(o, Order[i]) }
      other == o.flags \cap {"ack", "window", "null", "fin", "xmas"}
  IN IF xsk /\ xdpEligible(o, loopback) /\ Has(o, "udp") THEN "xdp-udp"
     ELSE IF xsk /\ xdpEligible(o, loopback) /\ (Has(o, "syn") \/ other = {}) THEN "xdp-syn"
     ELSE IF asked = {} THEN "connect"
     ELSE Order[CHOOSE i \in asked : \A j \in asked : i <= j]

\* dispatchScan and runBypassSequence: what is tried, in order, until one
\* attempt decides.  An ACK that is not filtered leads to a FIN, and no more.
Silent == {"filtered", "open|filtered"}
Decides(try, answers) ==
  IF try = <<"window", "plain">> THEN answers[try] \in {"open", "closed"}
  ELSE answers[try] \notin Silent
UntilDecided(tries, answers) ==
  LET decided == { i \in DOMAIN tries : Decides(tries[i], answers) }
  IN SubSeq(tries, 1, IF decided = {} THEN Len(tries)
                      ELSE CHOOSE i \in decided : \A j \in decided : i <= j)
\* Only the AF_XDP engine cuts its frames: any other technique is tried again as
\* it is.
Cuts(main) == main \in {"xdp-udp", "xdp-syn"}
Disguised(main) == << <<main, IF Cuts(main) THEN "fragmented" ELSE "again">>,
                      <<main, "port-53">>, <<main, "port-80">>, <<main, "port-443">> >>
Bypass(o, main, answers) ==
  LET ack == <<"ack", "plain">>
  IN CASE Has(o, "udp") -> UntilDecided(Disguised(main), answers)
       [] ~ Has(o, "udp") /\ answers[ack] = "unfiltered" -> <<ack, <<"fin", "plain">>>>
       [] ~ Has(o, "udp") /\ answers[ack] # "unfiltered" ->
            <<ack>> \o UntilDecided(Append(Disguised(main), <<"window", "plain">>), answers)

\* The attempts made for a port.
Attempts(o, xsk, loopback, answers) ==
  LET main == Technique(o, xsk, loopback)
      first == <<main, IF Has(o, "fragment") /\ Cuts(main) THEN "fragmented" ELSE "plain">>
  IN IF answers[first] \in Silent /\ Has(o, "bypass")
     THEN <<first>> \o Bypass(o, main, answers) ELSE <<first>>

-----------------------------------------------------------------------------
(* What the documentation promises of all this.                            *)

\* A subcommand's file may stand before or after its flags, each of which has
\* the value it was given: what is parsed is what was written, for a command
\* line of the words in given and a file.
AsWritten(tokens, valued, file, given) ==
  LET got == Audit(tokens, valued)
  IN got.file = file /\ got.flags.ok /\ got.flags.given = given
       /\ got.flags.args = <<>>

\* Of a scan's command line: every flag gets the value that was written after
\* it, every other word is a target, and a flag with none is as good as not
\* written.
TargetsAsWritten(tokens, valued, targets, given) ==
  LET got == Parse(Separate(tokens, valued), valued)
  IN got.ok /\ got.args = targets /\ got.given = given

\* A scan sends what was asked for.  -sT goes through the kernel's stack, no
\* packet crafted; a UDP scan sends no TCP probe; a raw scan type is that
\* type, from the AF_XDP engine or not; and only --smart-bypass, which
\* neither -sT nor a profile leaves on, tries anything else.
SendsAsAsked(given, xsk, loopback, answers) ==
  LET o == Options(given)
      tried == ToSet(Attempts(o, xsk /\ Has(o, "xdp"), loopback, answers))
      techniques == { a[1] : a \in tried }
      asked == o.flags \cap ScanTypes
  IN Valid(given) =>
       /\ Cardinality(asked) <= 1
       /\ asked = {"connect"} /\ ~ Has(o, "idle") => techniques = {"connect"}
       /\ asked = {"udp"} /\ ~ Has(o, "idle") => techniques \subseteq {"udp", "xdp-udp"}
       /\ ~ Has(o, "bypass") => Cardinality(tried) = 1
       /\ ~ Has(o, "bypass") /\ ~ Has(o, "idle") /\ asked # {} =>
            techniques \subseteq asked \cup
              (IF Has(o, "syn") THEN {"xdp-syn"} ELSE IF Has(o, "udp") THEN {"xdp-udp"} ELSE {})
       /\ (\E a \in tried : a[2] = "fragmented") => Has(given, "fragment") \/ Has(o, "bypass")
       /\ o.profile # Unset => o.flags \cap Crafted = {} /\ o.evasion = "off"

\* "ot uses a full TCP connect scan only (never a raw SYN, UDP, or
\* eBPF/AF_XDP scan)" (README.md).
OTConnectsOnly(given, xsk, loopback, answers) ==
  LET o == Options(given)
  IN Valid(given) /\ o.profile = "ot" =>
       \A i \in DOMAIN Attempts(o, xsk /\ Has(o, "xdp"), loopback, answers) :
         Attempts(o, xsk /\ Has(o, "xdp"), loopback, answers)[i][1] = "connect"
=============================================================================
