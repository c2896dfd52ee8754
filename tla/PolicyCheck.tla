----------------------------- MODULE PolicyCheck -----------------------------
(***************************************************************************)
(* tcpcat policy (internal/policy, cmd/tcpcat/policy.go): a check from one *)
(* vantage scans the targets of each rule that starts there, saves its     *)
(* report and exits with 0, 1 or 2; a matrix merges the reports of several *)
(* vantages.  Rules are scanned one after the other: what the network lets *)
(* through may change between two of them, and between two checks.         *)
(***************************************************************************)
EXTENDS Naturals, Sequences, FiniteSets, SequencesExt

CONSTANTS
  Policies,       \* policy files: [version, zones, rules], see Rule below
  Vantages,       \* the labels of --from
  Resolves,       \* Resolves[entry]: its addresses, {} when it does not resolve
  Scopes,         \* contents of --scope-file (every address without the flag)
  Ports,          \* the ports of the network
  MaxCommands     \* bound: commands run

\* A rule: [from, to, ports, allow, require], the last three port numbers
\* ("ports" a sequence, as ports.ParsePorts gives them, "require" too).
NoReport == "no report"
Running  == 3

VARIABLES
  pc,             \* "idle", "plan" or "scan"
  policy, vantage, scope,   \* of the check that runs
  checks,         \* the Checks of Plan, by the place of their rule in the file
  results,        \* report.Checks, as far as they are scanned, likewise
  reports,        \* reports[v]: the file the check from v writes, -j
  exit,           \* exit status of the last check or matrix, or Running
  commands,       \* history: commands run
  nets,           \* history: the endpoints reachable as each rule was scanned
  truth,          \* history: the verdicts of the runs that wrote reports[v]
  asked           \* history: the vantages the last command was to merge

Endpoints == (UNION { Resolves[e] : e \in DOMAIN Resolves }) \X Ports

vars == <<pc, policy, vantage, scope, checks, results, reports, exit, commands,
          nets, truth, asked>>

-----------------------------------------------------------------------------
\* validate: what Parse refuses.
validate(p) ==
  /\ p.version = 1 /\ p.rules # <<>>
  /\ \A z \in DOMAIN p.zones : p.zones[z] # <<>>
  /\ \A i \in DOMAIN p.rules : p.rules[i].from # "" /\ p.rules[i].to # ""

BaseOnly(base, extra) == ToSet(base)
\* A port a rule requires is probed whether its range has it or not.
mergePorts(base, extra) == ToSet(base) \cup ToSet(extra)

\* A zone, or a literal host when no zone has the name.
Members(p, rule) ==
  IF rule.to \in DOMAIN p.zones THEN p.zones[rule.to] ELSE <<rule.to>>

\* runPolicyCheck's resolve: an entry that does not, or an address that is
\* out of scope, fails the check instead of leaving the entry out.
resolve(entries, within) ==
  LET all == [i \in DOMAIN entries |-> Resolves[entries[i]]]
      ips == UNION ToSet(all)
  IN IF {} \in ToSet(all) \/ ~ ips \subseteq within THEN {} ELSE ips

RulesFrom(p, v) == { i \in DOMAIN p.rules : p.rules[i].from = v }

\* Plan: the rules that start at the vantage, resolved, or no plan.
Plan(p, v, within) ==
  LET check(r) == [rule |-> r, targets |-> resolve(Members(p, r), within),
                   ports |-> mergePorts(r.ports, r.require)]
      plan == [i \in RulesFrom(p, v) |-> check(p.rules[i])]
  IN IF \E i \in DOMAIN plan : plan[i].targets = {} THEN <<>> ELSE plan

\* Evaluate: the violations among the endpoints found open.
Evaluate(c, open) ==
  { <<"unexpected-open", e>> : e \in { o \in open : o[2] \notin c.rule.allow } }
    \cup { <<"required-unreachable", e>> :
             e \in (c.targets \X ToSet(c.rule.require)) \ open }

NewCheckResult(c, open) == IF Evaluate(c, open) = {} THEN "pass" ELSE "fail"

\* Finalize.
Status(rs) == IF \E i \in DOMAIN rs : rs[i] = "fail" THEN "fail" ELSE "pass"

-----------------------------------------------------------------------------
Init ==
  /\ pc = "idle" /\ policy \in Policies /\ vantage \in Vantages /\ scope \in Scopes
  /\ checks = <<>> /\ results = <<>> /\ nets = <<>>
  /\ reports = [v \in Vantages |-> NoReport]
  /\ truth = [v \in Vantages |-> {}]
  /\ exit = Running /\ commands = 0 /\ asked = {}

Exit(status) == pc' = "idle" /\ exit' = status

\* tcpcat policy check <file> --from <vantage>.
Begin(v) ==
  /\ pc = "idle" /\ commands < MaxCommands
  /\ commands' = commands + 1 /\ vantage' = v /\ scope' \in Scopes /\ asked' = {}
  /\ pc' = "plan" /\ exit' = Running
  /\ checks' = <<>> /\ results' = <<>> /\ nets' = <<>>
  /\ UNCHANGED <<policy, reports, truth>>

\* Load and Plan.  No rule from this vantage is an error, not a pass.
PlanChecks ==
  /\ pc = "plan"
  /\ LET plan == Plan(policy, vantage, scope) IN
       IF validate(policy) /\ DOMAIN plan # {}
       THEN pc' = "scan" /\ checks' = plan /\ UNCHANGED exit
       ELSE Exit(2) /\ UNCHANGED checks
  /\ UNCHANGED <<policy, vantage, scope, results, reports, commands, nets, truth, asked>>

\* The next rule: a connect scan of its targets and ports (the pool reports each
\* pair once, see ScanEngine), and the comparison with the rule.
With(f, i, x) == [k \in DOMAIN f \cup {i} |-> IF k = i THEN x ELSE f[k]]
ScanRule(reachable) ==
  /\ pc = "scan"
  /\ \E i \in DOMAIN checks \ DOMAIN results :
       LET open == reachable \cap (checks[i].targets \X checks[i].ports)
       IN  /\ \A k \in DOMAIN checks \ DOMAIN results : i <= k
           /\ results' = With(results, i, NewCheckResult(checks[i], open))
           /\ nets' = With(nets, i, reachable)
  /\ UNCHANGED <<pc, policy, vantage, scope, checks, reports, exit, commands,
                 truth, asked>>

\* History: a rule is kept by what was reachable when it was scanned.
Kept(rule, ips, net) ==
  /\ \A e \in net : e[1] \in ips /\ e[2] \in ToSet(rule.ports) => e[2] \in rule.allow
  /\ \A ip \in ips, port \in ToSet(rule.require) :
       <<ip, port>> \in net /\ port \in rule.allow
AllKept ==
  \A i \in DOMAIN nets :
    LET rule == policy.rules[i] IN
    Kept(rule, UNION { Resolves[e] : e \in ToSet(Members(policy, rule)) }, nets[i])

\* Finalize, and the report of -j.  A file that cannot be written is an
\* error, even when the policy is violated.
Save(written) ==
  /\ pc = "scan" /\ DOMAIN results = DOMAIN checks
  /\ IF written
     THEN /\ reports' = [reports EXCEPT ![vantage] = Status(results)]
          /\ truth' = [truth EXCEPT ![vantage] = {AllKept}]
          /\ Exit(IF Status(results) = "fail" THEN 1 ELSE 0)
     ELSE Exit(2) /\ UNCHANGED <<reports, truth>>
  /\ UNCHANGED <<policy, vantage, scope, checks, results, commands, nets, asked>>

\* tcpcat policy matrix <report>...: a missing report is an error.
Matrix(paths) ==
  /\ pc = "idle" /\ commands < MaxCommands /\ paths # {}
  /\ commands' = commands + 1 /\ asked' = paths
  /\ Exit(IF \E v \in paths : reports[v] = NoReport THEN 2
          ELSE IF \E v \in paths : reports[v] = "fail" THEN 1 ELSE 0)
  /\ checks' = <<>> /\ results' = <<>> /\ nets' = <<>>
  /\ UNCHANGED <<policy, vantage, scope, reports, truth>>

Next ==
  \/ \E v \in Vantages : Begin(v)
  \/ PlanChecks
  \/ \E net \in SUBSET Endpoints : ScanRule(net)
  \/ \E written \in BOOLEAN : Save(written)
  \/ \E paths \in SUBSET Vantages : Matrix(paths)

Spec == Init /\ [][Next]_vars

-----------------------------------------------------------------------------
\* "Exit status: 0 compliant, 1 violation, 2 error": a check that exits with
\* 0 or 1 has looked at every rule of its vantage, at every address of its
\* zone, and 0 says that as each was scanned nothing was reachable that the
\* rule does not allow and everything it requires was; a matrix that exits
\* with 0 or 1 says it of every report it was given.  (A port that a rule
\* requires and does not allow fails the rule open or closed.)
ExitIsTheVerdict ==
  pc = "idle" /\ exit \in {0, 1} =>
    IF asked = {}
    THEN /\ RulesFrom(policy, vantage) # {}
         /\ DOMAIN nets = RulesFrom(policy, vantage)
         /\ exit = 0 <=> AllKept
    ELSE exit = 0 <=> \A v \in asked : truth[v] = {TRUE}
=============================================================================
