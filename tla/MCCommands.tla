----------------------------- MODULE MCCommands -----------------------------
(* An instance of CommandParts for TLC. *)
EXTENDS CommandParts

\* The addresses of a command are "a" and "b", and "x", an IPv6 one.
Plain ==
  [targets |-> <<"a", "b">>, scope |-> {"none"}, exclude |-> {}, local |-> {},
   skip |-> FALSE, unlimited |-> FALSE, traceroute |-> FALSE,
   pingOnly |-> FALSE, dualStack |-> FALSE, udp |-> FALSE, inspect |-> FALSE,
   services |-> FALSE, baseline |-> FALSE, json |-> FALSE]
SessionCommands ==
  { [Plain EXCEPT !.targets = <<"a", "b", "a">>, !.local = {"a"}, !.scope = {"a", "x"},
                  !.json = TRUE, !.baseline = TRUE],
    [Plain EXCEPT !.targets = <<"a", "b", "a">>, !.local = {"b"}, !.exclude = {"b"},
                  !.traceroute = TRUE],
    [Plain EXCEPT !.targets = <<"a", "b", "b">>, !.unlimited = TRUE,
                  !.pingOnly = TRUE],
    [Plain EXCEPT !.targets = <<"a", "x">>, !.exclude = {"b"}, !.local = {"a"},
                  !.dualStack = TRUE, !.services = TRUE],
    [Plain EXCEPT !.skip = TRUE, !.exclude = {"x"}, !.dualStack = TRUE,
                  !.services = TRUE, !.json = TRUE, !.baseline = TRUE],
    [Plain EXCEPT !.skip = TRUE, !.dualStack = TRUE, !.udp = TRUE,
                  !.inspect = TRUE] }

\* A record that fits the buffer of three units, one as large as it, and one
\* larger than it.
Sizes == [j1 |-> 1, j2 |-> 3, j3 |-> 4]

rule(from, to, ports, allow, require) ==
  [from |-> from, to |-> to, ports |-> ports, allow |-> allow, require |-> require]
ThreePolicies ==
  { [version |-> 1, zones |-> [db |-> <<"h1", "h2">>],
     rules |-> << rule("lan", "db", <<1>>, {1, 2}, <<2>>),
                  rule("wifi", "h1", <<1, 2>>, {}, <<>>) >>],
    [version |-> 1, zones |-> [db |-> <<"h1", "gone">>],
     rules |-> << rule("lan", "db", <<1>>, {1, 2}, <<2>>),
                  rule("lan", "h2", <<1, 2>>, {2}, <<1>>) >>],
    [version |-> 1, zones |-> [db |-> <<"h1">>],
     rules |-> << rule("lan", "db", <<1>>, {1}, <<>>),
                  rule("lan", "h2", <<2>>, {}, <<>>) >>] }

\* One lists a host that does not resolve.
Hosts == [h1 |-> {"h1"}, h2 |-> {"h2"}, gone |-> {}]

found(port, state) == [port |-> port, state |-> state]
\* One port is there twice, as that of an address listed twice.
ThreeResults == {<<found(1, "open"), found(2, "closed"), found(1, "open")>>}
=============================================================================
