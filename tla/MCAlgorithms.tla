---------------------------- MODULE MCAlgorithms ----------------------------
(* An instance of AlgorithmParts for TLC, and more algorithms, on every      *)
(* input of small families: one state an input, chosen in the first step.    *)
EXTENDS AlgorithmParts, SequencesExt

SeqsUpTo(set, k) == UNION { [1 .. l -> set] : l \in 0 .. k }

-----------------------------------------------------------------------------
(* Services.                                                               *)

Greeters ==
       << [name |-> "proftpd", captures |-> TRUE,  binary |-> FALSE],
          [name |-> "openssh", captures |-> TRUE,  binary |-> FALSE],
          [name |-> "telnet",  captures |-> FALSE, binary |-> TRUE] >>

greeting(starts, matches, says, version) ==
  [starts |-> starts, matches |-> matches, says |-> says, version |-> version,
   os |-> says \cap {"ubuntu", "debian"}, kexinit |-> Failed]
Greetings ==
  { greeting("220", {}, {"ftp"}, ""), greeting("220", {1}, {"ftp"}, "1.3"),
    greeting("220", {}, {}, ""), greeting("+OK", {}, {}, ""), greeting("*OK", {}, {}, ""),
    greeting("RFB", {}, {}, "003.008"), greeting("MySQL", {}, {}, "8.0"),
    greeting("IAC", {3}, {}, ""), greeting("other", {}, {}, "9"),
    greeting("SSH-", {}, {"1.x"}, ""), greeting("SSH-", {}, {"OpenSSH", "ubuntu"}, "9.6"),
    [greeting("SSH-", {2}, {"OpenSSH", "ubuntu", "debian"}, "9.6") EXCEPT !.kexinit =
       [k \in {"kex", "host-key", "cipher", "MAC"} |-> IF k = "kex" THEN {"sha1"} ELSE {"good"}]] }

cert(id, hours) == [id |-> id, hoursLeft |-> hours, issuer |-> "ca", subject |-> "h1",
                    names |-> {"h1"}]
Hours == {-49, -1, 0, 1, 47, 48, 49, 335, 336, 337, 360}
tls(version, accepts, certs) ==
  [version |-> version, accepts |-> accepts, cipher |-> "good", group |-> "classical",
   certs |-> certs]
TLSServers ==
  { tls(13, {12, 13}, <<cert("k1", 400)>>), tls(13, {10, 13}, <<cert("k2", 40)>>),
    tls(10, {10}, << [cert("k3", -1) EXCEPT !.issuer = "h1"] >>), tls(12, {12}, <<>>),
    [tls(12, {12}, <<cert("k1", 400), cert("k2", 40)>>) EXCEPT !.cipher = "insecure"] }

header(software, version) == [software |-> software, version |-> version, os |-> {"ubuntu"}]
page(secure, http1, server, body) ==
  [tls |-> secure, http1 |-> http1, server |-> server, body |-> body,
   headers |-> {"X-Frame-Options"},
   paths |-> [env |-> [status |-> 200, signed |-> http1], git |-> [status |-> 404, signed |-> TRUE]]]
Pages(secure) == { page(secure, http1, server, body) : http1 \in BOOLEAN,
                     server \in {Failed, header("nginx", "1.24"), header("", "")},
                     body \in {Failed, header("apache", "2.4")} }

reply(got, head, value, code) ==
  [n |-> got, head |-> head, value |-> value, code |-> code, smb1 |-> code = 2]
ReplyOf(port) ==
  CASE port = 6379  -> { reply(got, h, "7.0", 0) : got \in {0, 99}, h \in {"$", "-", "HTTP"} }
    [] port = 11211 -> { reply(20, h, "1.6", 0) : h \in {"VERSION", "ERROR"} }
    [] port = 5432  -> { reply(1, h, "", 0) : h \in {"S", "N", "E"} }
    [] port = 445   -> { reply(got, h, v, k) : got \in {73, 74}, h \in {"SMB2", "SMB1"},
                           v \in {"", "SMB 2.1"}, k \in 0 .. 3 }
    [] port = 3389  -> { reply(got, "TPKT", v, 0) : got \in {3, 18, 19}, v \in {"", "TLS"} }
    [] port = 1883  -> { reply(got, "CONNACK", "", k) : got \in {1, 3, 4}, k \in {0, 5} }
    [] OTHER -> {}

object(id, len, text) == [id |-> id, len |-> len, text |-> text]
OTReplyOf(port) ==
  CASE port = 502 ->
         { [n |-> got, protocol |-> 0, declared |-> d, exception |-> x, count |-> k,
            objects |-> os] :
             got \in {7, 12, 13, 14, 30}, d \in {1, 7, 24}, x \in BOOLEAN, k \in 0 .. 3,
             os \in { <<object(1, 4, "V")>>, <<object(1, 4, ""), object(3, 8, "2.1")>>,
                      <<object(1, 30, "V")>> } }
    [] port = 44818 ->
         { [n |-> got, status |-> s, item |-> "identity", nameLen |-> l, product |-> "P",
            version |-> "20.1"] : got \in {62, 63, 66, 67}, s \in {0, 1}, l \in {0, 4} }

silent(port) ==
  [ip |-> "10.0.0.1", port |-> port, accepts |-> TRUE, ot |-> Failed, tls |-> Failed,
   trusted |-> TRUE, alpn |-> "", page |-> Failed, greeting |-> Failed, reply |-> Failed]

OpenPorts ==
  { [silent(p) EXCEPT !.greeting = g, !.tls = t] :
      p \in {22, 80, 995, 6379}, g \in Greetings, t \in TLSServers \cup {Failed} }
    \cup UNION { { [silent(p) EXCEPT !.page = g, !.tls = t, !.trusted = v, !.alpn = alpn,
                                      !.accepts = v \/ alpn = "h2"] :
                      p \in {80, 443, 8888}, g \in Pages(t # Failed) \cup {Failed},
                      v \in BOOLEAN, alpn \in {"", "h2", "http/1.1"} } :
                  t \in TLSServers \cup {Failed} }
    \cup { [silent(p) EXCEPT !.reply = r, !.tls = t] :
             p \in {6379, 11211, 5432, 445, 3389, 1883}, t \in {Failed, tls(12, {12}, <<>>)},
             r \in UNION { ReplyOf(q) : q \in {6379, 11211, 5432, 445, 3389, 1883} } }
    \cup UNION { { [silent(p) EXCEPT !.ot = r] : r \in OTReplyOf(p) } : p \in {502, 44818} }

Shown == { [silent(p) EXCEPT !.ip = i, !.tls = t] :
             p \in {443, 9000}, i \in {"10.0.0.1", "10.0.0.2"},
             t \in { Failed, tls(13, {13}, <<cert("k1", 400)>>), tls(13, {13}, <<cert("k2", 9)>>),
                     tls(12, {12}, <<>>) } }

SomeServices ==
  { [of |-> "service", server |-> s, o |-> [hostname |-> "h1", insecure |-> x, jarm |-> j,
                                            otProbe |-> s.port \in {502, 44818}]] :
      s \in OpenPorts, x \in BOOLEAN, j \in BOOLEAN }
    \cup { [of |-> "certificates", one |-> cert("k1", h), other |-> cert("k2", k),
            servers |-> <<>>, o |-> [hostname |-> "h1", jarm |-> TRUE, otProbe |-> FALSE]] :
            h \in Hours, k \in Hours }
    \cup [of : {"certificates"}, one : {cert("k1", 0)}, other : {cert("k2", 0)},
          servers : UNION { [1 .. l -> Shown] : l \in 0 .. 3 },
          o : [hostname : {"h1"}, jarm : BOOLEAN, otProbe : BOOLEAN]]

\* A device that gives --ot-probe nothing it can use is reported as it is
\* without --ot-probe (ot_probe.go:25-27).
OTFallsBack ==
  about = "service" /\ input.of = "service" => Detect!OTFallsBack(input.server, input.o)

-----------------------------------------------------------------------------
(* Fingerprints.                                                           *)

signature(ttl, wscale, sack, ts, order) ==
  [ttl |-> ttl, mss |-> 1460, wscale |-> wscale, sack |-> sack, ts |-> ts, order |-> order]
F == INSTANCE Fingerprints WITH Silent <- Failed, Ciphers <- <<4, 5, 7>>, Known <-
       << [name |-> "Linux 3.x-6.x", sig |-> signature(64, 7, TRUE, TRUE, <<2, 4, 8, 1, 3>>)],
          [name |-> "Windows 10/11", sig |-> signature(128, 8, TRUE, FALSE, <<2, 1, 3, 1, 1, 4>>)],
          [name |-> "macOS / BSD", sig |-> signature(64, 6, TRUE, TRUE, <<2, 4, 8, 1, 3>>)],
          [name |-> "Cisco IOS", sig |-> signature(255, -1, FALSE, FALSE, <<2>>)] >>

ext(type, len) == [type |-> type, len |-> len, alpn |-> IF type = 16 THEN "h2" ELSE ""]
hello(got, cipher, exts) ==
  [n |-> got, kind |-> "ServerHello", session |-> 2, cipher |-> cipher, version |-> 3,
   length |-> 90, declared |-> FoldLeft(LAMBDA d, e : d + 4 + e.len, 0, exts), exts |-> exts,
   marked |-> FALSE]
Hellos == { hello(got, k, es) : got \in {45, 48, 54, 55, 58, 60, 63, 99}, k \in {5, 6},
              es \in { <<>>, <<ext(43, 2)>>, <<ext(0, 0), ext(16, 5)>>, <<ext(16, 5), ext(43, 2)>> } }
            \cup {[hello(99, 5, <<>>) EXCEPT !.kind = "alert"], Failed,
                  [hello(99, 5, <<ext(43, 2)>>) EXCEPT !.marked = TRUE]}

Options == { <<1>>, <<2, 4, 5, 180>>, <<3, 3, 7>>, <<3, 3, 255>>, <<4, 2>>,
             <<8, 4, 0, 0>>, <<0>>, <<2>>, <<5, 1>> }

banner(tokens) == [i \in DOMAIN tokens |-> [class |-> tokens[i], text |-> tokens[i]]]
Banners == { banner(<<"acme", "ver", "ver">>), banner(<<"acme", "got">>), <<>> }
Rows == [ip : 1 .. 2, port : {7, 9}, state : {"open"}, service : {"unknown", "smtp"},
         banner : Banners]

Fingerprinted ==
  { [of |-> "jarm", answers |-> <<h, b>>, items |-> [i \in 1 .. k |-> i]] :
      h \in Hellos, b \in { hello(99, 5, <<>>), Failed }, k \in 1 .. 9 }
    \cup [of : {"tcp options"}, options : UNION { [1 .. l -> Options] : l \in 0 .. 3 },
          kept : {3, 6, 40}]
    \cup { [of |-> "stack", ttl |-> t, opt |-> F!Bytes(os)] : t \in {2, 64, 65, 250},
             os \in { p \in [1 .. 3 -> Options] : p[1][1] > 1 /\ p[2][1] > 0 } }
    \cup [of : {"banners"},
          results : [1 .. 2 -> Rows] \cup
                      [1 .. 3 -> { r \in Rows : r.port = 7 /\ r.service = "unknown" }]]

\* A stack's fingerprint is of the whole of what the port answered, the guess
\* at a system the best fit there is, and the unrecognised banners cluster the
\* same way on every run (service/jarm.go, osdetect/fingerprint.go,
\* fingerprint/cluster.go).
FingerprintsFit ==
  CASE about # "other" -> TRUE
    [] input.of = "jarm" -> F!OffersEach(input.items) /\ F!WholeOrNothing(input.answers)
    [] input.of = "tcp options" -> F!OptionsAsSent(input.options, input.kept)
    [] input.of = "stack" -> F!BestFit(input.ttl, input.opt)
    [] input.of = "banners" ->
         LET templates == { F!Normalize(r.banner) :
                              r \in { q \in ToSet(input.results) : F!isUnrecognized(q) } }
         IN F!ClustersFixed(input.results, templates, [t \in templates |-> Len(t)])
    [] OTHER -> TRUE

-----------------------------------------------------------------------------
(* Vulnerabilities.                                                        *)

digits(k)  == <<1, k>>
letters(k) == <<2, k>>
Versions == SeqsUpTo({ digits(0), digits(1), digits(10), letters(1) }, 2)
Few      == { <<digits(1)>>, <<digits(2)>>, <<digits(2), digits(1)>> }
Boundaries == { <<digits(1)>>, <<digits(2)>>, <<digits(3)>> }
Events == { [introduced |-> b, fixed |-> <<>>] : b \in Boundaries }
            \cup { [introduced |-> <<>>, fixed |-> b] : b \in Boundaries }

affects(version) == << [versions |-> {version}, ranges |-> <<>>] >>
since(version)   == << [versions |-> {}, ranges |-> << [type |-> "SEMVER",
  events |-> << [introduced |-> version, fixed |-> <<>>] >>] >>] >>
entry(id, feed, cves, title, scores, affected) ==
  [id |-> id, feed |-> feed, cves |-> cves, title |-> title, scores |-> scores,
   affected |-> affected]
FeedEntries ==
  { entry("cve1", "CVE", <<"cve1">>, "", <<0, 55>>, <<>>),
    entry("ghsa1", "GHSA", <<"cve1">>, "windows", <<75>>, since(<<digits(2)>>)),
    entry("dsa1", "DEBIAN", <<"cve1", "cve2">>, "", <<0>>, affects(<<digits(2)>>)),
    entry("cve2", "CVE", <<"cve2">>, "wsrep", <<95, 30>>, since(<<digits(1)>>)),
    entry("ghsa2", "GHSA", <<>>, "", <<60>>, <<>>) }

row(id, feed, title, cvss) ==
  [id |-> id, feed |-> feed, title |-> title, cvss |-> cvss, confidence |-> ""]
FoundRows == { row("cve1", "CVE", "", 40), row("cve2", "CVE", "windows", 95),
               row("cve3", "CVE", "wsrep", 75), row("dsa1", "DEBIAN", "", 80) }
Ports == [os : {"debian", "windows", "unknown"}, version : { <<>>, <<digits(1)>> },
          suffix : BOOLEAN, software : {"db"}]
Stated == { <<>>, << row("cve1", "CVE", "", 40), row("dsa1", "DEBIAN", "", 80) >> }
Answers == [upstream : SeqsUpTo(FoundRows, 2) \cup {Failed}, distro : Stated \cup {Failed},
            room : {TRUE}]

\* Two or three ports of one software or of two, each refined or not; of one row
\* the file says itself that it is confirmed.
Databases ==
  { [db |-> << row("cve1", "CVE", "", 40), row("cve2", "CVE", "windows", 95) >>,
     web |-> << [row("cve3", "CVE", "wsrep", 75) EXCEPT !.confidence =
                   "distro-backport-confirmed"] >>],
    [db |-> << row("cve1", "CVE", "", 40) >>, web |-> <<>>] }
InTurn == [os : {"debian"}, version : { <<digits(1)>> }, suffix : BOOLEAN,
           software : {"db", "web"}]
TurnAnswers ==
  [upstream : { <<>>, Failed }, room : BOOLEAN,
   distro : {Failed, << row("cve1", "CVE", "", 40) >>,
             << row("cve1", "CVE", "", 40), row("dsa1", "DEBIAN", "", 80) >> }]

Intel == [kev : { {}, {"cve1"}, {"cve2", "cve3"} },
          epss : { <<>>, [cve1 |-> 10, cve3 |-> 90] }]

LookedUp ==
  [of : {"order"}, u : Versions, v : Versions, w : Versions]
    \cup [of : {"window"}, v : Few, events : SeqsUpTo(Events, 3)]
    \cup [of : {"feed"}, entries : SeqsUpTo(FeedEntries, 3),
          version : { <<digits(1)>>, <<digits(2)>> }]
    \cup [of : {"ports"}, ports : [1 .. 1 -> Ports], answers : [1 .. 1 -> Answers],
          db : Databases \cup {Failed}]
    \cup [of : {"ports"}, ports : [1 .. 2 -> InTurn], answers : [1 .. 2 -> TurnAnswers],
          db : Databases]
    \cup [of : {"ports"}, ports : [1 .. 3 -> { p \in InTurn : p.software = "db" }],
          answers : [1 .. 3 -> { q \in TurnAnswers : q.upstream = Failed /\ q.room }],
          db : Databases]
    \cup [of : {"ranks"}, rows : SeqsUpTo(FoundRows, 3), intel : Intel, size : 1 .. 2]

-----------------------------------------------------------------------------
(* Reports of what became reachable.                                       *)

\* Up to two ports, each once; or the one port, given twice.
Found(port, vulns) == [ip : {"192.0.2.1"}, port : {port}, state : {"open", "closed"},
                       service : {"a", "b"}, vulns : vulns]
Scans ==
  SeqsUpTo(Found(22, {{}, {"v"}}), 1)
    \cup { <<q, r>> : q \in Found(22, {{}, {"v"}}), r \in Found(80, {{}, {"v"}}) }
Doubled ==
  { <<q, r>> : q, r \in Found(22, {{}, {"v"}}) }
    \cup { <<q, r, t>> : q, t \in Found(22, {{}}), r \in Found(80, {{}}) }

Listeners == [port : {22, 80}, address : {X!Any4, X!Any6, X!Loopback, "10.0.0.1"},
              owner : {"p", X!Nobody}]
Narrow == { l \in Listeners : l.owner = "p" /\ l.address # X!Any6 }

Inventories ==
  [addresses : { <<"10.0.0.1">>, <<"2001:db8::1", "10.0.0.1", "192.0.2.1">> },
   listeners : SeqsUpTo({ l \in Listeners : l.owner = "p" }, 1)
                 \cup { << [port |-> 22, address |-> X!Loopback, owner |-> "p"],
                           [port |-> 80, address |-> X!Any4, owner |-> "p"] >> },
   services : { {}, { [port |-> 80, nodePort |-> 22, type |-> "NodePort"] },
                { [port |-> 80, nodePort |-> 0, type |-> "LoadBalancer"] } }]

Changes ==
  [of : {"compare"}, current : Scans, baseline : Scans]
    \cup [of : {"compare"}, current : Doubled,
          baseline : SeqsUpTo(Found(22, {{}, {"v"}}), 1) \cup Doubled]
    \cup [of : {"drift"}, before : SeqsUpTo(Narrow, 2), after : SeqsUpTo(Listeners, 2)]
    \cup [of : {"explain"}, inv : Inventories, given : {"", "10.0.0.1"},
          here : { {}, {"192.0.2.1"} }, extra : { {} }, expected : SUBSET {22, 80},
          states : [{1, 2, 22, 80, 9} -> {"open", "filtered"}], interposed : BOOLEAN]

-----------------------------------------------------------------------------
(* Command lines and options.                                              *)

flag(f)      == [kind |-> "flag", text |-> f, value |-> "on"]
flagIs(f, v) == [kind |-> "flag=", text |-> f, value |-> v]
word(w)      == [kind |-> "word", text |-> w, value |-> ""]
number(w)    == [kind |-> "number", text |-> w, value |-> "on"]

\* What a user may write, with what is meant by it: a flag with its value, a
\* flag that has none, a name.
Phrases ==
  { [tokens |-> <<flag("rate"), word("9")>>, given |-> {<<"rate", "9">>}, names |-> <<>>],
    [tokens |-> <<flag("p"), number("-80")>>, given |-> {<<"p", "-80">>}, names |-> <<>>],
    [tokens |-> <<flagIs("T", "4")>>, given |-> {<<"T", "4">>}, names |-> <<>>],
    [tokens |-> <<flag("sS")>>, given |-> {<<"sS", "on">>}, names |-> <<>>],
    [tokens |-> <<word("h1")>>, given |-> {}, names |-> <<"h1">>],
    [tokens |-> <<word("h2")>>, given |-> {}, names |-> <<"h2">>] }
Orders == { ps \in SeqsUpTo(Phrases, 4) : IsInjective(ps) }
TokensOf(ps) == FlattenSeq([i \in DOMAIN ps |-> ps[i].tokens])
GivenBy(ps)  == UNION { ps[i].given : i \in DOMAIN ps }
NamesOf(ps)  == FlattenSeq([i \in DOMAIN ps |-> ps[i].names])

Attempted == {"connect", "idle", "ack", "window", "udp", "syn", "null", "fin", "xmas",
              "xdp-udp", "xdp-syn"}
               \X {"plain", "fragmented", "again", "port-53", "port-80", "port-443"}
AllSay(s) == [at \in Attempted |-> s]
Replies ==
  { AllSay("open"), AllSay("filtered"), AllSay("open|filtered"),
    [AllSay("filtered") EXCEPT ![<<"ack", "plain">>] = "unfiltered"],
    [AllSay("filtered") EXCEPT ![<<"syn", "port-53">>] = "closed",
                               ![<<"udp", "port-53">>] = "open"],
    [AllSay("filtered") EXCEPT ![<<"window", "plain">>] = "open"] }

SomeOptions ==
  { [flags |-> fs, timing |-> 3, rate |-> 0, workers |-> 9, batch |-> 9, retries |-> 3,
     ports |-> "", topPorts |-> 0, evasion |-> "low", profile |-> p] :
      fs \in { f \cup {"services"} : f \in SUBSET {"syn", "connect", "udp", "fin", "idle",
                  "xdp", "bypass", "fragment", "deep-inspect"} },
      p \in {"", "safe-production", "ot"} }

Tries == [given : SomeOptions, xsk : BOOLEAN, loopback : BOOLEAN, answers : Replies]

\* The payloads of TCP and UDP probes and more, under headers whose words sum to
\* few carries and to many, and to one that carries again.
Datagrams == [size : 1 .. 41, mtu : {8, 9, 16, 20},
           header : { [j \in 1 .. 10 |-> k] : k \in {0, 1, 6553, 6554, 65535} }
                      \cup { <<17664, 40, 54321, 16384, 16390, 0, w, 257, 10, z>> :
                             w \in {0, 34207, 65535}, z \in {2, 65534} }]

CommandLines == [of : {"line"}, phrases : Orders]

\* "ot uses a full TCP connect scan only (never a raw SYN, UDP, or
\* eBPF/AF_XDP scan)" (README.md:310).
OTConnectsOnly ==
  about = "decision" =>
    O!OTConnectsOnly(input.given, input.xsk, input.loopback, input.answers)

-----------------------------------------------------------------------------
(* Targets, scope and ports: addresses of two octets of two bits.          *)

v6 == <<9, 9, 9>>
cidr(base, ones) == [kind |-> "cidr", base |-> base, ones |-> ones]
range(from, to)  == [kind |-> "range", from |-> from, to |-> to]
octets(prefix, from, to) ==
  [kind |-> "octets", prefix |-> <<prefix>>, from |-> from, to |-> to]
literal(ip)      == [kind |-> "literal", ip |-> ip]
dual    == [kind |-> "name", a |-> << <<0, 1>>, <<1, 2>> >>, aaaa |-> <<v6>>]
other   == [kind |-> "name", a |-> << <<1, 2>> >>, aaaa |-> <<>>]
v6only  == [kind |-> "name", a |-> <<>>, aaaa |-> <<v6>>]
unknown == [kind |-> "name", a |-> <<>>, aaaa |-> <<>>]

Targets ==
  { cidr(base, ones) : base \in T!Addr4, ones \in 0 .. 4 }
    \cup { range(from, to) : from \in T!Addr4, to \in T!Addr4 }
    \cup { octets(0, from, to) : from \in 0 .. 3, to \in 0 .. 3 }
    \cup { literal(ip) : ip \in T!Addr4 \cup {v6} }
    \cup { dual, other, v6only, unknown }

Given   == { <<dual, other>>, <<cidr(<<0, 1>>, 2), other>>, <<v6only, octets(1, 1, 3)>> }
Entries == { cidr(<<0, 2>>, 3), cidr(<<1, 0>>, 1), octets(1, 2, 3), literal(v6),
             literal(<<0, 1>>), dual, unknown }

Parts == { [from |-> f, to |-> t] : f \in {0, 1, 3, 4}, t \in {2, 4, 6} }

Expansions ==
  [of : {"target"}, target : Targets]
    \cup [of : {"authorized"}, targets : Given, scope : SeqsUpTo(Entries, 2),
          excluded : SeqsUpTo(Entries, 2)]
    \cup [of : {"ports"}, parts : SeqsUpTo(Parts, 2), top : {0, 2, 9}]

RandomOrders == UNION { T!Generators(size, Word) : size \in {1, 2, 4, 8} }

\* Every target becomes exactly the addresses it denotes, once each
\* (parser.go); what is authorized is exactly what an entry of the scope names
\* and no exclusion that could be resolved does, each under the first name
\* that led to it (scope.go, generator.go); the ports are those of the parts,
\* ascending and once each (ports/parser.go).  Every order of flags, values and
\* names of a command line says the same (options.go:265-370,
\* cmd/policy.go:206-248).
ExpansionExact ==
  CASE about # "other" -> TRUE
    [] input.of = "target" -> T!Proper(input.target) => T!ExpandsToDenoted(input.target)
    [] input.of = "authorized" ->
         LET ips  == T!ParseTargets(input.targets)
             kept == T!FilterByScope(ips, input.scope)
             exp  == T!ExpandExclusions(input.excluded)
             left == T!FilterExcluded(kept, exp.resolved)
             known(e) == ~ Contains(exp.failed, e)
         IN IF kept = Failed THEN input.scope = <<>> \/ Contains(input.scope, unknown)
            ELSE /\ left = SelectSeq(ips, LAMBDA ip :
                      /\ T!InSome(ip, input.scope)
                      /\ ~ T!InSome(ip, SelectSeq(input.excluded, known)))
                 /\ ToSet(exp.failed) \subseteq {unknown}
                 /\ input.targets = <<dual, other>> => T!targetName(input.targets, <<1, 2>>) = 1
                 /\ T!LoadFromFile(input.targets \o <<unknown>>) = ips
    [] input.of = "ports" ->
         LET top == [i \in 1 .. 5 |-> 6 - i]
             ports == T!ParsePorts(input.parts, input.top, top)
             asked == UNION { p.from .. p.to : p \in ToSet(input.parts) }
         IN CASE input.top > 0 \/ input.parts = <<>> -> IsPrefix(ports, top) /\ ports # <<>>
              [] OTHER -> ports # Failed =>
                   /\ ToSet(ports) = asked /\ asked \subseteq 1 .. 5
                   /\ \A i \in 1 .. Len(ports) - 1 : ports[i] < ports[i+1]
    [] input.of = "line" ->
         LET ps == input.phrases
             names == NamesOf(ps)
         IN /\ O!TargetsAsWritten(TokensOf(ps), {"rate", "p"}, names, GivenBy(ps))
            /\ Len(names) = 1 /\ (\A i \in DOMAIN ps : flag("p") \notin ToSet(ps[i].tokens))
                 => O!AsWritten(TokensOf(ps), O!policyFlags, names[1], GivenBy(ps))
    [] OTHER -> TRUE

-----------------------------------------------------------------------------
CandidatePorts == <<1, 2, 22, 80, 9>>

MoreInputs ==
  Expansions \cup CommandLines \cup Fingerprinted
=============================================================================
