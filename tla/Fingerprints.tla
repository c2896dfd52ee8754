----------------------------- MODULE Fingerprints -----------------------------
(* Fingerprints: of a TLS stack (JARM, service/jarm.go), of a TCP stack       *)
(* (osdetect), and of the banners nothing recognised (fingerprint/cluster.go). *)
(* Bytes count where the code indexes them, and nowhere else.                 *)
EXTENDS Integers, Sequences, FiniteSets, FiniteSetsExt, SequencesExt, TLC

CONSTANTS
  Silent,     \* the "|||" of a probe that got no usable ServerHello
  Panics,     \* a slice out of range
  Ciphers,    \* cipherCanonicalOrder, a sequence
  Known       \* KnownFingerprints: records of a name and a signature

-----------------------------------------------------------------------------
(* TLS stacks.                                                              *)

\* The orders in which a probe offers its ciphers, ALPNs and versions.
Middle(items) == items[Len(items) \div 2 + 1]
BottomHalf(items) == SubSeq(items, (Len(items) + 1) \div 2 + 1, Len(items))
MiddleOut(items) ==
  LET n == Len(items)
      mid == n \div 2
      pair(i) == IF n % 2 = 1 THEN <<items[mid + 1 + i], items[mid + 1 - i]>>
                              ELSE <<items[mid + i], items[mid + 1 - i]>>
  IN (IF n % 2 = 1 THEN <<Middle(items)>> ELSE <<>>)
       \o FlattenSeq([i \in 1 .. mid |-> pair(i)])
cipherMung(items, mode) ==
  CASE mode = "FORWARD"     -> items
    [] mode = "REVERSE"     -> Reverse(items)
    [] mode = "BOTTOM_HALF" -> BottomHalf(items)
    [] mode = "TOP_HALF"    -> (IF Len(items) % 2 = 1 THEN <<Middle(items)>> ELSE <<>>)
                                 \o BottomHalf(Reverse(items))
    [] mode = "MIDDLE_OUT"  -> MiddleOut(items)

\* What is offered: a value of no meaning first, when the profile asks for one.
getCiphers(all, profile, greased) ==
  (IF profile.grease THEN <<greased>> ELSE <<>>) \o cipherMung(all, profile.order)

\* Where each extension of a hello starts, the first at count: the walk gives
\* up where one runs past the n bytes that were read.
ExtensionsFrom(hello, count, maximum) ==
  LET step(walk, e) ==
        CASE walk.lost \/ walk.count >= maximum -> walk
          [] ~ walk.lost /\ walk.count < maximum /\ walk.count + 4 + e.len > hello.n ->
               [walk EXCEPT !.lost = TRUE]
          [] OTHER -> [walk EXCEPT !.count = @ + 4 + e.len, !.types = Append(@, e.type)]
  IN FoldLeft(step, [count |-> count, lost |-> FALSE, types |-> <<>>], hello.exts)

findALPNExtension(hello, types) ==
  LET at == { i \in DOMAIN types : types[i] = 16 }
  IN IF at = {} THEN "" ELSE hello.exts[Min(at)].alpn

\* hello: [n, kind, session, cipher, version, length, declared, exts, marked]; the
\* extensions start 49 bytes after the session's identifier, unless the bytes
\* there are marked as those of a stack that sends none.
extractExtensionInfo(hello) ==
  LET c == hello.session
      walk == ExtensionsFrom(hello, c + 49, hello.declared + c + 48)
  IN IF c + 53 > hello.n \/ hello.marked \/ c + 42 >= hello.length \/ walk.lost THEN <<"", <<>>>>
     ELSE <<findALPNExtension(hello, walk.types), walk.types>>

readServerHello(hello) ==
  IF hello.kind # "ServerHello" \/ hello.n < 46 \/ hello.session + 46 > hello.n THEN Silent
  ELSE [cipher |-> hello.cipher, version |-> hello.version, ext |-> extractExtensionInfo(hello)]

\* A cipher that is not in the table counts as one past its end.
cipherByte(cipher) ==
  IF \E i \in DOMAIN Ciphers : Ciphers[i] = cipher
  THEN Min({ i \in DOMAIN Ciphers : Ciphers[i] = cipher }) ELSE Len(Ciphers) + 1
versionByte(version) == IF version \in 0 .. 5 THEN version + 1 ELSE 0

jarmHash(results) ==
  IF \A i \in DOMAIN results : results[i] = Silent THEN <<>>
  ELSE << [i \in DOMAIN results |->
             IF results[i] = Silent THEN <<0, 0>>
             ELSE <<cipherByte(results[i].cipher), versionByte(results[i].version)>>],
          FlattenSeq([i \in DOMAIN results |->
             IF results[i] = Silent THEN <<>> ELSE results[i].ext]) >>

\* answers: a hello, or Silent for a probe that did not connect or was not
\* answered; each probe has a connection of its own.
ProbeJARM(answers) ==
  jarmHash([i \in DOMAIN answers |->
              IF answers[i] = Silent THEN Silent ELSE readServerHello(answers[i])])

-----------------------------------------------------------------------------
(* TCP stacks: the options of a SYN/ACK, as bytes.                          *)

\* Where the walk over the options finds one, from byte i: it ends at kind 0
\* and at an option whose length is missing or senseless.
Steps(opt) ==
  LET from[i \in 1 .. Len(opt) + 255] ==
        CASE i > Len(opt) -> <<>>
          [] i <= Len(opt) /\ opt[i] = 0 -> <<i>>
          [] i <= Len(opt) /\ opt[i] = 1 -> <<i>> \o from[i + 1]
          [] OTHER -> IF i + 1 > Len(opt) \/ opt[Min({i + 1, Len(opt)})] < 2 THEN <<i>>
                      ELSE <<i>> \o from[i + opt[i + 1]]
  IN from[1]
Read(opt) == SelectSeq(Steps(opt), LAMBDA i : opt[i] > 1 /\ i < Len(opt) /\ opt[Min({i + 1, Len(opt)})] >= 2)
LastOf(opt, kind, width) ==
  LET at == { i \in ToSet(Read(opt)) : opt[i] = kind /\ i + width - 1 <= Len(opt) }
  IN IF at = {} THEN 0 ELSE Max(at)

\* A signature; the scale is a signed byte, -1 when there is none.
Signed(byte) == IF byte >= 128 THEN byte - 256 ELSE byte
ParseTCPSignature(ttl, opt) ==
  LET mss == LastOf(opt, 2, 4)   scale == LastOf(opt, 3, 3)
  IN [ ttl |-> ttl,
       mss |-> IF mss = 0 THEN 0 ELSE 256 * opt[mss + 2] + opt[mss + 3],
       wscale |-> IF scale = 0 THEN -1 ELSE Signed(opt[scale + 2]),
       sack |-> \E i \in ToSet(Read(opt)) : opt[i] = 4,
       ts   |-> \E i \in ToSet(Read(opt)) : opt[i] = 8,
       order |-> [k \in DOMAIN Steps(opt) |-> opt[Steps(opt)[k]]] ]

HasTCPOptionKind(opt, kind) == \E i \in ToSet(Steps(opt)) : opt[i] = kind

\* The string of GenerateSignature: the options it can read, in order.  It
\* slices from byte 20 whatever the header says its length is.
parseTCPOptions(opt) ==
  LET told == SelectSeq(Steps(opt), LAMBDA i : \/ opt[i] = 1
                \/ /\ i \in ToSet(Read(opt))
                   /\ opt[i] = 2 => i + 3 <= Len(opt)
                   /\ opt[i] = 3 => i + 2 <= Len(opt))
  IN [k \in DOMAIN told |-> opt[told[k]]]
GenerateSignature(header, opt) == IF header < 20 THEN Panics ELSE parseTCPOptions(opt)

ttlBucket(ttl) == CASE ttl <= 64 -> 64 [] ttl \in 65 .. 128 -> 128 [] OTHER -> 255

\* The longest common subsequence, by the table the code fills.
LCS(a, b) ==
  LET dp[i \in 0 .. Len(a), j \in 0 .. Len(b)] ==
        IF i = 0 \/ j = 0 THEN 0
        ELSE IF a[i] = b[j] THEN dp[i - 1, j - 1] + 1
        ELSE Max({dp[i - 1, j], dp[i, j - 1]})
  IN dp[Len(a), Len(b)]
Unit == 2520      \* makes every fraction of up to ten options whole
optOrderSimilarity(a, b) ==
  IF a = <<>> \/ b = <<>> THEN 0 ELSE (Unit * LCS(a, b)) \div Min({Len(a), Len(b)})

Points(agree, weight) == IF agree THEN weight * Unit ELSE 0
Score(seen, sig) ==
  Points(ttlBucket(seen.ttl) = sig.ttl, 3) + Points(seen.wscale = sig.wscale, 2)
    + Points(seen.sack = sig.sack, 1) + Points(seen.ts = sig.ts, 1)
    + Points(seen.mss # 0 /\ seen.mss = sig.mss, 1)
    + 3 * optOrderSimilarity(sig.order, seen.order)

\* The first of the best, of eleven points; none below four tenths, and never
\* more than nine tenths of certainty.
Match(seen) ==
  LET score(k) == Score(seen, Known[k].sig)
      best == Max({ score(k) : k \in DOMAIN Known })
      first == Min({ k \in DOMAIN Known : score(k) = best })
  IN IF 10 * best < 4 * 11 * Unit THEN [name |-> "", confidence |-> 0]
     ELSE [name |-> Known[first].name, confidence |-> Min({best, (9 * 11 * Unit) \div 10})]

-----------------------------------------------------------------------------
(* Banners nothing recognised.  A banner is a sequence of [class, text]; an   *)
(* IPv4 address is found before a host name, that before a version, and so on. *)

Placeholders == {"ip", "host", "hex", "ver", "n"}
Normalize(banner) ==
  [i \in DOMAIN banner |->
     IF banner[i].class \in Placeholders THEN banner[i].class ELSE banner[i].text]

isUnrecognized(r) ==
  r.state = "open" /\ r.banner # <<>> /\ r.service \in {"", "unknown", "ssl/unknown"}

\* The first version of a template is captured, the others only matched.
SuggestSignature(template) ==
  [i \in DOMAIN template |->
     IF template[i] = "ver" /\ \A j \in 1 .. i - 1 : template[j] # "ver" THEN "(ver)"
     ELSE template[i]]

\* Mutant: clusters of as many hosts stay in the order of the map.
LargestFirst(c, d) == c.hosts > d.hosts
Before(c, d) == c.hosts > d.hosts \/ (c.hosts = d.hosts /\ c.rank < d.rank)

ClusterOf(results, template, rank) ==
  LET of == SelectSeq(results, LAMBDA r : isUnrecognized(r) /\ Normalize(r.banner) = template)
      ends == [i \in DOMAIN of |-> <<of[i].ip, of[i].port>>]
  IN [ template |-> template, rank |-> rank,
       hosts |-> Cardinality({ r.ip : r \in ToSet(of) }),
       ports |-> SetToSortSeq({ r.port : r \in ToSet(of) }, <),
       endpoints |-> SortSeq(ends, LAMBDA e, f : e[1] < f[1] \/ (e[1] = f[1] /\ e[2] < f[2])),
       samples |-> SubSeq([i \in DOMAIN of |-> of[i].banner], 1, Min({5, Len(of)})),
       suggested |-> SuggestSignature(template) ]

\* The templates come out of the map in any order; rank is their own.
Group(results, order, rank) ==
  SortSeq([k \in DOMAIN order |-> ClusterOf(results, order[k], rank[order[k]])],
          LAMBDA c, d : Before(c, d))

\* What Export writes: no address and no raw banner.
Export(clusters) ==
  [k \in DOMAIN clusters |-> [template |-> clusters[k].template, ports |-> clusters[k].ports,
                              hosts |-> clusters[k].hosts, suggested |-> clusters[k].suggested]]

-----------------------------------------------------------------------------
(* Properties *)

\* Every order offers each cipher at most once, the reordered lists all of
\* them, and the two halves together all of them too, sharing only the middle
\* (jarm.go:202-260).
OffersEach(items) ==
  /\ \A mode \in {"FORWARD", "REVERSE", "MIDDLE_OUT"} : \A grease \in BOOLEAN :
       LET offered == getCiphers(items, [order |-> mode, grease |-> grease], 0)
       IN /\ IsInjective(offered)
          /\ ToSet(offered) = ToSet(items) \cup (IF grease THEN {0} ELSE {})
  /\ ToSet(cipherMung(items, "TOP_HALF")) \cup ToSet(cipherMung(items, "BOTTOM_HALF"))
       = ToSet(items)
  /\ Len(cipherMung(items, "TOP_HALF")) + Len(cipherMung(items, "BOTTOM_HALF")) = Len(items)

\* A hello's extensions are reported all or none, however much of it the one
\* read returned, and a server is fingerprinted as silent exactly if no probe
\* was answered: one inconsistent server still has a fingerprint
\* (jarm.go:95-101, 390-460).
WholeOrNothing(answers) ==
  /\ (ProbeJARM(answers) = <<>>) <=>
       \A i \in DOMAIN answers : answers[i] = Silent \/ readServerHello(answers[i]) = Silent
  /\ \A i \in DOMAIN answers :
       (answers[i] # Silent /\ readServerHello(answers[i]) # Silent) =>
          LET types == readServerHello(answers[i]).ext[2]
          IN types # <<>> => types = [k \in DOMAIN answers[i].exts |-> answers[i].exts[k].type]

\* Both walks over a SYN/ACK's options see the same ones, those it was made of
\* as far as the header goes (fingerprint.go:146-240).
Bytes(options) == FlattenSeq([k \in DOMAIN options |-> options[k]])
OptionsAsSent(options, kept) ==
  LET opt == SubSeq(Bytes(options), 1, Min({kept, Len(Bytes(options))}))
      sig == ParseTCPSignature(64, opt)
      kinds == [k \in DOMAIN options |-> options[k][1]]
      proper == \A k \in DOMAIN options :
                  options[k] = <<1>> \/ (Len(options[k]) >= 2 /\ options[k][2] = Len(options[k]))
  IN /\ \A kind \in 0 .. 8 : HasTCPOptionKind(opt, kind) <=> Contains(sig.order, kind)
     /\ proper => IsPrefix(sig.order, kinds)
     /\ proper /\ kept >= Len(Bytes(options)) => sig.order = kinds
     /\ \A header \in {16, 20} :
          LET told == GenerateSignature(header, opt)
          IN told # Panics => ToSet(told) \subseteq ToSet(sig.order)

\* The guess is the best fit of the table, never certain, and the same however
\* many routers the answer crossed (fingerprint.go:278-328).
BestFit(ttl, opt) ==
  LET seen == ParseTCPSignature(ttl, opt)
      guess == Match(seen)
      fits(k) == Score(seen, Known[k].sig)
      common(a, b) == { s \in SUBSET DOMAIN a : \E t \in SUBSET DOMAIN b :
                          LET sa == SetToSortSeq(s, <)  sb == SetToSortSeq(t, <)
                          IN Len(sa) = Len(sb) /\ \A i \in DOMAIN sa : a[sa[i]] = b[sb[i]] }
  IN /\ guess.confidence < 11 * Unit
     /\ guess.name = "" <=> \A k \in DOMAIN Known : 10 * fits(k) < 44 * Unit
     /\ guess.name # "" =>
          \E k \in DOMAIN Known : Known[k].name = guess.name /\ \A j \in DOMAIN Known : fits(k) >= fits(j)
     /\ \A hops \in 0 .. 3 : ttlBucket(ttl) = ttlBucket(Max({ttl - hops, 0}))
          => Match(ParseTCPSignature(Max({ttl - hops, 0}), opt)) = guess
     /\ LCS(Known[1].sig.order, seen.order)
          = Max({ Cardinality(s) : s \in common(Known[1].sig.order, seen.order) })

\* The clusters, and so the file that is exported, are the same whatever order
\* the map gives them in: each unrecognised endpoint in exactly one, the most
\* widespread first (cluster.go:105-242).
ClustersFixed(results, templates, rank) ==
  LET order == SetToSeq(templates)
      clusters == Group(results, order, rank)
      found == { <<r.ip, r.port>> : r \in { q \in ToSet(results) : isUnrecognized(q) } }
  IN /\ \A p \in { q \in [DOMAIN order -> templates] : IsInjective(q) } :
          Export(Group(results, p, rank)) = Export(clusters)
     /\ UNION { ToSet(clusters[k].endpoints) : k \in DOMAIN clusters } = found
     /\ \A k \in 1 .. Len(clusters) - 1 : clusters[k].hosts >= clusters[k + 1].hosts
     /\ \A k \in DOMAIN clusters :
          clusters[k].hosts = Cardinality({ e[1] : e \in ToSet(clusters[k].endpoints) })
=============================================================================
