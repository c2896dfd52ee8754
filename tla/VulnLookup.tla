----------------------------- MODULE VulnLookup -----------------------------
(***************************************************************************)
(* The vulnerability lookup of a scan: internal/vuln and the loop of       *)
(* cmd/tcpcat/main.go that drives it, one open port at a time, with one    *)
(* offline database for them all.                                          *)
(*                                                                         *)
(* A version is the sequence of its tokens, a token <<kind, value>> with   *)
(* kind 1 for digits and 2 for letters; the empty version is the field of  *)
(* a feed that is not there.  A feed's entry has its own id, the CVEs its  *)
(* id and aliases mention, the scores of the three places one may be in,   *)
(* what its title mentions, and the versions it affects.                   *)
(***************************************************************************)
EXTENDS Integers, Sequences, SequencesExt

CONSTANTS
  Failed,         \* the answer of a source that cannot be asked
  NoIntel         \* the exploit intelligence of a scan without --exploit-intel

Unsaid == ""      \* a text that is not there

-----------------------------------------------------------------------------
(* Order.  A set of pairs <<i, j>> says that i comes before j.             *)

\* The elements of s at the indices I, in the order of before.
InOrder(s, I, before) ==
  LET Place(i) == Cardinality({ j \in I : <<j, i>> \in before }) + 1
  IN  [k \in 1 .. Cardinality(I) |-> s[CHOOSE i \in I : Place(i) = k]]

\* As they come.
Selected(s, I) == InOrder(s, I, { p \in I \X I : p[1] < p[2] })

\* A sort that keeps the order of what it does not tell apart.
Stably(I, better) ==
  { p \in I \X I : p \in better \/ (<<p[2], p[1]>> \notin better /\ p[1] < p[2]) }
StableSort(s, better) == InOrder(s, DOMAIN s, Stably(DOMAIN s, better))

-----------------------------------------------------------------------------
(* Versions *)

NoToken == <<0, 0>>
TokenAt(v, i) == IF i <= Len(v) THEN v[i] ELSE NoToken

\* Digits by value; otherwise text, where nothing comes before a digit and a
\* digit before a letter.
TokenLess(s, t) == s[1] < t[1] \/ (s[1] = t[1] /\ s[2] < t[2])

ShorterLen(v1, v2) == IF Len(v1) < Len(v2) THEN Len(v1) ELSE Len(v2)
maxLen(v1, v2) == IF Len(v1) > Len(v2) THEN Len(v1) ELSE Len(v2)

CompareVersions(v1, v2) ==
  LET differ == { i \in 1 .. maxLen(v1, v2) : TokenAt(v1, i) # TokenAt(v2, i) }
      i == CHOOSE k \in differ : \A l \in differ : k <= l
  IN  IF differ = {} THEN 0
      ELSE IF TokenLess(TokenAt(v1, i), TokenAt(v2, i)) THEN -1 ELSE 1

\* One event of a range: reaching its introduction affects the version, and
\* reaching its fix ends that.
AfterEvent(v, introduced, event) ==
  LET Reached(boundary) == boundary # <<>> /\ CompareVersions(v, boundary) >= 0
  IN  ~Reached(event.fixed) /\ (introduced \/ Reached(event.introduced))

AfterEvents(v, events) ==
  LET after[k \in 0 .. Len(events)] ==
        IF k = 0 THEN FALSE ELSE AfterEvent(v, after[k-1], events[k])
  IN  after[Len(events)]

IsVersionAffected(v, affected) ==
  LET InRange(r) == r.type \in {"SEMVER", "ECOSYSTEM"} /\ AfterEvents(v, r.events)
  IN  \/ affected = <<>>
      \/ \E a \in Range(affected) :
           v \in a.versions \/ \E r \in Range(a.ranges) : InRange(r)

-----------------------------------------------------------------------------
(* The OSV feed *)

\* The CVE in the entry's own id or else in an alias; the own id without one.
canonicalCVEID(e) ==
  IF e.cves = <<>> THEN [id |-> e.id, feed |-> e.feed]
  ELSE [id |-> Head(e.cves), feed |-> "CVE"]

\* database_specific, then severity, then the first affected[].severity.
extractCVSSScore(e) ==
  LET there == { i \in DOMAIN e.scores : e.scores[i] > 0 }
  IN  IF there = {} THEN 0 ELSE e.scores[CHOOSE i \in there : \A j \in there : i <= j]

\* An entry is a new row, or raises the score of the row of its CVE.
NewRow(e) ==
  [id |-> canonicalCVEID(e).id, feed |-> canonicalCVEID(e).feed, title |-> e.title,
   cvss |-> extractCVSSScore(e), confidence |-> Unsaid]
Raised(row, e) ==
  [id |-> row.id, feed |-> row.feed,
   title |-> IF row.title = Unsaid THEN e.title ELSE row.title,
   cvss |-> IF extractCVSSScore(e) > row.cvss THEN extractCVSSScore(e) ELSE row.cvss,
   confidence |-> row.confidence]
Folded(rows, e) ==
  LET same == { i \in DOMAIN rows : rows[i].id = canonicalCVEID(e).id }
  IN  IF same = {} THEN Append(rows, NewRow(e))
      ELSE [rows EXCEPT ![CHOOSE i \in same : TRUE] = Raised(@, e)]

query(entries, version) ==
  LET rows[k \in 0 .. Len(entries)] ==
        IF k = 0 THEN <<>>
        ELSE IF IsVersionAffected(version, entries[k].affected)
             THEN Folded(rows[k-1], entries[k]) ELSE rows[k-1]
  IN  rows[Len(entries)]

-----------------------------------------------------------------------------
(* What becomes of the rows *)

\* Scores are in tenths.
SeverityForCVSS(score) ==
  CASE score >= 90       -> "critical" [] score \in 70 .. 89 -> "high"
    [] score \in 40 .. 69 -> "medium"   [] score \in 1 .. 39  -> "low"
    [] OTHER             -> "info"

Families == [ubuntu |-> "linux", debian |-> "linux", alpine |-> "linux",
             amazon |-> "linux", windows |-> "windows", macos |-> "macos"]
osFamily(os) == IF os \in DOMAIN Families THEN Families[os] ELSE Unsaid

OwnFeeds == [ubuntu |-> {"UBUNTU"}, debian |-> {"DEBIAN"}, alpine |-> {"ALPINE"},
             amazon |-> {"ALSA", "AZL"}]
FilterRelevantCVEs(rows, os) ==
  LET feeds == {"CVE", "GHSA"}
                 \cup IF os \in DOMAIN OwnFeeds THEN OwnFeeds[os] ELSE {}
  IN  Selected(rows, { i \in DOMAIN rows : IF os = "unknown" THEN rows[i].cvss >= 50
                                           ELSE rows[i].feed \in feeds })

\* A title names another system than the host's, or a component that nobody
\* has confirmed; a host of unknown system is never given the first note.
Applicability(title, os) ==
  LET host == osFamily(os)
      named == osFamily(title)
  IN  CASE Unsaid \notin {host, named} /\ host # named -> "not_applicable_os"
        [] title = "wsrep" -> "requires_component"
        [] OTHER -> Unsaid

\* Enrich and AnnotateApplicability.
Annotated(rows, os) ==
  [i \in DOMAIN rows |->
     [id         |-> rows[i].id,
      cvss       |-> rows[i].cvss,
      severity   |-> SeverityForCVSS(rows[i].cvss),
      confidence |-> IF rows[i].confidence = Unsaid THEN "version-based"
                     ELSE rows[i].confidence,
      note       |-> Applicability(rows[i].title, os)]]

\* Without exploit intelligence: the highest score first.  sort.Slice promises
\* no order of equal scores; they have one severity, and it is all that is told.
ByScore(rows) ==
  StableSort(rows, { p \in (DOMAIN rows) \X (DOMAIN rows) : rows[p[1]].cvss > rows[p[2]].cvss })

\* With it: known to be exploited, then likely to be, then the score.  intel
\* has the catalog, empty if it could not be fetched, and the predictions of
\* the batches that were answered.
Exploited(v, intel) == v.id \in intel.kev
EPSS(v, intel) == IF v.id \in DOMAIN intel.epss THEN intel.epss[v.id] ELSE 0
MoreUrgent(v, w, intel) ==
  CASE Exploited(v, intel) # Exploited(w, intel) -> Exploited(v, intel)
    [] Exploited(v, intel) = Exploited(w, intel) /\ EPSS(v, intel) # EPSS(w, intel) ->
         EPSS(v, intel) > EPSS(w, intel)
    [] OTHER -> v.cvss > w.cvss
PrioritizeExploitability(rows, intel) ==
  StableSort(rows, { p \in (DOMAIN rows) \X (DOMAIN rows) :
                       MoreUrgent(rows[p[1]], rows[p[2]], intel) })

\* The requests for predictions: size identifiers to each, the last shorter.
fetchEPSS(ids, size) ==
  LET Upto(n) == IF n > Len(ids) THEN Len(ids) ELSE n
  IN  [b \in 1 .. (Len(ids) + size - 1) \div size |->
         SubSeq(ids, (b - 1) * size + 1, Upto(b * size))]

-----------------------------------------------------------------------------
(* The lookup of one open port *)

\* Rows of the distribution's own feed confirm the upstream rows and add to
\* them; the others are only potential.
Potential == "potential (upstream version match)"
Refined(rows, distro) ==
  LET new == { i \in DOMAIN distro : \A w \in Range(rows) : w.id # distro[i].id }
      all == rows \o Selected(distro, new)
      Confirmed(v) == \E w \in Range(distro) : w.id = v.id
  IN  [i \in DOMAIN all |->
         [id |-> all[i].id, feed |-> all[i].feed, title |-> all[i].title,
          cvss |-> all[i].cvss,
          confidence |-> IF Confirmed(all[i]) THEN "distro-backport-confirmed"
                         ELSE Potential]]

\* What the three sources answer for the port's service and version: rows, or
\* Failed.  The distribution is asked of OSV only, and only when the banner
\* names it.
Found(port, answers) ==
  LET upstream == IF answers.upstream = Failed THEN answers.offline
                  ELSE answers.upstream
  IN  IF upstream # Failed /\ port.suffix /\ answers.distro # Failed
        THEN Refined(upstream, answers.distro) ELSE upstream

\* The offline database answers with the list it has, so that what a port says of
\* its rows is said in the database, unless append had no room there for the
\* rows that the distribution adds, and moved them all.
SaysForGood(port, answers, rows) ==
  /\ port.version # <<>> /\ answers.upstream = Failed
  /\ port.suffix /\ answers.distro # Failed
  /\ answers.room \/ Len(Refined(rows, answers.distro)) = Len(rows)

\* That list as the k-th port of a scan finds it: the last port before it to say
\* something said it of every row.
OfflineAt(k, ports, answers, db) ==
  LET rows == db[ports[k].software]
      sayers == { l \in 1 .. k - 1 : /\ ports[l].software = ports[k].software
                                     /\ SaysForGood(ports[l], answers[l], rows) }
      last == CHOOSE l \in sayers : \A j \in sayers : j <= l
  IN  IF db = Failed THEN Failed
      ELSE IF sayers = {} THEN rows
           ELSE [i \in DOMAIN rows |-> Refined(rows, answers[last].distro)[i]]

\* The headline severity: of the first row without a note, or of the first.
RiskSeverity(rows) ==
  LET applicable == { i \in DOMAIN rows : rows[i].note = Unsaid }
  IN  IF applicable = {} THEN rows[1].severity
      ELSE rows[CHOOSE i \in applicable : \A j \in applicable : i <= j].severity

Assess(port, answers, intel) ==
  LET found == Found(port, answers)
      rows == ByScore(Annotated(FilterRelevantCVEs(found, port.os), port.os))
      ranked == IF intel = NoIntel THEN rows
                ELSE PrioritizeExploitability(rows, intel)
  IN  CASE port.version = <<>> -> [status |-> "not_assessed", rows |-> <<>>, risk |-> Unsaid]
        [] port.version # <<>> /\ found = Failed ->
             [status |-> "error", rows |-> <<>>, risk |-> Unsaid]
        [] OTHER ->
             IF ranked = <<>>
               THEN [status |-> "no_match", rows |-> <<>>, risk |-> Unsaid]
               ELSE [status |-> "matched", rows |-> ranked,
                     risk |-> RiskSeverity(ranked)]

-----------------------------------------------------------------------------
(* What these promise *)

\* The versions are in order: a comparison the ranges can rely on.
VersionsOrdered(u, v, w) ==
  /\ CompareVersions(u, v) = -CompareVersions(v, u)
  /\ (CompareVersions(u, v) = 0) = (u = v)
  /\ CompareVersions(u, v) <= 0 /\ CompareVersions(v, w) <= 0
       => CompareVersions(u, w) <= 0

\* The last boundary the version has reached introduced the vulnerability.
InSomeWindow(v, events) ==
  \E i \in DOMAIN events :
    /\ events[i].introduced # <<>> /\ CompareVersions(v, events[i].introduced) >= 0
    /\ \A j \in i .. Len(events) :
         events[j].fixed # <<>> => CompareVersions(v, events[j].fixed) < 0

\* One row to each vulnerability that affects the version, with the highest of
\* its scores, however many entries state it.
OneRowEach(entries, version) ==
  LET rows == query(entries, version)
      Stating(id) == { e \in Range(entries) :
        canonicalCVEID(e).id = id /\ IsVersionAffected(version, e.affected) }
      ids == { canonicalCVEID(e).id : e \in Range(entries) }
  IN  /\ \A id \in ids :
           Cardinality({ i \in DOMAIN rows : rows[i].id = id })
             = IF Stating(id) = {} THEN 0 ELSE 1
      /\ \A v \in Range(rows) :
           /\ v.id \in ids
           /\ \E e \in Stating(v.id) : v.cvss = extractCVSSScore(e)
           /\ \A e \in Stating(v.id) : v.cvss >= extractCVSSScore(e)

\* The headline is the worst of the rows that apply.
HeadlineIsTheWorst(port, answers) ==
  LET a == Assess(port, answers, NoIntel)
      Applies(v) == v.note = Unsaid
  IN  a.status = "matched" =>
        \E v \in Range(a.rows) :
          /\ a.risk = v.severity
          /\ (\E w \in Range(a.rows) : Applies(w)) => Applies(v)
          /\ \A w \in Range(a.rows) : Applies(w) => w.cvss <= v.cvss

\* A row is confirmed when the distribution of the port's own banner has it, and
\* only then; but a port without one, for which the offline database stands in,
\* inherits what that says: what the file said, or the distribution of an earlier
\* port with the same software.
Confirms(port, answers, id) ==
  /\ port.suffix /\ answers.distro # Failed
  /\ \E w \in Range(answers.distro) : w.id = id
Inherits(k, ports, answers, db, id) ==
  /\ answers[k].upstream = Failed
  /\ \/ \E w \in Range(db[ports[k].software]) :
          w.id = id /\ w.confidence = "distro-backport-confirmed"
     \/ \E l \in 1 .. k - 1 :
          /\ ports[l].software = ports[k].software /\ answers[l].upstream = Failed
          /\ Confirms(ports[l], answers[l], id)

PortAsAnswered(k, ports, answers, db) ==
  LET asked == [upstream |-> answers[k].upstream, distro |-> answers[k].distro,
                offline |-> OfflineAt(k, ports, answers, db)]
  IN  /\ HeadlineIsTheWorst(ports[k], asked)
      /\ \A v \in Range(Assess(ports[k], asked, NoIntel).rows) :
           /\ Confirms(ports[k], answers[k], v.id)
                => v.confidence = "distro-backport-confirmed"
           /\ v.confidence = "distro-backport-confirmed" =>
                \/ Confirms(ports[k], answers[k], v.id)
                \/ /\ ~ (ports[k].suffix /\ answers[k].distro # Failed)
                   /\ Inherits(k, ports, answers, db, v.id)

\* The range of one vulnerability says whether the version is in its window.
WindowIsTold(v, events) ==
  IsVersionAffected(v, << [versions |-> {},
      ranges |-> << [type |-> "SEMVER", events |-> events] >>] >>)
    = InSomeWindow(v, events)

\* Ranking neither drops nor doubles a row, and puts the exploited first.
RankedByUrgency(rows, intel) ==
  LET ranked == PrioritizeExploitability(rows, intel)
      N(s, v) == Cardinality({ i \in DOMAIN s : s[i] = v })
  IN  /\ \A v \in Range(rows) : N(ranked, v) = N(rows, v)
      /\ Len(ranked) = Len(rows)
      /\ \A i, j \in DOMAIN ranked :
           ranked[i].id \notin intel.kev /\ ranked[j].id \in intel.kev => j < i

\* Every identifier is asked about once, in order, as many at a time as size.
AsksOnce(ids, size) ==
  /\ FlattenSeq(fetchEPSS(ids, size)) = ids
  /\ \A b \in DOMAIN fetchEPSS(ids, size) : Len(fetchEPSS(ids, size)[b]) \in 1 .. size

LookupRight(lookup) ==
  /\ lookup.of = "order"  => VersionsOrdered(lookup.u, lookup.v, lookup.w)
  /\ lookup.of = "window" => WindowIsTold(lookup.v, lookup.events)
  /\ lookup.of = "feed"   => OneRowEach(lookup.entries, lookup.version)
  /\ lookup.of = "ports"  =>
       \A k \in DOMAIN lookup.ports :
         PortAsAnswered(k, lookup.ports, lookup.answers, lookup.db)
  /\ lookup.of = "ranks"  => /\ RankedByUrgency(lookup.rows, lookup.intel)
                             /\ AsksOnce(lookup.rows, lookup.size)
=============================================================================
