--------------------------- MODULE TargetExpansion ---------------------------
(***************************************************************************)
(* What internal/target makes of the targets, the scope file and the       *)
(* exclusions of a command, and internal/ports of its ports.               *)
(*                                                                         *)
(* An IPv4 address is a sequence of octets; an IPv6 address is opaque.  A  *)
(* target is a record: a CIDR, a range of addresses, a range of the last   *)
(* octet, a literal, or a name with what the resolver says of it.          *)
(***************************************************************************)
EXTENDS Integers, Sequences, SequencesExt

CONSTANTS
  Octets,         \* octets of an address: 4
  OctetBits,      \* bits of an octet: 8
  MaxPort,        \* the highest port: 65535
  Failed,         \* what stands for an error
  Endless         \* what stands for a loop that does not end

ExpansionAssumption ==
  Octets \in Nat \ {0} /\ OctetBits \in Nat \ {0} /\ MaxPort \in Nat \ {0}

OctetSize == 2 ^ OctetBits
AddrBits  == Octets * OctetBits
Addr4     == [1 .. Octets -> 0 .. OctetSize - 1]
IsV4(ip)  == Len(ip) = Octets

\* The address as a number.
AddrValue(ip) ==
  LET v[i \in 0 .. Octets] == IF i = 0 THEN 0 ELSE v[i-1] * OctetSize + ip[i]
  IN  v[Octets]

\* The last octet is raised, and the one before each that comes out zero.
incIP(ip) ==
  [j \in 1 .. Octets |->
     IF \A k \in j + 1 .. Octets : ip[k] = OctetSize - 1
       THEN (ip[j] + 1) % OctetSize ELSE ip[j]]

\* IPNet.Contains.
InNet(net, ip) ==
  LET size == 2 ^ (AddrBits - net.ones)
  IN  IsV4(ip) /\ AddrValue(ip) \div size = AddrValue(net.base) \div size

\* The network's address: its base with the host bits cleared.
NetAddr(net) ==
  CHOOSE ip \in Addr4 :
    /\ InNet(net, ip)
    /\ \A other \in Addr4 : InNet(net, other) => AddrValue(ip) <= AddrValue(other)

\* Addresses from ip on, one incIP after the other, up to and without the first
\* that is among the given ones.
WalkUntil(ip, ends) ==
  LET at[n \in 0 .. 2 ^ AddrBits] == IF n = 0 THEN ip ELSE incIP(at[n-1])
      stops == { n \in 1 .. 2 ^ AddrBits : at[n] \in ends }
  IN  IF stops = {} THEN Endless
      ELSE [n \in 1 .. CHOOSE n \in stops : \A m \in stops : n <= m |-> at[n-1]]

\* Every address of the network; of 0.0.0.0/0 there is none the loop stops at.
expandCIDR(net) ==
  WalkUntil(NetAddr(net), { ip \in Addr4 : ~InNet(net, ip) })

\* From one address to another, or within the last octet.  Only the latter
\* compares its ends.
expandRange(from, to) == WalkUntil(from, {incIP(to)})
expandOctets(prefix, from, to) ==
  IF from > to THEN Failed
  ELSE [i \in 1 .. to - from + 1 |-> Append(prefix, from + i - 1)]

\* A name stands for its IPv4 addresses, or for its IPv6 ones if it has none.
resolved(name) ==
  IF name.a # <<>> THEN name.a ELSE IF name.aaaa # <<>> THEN name.aaaa ELSE Failed

ParseTarget(t) ==
  CASE t.kind = "cidr"    -> expandCIDR(t)
    [] t.kind = "range"   -> expandRange(t.from, t.to)
    [] t.kind = "octets"  -> expandOctets(t.prefix, t.from, t.to)
    [] t.kind = "literal" -> <<t.ip>>
    [] t.kind = "name"    -> resolved(t)

\* The addresses of all targets in order, or the first failure.
ParseTargets(ts) ==
  LET bad == { i \in 1 .. Len(ts) : ParseTarget(ts[i]) \in {Failed, Endless} }
  IN  IF bad = {} THEN FlattenSeq([i \in 1 .. Len(ts) |-> ParseTarget(ts[i])])
      ELSE ParseTarget(ts[CHOOSE i \in bad : \A k \in bad : i <= k])

\* The name an address was resolved from: the first one asked for.
targetName(ts, ip) ==
  LET namers == { i \in 1 .. Len(ts) :
                    ts[i].kind = "name" /\ Contains(ParseTarget(ts[i]), ip) }
  IN  IF namers = {} THEN 0 ELSE CHOOSE i \in namers : \A k \in namers : i <= k

\* A target file: an entry that does not parse is left out without a word.
LoadFromFile(ts) ==
  LET Parses(t) == ParseTarget(t) # Failed
      good == SelectSeq(ts, Parses)
  IN  FlattenSeq([i \in 1 .. Len(good) |-> ParseTarget(good[i])])

-----------------------------------------------------------------------------
(* Scope and exclusions *)

Nets(entries)    == { e \in Range(entries) : e.kind = "cidr" }
Singles(entries) == SelectSeq(entries, LAMBDA e : e.kind # "cidr")

\* The targets an entry of the scope file authorizes, in their order.  A file
\* with an entry that does not parse, or with none, is an error.
FilterByScope(ips, entries) ==
  LET singles == ParseTargets(Singles(entries))
      Authorized(ip) == \/ Contains(singles, ip)
                        \/ \E net \in Nets(entries) : InNet(net, ip)
  IN  IF singles = Failed \/ entries = <<>> THEN Failed
      ELSE SelectSeq(ips, Authorized)

\* Names and ranges become addresses; networks and literals stay as they are.
\* What cannot be resolved is reported, not dropped.
Stays(e) == e.kind \in {"cidr", "literal"}
ExpandExclusions(entries) ==
  LET Unresolved(e) == ~Stays(e) /\ ParseTarget(e) \in {Failed, <<>>}
      Entry(e) ==
        IF Stays(e) THEN <<e>>
        ELSE [i \in 1 .. Len(ParseTarget(e)) |->
                [kind |-> "literal", ip |-> ParseTarget(e)[i]]]
      good == SelectSeq(entries, LAMBDA e : ~Unresolved(e))
  IN  [resolved |-> FlattenSeq([i \in 1 .. Len(good) |-> Entry(good[i])]),
       failed   |-> SelectSeq(entries, Unresolved)]

\* The targets that no exclusion names or contains.
FilterNamedOnly(ips, excluded) ==
  SelectSeq(ips, LAMBDA ip : ~ \E e \in Range(excluded) :
                   e.kind = "literal" /\ e.ip = ip)
FilterExcluded(ips, excluded) ==
  SelectSeq(ips, LAMBDA ip : ~ \E e \in Range(excluded) :
                   \/ e.kind = "literal" /\ e.ip = ip
                   \/ e.kind = "cidr" /\ InNet(e, ip))

-----------------------------------------------------------------------------
(* Ports *)

GetTopPorts(n, topList) ==
  SubSeq(topList, 1, IF n > Len(topList) THEN Len(topList) ELSE n)

\* -p: the ports of all parts (a single port is a range of one), sorted and
\* once each; an error if a part's ends are out of bounds or out of order.
\* --top-ports wins, and nothing given means the first hundred of its list.
ParsePorts(parts, topN, topList) ==
  LET Bad(p) == p.from < 1 \/ p.to > MaxPort \/ p.from > p.to
  IN  CASE topN > 0                   -> GetTopPorts(topN, topList)
        [] topN <= 0 /\ parts = <<>>  -> GetTopPorts(100, topList)
        [] OTHER ->
             IF \E i \in 1 .. Len(parts) : Bad(parts[i]) THEN Failed
             ELSE SetToSortSeq(UNION { p.from .. p.to : p \in Range(parts) }, <)

-----------------------------------------------------------------------------
(* Random order *)

\* RandomCIDRGenerator over m addresses, m a power of two: what NextIP returns,
\* as offsets from the base, until EOF.  Arithmetic is modulo a word.
NextX(g, x, word) == ((g.a * x + g.c) % word) % g.m
RandomOrder(g, word) ==
  LET x[n \in 1 .. g.m] == IF n = 1 THEN g.x ELSE NextX(g, x[n-1], word) IN x

\* The draws of NewRandomCIDRGenerator.
Generators(m, word) ==
  { [m |-> m, a |-> a, c |-> c, x |-> x] :
      a \in IF m < 4 THEN {1} ELSE { 4 * k + 1 : k \in 0 .. m \div 4 - 1 },
      c \in { n \in 0 .. word \div 2 - 1 : n % 2 = 1 },
      x \in 0 .. m - 1 }

-----------------------------------------------------------------------------
(* What these promise *)

\* The addresses a target denotes.
Denoted(t) ==
  CASE t.kind = "cidr"    -> { ip \in Addr4 : InNet(t, ip) }
    [] t.kind = "range"   -> { ip \in Addr4 : AddrValue(ip) \in
                                 AddrValue(t.from) .. AddrValue(t.to) }
    [] t.kind = "octets"  -> { Append(t.prefix, o) : o \in t.from .. t.to }
    [] t.kind = "literal" -> {t.ip}
    [] t.kind = "name"    -> Range(IF t.a # <<>> THEN t.a ELSE t.aaaa)

\* A target whose expansion is its denotation: the exceptions are 0.0.0.0/0,
\* and a range whose end is below its start, which goes around all addresses.
Proper(t) ==
  CASE t.kind = "cidr"  -> t.ones > 0
    [] t.kind = "range" -> AddrValue(t.from) <= AddrValue(t.to)
    [] OTHER            -> TRUE

ExpandsToDenoted(t) ==
  LET ips == ParseTarget(t)
  IN  IF Denoted(t) = {} THEN ips = Failed
      ELSE Range(ips) = Denoted(t) /\ IsInjective(ips)

\* An address is what a network denotes, or what an entry expands to.
InSome(ip, entries) ==
  \E e \in Range(entries) : ip \in Denoted(e)
=============================================================================
