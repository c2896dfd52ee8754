----------------------------- MODULE Fragmenter -----------------------------
(***************************************************************************)
(* FragmentPacket of internal/evasion/fragment.go, which cuts the IPv4     *)
(* payload of a frame into fragments of at most mtu bytes; the AF_XDP      *)
(* probes ask for 8 (scan/xdp.go).  An IPv4 header is its ten words of 16  *)
(* bits; the frame's Ethernet header goes with every fragment as it is.    *)
(***************************************************************************)
EXTENDS Naturals, Sequences, SequencesExt

CONSTANT Endless        \* a loop that does not end

Words16 == 65536
HeaderBytes == 20
TotalLength == 2        \* words of a header
FlagsAndOffset == 4
Checksum == 6
MoreFragments == 8192   \* 0x2000

WordSum(words) ==
  LET sum[k \in 0 .. Len(words)] == IF k = 0 THEN 0 ELSE sum[k-1] + words[k]
  IN  sum[Len(words)]

\* The one's complement of the sum, the carries of which are added twice.
computeIPChecksum(header) ==
  LET total == WordSum(header)
      once  == (total \div Words16) + (total % Words16)
  IN (Words16 - 1) - ((once + (once \div Words16)) % Words16)

\* A whole multiple of eight bytes, unless it is the last.
chunkSize(offset, length, mtu) ==
  IF offset + mtu >= length THEN length - offset ELSE (mtu \div 8) * 8

newIPHeader(base, offset, size, length) ==
  LET more   == IF offset + size < length THEN MoreFragments ELSE 0
      filled == [base EXCEPT ![TotalLength] = (HeaderBytes + size) % Words16,
                             ![FlagsAndOffset] = ((offset \div 8) % MoreFragments) + more,
                             ![Checksum] = 0]
  IN [filled EXCEPT ![Checksum] = computeIPChecksum(filled)]

\* Where the loop stands after k turns: it ends at the payload's length.
offsets(length, mtu) ==
  LET offset[k \in 0 .. length] ==
        IF k = 0 THEN 0
        ELSE LET begun == offset[k-1] IN begun + chunkSize(begun, length, mtu)
  IN  offset

\* A frame without a payload has no fragment, and an mtu below eight cannot
\* cut a larger payload.
FragmentPacket(base, payload, mtu) ==
  LET length == Len(payload)
      offset == offsets(length, mtu)
      ends   == { k \in 0 .. length : offset[k] = length }
      fragment(k) ==
        [header |-> newIPHeader(base, offset[k-1], offset[k] - offset[k-1], length),
         chunk  |-> SubSeq(payload, offset[k-1] + 1, offset[k])]
  IN IF ends = {} THEN Endless
     ELSE [k \in 1 .. CHOOSE k \in ends : \A l \in ends : k <= l |-> fragment(k)]

-----------------------------------------------------------------------------
(* Properties *)

Offset(f) == 8 * (f.header[FlagsAndOffset] % MoreFragments)
More(f)   == f.header[FlagsAndOffset] >= MoreFragments

\* The receiver's view (RFC 791): what the fragments say of themselves puts the
\* payload together again, all but the last announce another, each header is
\* the frame's own in every other word, and its checksum is right: the sum of
\* all its words is all ones.
Reassembles(base, payload, mtu) ==
  LET fs == FragmentPacket(base, payload, mtu) IN
  /\ FlattenSeq([i \in DOMAIN fs |-> fs[i].chunk]) = payload
  /\ \A i \in DOMAIN fs :
       LET f == fs[i]
           h == f.header
           ones == WordSum(h)
       IN /\ Offset(f) = WordSum([j \in 1 .. i - 1 |-> Len(fs[j].chunk)])
          /\ More(f) = (i < Len(fs))
          /\ h[TotalLength] = HeaderBytes + Len(f.chunk)
          /\ Len(f.chunk) <= mtu
          /\ \A w \in DOMAIN h \ {TotalLength, FlagsAndOffset, Checksum} : h[w] = base[w]
          /\ ones % (Words16 - 1) = 0 /\ ones > 0
=============================================================================
