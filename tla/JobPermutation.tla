--------------------------- MODULE JobPermutation ---------------------------
(***************************************************************************)
(* The dispatch order of internal/scan/permute.go: a linear congruential   *)
(* generator over the next power of two, whose values outside [0, n) are   *)
(* walked past.  An action is one turn of the loop in next(); the draws of *)
(* newJobPermutation are the initial states.                               *)
(***************************************************************************)
EXTENDS Naturals, FiniteSets

CONSTANTS
  MaxJobs,        \* bound: the job counts n tried are 0 .. MaxJobs
  Word            \* 2^64: arithmetic is modulo Word

\* m <<= 1, again and again.
Doubled[e \in Nat] == IF e = 0 THEN 1 ELSE 2 * Doubled[e - 1]

\* A modulus is an int64 too, for Int63n.
PermutationAssumption ==
  /\ MaxJobs \in Nat
  /\ \E w \in 2 .. 64 : Word = Doubled[w]
  /\ 4 * MaxJobs <= Word

VARIABLES
  n, m, a, c,     \* the fields of jobPermutation
  currentX, steps, emitted,
  out             \* history: how often each index has been returned

params == <<n, m, a, c>>
vars == <<params, currentX, steps, emitted, out>>

\* for m < n { m <<= 1 }: the next power of two >= n.
Powers == { Doubled[e] : e \in 0 .. MaxJobs }
NextPowerOfTwo(k) ==
  CHOOSE p \in Powers : p >= k /\ \A q \in Powers : q >= k => p <= q

\* a = 4k+1 with k drawn below m/4; 1 for a modulus below 4.
Multipliers(mod) ==
  IF mod < 4 THEN {1} ELSE { 4 * k + 1 : k \in 0 .. (mod \div 4) - 1 }
\* Int63() | 1: any odd number below 2^63.
Increments == { k \in 0 .. (Word \div 2) - 1 : k % 2 = 1 }

Init ==
  /\ n \in 0 .. MaxJobs
  /\ m = IF n = 0 THEN 1 ELSE NextPowerOfTwo(n)
  /\ a \in IF n = 0 THEN {0} ELSE Multipliers(m)
  /\ c \in IF n = 0 THEN {0} ELSE Increments
  /\ currentX \in 0 .. m - 1
  /\ steps = 0 /\ emitted = 0
  /\ out = [i \in 0 .. MaxJobs |-> 0]

LCG(x) == ((a * x + c) % Word) % m

\* next() has more to do; bounding the walk by n and not by m is the mistake
\* permute.go:69-75 tells of.
MoreUpToN == emitted < n /\ steps < n
More == emitted < n /\ steps < m

Advance ==
  /\ currentX' = LCG(currentX)
  /\ steps' = steps + 1
  /\ UNCHANGED params

\* The value is an index: next() returns it.
Emit ==
  /\ More /\ currentX < n
  /\ Advance
  /\ emitted' = emitted + 1
  /\ out' = [out EXCEPT ![currentX] = @ + 1]

\* The value is past the end: next() walks on.
Skip ==
  /\ More /\ currentX >= n
  /\ Advance
  /\ UNCHANGED <<emitted, out>>

\* next() has returned false; the dispatcher stops.
Exhausted == ~More /\ UNCHANGED vars

Next == Emit \/ Skip \/ Exhausted

Spec == Init /\ [][Next]_vars

-----------------------------------------------------------------------------
(* Properties *)

\* Types; a whole cycle is walked at most once.
TypeOK ==
  /\ currentX \in 0 .. m - 1 /\ steps \in 0 .. m /\ emitted \in 0 .. n
  /\ out \in [0 .. MaxJobs -> Nat]

\* The permutation "visits every integer in [0, n) exactly once"
\* (permute.go:8-9): no index is returned twice or lies outside, at any
\* point of the walk, and none is missing
\* when next() returns false, whatever was drawn and although a*x+c may wrap.
VisitsEachOnce ==
  /\ \A i \in 0 .. MaxJobs : out[i] <= IF i < n THEN 1 ELSE 0
  /\ ~More => \A i \in 0 .. n - 1 : out[i] = 1
=============================================================================
