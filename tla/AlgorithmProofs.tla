-------------------------- MODULE AlgorithmProofs --------------------------
(***************************************************************************)
(* Theorems about the algorithms, for all their inputs and sizes: that the *)
(* job permutation (internal/scan/permute.go) and the random order of a    *)
(* network (internal/target/generator.go) visit everything once, that the  *)
(* fragments of a datagram (internal/evasion/fragment.go) make it again,   *)
(* that the reports of what became reachable (internal/compare, drift and  *)
(* explain) say exactly what did, and that a scan sends what was asked for *)
(* (config/options.go, scan/engine.go).                                    *)
(*                                                                         *)
(* Both orders are a linear congruential generator modulo a power of two.  *)
(* In 2^e steps it moves by 2^e but for a multiple of 2^(e+1) (Leaps, by   *)
(* induction over e), so the first two equal values are a whole modulus    *)
(* apart, and a cycle of as many different values has them all.  A word    *)
(* that wraps is a multiple of the modulus, and takes nothing away.        *)
(*                                                                         *)
(* A sequence made by a fold is what its invariant says after k elements,  *)
(* for the least k at which that would fail there is none.                 *)
(***************************************************************************)
EXTENDS AlgorithmParts, WellFoundedInduction, FiniteSetTheorems, SequenceTheorems, TLAPS

-----------------------------------------------------------------------------
(* Numbers.                                                                *)

\* A set of numbers has a least one.
LEMMA LeastNumber ==
  ASSUME NEW S \in SUBSET Nat, S # {}
  PROVE  \E k \in S : \A l \in S : k <= l
<1> DEFINE R == { p \in Nat \X Nat : p[1] < p[2] }
<1>1. IsWellFoundedOn(R, Nat)
  BY NatLessThanWellFounded DEF OpToRel
<1>2. \A l, k \in Nat : l < k => <<l, k>> \in R
  OBVIOUS
<1> HIDE DEF R
<1>3. PICK k \in S : \A l \in S : ~ (<<l, k>> \in R)
  BY <1>1, WFMin
<1>4. \A l \in S : k <= l
  <2> TAKE l \in S
  <2>1. k \in Nat /\ l \in Nat
    OBVIOUS
  <2>2. ~ (l < k)
    BY <1>2, <1>3, <2>1
  <2> QED BY <2>1, <2>2
<1> QED BY <1>4

\* Induction, of sets.
LEMMA Inductive ==
  ASSUME NEW S, 0 \in S, \A k \in Nat : k \in S => k + 1 \in S
  PROVE  \A k \in Nat : k \in S
<1> DEFINE Bad == Nat \ S
<1> SUFFICES ASSUME Bad # {} PROVE FALSE
  OBVIOUS
<1>1. PICK k \in Bad : \A l \in Bad : k <= l
  BY LeastNumber
<1>2. k \in Nat /\ k # 0 /\ k \notin S
  OBVIOUS
<1>3. k - 1 \in Nat /\ ~ (k <= k - 1) /\ (k - 1) + 1 = k
  BY <1>2
<1>4. k - 1 \in S
  BY <1>1, <1>3
<1> QED BY <1>2, <1>3, <1>4

\* What a function is repeated, from a value on.
Repeats(r, x, f, k) == r[0] = x /\ \A i \in 0 .. k - 1 : r[i + 1] = f[r[i]]
Forever(r, x, f)    == r[0] = x /\ \A k \in Nat : r[k + 1] = f[r[k]]

\* A function can be repeated forever from any value on.
LEMMA Iterates ==
  ASSUME NEW W, NEW x \in W, NEW f \in [W -> W]
  PROVE  \E r \in [Nat -> W] : Forever(r, x, f)
<1> DEFINE Runs(k) == { r \in [0 .. k -> W] : Repeats(r, x, f, k) }
           S == { k \in Nat : Runs(k) # {} }
<1>1. 0 \in S
  <2>1. [i \in 0 .. 0 |-> x] \in Runs(0)
    BY DEF Repeats
  <2> QED BY <2>1
<1>2. ASSUME NEW k \in Nat, k \in S PROVE k + 1 \in S
  <2>1. PICK r \in [0 .. k -> W] : Repeats(r, x, f, k)
    BY <1>2
  <2> DEFINE g == [i \in 0 .. k + 1 |-> IF i = k + 1 THEN f[r[k]] ELSE r[i]]
  <2>2. r[k] \in W /\ f[r[k]] \in W
    OBVIOUS
  <2>3. /\ g \in [0 .. k + 1 -> W] /\ g[k + 1] = f[r[k]]
        /\ \A i \in 0 .. k : g[i] = r[i]
    BY <2>2
  <2> HIDE DEF g
  <2>4. ASSUME NEW i \in 0 .. (k + 1) - 1 PROVE g[i + 1] = f[g[i]]
    <3>1. CASE i = k
      BY <2>3, <3>1
    <3>2. CASE i # k
      <4>1. i \in 0 .. k - 1 /\ i \in 0 .. k /\ i + 1 \in 0 .. k
        BY <3>2
      <4> QED BY <2>1, <2>3, <4>1 DEF Repeats
    <3> QED BY <3>1, <3>2
  <2>5. g[0] = x
    BY <2>1, <2>3 DEF Repeats
  <2>6. g \in Runs(k + 1)
    BY <2>3, <2>4, <2>5 DEF Repeats
  <2> QED BY <2>6
<1>3. \A k \in Nat : Runs(k) # {}
  <2> HIDE DEF Runs
  <2>1. \A k \in Nat : k \in S
    <3> HIDE DEF S
    <3> QED BY <1>1, <1>2, Inductive
  <2> QED BY <2>1
\* Two runs agree as far as both go.
<1>4. ASSUME NEW k \in Nat, NEW g \in Runs(k), NEW h \in Runs(k + 1)
      PROVE  \A i \in 0 .. k : g[i] = h[i]
  <2> DEFINE H == { i \in Nat : i <= k => g[i] = h[i] }
  <2>1. 0 \in H
    BY DEF Repeats
  <2>2. ASSUME NEW i \in Nat, i \in H PROVE i + 1 \in H
    <3> SUFFICES ASSUME i + 1 <= k PROVE g[i + 1] = h[i + 1]
      OBVIOUS
    <3>1. i <= k /\ i \in 0 .. k - 1 /\ i \in 0 .. (k + 1) - 1
      OBVIOUS
    <3>2. g[i] = h[i]
      BY <2>2, <3>1
    <3> QED BY <3>1, <3>2 DEF Repeats
  <2>3. \A i \in Nat : i \in H
    <3> HIDE DEF H
    <3> QED BY <2>1, <2>2, Inductive
  <2> QED BY <2>3
<1> DEFINE Some(k) == CHOOSE r : r \in Runs(k)
           whole == [k \in Nat |-> Some(k)[k]]
<1>5. \A k \in Nat : Some(k) \in Runs(k)
  BY <1>3
<1>6. \A k \in Nat : /\ Some(k) \in [0 .. k -> W] /\ Some(k)[0] = x
                     /\ Some(k + 1)[k + 1] = f[Some(k + 1)[k]]
  <2> TAKE k \in Nat
  <2> HIDE DEF Some
  <2>1. Some(k) \in Runs(k) /\ Some(k + 1) \in Runs(k + 1)
    BY <1>5
  <2>2. k \in 0 .. (k + 1) - 1
    OBVIOUS
  <2> QED BY <2>1, <2>2 DEF Repeats
<1>7. \A k \in Nat : Some(k + 1)[k] = Some(k)[k]
  <2> TAKE k \in Nat
  <2> HIDE DEF Some, Runs
  <2>1. Some(k) \in Runs(k) /\ Some(k + 1) \in Runs(k + 1) /\ k \in 0 .. k
    BY <1>5
  <2> QED BY <1>4, <2>1
<1>8. whole \in [Nat -> W]
  <2> HIDE DEF Some
  <2> QED BY <1>6
<1>9. whole[0] = x /\ \A k \in Nat : whole[k + 1] = f[whole[k]]
  <2> HIDE DEF Some
  <2>1. whole[0] = x
    BY <1>6
  <2>2. ASSUME NEW k \in Nat PROVE whole[k + 1] = f[whole[k]]
    <3>1. whole[k] = Some(k)[k] /\ whole[k + 1] = Some(k + 1)[k + 1]
      OBVIOUS
    <3>2. Some(k + 1)[k + 1] = f[Some(k + 1)[k]] /\ Some(k + 1)[k] = Some(k)[k]
      BY <1>6, <1>7
    <3> HIDE DEF whole
    <3> QED BY <3>1, <3>2
  <2> QED BY <2>1, <2>2
<1> HIDE DEF whole
<1> QED BY <1>8, <1>9 DEF Forever

\* The powers of two, each twice the one before.
LEMMA DoubledIs ==
  /\ P!Doubled \in [Nat -> Nat \ {0}] /\ P!Doubled[0] = 1
  /\ \A k \in Nat : P!Doubled[k + 1] = 2 * P!Doubled[k]
<1> DEFINE Is(g) == g = [e \in Nat |-> IF e = 0 THEN 1 ELSE 2 * g[e - 1]]
           twice == [i \in Nat |-> 2 * i]
<1>1. PICK g \in [Nat -> Nat] : g[0] = 1 /\ \A k \in Nat : g[k + 1] = twice[g[k]]
  <2>1. twice \in [Nat -> Nat] /\ 1 \in Nat
    OBVIOUS
  <2> HIDE DEF twice
  <2>2. PICK g \in [Nat -> Nat] : Forever(g, 1, twice)
    BY <2>1, Iterates
  <2> QED BY <2>2 DEF Forever
<1>2. Is(g)
  <2>1. \A e \in Nat : g[e] = IF e = 0 THEN 1 ELSE 2 * g[e - 1]
    <3> TAKE e \in Nat
    <3>1. CASE e = 0
      BY <1>1, <3>1
    <3>2. CASE e # 0
      <4>1. e - 1 \in Nat /\ (e - 1) + 1 = e
        BY <3>2
      <4>2. g[(e - 1) + 1] = twice[g[e - 1]] /\ g[e - 1] \in Nat
        BY <1>1, <4>1
      <4> QED BY <3>2, <4>1, <4>2
    <3> QED BY <3>1, <3>2
  <2> QED BY <2>1
<1>3. Is(P!Doubled)
  <2>1. P!Doubled = CHOOSE h : Is(h)
    BY DEF P!Doubled
  <2> HIDE DEF Is
  <2> QED BY <1>2, <2>1
<1>4. P!Doubled = [e \in Nat |-> IF e = 0 THEN 1 ELSE 2 * P!Doubled[e - 1]]
  BY <1>3
<1> HIDE DEF Is
<1>5. P!Doubled[0] = 1
  BY <1>4
<1>6. \A k \in Nat : P!Doubled[k + 1] = 2 * P!Doubled[k]
  <2> TAKE k \in Nat
  <2>1. k + 1 \in Nat /\ k + 1 # 0 /\ (k + 1) - 1 = k
    OBVIOUS
  <2> QED BY <1>4, <2>1
<1>7. \A k \in Nat : P!Doubled[k] \in Nat \ {0}
  <2> DEFINE S == { k \in Nat : P!Doubled[k] \in Nat \ {0} }
  <2>1. 0 \in S
    BY <1>5
  <2>2. ASSUME NEW k \in Nat, k \in S PROVE k + 1 \in S
    BY <1>6, <2>2
  <2>3. \A k \in Nat : k \in S
    <3> HIDE DEF S
    <3> QED BY <2>1, <2>2, Inductive
  <2> QED BY <2>3
<1>8. DOMAIN P!Doubled = Nat
  BY <1>4
<1>9. P!Doubled = [k \in Nat |-> P!Doubled[k]]
  BY <1>4
<1> QED BY <1>5, <1>6, <1>7, <1>9

-----------------------------------------------------------------------------
(* Multiples and remainders.                                               *)

\* q divides x.
Divides(q, x) == \E k \in Int : x = q * k

\* A divisor of two numbers divides their sum,
LEMMA DividesSum ==
  ASSUME NEW q \in Int, NEW x \in Int, NEW y \in Int, Divides(q, x), Divides(q, y)
  PROVE  Divides(q, x + y) /\ Divides(q, x - y)
<1>1. PICK k \in Int : x = q * k
  BY DEF Divides
<1>2. PICK l \in Int : y = q * l
  BY DEF Divides
<1>3. x + y = q * (k + l) /\ x - y = q * (k - l) /\ k + l \in Int /\ k - l \in Int
  BY <1>1, <1>2
<1> QED BY <1>3 DEF Divides

\* and one of a number its multiples.
LEMMA DividesProduct ==
  ASSUME NEW q \in Int, NEW x \in Int, NEW y \in Int, Divides(q, x)
  PROVE  Divides(q, x * y) /\ Divides(q, y * x)
<1>1. PICK k \in Int : x = q * k
  BY DEF Divides
<1>2. k * y \in Int /\ x * y = q * (k * y) /\ y * x = q * (k * y)
  BY <1>1
<1> QED BY <1>2 DEF Divides

\* What is left is less than the divisor, and a multiple of it away.
LEMMA Remainder ==
  ASSUME NEW q \in Nat \ {0}, NEW x \in Nat
  PROVE  x % q \in 0 .. q - 1 /\ Divides(q, x - (x % q))
<1>1. x % q \in 0 .. q - 1 /\ x \div q \in Nat
  OBVIOUS
<1>2. x = q * (x \div q) + (x % q)
  OBVIOUS
<1>3. x - (x % q) = q * (x \div q)
  <2> DEFINE d == x \div q
             e == x % q
  <2>1. d \in Nat /\ e \in Nat /\ q * d \in Nat /\ x = q * d + e
    BY <1>1, <1>2
  <2> HIDE DEF d, e
  <2>2. x - e = q * d
    BY <2>1
  <2> QED BY <2>2 DEF d, e
<1>4. Divides(q, x - (x % q))
  <2>1. x \div q \in Int
    BY <1>1
  <2> QED BY <1>3, <2>1, Zenon DEF Divides
<1> QED BY <1>1, <1>4

\* A multiple that is less than the divisor is none of it.
LEMMA SmallMultiple ==
  ASSUME NEW q \in Nat \ {0}, NEW x \in Int, Divides(q, x), - q < x, x < q
  PROVE  x = 0
<1>1. PICK k \in Int : x = q * k
  BY DEF Divides
<1>2. CASE k = 0
  BY <1>1, <1>2
<1>3. CASE k >= 1
  <2>1. k - 1 \in Nat /\ q * (k - 1) \in Nat /\ q * k = q * (k - 1) + q
    BY <1>3
  <2>2. q * k >= q
    BY <2>1
  <2> QED BY <1>1, <2>2
<1>4. CASE k <= -1
  <2>1. -1 - k \in Nat /\ q * (-1 - k) \in Nat /\ q * k = - q - q * (-1 - k)
    BY <1>4
  <2>2. q * k <= - q
    BY <2>1
  <2> QED BY <1>1, <2>2
<1> QED BY <1>2, <1>3, <1>4

\* Numbers a multiple of the divisor apart have the same remainder.
LEMMA SameRemainder ==
  ASSUME NEW q \in Nat \ {0}, NEW x \in Nat, NEW y \in Nat
  PROVE  x % q = y % q <=> Divides(q, x - y)
<1>1. /\ x % q \in 0 .. q - 1 /\ Divides(q, x - (x % q))
      /\ y % q \in 0 .. q - 1 /\ Divides(q, y - (y % q))
  BY Remainder
<1> DEFINE d == x % q
           e == y % q
<1>2. /\ d \in 0 .. q - 1 /\ Divides(q, x - d)
      /\ e \in 0 .. q - 1 /\ Divides(q, y - e)
  BY <1>1
<1> HIDE DEF d, e
<1>3. Divides(q, (x - d) - (y - e))
  BY <1>2, DividesSum
<1>4. ASSUME d = e PROVE Divides(q, x - y)
  <2>1. (x - d) - (y - e) = x - y
    BY <1>2, <1>4
  <2> QED BY <1>3, <2>1
<1>5. ASSUME Divides(q, x - y) PROVE d = e
  <2>1. Divides(q, (x - y) - ((x - d) - (y - e)))
    BY <1>2, <1>3, <1>5, DividesSum
  <2>2. (x - y) - ((x - d) - (y - e)) = d - e
    BY <1>2
  <2>3. Divides(q, d - e) /\ d - e \in Int /\ - q < d - e /\ d - e < q
    BY <1>2, <2>1, <2>2
  <2>4. d - e = 0
    BY <2>3, SmallMultiple
  <2> QED BY <1>2, <2>4
<1> QED BY <1>4, <1>5 DEF d, e

\* To wrap at a multiple of the divisor does not change the remainder.
LEMMA WrapsAway ==
  ASSUME NEW q \in Nat \ {0}, NEW w \in Nat \ {0}, Divides(q, w), NEW x \in Nat
  PROVE  (x % w) % q = x % q
<1>1. x % w \in Nat /\ Divides(w, x - (x % w))
  <2>1. x % w \in 0 .. w - 1 /\ Divides(w, x - (x % w))
    BY Remainder
  <2> QED BY <2>1
<1> DEFINE d == x % w
<1>2. d \in Nat /\ Divides(w, x - d)
  BY <1>1
<1> HIDE DEF d
<1>3. PICK k \in Int : x - d = w * k
  BY <1>2 DEF Divides
<1>4. Divides(q, w * k)
  <2>1. q \in Int /\ w \in Int
    OBVIOUS
  <2> QED BY <2>1, DividesProduct
<1>5. Divides(q, x - d)
  BY <1>3, <1>4
<1>6. x % q = d % q
  BY <1>2, <1>5, SameRemainder
<1> QED BY <1>6 DEF d

-----------------------------------------------------------------------------
(* The generator, before anything wraps.                                   *)

\* The constants newJobPermutation draws for a modulus above two.
Multiplier(y) == \E k \in Nat : y = 4 * k + 1
Increment(z)  == \E k \in Nat : z = 2 * k + 1

\* The values of the generator, were there no modulus.
Generates(x, y, z) ==
  x \in [Nat -> Nat] /\ \A i \in Nat : x[i + 1] = y * x[i] + z

\* In q steps it moves by q, but for a multiple of 2 * q.
Leaps(x, q) == \A i \in Nat : Divides(2 * q, (x[i + q] - x[i]) - q)

\* One step is a leap of one.
LEMMA LeapsOne ==
  ASSUME NEW y \in Nat, Multiplier(y), NEW z \in Nat, Increment(z),
         NEW x, Generates(x, y, z)
  PROVE  Leaps(x, 1)
<1> SUFFICES ASSUME NEW i \in Nat PROVE Divides(2 * 1, (x[i + 1] - x[i]) - 1)
  BY DEF Leaps
<1>1. PICK k \in Nat : y = 4 * k + 1
  BY DEF Multiplier
<1>2. PICK l \in Nat : z = 2 * l + 1
  BY DEF Increment
<1>3. x[i] \in Nat /\ x[i + 1] = y * x[i] + z
  BY DEF Generates
<1> DEFINE v == x[i]
<1>4. v \in Nat /\ x[i + 1] = (4 * k + 1) * v + (2 * l + 1)
  BY <1>1, <1>2, <1>3
<1>5. k * v \in Nat /\ (4 * k + 1) * v = 4 * (k * v) + v
  BY <1>4
<1>6. (x[i + 1] - v) - 1 = 2 * (2 * (k * v) + l) /\ 2 * (2 * (k * v) + l) = (2 * 1) * (2 * (k * v) + l)
      /\ 2 * (k * v) + l \in Int
  BY <1>4, <1>5
<1> QED BY <1>6 DEF Divides

\* Twice as many steps move twice as far.
LEMMA LeapsTwice ==
  ASSUME NEW y \in Nat, Multiplier(y), NEW z \in Nat,
         NEW x, Generates(x, y, z), NEW q \in Nat \ {0}, Leaps(x, q)
  PROVE  Leaps(x, 2 * q)
<1> DEFINE D(i) == x[i + q] - x[i]
<1>1. \A i \in Nat : x[i] \in Nat /\ D(i) \in Int /\ Divides(2 * q, D(i) - q)
  BY DEF Generates, Leaps
<1>2. PICK k \in Nat : y = 4 * k + 1
  BY DEF Multiplier
\* Each step leaves the move what it is, but for a multiple of 4 * q.
<1>3. ASSUME NEW i \in Nat PROVE Divides(4 * q, D(i + 1) - D(i))
  <2>1. /\ x[i + 1] = y * x[i] + z /\ x[(i + 1) + q] = y * x[i + q] + z
        /\ x[i] \in Nat /\ x[i + q] \in Nat
    <3>1. i + q \in Nat /\ (i + 1) + q = (i + q) + 1
      OBVIOUS
    <3> QED BY <3>1 DEF Generates
  <2>2. D(i + 1) = y * D(i)
    BY <2>1
  <2> HIDE DEF D
  <2>3. D(i) \in Int /\ D(i + 1) - D(i) = (4 * k) * D(i)
    BY <1>1, <1>2, <2>2
  <2>4. PICK l \in Int : D(i) - q = (2 * q) * l
    BY <1>1 DEF Divides
  <2>5. D(i) = q * (1 + 2 * l)
    <3>1. q * (1 + 2 * l) = q + (2 * q) * l
      OBVIOUS
    <3> QED BY <2>3, <2>4, <3>1
  <2>6. (4 * k) * (q * (1 + 2 * l)) = (4 * q) * (k * (1 + 2 * l))
    OBVIOUS
  <2>7. k * (1 + 2 * l) \in Int /\ D(i + 1) - D(i) = (4 * q) * (k * (1 + 2 * l))
    BY <2>3, <2>5, <2>6
  <2> QED BY <2>7 DEF Divides
<1>4. ASSUME NEW i \in Nat PROVE \A j \in Nat : Divides(4 * q, D(i + j) - D(i))
  <2> DEFINE S == { j \in Nat : Divides(4 * q, D(i + j) - D(i)) }
  <2>1. 0 \in S
    <3>1. D(i + 0) - D(i) = (4 * q) * 0
      <4>1. i + 0 = i
        OBVIOUS
      <4> HIDE DEF D
      <4> QED BY <4>1, <1>1
    <3> QED BY <3>1 DEF Divides
  <2>2. ASSUME NEW j \in Nat, j \in S PROVE j + 1 \in S
    <3>1. Divides(4 * q, D((i + j) + 1) - D(i + j)) /\ Divides(4 * q, D(i + j) - D(i))
      BY <1>3, <2>2
    <3>2. (i + j) + 1 = i + (j + 1) /\ i + j \in Nat /\ i + (j + 1) \in Nat
      OBVIOUS
    <3> HIDE DEF D
    <3>3. D(i + (j + 1)) \in Int /\ D(i + j) \in Int /\ D(i) \in Int
      BY <1>1, <3>2
    <3>4. Divides(4 * q, (D(i + (j + 1)) - D(i + j)) + (D(i + j) - D(i)))
      BY <3>1, <3>2, <3>3, DividesSum
    <3>5. (D(i + (j + 1)) - D(i + j)) + (D(i + j) - D(i)) = D(i + (j + 1)) - D(i)
      BY <3>3
    <3> QED BY <3>4, <3>5
  <2>3. \A j \in Nat : j \in S
    <3> HIDE DEF S
    <3> QED BY <2>1, <2>2, Inductive
  <2> QED BY <2>3
<1> SUFFICES ASSUME NEW i \in Nat
             PROVE  Divides(2 * (2 * q), (x[i + 2 * q] - x[i]) - 2 * q)
  BY DEF Leaps
<1>5. x[i + 2 * q] - x[i] = D(i + q) + D(i)
  <2>1. i + 2 * q = (i + q) + q /\ i + q \in Nat /\ (i + q) + q \in Nat
    OBVIOUS
  <2> QED BY <1>1, <2>1
<1> HIDE DEF D
<1>6. D(i) \in Int /\ D(i + q) \in Int
  BY <1>1
<1>7. PICK k1 \in Int : D(i + q) - D(i) = (4 * q) * k1
  BY <1>4 DEF Divides
<1>8. PICK k2 \in Int : D(i) - q = (2 * q) * k2
  BY <1>1 DEF Divides
<1>9. (D(i + q) + D(i)) - 2 * q = (2 * (2 * q)) * (k1 + k2)
  <2>1. (D(i + q) + D(i)) - 2 * q = (4 * q) * k1 + 2 * ((2 * q) * k2)
    BY <1>6, <1>7, <1>8
  <2>2. (4 * q) * k1 + 2 * ((2 * q) * k2) = (2 * (2 * q)) * (k1 + k2)
    OBVIOUS
  <2> QED BY <2>1, <2>2
<1>10. k1 + k2 \in Int
  OBVIOUS
<1> QED BY <1>5, <1>9, <1>10 DEF Divides

\* So 2^e steps move by 2^e, but for a multiple of its double.
LEMMA LeapsAlways ==
  ASSUME NEW y \in Nat, Multiplier(y), NEW z \in Nat, Increment(z),
         NEW x, Generates(x, y, z)
  PROVE  \A e \in Nat : Leaps(x, P!Doubled[e])
<1> DEFINE S == { e \in Nat : Leaps(x, P!Doubled[e]) }
<1>1. 0 \in S
  BY LeapsOne, DoubledIs
<1>2. ASSUME NEW e \in Nat, e \in S PROVE e + 1 \in S
  <2>1. P!Doubled[e] \in Nat \ {0} /\ P!Doubled[e + 1] = 2 * P!Doubled[e]
    BY DoubledIs
  <2> QED BY <1>2, <2>1, LeapsTwice
<1> HIDE DEF S
<1>3. \A e \in Nat : e \in S
  BY <1>1, <1>2, Inductive
<1> QED BY <1>3 DEF S

\* So do any number of leaps.
LEMMA ManyLeaps ==
  ASSUME NEW x \in [Nat -> Nat], NEW q \in Nat \ {0}, Leaps(x, q), NEW i \in Nat
  PROVE  \A j \in Nat : Divides(2 * q, (x[i + j * q] - x[i]) - j * q)
<1> DEFINE S == { j \in Nat : Divides(2 * q, (x[i + j * q] - x[i]) - j * q) }
<1>1. 0 \in S
  <2>1. 0 * q = 0 /\ i + 0 = i /\ x[i] \in Nat
    OBVIOUS
  <2>2. (x[i + 0 * q] - x[i]) - 0 * q = (2 * q) * 0
    BY <2>1
  <2> QED BY <2>2 DEF Divides
<1>2. ASSUME NEW j \in Nat, j \in S PROVE j + 1 \in S
  <2>1. j * q \in Nat /\ i + j * q \in Nat /\ i + (j + 1) * q = (i + j * q) + q
        /\ (j + 1) * q = j * q + q /\ (i + j * q) + q \in Nat
    OBVIOUS
  <2> DEFINE p == j * q
  <2>2. /\ p \in Nat /\ i + p \in Nat /\ i + (j + 1) * q = (i + p) + q
        /\ (j + 1) * q = p + q /\ (i + p) + q \in Nat
    BY <2>1
  <2>3. Divides(2 * q, (x[i + p] - x[i]) - p)
    BY <1>2
  <2> HIDE DEF p
  <2>4. Divides(2 * q, (x[(i + p) + q] - x[i + p]) - q)
    BY <2>2 DEF Leaps
  <2>5. x[i] \in Nat /\ x[i + p] \in Nat /\ x[(i + p) + q] \in Nat
    BY <2>2
  <2>6. Divides(2 * q, ((x[(i + p) + q] - x[i + p]) - q) + ((x[i + p] - x[i]) - p))
    BY <2>2, <2>3, <2>4, <2>5, DividesSum
  <2>7. ((x[(i + p) + q] - x[i + p]) - q) + ((x[i + p] - x[i]) - p)
          = (x[(i + p) + q] - x[i]) - (p + q)
    BY <2>2, <2>5
  <2> QED BY <2>2, <2>6, <2>7
<1> HIDE DEF S
<1>3. \A j \in Nat : j \in S
  BY <1>1, <1>2, Inductive
<1> QED BY <1>3 DEF S

\* Values that are the same but for a multiple of a power of two are as many
\* steps apart.
LEMMA SameOnlyAfterCycle ==
  ASSUME NEW y \in Nat, Multiplier(y), NEW z \in Nat, Increment(z),
         NEW x, Generates(x, y, z), NEW i \in Nat, NEW j \in Nat
  PROVE  \A e \in Nat : Divides(P!Doubled[e], x[i + j] - x[i]) => Divides(P!Doubled[e], j)
<1> DEFINE d == x[i + j] - x[i]
           S == { e \in Nat : Divides(P!Doubled[e], d) => Divides(P!Doubled[e], j) }
<1>0. d \in Int /\ x \in [Nat -> Nat]
  BY DEF Generates
<1>1. 0 \in S
  <2>1. P!Doubled[0] = 1 /\ j = 1 * j
    BY DoubledIs
  <2> QED BY <2>1 DEF Divides
<1>2. ASSUME NEW e \in Nat, e \in S PROVE e + 1 \in S
  <2> DEFINE q == P!Doubled[e]
  <2>1. q \in Nat \ {0} /\ P!Doubled[e + 1] = 2 * q
    BY DoubledIs
  <2>2. Leaps(x, q)
    BY LeapsAlways
  <2>3. Divides(q, d) => Divides(q, j)
    BY <1>2
  <2> HIDE DEF q, d
  <2> SUFFICES ASSUME Divides(2 * q, d) PROVE Divides(2 * q, j)
    BY <2>1 DEF d
  <2>4. PICK k \in Int : d = (2 * q) * k
    BY DEF Divides
  <2>5. 2 * k \in Int /\ d = q * (2 * k)
    BY <2>1, <2>4
  <2>6. PICK l \in Int : j = q * l
    BY <2>3, <2>5 DEF Divides
  <2>7. l \in Nat /\ j = l * q
    <3>1. j = l * q
      BY <2>1, <2>6
    <3>2. ASSUME l <= -1 PROVE FALSE
      <4>1. -1 - l \in Nat /\ q * (-1 - l) \in Nat /\ q * l = - q - q * (-1 - l)
        BY <2>1, <3>2
      <4> QED BY <2>1, <2>6, <4>1
    <3> QED BY <3>1, <3>2
  <2>8. Divides(2 * q, (x[i + l * q] - x[i]) - l * q)
    BY <1>0, <2>1, <2>2, <2>7, ManyLeaps
  <2>9. Divides(2 * q, d - j)
    BY <2>7, <2>8 DEF d
  <2>10. Divides(2 * q, d - (d - j))
    BY <1>0, <2>1, <2>9, DividesSum
  <2>11. d - (d - j) = j
    BY <1>0
  <2> QED BY <2>10, <2>11
<1> HIDE DEF S
<1>3. \A e \in Nat : e \in S
  BY <1>1, <1>2, Inductive
<1> QED BY <1>3 DEF S

-----------------------------------------------------------------------------
(* The generator, modulo a power of two.                                   *)

\* k steps of it, from its first value on.
Walked(r, k, y, z, q) ==
  /\ r \in [0 .. k -> 0 .. q - 1]
  /\ \A i \in 0 .. k - 1 : r[i + 1] = (y * r[i] + z) % q

\* Less than a cycle apart, its values differ.
LEMMA ValuesDiffer ==
  ASSUME NEW y \in Nat, Multiplier(y), NEW z \in Nat, Increment(z),
         NEW e \in Nat, NEW q, q = P!Doubled[e],
         NEW k \in Nat, NEW r, Walked(r, k, y, z, q),
         NEW i \in 0 .. k, NEW j \in 0 .. k, i < j, j - i < q
  PROVE  r[i] # r[j]
<1>0. q \in Nat \ {0}
  BY DoubledIs
<1>w. /\ \A l \in 0 .. k : r[l] \in Nat
      /\ \A l \in 0 .. k - 1 : r[l + 1] = (y * r[l] + z) % q
  <2>1. \A l \in 0 .. k : r[l] \in 0 .. q - 1
    BY DEF Walked
  <2>2. 0 .. q - 1 \subseteq Nat
    BY <1>0
  <2> QED BY <2>1, <2>2 DEF Walked
<1>1. r[0] \in Nat /\ 0 \in 0 .. k
  BY <1>w
<1> DEFINE f == [v \in Nat |-> y * v + z]
<1>2. PICK x \in [Nat -> Nat] : Forever(x, r[0], f)
  <2>1. f \in [Nat -> Nat]
    OBVIOUS
  <2> HIDE DEF f
  <2> QED BY <1>1, <2>1, Iterates
<1>3. Generates(x, y, z) /\ x[0] = r[0]
  <2>1. x[0] = r[0] /\ \A l \in Nat : x[l + 1] = f[x[l]] /\ x[l] \in Nat
    BY <1>2 DEF Forever
  <2> QED BY <2>1 DEF Generates
<1> DEFINE S == { l \in Nat : l <= k => Divides(q, x[l] - r[l]) }
<1>4. 0 \in S
  <2>1. x[0] - r[0] = q * 0
    BY <1>0, <1>1, <1>3
  <2> QED BY <2>1 DEF Divides
<1>5. ASSUME NEW l \in Nat, l \in S PROVE l + 1 \in S
  <2> SUFFICES ASSUME l + 1 <= k PROVE Divides(q, x[l + 1] - r[l + 1])
    OBVIOUS
  <2>1. l <= k /\ l \in 0 .. k /\ l \in 0 .. k - 1 /\ l + 1 \in 0 .. k
    OBVIOUS
  <2>2. Divides(q, x[l] - r[l])
    BY <1>5, <2>1
  <2>3. /\ x[l] \in Nat /\ x[l + 1] = y * x[l] + z
        /\ r[l] \in Nat /\ r[l + 1] = (y * r[l] + z) % q /\ r[l + 1] \in Nat
    <3>1. x[l] \in Nat /\ x[l + 1] = y * x[l] + z
      BY <1>3 DEF Generates
    <3>2. r[l] \in Nat /\ r[l + 1] \in Nat /\ r[l + 1] = (y * r[l] + z) % q
      BY <1>w, <2>1
    <3> QED BY <3>1, <3>2
  <2> DEFINE u == x[l]
             v == r[l]
             t == y * v + z
  <2>4. u \in Nat /\ v \in Nat /\ Divides(q, u - v) /\ y * u \in Nat /\ y * v \in Nat
        /\ y * (u - v) = y * u - y * v
    BY <2>2, <2>3
  <2>5. t \in Nat /\ r[l + 1] = t % q /\ x[l + 1] = y * u + z
    BY <2>3, <2>4
  <2>6. t - v * y = z
    BY <2>4
  <2> HIDE DEF u, v, t
  <2>7. Divides(q, t - (t % q))
    BY <1>0, <2>5, Remainder
  <2>8. Divides(q, y * (u - v))
    <3>1. q \in Int /\ y \in Int /\ u - v \in Int
      BY <1>0, <2>4
    <3> QED BY <2>4, <3>1, DividesProduct
  <2>9. Divides(q, y * (u - v) + (t - (t % q)))
    BY <1>0, <2>3, <2>4, <2>5, <2>7, <2>8, DividesSum
  <2>10. y * (u - v) + (t - (t % q)) = x[l + 1] - r[l + 1]
    <3>1. t = y * v + z
      BY DEF t
    <3> QED BY <2>3, <2>4, <2>5, <3>1
  <2> QED BY <2>9, <2>10
<1>6. \A l \in Nat : l \in S
  <2> HIDE DEF S
  <2> QED BY <1>4, <1>5, Inductive
<1>7. SUFFICES ASSUME r[i] = r[j] PROVE FALSE
  OBVIOUS
<1>8. /\ i \in Nat /\ j \in Nat /\ x[i] \in Nat /\ x[j] \in Nat
      /\ r[i] \in Nat /\ r[j] \in Nat
  <2>1. i \in Nat /\ j \in Nat
    OBVIOUS
  <2>2. r[i] \in Nat /\ r[j] \in Nat
    BY <1>w
  <2>3. x[i] \in Nat /\ x[j] \in Nat
    BY <2>1
  <2> QED BY <2>1, <2>2, <2>3
<1>9. Divides(q, x[i] - r[i]) /\ Divides(q, x[j] - r[j])
  BY <1>6, <1>8
<1>10. Divides(q, (x[j] - r[j]) - (x[i] - r[i]))
  <2>1. q \in Int /\ x[i] - r[i] \in Int /\ x[j] - r[j] \in Int
    BY <1>0, <1>8
  <2> QED BY <1>9, <2>1, DividesSum
<1>11. (x[j] - r[j]) - (x[i] - r[i]) = x[i + (j - i)] - x[i]
  <2>1. i + (j - i) = j
    BY <1>8
  <2> QED BY <1>7, <1>8, <2>1
<1>12. j - i \in Nat /\ j - i # 0
  BY <1>8
<1>13. Divides(q, j - i)
  BY <1>3, <1>8, <1>10, <1>11, <1>12, SameOnlyAfterCycle
<1>14. - q < j - i
  BY <1>0, <1>12
<1>15. j - i = 0
  BY <1>0, <1>12, <1>13, <1>14, SmallMultiple
<1> QED BY <1>12, <1>15

\* What is below a number is as many.
LEMMA UpToIsFinite ==
  ASSUME NEW q \in Nat
  PROVE  IsFiniteSet(0 .. q - 1) /\ Cardinality(0 .. q - 1) = q
  BY FS_Interval

\* A whole cycle has every value.
LEMMA CycleIsFull ==
  ASSUME NEW y \in Nat, Multiplier(y), NEW z \in Nat, Increment(z),
         NEW e \in Nat, NEW q, q = P!Doubled[e],
         NEW k \in Nat, q - 1 <= k, NEW r, Walked(r, k, y, z, q)
  PROVE  \A v \in 0 .. q - 1 : \E i \in 0 .. q - 1 : r[i] = v
<1>0. q \in Nat \ {0}
  BY DoubledIs
<1> DEFINE I == 0 .. q - 1
           g == [i \in I |-> r[i]]
<1>1. I \subseteq 0 .. k
  BY <1>0
<1>2. g \in [I -> I]
  BY <1>1 DEF Walked
<1>3. ASSUME NEW i \in I, NEW j \in I, g[i] = g[j] PROVE i = j
  <2>1. i \in 0 .. k /\ j \in 0 .. k /\ r[i] = r[j] /\ j - i < q /\ i - j < q
        /\ i \in Nat /\ j \in Nat
    BY <1>0, <1>1, <1>3
  <2>2. ~ (i < j)
    BY <2>1, ValuesDiffer
  <2>3. ~ (j < i)
    BY <2>1, ValuesDiffer
  <2> QED BY <2>1, <2>2, <2>3
<1>4. g \in Injection(I, I)
  <2> HIDE DEF g, I
  <2> QED BY <1>2, <1>3 DEF Injection, IsInjective
<1>5. IsFiniteSet(I)
  <2>1. q \in Nat
    BY <1>0
  <2>2. IsFiniteSet(0 .. q - 1)
    BY <2>1, UpToIsFinite
  <2> QED BY <2>2
<1>6. g \in Surjection(I, I)
  <2> HIDE DEF g, I
  <2> QED BY <1>4, <1>5, FS_Injection
<1>7. \A v \in I : \E i \in I : g[i] = v
  <2> HIDE DEF g, I
  <2> QED BY <1>6 DEF Surjection
<1> QED BY <1>7

-----------------------------------------------------------------------------
(* The permutation.                                                        *)

\* What newJobPermutation draws, when there are jobs.
Drawn ==
  /\ n \in 0 .. MaxJobs /\ m \in Nat \ {0} /\ a \in Nat /\ c \in Nat /\ n <= m
  /\ n > 0 => /\ \E e \in Nat : m = P!Doubled[e]
              /\ Divides(m, Word) /\ Multiplier(a) /\ Increment(c)

\* The values walked so far are the generator's; those that are indices have
\* been returned, and nothing else has.
Returned == { i \in 0 .. n - 1 : out[i] = 1 }
\* The walk that led here, of which the state has the last value.
Walks ==
  \E r : /\ Walked(r, steps, a, c, m) /\ r[steps] = currentX
         /\ \A i \in 0 .. MaxJobs :
              out[i] = IF i < n /\ \E k \in 0 .. steps - 1 : r[k] = i THEN 1 ELSE 0

\* The inductive invariant of the walk.
PermutationInv ==
  /\ P!TypeOK /\ Drawn
  /\ n > 0 => Walks
  /\ n = 0 => \A i \in 0 .. MaxJobs : out[i] = 0
  /\ emitted = Cardinality(Returned)

\* A word is a number above zero.
LEMMA WordSize == ASSUME P!PermutationAssumption PROVE Word \in Nat \ {0}
  BY DoubledIs DEF P!PermutationAssumption

\* A power of two divides those that are not less.
LEMMA PowersDivide ==
  ASSUME NEW i \in Nat PROVE \A j \in Nat : Divides(P!Doubled[i], P!Doubled[i + j])
<1> DEFINE S == { j \in Nat : Divides(P!Doubled[i], P!Doubled[i + j]) }
<1>1. 0 \in S
  <2>1. P!Doubled[i] \in Nat /\ i + 0 = i /\ P!Doubled[i] = P!Doubled[i] * 1
    BY DoubledIs
  <2> QED BY <2>1 DEF Divides
<1>2. ASSUME NEW j \in Nat, j \in S PROVE j + 1 \in S
  <2>1. i + j \in Nat /\ i + (j + 1) = (i + j) + 1
    OBVIOUS
  <2>2. /\ P!Doubled[i] \in Int /\ P!Doubled[i + j] \in Int
        /\ P!Doubled[i + (j + 1)] = 2 * P!Doubled[i + j]
    BY <2>1, DoubledIs
  <2> QED BY <1>2, <2>2, DividesProduct
<1> HIDE DEF S
<1>3. \A j \in Nat : j \in S
  BY <1>1, <1>2, Inductive
<1> QED BY <1>3 DEF S

\* Powers of two grow with their exponents.
LEMMA PowersGrow ==
  ASSUME NEW i \in Nat
  PROVE  /\ \A j \in Nat : P!Doubled[i] <= P!Doubled[i + j]
         /\ i < P!Doubled[i]
<1>1. \A j \in Nat : P!Doubled[i] <= P!Doubled[i + j]
  <2> DEFINE S == { j \in Nat : P!Doubled[i] <= P!Doubled[i + j] }
  <2>1. 0 \in S
    <3>1. i + 0 = i /\ P!Doubled[i] \in Nat
      BY DoubledIs
    <3> QED BY <3>1
  <2>2. ASSUME NEW j \in Nat, j \in S PROVE j + 1 \in S
    <3>1. i + j \in Nat /\ i + (j + 1) = (i + j) + 1
      OBVIOUS
    <3>2. /\ P!Doubled[i] \in Nat /\ P!Doubled[i + j] \in Nat
          /\ P!Doubled[i + (j + 1)] = 2 * P!Doubled[i + j]
      BY <3>1, DoubledIs
    <3> QED BY <2>2, <3>2
  <2> HIDE DEF S
  <2>3. \A j \in Nat : j \in S
    BY <2>1, <2>2, Inductive
  <2> QED BY <2>3 DEF S
<1>2. i < P!Doubled[i]
  <2> DEFINE S == { j \in Nat : j < P!Doubled[j] }
  <2>1. 0 \in S
    BY DoubledIs
  <2>2. ASSUME NEW j \in Nat, j \in S PROVE j + 1 \in S
    <3>1. P!Doubled[j] \in Nat /\ P!Doubled[j + 1] = 2 * P!Doubled[j]
      BY DoubledIs
    <3> QED BY <2>2, <3>1
  <2> HIDE DEF S
  <2>3. \A j \in Nat : j \in S
    BY <2>1, <2>2, Inductive
  <2> QED BY <2>3 DEF S
<1> QED BY <1>1, <1>2

\* So one that is not more divides one that is not less.
LEMMA LessDivides ==
  ASSUME NEW i \in Nat, NEW j \in Nat, P!Doubled[i] <= P!Doubled[j]
  PROVE  Divides(P!Doubled[i], P!Doubled[j])
<1>0. P!Doubled[i] \in Nat /\ P!Doubled[j] \in Nat /\ P!Doubled[j] # 0
  BY DoubledIs
<1>1. i <= j
  <2> SUFFICES ASSUME j + 1 <= i PROVE FALSE
    OBVIOUS
  <2>1. i - (j + 1) \in Nat /\ (j + 1) + (i - (j + 1)) = i /\ j + 1 \in Nat
    OBVIOUS
  <2>2. P!Doubled[j + 1] <= P!Doubled[i]
    BY <2>1, PowersGrow
  <2>3. P!Doubled[j + 1] = 2 * P!Doubled[j]
    BY DoubledIs
  <2> QED BY <1>0, <2>2, <2>3
<1>2. j - i \in Nat /\ i + (j - i) = j
  BY <1>1
<1> QED BY <1>2, PowersDivide

\* The least power of two that is not less: it divides a word.
LEMMA ModulusIs ==
  ASSUME P!PermutationAssumption, NEW k \in 1 .. MaxJobs
  PROVE  LET p == P!NextPowerOfTwo(k)
         IN  /\ p \in Nat \ {0} /\ k <= p
             /\ \E e \in Nat : p = P!Doubled[e]
             /\ Divides(p, Word)
<1>0. MaxJobs \in Nat /\ k \in Nat /\ k >= 1 /\ k <= MaxJobs
  BY DEF P!PermutationAssumption
<1> DEFINE E == { e \in 0 .. MaxJobs : P!Doubled[e] >= k }
           Is(p) == p \in P!Powers /\ p >= k /\ \A q \in P!Powers : q >= k => p <= q
<1>1. MaxJobs \in E
  <2>1. MaxJobs < P!Doubled[MaxJobs] /\ P!Doubled[MaxJobs] \in Nat
    BY <1>0, PowersGrow, DoubledIs
  <2> QED BY <1>0, <2>1
<1>2. PICK e \in E : \A f \in E : e <= f
  <2>1. E \in SUBSET Nat /\ E # {}
    BY <1>0, <1>1
  <2> HIDE DEF E
  <2> QED BY <2>1, LeastNumber
<1>3. e \in Nat /\ e \in 0 .. MaxJobs /\ P!Doubled[e] >= k /\ P!Doubled[e] \in Nat
  BY <1>0, DoubledIs
<1>4. ASSUME NEW q \in P!Powers, q >= k PROVE P!Doubled[e] <= q
  <2>1. PICK f \in 0 .. MaxJobs : q = P!Doubled[f]
    BY DEF P!Powers
  <2>2. f \in E /\ e <= f
    BY <1>2, <1>4, <2>1
  <2>3. f - e \in Nat /\ e + (f - e) = f
    BY <1>0, <1>3, <2>1, <2>2
  <2> QED BY <1>3, <2>1, <2>3, PowersGrow
<1>5. P!Doubled[e] \in P!Powers
  BY <1>3 DEF P!Powers
<1>6. Is(P!Doubled[e])
  BY <1>3, <1>4, <1>5
<1>7. P!NextPowerOfTwo(k) = CHOOSE p : Is(p)
  <2>1. P!NextPowerOfTwo(k)
          = CHOOSE p : p \in P!Powers /\ (p >= k /\ \A q \in P!Powers : q >= k => p <= q)
    BY DEF P!NextPowerOfTwo
  <2> QED BY <2>1
<1> DEFINE p == P!NextPowerOfTwo(k)
<1>8. Is(p)
  <2> HIDE DEF Is
  <2> QED BY <1>6, <1>7
<1>9. p = P!Doubled[e]
  <2>1. p \in P!Powers /\ p >= k /\ p <= P!Doubled[e]
    BY <1>3, <1>5, <1>8
  <2>2. P!Doubled[e] <= p
    BY <1>4, <2>1
  <2>3. p \in Nat
    <3>1. PICK f \in 0 .. MaxJobs : p = P!Doubled[f]
      BY <2>1 DEF P!Powers
    <3> QED BY <1>0, <3>1, DoubledIs
  <2> QED BY <1>3, <2>1, <2>2, <2>3
<1> HIDE DEF p, Is
\* It is less than twice as many, and so no more than the word.
<1>10. P!Doubled[e] <= 2 * k
  <2>1. CASE e = 0
    BY <1>0, <2>1, DoubledIs
  <2>2. CASE e # 0
    <3>1. e - 1 \in Nat /\ (e - 1) + 1 = e /\ e - 1 \in 0 .. MaxJobs /\ ~ (e <= e - 1)
      BY <1>0, <1>3, <2>2
    <3>2. P!Doubled[e - 1] \in Nat /\ P!Doubled[e] = 2 * P!Doubled[e - 1]
      BY <3>1, DoubledIs
    <3>3. e - 1 \notin E
      BY <1>2, <3>1
    <3>4. ~ (P!Doubled[e - 1] >= k)
      BY <3>1, <3>3
    <3> QED BY <1>0, <3>2, <3>4
  <2> QED BY <2>1, <2>2
<1>11. PICK w \in 2 .. 64 : Word = P!Doubled[w]
  BY DEF P!PermutationAssumption
<1>12. w \in Nat /\ Word \in Nat /\ P!Doubled[e] <= Word
  <2>1. w \in Nat /\ Word \in Nat /\ 4 * MaxJobs <= Word
    BY <1>11, DoubledIs DEF P!PermutationAssumption
  <2> QED BY <1>0, <1>3, <1>10, <2>1
<1>13. Divides(P!Doubled[e], Word)
  BY <1>3, <1>11, <1>12, LessDivides
<1>14. P!Doubled[e] \in Nat \ {0}
  BY <1>3, DoubledIs
<1>15. p \in Nat \ {0} /\ k <= p /\ (\E f \in Nat : p = P!Doubled[f]) /\ Divides(p, Word)
  BY <1>0, <1>3, <1>9, <1>13, <1>14
<1> QED BY <1>15 DEF p

\* Before the first job nothing is walked.
LEMMA PermutationAtFirst == ASSUME P!PermutationAssumption, P!Init PROVE PermutationInv
<1>0. MaxJobs \in Nat /\ n \in 0 .. MaxJobs /\ n \in Nat /\ steps = 0 /\ emitted = 0
      /\ out = [i \in 0 .. MaxJobs |-> 0] /\ currentX \in 0 .. m - 1
  BY DEF P!Init, P!PermutationAssumption
<1>1. Drawn /\ (n > 0 => Increment(c) /\ Multiplier(a))
  <2>1. CASE n = 0
    BY <1>0, <2>1 DEF P!Init, Drawn
  <2>2. CASE n # 0
    <3>1. n \in 1 .. MaxJobs /\ m = P!NextPowerOfTwo(n) /\ a \in P!Multipliers(m)
          /\ c \in P!Increments
      BY <1>0, <2>2 DEF P!Init
    <3>2. /\ m \in Nat \ {0} /\ n <= m /\ (\E e \in Nat : m = P!Doubled[e])
          /\ Divides(m, Word)
      BY <3>1, ModulusIs
    <3>3. a \in Nat /\ Multiplier(a)
      <4>1. CASE m < 4
        <5>1. a = 4 * 0 + 1
          BY <3>1, <4>1 DEF P!Multipliers
        <5> QED BY <5>1 DEF Multiplier
      <4>2. CASE ~ (m < 4)
        <5>1. PICK k \in 0 .. (m \div 4) - 1 : a = 4 * k + 1
          BY <3>1, <4>2 DEF P!Multipliers
        <5>2. k \in Nat
          BY <3>2, <5>1
        <5> QED BY <5>1, <5>2 DEF Multiplier
      <4> QED BY <4>1, <4>2
    <3>4. c \in Nat /\ Increment(c)
      <4>1. Word \in Nat
        BY WordSize
      <4>2. c \in Nat /\ c % 2 = 1
        BY <3>1, <4>1 DEF P!Increments
      <4>3. c \div 2 \in Nat /\ c = 2 * (c \div 2) + 1
        BY <4>2
      <4> QED BY <4>2, <4>3 DEF Increment
    <3> QED BY <1>0, <3>1, <3>2, <3>3, <3>4 DEF Drawn
  <2> QED BY <2>1, <2>2
<1>2. P!TypeOK
  <2>1. m \in Nat
    BY <1>1 DEF Drawn
  <2> QED BY <1>0, <2>1 DEF P!TypeOK
<1>3. ASSUME n > 0 PROVE Walks
  <2> DEFINE r == [k \in 0 .. 0 |-> currentX]
  <2>1. Walked(r, steps, a, c, m) /\ r[steps] = currentX
    BY <1>0 DEF Walked
  <2>2. \A i \in 0 .. MaxJobs : out[i] = 0 /\ ~ \E k \in 0 .. steps - 1 : r[k] = i
    BY <1>0
  <2> HIDE DEF r
  <2> QED BY <2>1, <2>2 DEF Walks
<1>4. \A i \in 0 .. MaxJobs : out[i] = 0
  BY <1>0
<1>5. emitted = Cardinality(Returned)
  <2>1. Returned = {}
    BY <1>0 DEF Returned
  <2> QED BY <1>0, <2>1, FS_EmptySet
<1> QED BY <1>1, <1>2, <1>3, <1>4, <1>5 DEF PermutationInv

\* One more value of the walk, an index or none.
LEMMA WalkStep ==
  ASSUME P!PermutationAssumption, PermutationInv, P!More, P!Emit \/ P!Skip
  PROVE  PermutationInv'
<1>0. /\ MaxJobs \in Nat /\ n \in Nat /\ n <= MaxJobs /\ n > 0
      /\ steps \in Nat /\ steps < m /\ m \in Nat \ {0}
      /\ emitted \in Nat /\ emitted < n
      /\ currentX \in 0 .. m - 1 /\ currentX \in Nat
      /\ out \in [0 .. MaxJobs -> Nat]
  <2>1. MaxJobs \in Nat /\ n \in 0 .. MaxJobs /\ m \in Nat \ {0}
    BY DEF P!PermutationAssumption, PermutationInv, Drawn
  <2>2. steps \in 0 .. m /\ emitted \in 0 .. n /\ currentX \in 0 .. m - 1
        /\ out \in [0 .. MaxJobs -> Nat]
    BY DEF PermutationInv, P!TypeOK
  <2>3. emitted < n /\ steps < m
    BY DEF P!More
  <2> QED BY <2>1, <2>2, <2>3
<1>1. /\ a \in Nat /\ c \in Nat /\ Multiplier(a) /\ Increment(c) /\ Divides(m, Word)
      /\ \E e \in Nat : m = P!Doubled[e]
  BY <1>0 DEF PermutationInv, Drawn
<1>2. /\ UNCHANGED P!params /\ steps' = steps + 1 /\ currentX' = P!LCG(currentX)
      /\ n' = n /\ m' = m /\ a' = a /\ c' = c
  BY DEF P!Emit, P!Skip, P!Advance, P!params
<1>3. currentX' = (a * currentX + c) % m /\ currentX' \in 0 .. m - 1
  <2>1. a * currentX \in Nat
    BY <1>0, <1>1
  <2>2. a * currentX + c \in Nat
    BY <1>1, <2>1
  <2> DEFINE y == a * currentX + c
  <2>3. currentX' = (y % Word) % m
    BY <1>2 DEF P!LCG
  <2>4. y \in Nat
    BY <2>2
  <2> HIDE DEF y
  <2>5. (y % Word) % m = y % m
    BY <1>0, <1>1, <2>4, WordSize, WrapsAway
  <2>6. y % m \in 0 .. m - 1
    BY <1>0, <2>4, Remainder
  <2> QED BY <2>3, <2>5, <2>6 DEF y
<1>4. PICK r : /\ Walked(r, steps, a, c, m) /\ r[steps] = currentX
               /\ \A i \in 0 .. MaxJobs :
                    out[i] = IF i < n /\ \E k \in 0 .. steps - 1 : r[k] = i
                             THEN 1 ELSE 0
  BY <1>0 DEF PermutationInv, Walks
<1> DEFINE g == [k \in 0 .. steps + 1 |-> IF k = steps + 1 THEN currentX' ELSE r[k]]
<1>5. /\ Walked(g, steps + 1, a, c, m) /\ g[steps + 1] = currentX'
      /\ \A k \in 0 .. steps : g[k] = r[k]
  <2>1. /\ \A k \in 0 .. steps : r[k] \in 0 .. m - 1
        /\ \A k \in 0 .. steps - 1 : r[k + 1] = (a * r[k] + c) % m
    BY <1>4 DEF Walked
  <2>2. g \in [0 .. steps + 1 -> 0 .. m - 1] /\ g[steps + 1] = currentX'
        /\ \A k \in 0 .. steps : g[k] = r[k]
    BY <1>0, <1>3, <2>1
  <2> HIDE DEF g
  <2>3. ASSUME NEW k \in 0 .. (steps + 1) - 1
        PROVE  g[k + 1] = (a * g[k] + c) % m
    <3>1. CASE k = steps
      <4>1. steps \in 0 .. steps /\ g[k + 1] = currentX' /\ g[k] = currentX
        BY <1>0, <1>4, <2>2, <3>1
      <4> QED BY <1>3, <4>1
    <3>2. CASE k # steps
      <4>1. k \in 0 .. steps - 1 /\ k \in 0 .. steps /\ k + 1 \in 0 .. steps
        BY <1>0, <3>2
      <4>2. g[k + 1] = r[k + 1] /\ g[k] = r[k] /\ r[k + 1] = (a * r[k] + c) % m
        BY <2>1, <2>2, <4>1
      <4> QED BY <4>2
    <3> QED BY <3>1, <3>2
  <2> QED BY <2>2, <2>3 DEF Walked
<1> HIDE DEF g
\* The value is new: what has been walked is less than a cycle.
<1>6. \A k \in 0 .. steps - 1 : r[k] # currentX
  <2> TAKE k \in 0 .. steps - 1
  <2>1. PICK e \in Nat : m = P!Doubled[e]
    BY <1>1
  <2>2. k \in 0 .. steps /\ steps \in 0 .. steps /\ k < steps /\ steps - k < m
    BY <1>0
  <2> QED BY <1>0, <1>1, <1>4, <2>1, <2>2, ValuesDiffer
<1>7. \A i : (\E k \in 0 .. (steps + 1) - 1 : g[k] = i)
               <=> (\E k \in 0 .. steps - 1 : r[k] = i) \/ i = currentX
  <2> TAKE i
  <2>1. \A k : k \in 0 .. (steps + 1) - 1 <=> k \in 0 .. steps - 1 \/ k = steps
    BY <1>0
  <2>2. g[steps] = currentX /\ \A k \in 0 .. steps - 1 : g[k] = r[k]
    BY <1>0, <1>4, <1>5
  <2> QED BY <2>1, <2>2
<1>8. /\ out' = IF currentX < n THEN [out EXCEPT ![currentX] = @ + 1] ELSE out
      /\ emitted' = IF currentX < n THEN emitted + 1 ELSE emitted
  BY <1>0 DEF P!Emit, P!Skip
<1>9. ASSUME NEW i \in 0 .. MaxJobs
      PROVE  out'[i] = IF i < n /\ \E k \in 0 .. (steps + 1) - 1 : g[k] = i
                       THEN 1 ELSE 0
  <2>1. CASE i = currentX
    <3>1. CASE currentX < n
      <4>1. out[i] = 0
        BY <1>4, <1>6, <2>1
      <4>2. out'[i] = 1
        BY <1>0, <1>8, <2>1, <3>1, <4>1
      <4> QED BY <1>7, <2>1, <3>1, <4>2
    <3>2. CASE ~ (currentX < n)
      BY <1>4, <1>8, <2>1, <3>2
    <3> QED BY <3>1, <3>2
  <2>2. CASE i # currentX
    <3>1. out'[i] = out[i]
      BY <1>0, <1>8, <2>2
    <3> QED BY <1>4, <1>7, <2>2, <3>1
  <2> QED BY <2>1, <2>2
<1>10. Walks'
  BY <1>2, <1>5, <1>9 DEF Walks
<1>11. out' \in [0 .. MaxJobs -> Nat]
  BY <1>0, <1>8
<1>12. Returned \in SUBSET (0 .. n - 1) /\ IsFiniteSet(Returned)
       /\ Cardinality(Returned) = emitted
  <2>1. Returned \subseteq 0 .. n - 1
    BY DEF Returned
  <2> QED BY <1>0, <2>1, UpToIsFinite, FS_Subset DEF PermutationInv
<1>13. emitted' = Cardinality(Returned')
  <2>1. CASE currentX < n
    <3>1. currentX \in 0 .. MaxJobs /\ currentX \in 0 .. n - 1
      BY <1>0, <2>1
    <3>2. out[currentX] = 0 /\ out'[currentX] = 1
      <4>1. out[currentX] = 0
        BY <1>4, <1>6, <3>1
      <4>2. out' = [out EXCEPT ![currentX] = @ + 1]
        BY <1>8, <2>1
      <4> QED BY <1>0, <3>1, <4>1, <4>2
    <3>3. Returned' = Returned \cup {currentX} /\ currentX \notin Returned
      <4>1. \A i \in 0 .. n - 1 : i # currentX => out'[i] = out[i]
        BY <1>0, <1>8
      <4> QED BY <1>2, <3>1, <3>2, <4>1 DEF Returned
    <3>4. Cardinality(Returned') = Cardinality(Returned) + 1
      BY <1>12, <3>3, FS_AddElement
    <3> QED BY <1>8, <1>12, <2>1, <3>4
  <2>2. CASE ~ (currentX < n)
    <3>1. Returned' = Returned
      BY <1>2, <1>8, <2>2 DEF Returned
    <3> QED BY <1>8, <1>12, <2>2, <3>1
  <2> QED BY <2>1, <2>2
<1>14. P!TypeOK'
  <2>1. steps' \in 0 .. m' /\ currentX' \in 0 .. m' - 1
    BY <1>0, <1>2, <1>3
  <2>2. emitted' \in 0 .. n'
    BY <1>0, <1>2, <1>8
  <2> QED BY <1>11, <2>1, <2>2 DEF P!TypeOK
<1>15. Drawn'
  BY <1>2 DEF PermutationInv, Drawn
<1> QED BY <1>0, <1>2, <1>10, <1>13, <1>14, <1>15 DEF PermutationInv

\* An index is returned once at most; when the walk is over, by its count or at
\* the end of the cycle, each has been.
LEMMA InvVisits == ASSUME P!PermutationAssumption, PermutationInv PROVE P!VisitsEachOnce
<1>0. /\ MaxJobs \in Nat /\ n \in Nat /\ n <= MaxJobs /\ m \in Nat \ {0} /\ n <= m
      /\ steps \in Nat /\ steps <= m /\ emitted \in Nat /\ emitted <= n
  BY DEF P!PermutationAssumption, PermutationInv, P!TypeOK, Drawn
<1>1. CASE n = 0
  BY <1>0, <1>1 DEF PermutationInv, P!VisitsEachOnce
<1>2. CASE n # 0
  <2>1. PICK r : /\ Walked(r, steps, a, c, m)
                 /\ \A i \in 0 .. MaxJobs :
                      out[i] = IF i < n /\ \E k \in 0 .. steps - 1 : r[k] = i
                               THEN 1 ELSE 0
    BY <1>0, <1>2 DEF PermutationInv, Walks
  <2>2. \A i \in 0 .. MaxJobs : out[i] <= IF i < n THEN 1 ELSE 0
    BY <2>1
  <2>3. ASSUME ~ P!More, NEW i \in 0 .. n - 1 PROVE out[i] = 1
    <3>1. CASE emitted = n
      <4>1. Returned \in SUBSET (0 .. n - 1) /\ Cardinality(Returned) = n
        BY <3>1 DEF Returned, PermutationInv
      <4>2. Returned = 0 .. n - 1
        BY <1>0, <4>1, UpToIsFinite, FS_Subset
      <4> QED BY <4>2 DEF Returned
    <3>2. CASE steps = m
      <4>1. a \in Nat /\ c \in Nat /\ Multiplier(a) /\ Increment(c)
        BY <1>0, <1>2 DEF PermutationInv, Drawn
      <4>2. PICK e \in Nat : m = P!Doubled[e]
        BY <1>0, <1>2 DEF PermutationInv, Drawn
      <4>3. i \in 0 .. m - 1 /\ i \in 0 .. MaxJobs /\ i < n /\ m - 1 <= steps
        BY <1>0, <3>2
      <4>4. \E k \in 0 .. m - 1 : r[k] = i
        BY <1>0, <2>1, <4>1, <4>2, <4>3, CycleIsFull
      <4> QED BY <2>1, <3>2, <4>3, <4>4
    <3> QED BY <1>0, <2>3, <3>1, <3>2 DEF P!More
  <2> QED BY <2>2, <2>3 DEF P!VisitsEachOnce
<1> QED BY <1>1, <1>2

LEMMA PermutationStep ==
  ASSUME P!PermutationAssumption, PermutationInv, [P!Next]_(P!vars)
  PROVE  PermutationInv'
<1>1. CASE P!Emit \/ P!Skip
  BY <1>1, WalkStep DEF P!Emit, P!Skip
<1>2. CASE UNCHANGED P!vars
  BY <1>2 DEF P!vars, P!params, PermutationInv, P!TypeOK, Drawn, Walks, Returned
<1> QED BY <1>1, <1>2 DEF P!Next, P!Exhausted

-----------------------------------------------------------------------------
(* The random order of a network's addresses.                              *)

\* An order that visits the values under a size, each once.
Permutes(order, size) ==
  /\ order \in [1 .. size -> 0 .. size - 1]
  /\ \A v \in 0 .. size - 1 : \E i \in 1 .. size : order[i] = v
  /\ \A i, j \in 1 .. size : order[i] = order[j] => i = j

\* RandomCIDRGenerator returns each address of its network once, whatever it
\* drew and although a word wraps (target/generator.go:22-70).
THEOREM RandomOrderVisitsEachOnce ==
  ASSUME NEW e \in Nat, NEW w \in Nat, P!Doubled[e] <= P!Doubled[w],
         NEW g \in T!Generators(P!Doubled[e], P!Doubled[w])
  PROVE  Permutes(T!RandomOrder(g, P!Doubled[w]), P!Doubled[e])
<1> DEFINE q == P!Doubled[e]
           word == P!Doubled[w]
<1>0. q \in Nat \ {0} /\ word \in Nat \ {0} /\ Divides(q, word)
  BY DoubledIs, LessDivides
<1>1. g.m = q /\ g.x \in 0 .. q - 1 /\ g.a \in Nat /\ g.c \in Nat
      /\ Multiplier(g.a) /\ Increment(g.c)
  <2>1. PICK y \in IF q < 4 THEN {1} ELSE { 4 * k + 1 : k \in 0 .. q \div 4 - 1 },
             z \in { k \in 0 .. word \div 2 - 1 : k % 2 = 1 }, x \in 0 .. q - 1 :
               g = [m |-> q, a |-> y, c |-> z, x |-> x]
    BY DEF T!Generators
  <2>2. y \in Nat /\ Multiplier(y)
    <3>1. CASE q < 4
      <4>1. y = 4 * 0 + 1
        BY <3>1
      <4> QED BY <4>1 DEF Multiplier
    <3>2. CASE ~ (q < 4)
      <4>1. PICK k \in 0 .. q \div 4 - 1 : y = 4 * k + 1
        BY <3>2
      <4>2. k \in Nat
        BY <1>0, <4>1
      <4> QED BY <4>1, <4>2 DEF Multiplier
    <3> QED BY <3>1, <3>2
  <2>3. z \in Nat /\ Increment(z)
    <3>1. z \in Nat /\ z % 2 = 1
      BY <1>0
    <3>2. z \div 2 \in Nat /\ z = 2 * (z \div 2) + 1
      BY <3>1
    <3> QED BY <3>1, <3>2 DEF Increment
  <2> QED BY <2>1, <2>2, <2>3
<1> HIDE DEF q, word
<1> DEFINE W == 0 .. q - 1
           f == [v \in W |-> T!NextX(g, v, word)]
<1>2. \A v \in W : T!NextX(g, v, word) = (g.a * v + g.c) % q /\ T!NextX(g, v, word) \in W
  <2> TAKE v \in W
  <2> DEFINE u == g.a * v + g.c
  <2>1. u \in Nat
    <3>1. v \in Nat
      BY <1>0
    <3>2. g.a * v \in Nat
      BY <1>1, <3>1
    <3> QED BY <1>1, <3>2
  <2>2. T!NextX(g, v, word) = (u % word) % q
    BY <1>1 DEF T!NextX
  <2> HIDE DEF u
  <2>3. (u % word) % q = u % q /\ u % q \in 0 .. q - 1
    BY <1>0, <2>1, WrapsAway, Remainder
  <2> QED BY <2>2, <2>3 DEF u
<1>3. PICK r \in [Nat -> W] : Forever(r, g.x, f)
  <2>1. g.x \in W /\ f \in [W -> W]
    BY <1>1, <1>2
  <2> HIDE DEF W, f
  <2> QED BY <2>1, Iterates
<1>4. r[0] = g.x /\ \A k \in Nat : r[k + 1] = T!NextX(g, r[k], word)
  BY <1>3 DEF Forever
<1> HIDE DEF f
\* The order is these values.
<1> DEFINE Is(x) == x = [i \in 1 .. g.m |-> IF i = 1 THEN g.x
                                            ELSE T!NextX(g, x[i - 1], word)]
           order == T!RandomOrder(g, word)
<1> DEFINE h == [i \in 1 .. q |-> r[i - 1]]
<1>5. Is(h)
  <2>1. ASSUME NEW i \in 1 .. q
        PROVE  h[i] = IF i = 1 THEN g.x ELSE T!NextX(g, h[i - 1], word)
    <3>1. CASE i = 1
      BY <1>0, <1>4, <3>1
    <3>2. CASE i # 1
      <4>1. i - 1 \in 1 .. q /\ i - 2 \in Nat /\ (i - 2) + 1 = i - 1
            /\ (i - 1) - 1 = i - 2
        BY <1>0, <3>2
      <4>2. h[i] = r[i - 1] /\ h[i - 1] = r[i - 2]
        BY <4>1
      <4>3. r[(i - 2) + 1] = T!NextX(g, r[i - 2], word)
        BY <1>4, <4>1
      <4> HIDE DEF h
      <4> QED BY <3>2, <4>1, <4>2, <4>3
    <3> QED BY <3>1, <3>2
  <2>2. h = [i \in 1 .. q |-> h[i]]
    OBVIOUS
  <2>3. g.m = q
    BY <1>1
  <2> HIDE DEF h
  <2>4. h = [i \in 1 .. q |-> IF i = 1 THEN g.x ELSE T!NextX(g, h[i - 1], word)]
    BY <2>1, <2>2
  <2> QED BY <2>3, <2>4
<1>6. Is(order)
  <2>1. order = CHOOSE x : Is(x)
    BY DEF T!RandomOrder
  <2> HIDE DEF Is, order, h
  <2> QED BY <1>5, <2>1
<1> HIDE DEF order
<1>7. /\ order = [i \in 1 .. q |-> order[i]] /\ order[1] = g.x
      /\ \A i \in 1 .. q : i # 1 => order[i] = T!NextX(g, order[i - 1], word)
  <2>1. order = [i \in 1 .. q |-> IF i = 1 THEN g.x ELSE T!NextX(g, order[i - 1], word)]
    BY <1>1, <1>6
  <2>2. \A i \in 1 .. q :
          order[i] = IF i = 1 THEN g.x ELSE T!NextX(g, order[i - 1], word)
    BY <2>1
  <2>3. order = [i \in 1 .. q |-> order[i]]
    BY <2>1
  <2>4. 1 \in 1 .. q
    BY <1>0
  <2> QED BY <2>2, <2>3, <2>4
<1> HIDE DEF Is, h
<1>8. \A i \in 1 .. q : order[i] = r[i - 1]
  <2> DEFINE S == { k \in Nat : k < q => order[k + 1] = r[k] }
  <2>1. 0 \in S
    BY <1>4, <1>7
  <2>2. ASSUME NEW k \in Nat, k \in S PROVE k + 1 \in S
    <3> SUFFICES ASSUME k + 1 < q PROVE order[(k + 1) + 1] = r[k + 1]
      OBVIOUS
    <3>1. k < q /\ (k + 1) + 1 \in 1 .. q /\ (k + 1) + 1 # 1 /\ ((k + 1) + 1) - 1 = k + 1
      BY <1>0
    <3>2. order[(k + 1) + 1] = T!NextX(g, order[k + 1], word) /\ order[k + 1] = r[k]
      BY <1>7, <2>2, <3>1
    <3> QED BY <1>4, <3>2
  <2>3. \A k \in Nat : k \in S
    <3> HIDE DEF S
    <3> QED BY <2>1, <2>2, Inductive
  <2> TAKE i \in 1 .. q
  <2>4. i - 1 \in Nat /\ i - 1 < q /\ (i - 1) + 1 = i
    BY <1>0
  <2> QED BY <2>3, <2>4
<1> DEFINE path == [k \in 0 .. q - 1 |-> r[k]]
<1>9. \A k \in 0 .. q - 1 : k \in Nat /\ path[k] = r[k] /\ r[k] \in W
  BY <1>0, <1>3
<1>10. Walked(path, q - 1, g.a, g.c, q)
  <2>1. path \in [0 .. q - 1 -> 0 .. q - 1]
    BY <1>9
  <2>2. ASSUME NEW k \in 0 .. (q - 1) - 1 PROVE path[k + 1] = (g.a * path[k] + g.c) % q
    <3>1. k \in 0 .. q - 1 /\ k + 1 \in 0 .. q - 1 /\ k \in Nat
      BY <1>0
    <3> HIDE DEF path, W
    <3>2. r[k + 1] = T!NextX(g, r[k], word) /\ r[k] \in W
      BY <1>4, <1>9, <3>1
    <3>3. path[k] = r[k] /\ path[k + 1] = r[k + 1]
      BY <1>9, <3>1
    <3>4. T!NextX(g, r[k], word) = (g.a * r[k] + g.c) % q
      BY <1>2, <3>2
    <3> QED BY <3>2, <3>3, <3>4
  <2> HIDE DEF path
  <2> QED BY <2>1, <2>2 DEF Walked
<1> HIDE DEF path
<1>11. \A k, l \in 0 .. q - 1 : k < l => r[k] # r[l]
  <2> TAKE k, l \in 0 .. q - 1
  <2> HAVE k < l
  <2>1. q - 1 \in Nat /\ l - k < q /\ q = P!Doubled[e]
    BY <1>0 DEF q
  <2>2. path[k] # path[l]
    BY <1>1, <1>10, <2>1, ValuesDiffer
  <2> QED BY <1>9, <2>2
<1>12. \A v \in 0 .. q - 1 : \E k \in 0 .. q - 1 : path[k] = v
  <2>1. q - 1 \in Nat /\ q - 1 <= q - 1 /\ q = P!Doubled[e]
    BY <1>0 DEF q
  <2> QED BY <1>1, <1>10, <2>1, CycleIsFull
<1>13. order \in [1 .. q -> 0 .. q - 1]
  <2>1. \A i \in 1 .. q : i - 1 \in Nat
    BY <1>0
  <2>2. \A i \in 1 .. q : order[i] \in W
    BY <1>3, <1>8, <2>1
  <2> QED BY <1>7, <2>2
<1>14. \A i, j \in 1 .. q : order[i] = order[j] => i = j
  <2> TAKE i, j \in 1 .. q
  <2>1. /\ i - 1 \in 0 .. q - 1 /\ j - 1 \in 0 .. q - 1
        /\ i - 1 < j - 1 \/ j - 1 < i - 1 \/ i = j
    BY <1>0
  <2> QED BY <1>8, <1>11, <2>1
<1>15. \A v \in 0 .. q - 1 : \E i \in 1 .. q : order[i] = v
  <2> TAKE v \in 0 .. q - 1
  <2>1. PICK k \in 0 .. q - 1 : path[k] = v
    BY <1>12
  <2>2. k + 1 \in 1 .. q /\ (k + 1) - 1 = k
    BY <1>0
  <2>3. order[k + 1] = v
    BY <1>8, <1>9, <2>1, <2>2
  <2> QED BY <2>2, <2>3
<1>16. Permutes(order, q)
  BY <1>13, <1>14, <1>15 DEF Permutes
<1> QED BY <1>16 DEF q, word, order

-----------------------------------------------------------------------------
(* The fragmenter.                                                         *)

\* The sum of words is what adding them one after the other gives.
LEMMA WordSumIs ==
  ASSUME NEW k \in Nat, NEW words \in [1 .. k -> Nat], NEW sums,
         sums \in [0 .. k -> Nat], sums[0] = 0,
         \A i \in 1 .. k : sums[i] = sums[i - 1] + words[i]
  PROVE  Frag!WordSum(words) = sums[k]
<1> DEFINE Is(s) == s = [i \in 0 .. Len(words) |-> IF i = 0 THEN 0 ELSE s[i - 1] + words[i]]
           sum == CHOOSE s : Is(s)
<1>0. Len(words) = k
  OBVIOUS
<1>1. sums = [i \in 0 .. k |-> IF i = 0 THEN 0 ELSE sums[i - 1] + words[i]]
  <2>1. \A i \in 0 .. k : sums[i] = IF i = 0 THEN 0 ELSE sums[i - 1] + words[i]
    OBVIOUS
  <2>2. sums = [i \in 0 .. k |-> sums[i]]
    OBVIOUS
  <2> QED BY <2>1, <2>2
<1>2. Is(sums)
  BY <1>0, <1>1
<1>3. Is(sum)
  <2> HIDE DEF Is
  <2> QED BY <1>2
<1>4. Frag!WordSum(words) = sum[k]
  <2>1. Frag!WordSum(words) = sum[Len(words)]
    BY DEF Frag!WordSum
  <2> HIDE DEF sum
  <2> QED BY <1>0, <2>1
<1> HIDE DEF sum
<1>5. sum[0] = 0 /\ \A i \in 1 .. k : sum[i] = sum[i - 1] + words[i]
  <2>1. \A i \in 0 .. k : sum[i] = IF i = 0 THEN 0 ELSE sum[i - 1] + words[i]
    BY <1>0, <1>3
  <2> QED BY <2>1
<1> HIDE DEF Is
<1> DEFINE S == { i \in Nat : i <= k => sum[i] = sums[i] }
<1>6. 0 \in S
  BY <1>5
<1>7. ASSUME NEW i \in Nat, i \in S PROVE i + 1 \in S
  <2> SUFFICES ASSUME i + 1 <= k PROVE sum[i + 1] = sums[i + 1]
    OBVIOUS
  <2>1. i + 1 \in 1 .. k /\ (i + 1) - 1 = i /\ i <= k
    OBVIOUS
  <2>2. sum[i] = sums[i]
    BY <1>7, <2>1
  <2>3. sum[i + 1] = sum[i] + words[i + 1] /\ sums[i + 1] = sums[i] + words[i + 1]
    BY <1>5, <2>1
  <2> QED BY <2>2, <2>3
<1>8. \A i \in Nat : i \in S
  <2> HIDE DEF S
  <2> QED BY <1>6, <1>7, Inductive
<1> QED BY <1>4, <1>8

\* Headers: ten words.
Header == { h \in [1 .. 10 -> Nat] : \A i \in 1 .. 10 : h[i] < Frag!Words16 }

\* The sum of a header is that of its ten words.
LEMMA HeaderSum ==
  ASSUME NEW h \in Header
  PROVE  Frag!WordSum(h) = h[1] + h[2] + h[3] + h[4] + h[5] + h[6] + h[7] + h[8] + h[9] + h[10]
<1> DEFINE total(i) ==
             (IF i >= 1 THEN h[1] ELSE 0) + (IF i >= 2 THEN h[2] ELSE 0)
             + (IF i >= 3 THEN h[3] ELSE 0) + (IF i >= 4 THEN h[4] ELSE 0)
             + (IF i >= 5 THEN h[5] ELSE 0) + (IF i >= 6 THEN h[6] ELSE 0)
             + (IF i >= 7 THEN h[7] ELSE 0) + (IF i >= 8 THEN h[8] ELSE 0)
             + (IF i >= 9 THEN h[9] ELSE 0) + (IF i >= 10 THEN h[10] ELSE 0)
           sums == [i \in 0 .. 10 |-> total(i)]
<1>1. h \in [1 .. 10 -> Nat]
  BY DEF Header
<1>2. \A i \in 0 .. 10 : total(i) \in Nat
  BY <1>1
<1>3. total(0) = 0 /\ \A i \in 1 .. 10 : total(i) = total(i - 1) + h[i]
  <2>1. total(0) = 0
    OBVIOUS
  <2>2. ASSUME NEW i \in 1 .. 10 PROVE total(i) = total(i - 1) + h[i]
    <3>1. \/ i = 1 \/ i = 2 \/ i = 3 \/ i = 4 \/ i = 5
          \/ i = 6 \/ i = 7 \/ i = 8 \/ i = 9 \/ i = 10
      OBVIOUS
    <3> QED BY <1>1, <3>1
  <2> QED BY <2>1, <2>2
<1>4. total(10) = h[1] + h[2] + h[3] + h[4] + h[5] + h[6] + h[7] + h[8] + h[9] + h[10]
  BY <1>1
<1>5. sums \in [0 .. 10 -> Nat] /\ sums[0] = 0 /\ sums[10] = total(10)
      /\ \A i \in 1 .. 10 : sums[i] = sums[i - 1] + h[i]
  <2> HIDE DEF total
  <2> QED BY <1>2, <1>3
<1> HIDE DEF total, sums
<1>6. Frag!WordSum(h) = sums[10]
  BY <1>1, <1>5, WordSumIs
<1> QED BY <1>4, <1>5, <1>6

\* The carries are added twice, and that is enough for ten words.
Folded(total, word) == LET once == (total \div word) + (total % word)
                       IN  (word - 1) - ((once + (once \div word)) % word)

\* A sum and its folded complement are a multiple of all ones.
LEMMA FoldedIs ==
  ASSUME NEW word \in Nat, word > 9, NEW total \in Nat, total <= 9 * (word - 1)
  PROVE  /\ Folded(total, word) \in Nat /\ Folded(total, word) < word
         /\ Divides(word - 1, total + Folded(total, word))
         /\ total + Folded(total, word) > 0
<1>1. PICK high \in Nat, low \in Nat :
        /\ low < word /\ total = word * high + low
        /\ total \div word = high /\ total % word = low
  <2>1. /\ total \div word \in Nat /\ total % word \in 0 .. word - 1
        /\ total = word * (total \div word) + (total % word)
    OBVIOUS
  <2> QED BY <2>1
<1>2. high < 9
  <2> SUFFICES ASSUME 9 <= high PROVE FALSE
    OBVIOUS
  <2>1. PICK k \in Nat : high = 9 + k
    <3>1. high - 9 \in Nat /\ high = 9 + (high - 9)
      OBVIOUS
    <3> QED BY <3>1
  <2>2. word * high = 9 * word + word * k /\ word * k \in Nat
    BY <2>1
  <2> QED BY <1>1, <2>2
<1>3. PICK once \in Nat : once = high + low
  OBVIOUS
<1>4. Folded(total, word) = (word - 1) - ((once + (once \div word)) % word)
  BY <1>1, <1>3 DEF Folded
<1>5. CASE once < word
  <2>1. once \div word = 0 /\ once + 0 = once /\ once % word = once
    BY <1>5
  <2>2. Folded(total, word) = (word - 1) - once
    BY <1>4, <2>1
  <2>3. total + Folded(total, word) = (word - 1) * (high + 1)
    BY <1>1, <1>3, <2>2
  <2>4. total + Folded(total, word) > 0
    BY <1>1, <1>3, <1>5, <2>2
  <2>5. Divides(word - 1, total + Folded(total, word))
    <3>1. high + 1 \in Int
      OBVIOUS
    <3> QED BY <2>3, <3>1, Zenon DEF Divides
  <2> QED BY <1>5, <2>2, <2>4, <2>5
<1>6. CASE once >= word
  <2>1. once - word \in Nat /\ once - word < word /\ (once - word) + 1 < word
        /\ once = word * 1 + (once - word)
    BY <1>1, <1>2, <1>3, <1>6
  <2>2. once \div word = 1
    BY <2>1
  <2>3. (once + 1) % word = (once + 1) - word
    BY <2>1
  <2>4. Folded(total, word) = (word - 1) - ((once + 1) - word)
    BY <1>4, <2>2, <2>3
  <2>5. total + Folded(total, word) = (word - 1) * (high + 2)
    BY <1>1, <1>3, <2>4
  <2>6. total + Folded(total, word) > 0
    BY <1>1, <1>2, <1>3, <2>1, <2>4
  <2>7. Divides(word - 1, total + Folded(total, word))
    <3>1. high + 2 \in Int
      OBVIOUS
    <3> QED BY <2>5, <3>1, Zenon DEF Divides
  <2> QED BY <1>6, <2>1, <2>4, <2>6, <2>7
<1> QED BY <1>5, <1>6

\* Whatever its words are, the header with its checksum sums to all ones.
LEMMA ChecksumFits ==
  ASSUME NEW h \in Header, h[6] = 0, NEW g, g = [h EXCEPT ![6] = Frag!computeIPChecksum(h)]
  PROVE  /\ g \in Header
         /\ Frag!WordSum(g) % (Frag!Words16 - 1) = 0 /\ Frag!WordSum(g) > 0
<1> DEFINE total == h[1] + h[2] + h[3] + h[4] + h[5] + h[7] + h[8] + h[9] + h[10]
           word == Frag!Words16
           chk == Folded(total, word)
<1>0. word \in Nat /\ word > 9
  BY DEF Frag!Words16
<1> HIDE DEF word
<1>1. /\ h \in [1 .. 10 -> Nat]
      /\ h[1] < word /\ h[2] < word /\ h[3] < word /\ h[4] < word /\ h[5] < word
      /\ h[7] < word /\ h[8] < word /\ h[9] < word /\ h[10] < word
  BY DEF Header, word
<1>2. total \in Nat /\ total <= 9 * (word - 1)
  BY <1>0, <1>1
<1>3. Frag!WordSum(h) = total
  <2>1. Frag!WordSum(h) = h[1] + h[2] + h[3] + h[4] + h[5] + 0 + h[7] + h[8] + h[9] + h[10]
    BY HeaderSum
  <2> QED BY <1>1, <2>1
<1> HIDE DEF total
<1>4. /\ chk \in Nat /\ chk < word /\ Divides(word - 1, total + chk) /\ total + chk > 0
  BY <1>0, <1>2, FoldedIs
<1>5. Frag!computeIPChecksum(h) = chk
  <2>1. Frag!computeIPChecksum(h) = Folded(Frag!WordSum(h), Frag!Words16)
    BY Zenon DEF Frag!computeIPChecksum, Folded
  <2> QED BY <1>3, <2>1 DEF word
<1> HIDE DEF chk
<1>6. g \in [1 .. 10 -> Nat] /\ g[6] = chk
      /\ g[1] = h[1] /\ g[2] = h[2] /\ g[3] = h[3] /\ g[4] = h[4] /\ g[5] = h[5]
      /\ g[7] = h[7] /\ g[8] = h[8] /\ g[9] = h[9] /\ g[10] = h[10]
  BY <1>1, <1>4, <1>5
<1>7. g \in Header
  <2> SUFFICES ASSUME NEW i \in 1 .. 10 PROVE g[i] < Frag!Words16
    BY <1>6 DEF Header
  <2>1. \/ i = 1 \/ i = 2 \/ i = 3 \/ i = 4 \/ i = 5
        \/ i = 6 \/ i = 7 \/ i = 8 \/ i = 9 \/ i = 10
    OBVIOUS
  <2> QED BY <1>1, <1>4, <1>6, <2>1 DEF word
<1>8. Frag!WordSum(g) = g[1] + g[2] + g[3] + g[4] + g[5] + g[6] + g[7] + g[8] + g[9] + g[10]
  BY <1>7, HeaderSum
<1>9. Frag!WordSum(g) = total + chk
  BY <1>1, <1>4, <1>6, <1>8 DEF total
<1>10. (total + chk) % (word - 1) = 0
  <2> DEFINE p == word - 1
             x == total + chk
  <2>1. p \in Nat \ {0} /\ x \in Nat /\ x > 0 /\ Divides(p, x)
    BY <1>0, <1>2, <1>4
  <2> HIDE DEF p, x
  <2>2. x - 0 = x /\ 0 % p = 0
    BY <2>1
  <2>3. x % p = 0 % p
    BY <2>1, <2>2, SameRemainder
  <2> QED BY <2>2, <2>3 DEF p, x
<1> QED BY <1>4, <1>7, <1>9, <1>10 DEF word

\* What one turn of the loop cuts.
LEMMA ChunkIs ==
  ASSUME NEW length \in Nat, NEW mtu \in Nat \ {0}, mtu >= 8 \/ length <= mtu,
         NEW o \in Nat, o <= length
  PROVE  LET size == Frag!chunkSize(o, length, mtu)
         IN  /\ size \in Nat /\ o + size <= length /\ size <= mtu
             /\ o < length => size > 0
             /\ o + size < length => size = 8 * (mtu \div 8)
<1> DEFINE eights == mtu \div 8
<1>1. eights \in Nat /\ 8 * eights <= mtu /\ (mtu >= 8 => eights > 0)
      /\ eights * 8 = 8 * eights
  OBVIOUS
<1> HIDE DEF eights
<1>2. Frag!chunkSize(o, length, mtu) = IF o + mtu >= length THEN length - o ELSE eights * 8
  BY DEF Frag!chunkSize, eights
<1>3. CASE o + mtu >= length
  BY <1>2, <1>3
<1>4. CASE ~ (o + mtu >= length)
  BY <1>1, <1>2, <1>4 DEF eights
<1> QED BY <1>3, <1>4

\* The loop gets to the end of the payload, chunk by chunk.
LEMMA OffsetsAre ==
  ASSUME NEW length \in Nat, NEW mtu \in Nat \ {0}, mtu >= 8 \/ length <= mtu
  PROVE  LET off == Frag!offsets(length, mtu)
         IN  /\ off[0] = 0 /\ off[length] = length
             /\ \A k \in 0 .. length :
                  /\ off[k] \in Nat /\ off[k] <= length
                  /\ off[k] < length => \E j \in Nat : off[k] = 8 * j
             /\ \A k \in 1 .. length :
                  off[k] = off[k - 1] + Frag!chunkSize(off[k - 1], length, mtu)
<1> DEFINE W == 0 .. length
           f == [v \in W |-> v + Frag!chunkSize(v, length, mtu)]
           off == Frag!offsets(length, mtu)
           Is(x) == x = [k \in 0 .. length |->
                           IF k = 0 THEN 0
                           ELSE LET begun == x[k - 1]
                                IN  begun + Frag!chunkSize(begun, length, mtu)]
<1>1. \A v \in W : /\ f[v] = v + Frag!chunkSize(v, length, mtu) /\ f[v] \in W
                   /\ v < length => v < f[v]
                   /\ f[v] < length => f[v] = v + 8 * (mtu \div 8)
  <2> TAKE v \in W
  <2> DEFINE size == Frag!chunkSize(v, length, mtu)
  <2>0. v \in Nat /\ v <= length
    OBVIOUS
  <2>1. /\ size \in Nat /\ v + size <= length /\ (v < length => size > 0)
        /\ v + size < length => size = 8 * (mtu \div 8)
    BY <2>0, ChunkIs
  <2>2. f[v] = v + size
    OBVIOUS
  <2> HIDE DEF size, f
  <2>3. f[v] \in W /\ (v < length => v < f[v])
        /\ (f[v] < length => f[v] = v + 8 * (mtu \div 8))
    BY <2>0, <2>1, <2>2
  <2> QED BY <2>2, <2>3 DEF size
<1>2. PICK r \in [Nat -> W] : Forever(r, 0, f)
  <2>1. 0 \in W /\ f \in [W -> W]
    <3>1. \A v \in W : f[v] \in W
      BY <1>1
    <3> QED BY <3>1
  <2> HIDE DEF W, f
  <2> QED BY <2>1, Iterates
<1> HIDE DEF f
<1>3. r[0] = 0 /\ \A k \in Nat : r[k] \in W /\ r[k + 1] = f[r[k]]
  BY <1>2 DEF Forever
<1> DEFINE g == [k \in 0 .. length |-> r[k]]
<1>4. Is(g)
  <2>1. ASSUME NEW k \in 0 .. length, k # 0
        PROVE  g[k] = g[k - 1] + Frag!chunkSize(g[k - 1], length, mtu)
    <3>1. k - 1 \in 0 .. length /\ k - 1 \in Nat /\ (k - 1) + 1 = k
      BY <2>1
    <3>2. g[k] = r[(k - 1) + 1] /\ g[k - 1] = r[k - 1] /\ r[k - 1] \in W
      BY <1>3, <3>1
    <3>3. r[(k - 1) + 1] = f[r[k - 1]]
      BY <1>3, <3>1
    <3> HIDE DEF g, W
    <3> QED BY <1>1, <3>2, <3>3
  <2>2. g[0] = 0
    BY <1>3
  <2>3. g = [k \in 0 .. length |-> g[k]]
    OBVIOUS
  <2> HIDE DEF g
  <2> QED BY <2>1, <2>2, <2>3
<1>5. Is(off)
  <2>1. off = CHOOSE x : Is(x)
    BY DEF Frag!offsets
  <2> HIDE DEF Is, off, g
  <2> QED BY <1>4, <2>1
<1> HIDE DEF off, g
<1>6. off[0] = 0 /\ \A k \in 1 .. length :
        off[k] = off[k - 1] + Frag!chunkSize(off[k - 1], length, mtu)
  <2>1. \A k \in 0 .. length :
          off[k] = IF k = 0 THEN 0
                   ELSE off[k - 1] + Frag!chunkSize(off[k - 1], length, mtu)
    BY <1>5
  <2> QED BY <2>1
<1> HIDE DEF Is
\* The offset is a multiple of eight as long as the end is not reached, and each
\* turn that does not reach it gets on.
<1> DEFINE S == { k \in Nat : k <= length =>
                    /\ off[k] \in Nat /\ off[k] <= length
                    /\ off[k] < length => k <= off[k] /\ \E j \in Nat : off[k] = 8 * j }
<1>7. 0 \in S
  <2>1. 0 = 8 * 0
    OBVIOUS
  <2> QED BY <1>6, <2>1
<1>8. ASSUME NEW k \in Nat, k \in S PROVE k + 1 \in S
  <2> SUFFICES ASSUME k + 1 <= length
               PROVE  /\ off[k + 1] \in Nat /\ off[k + 1] <= length
                      /\ off[k + 1] < length =>
                           k + 1 <= off[k + 1] /\ \E j \in Nat : off[k + 1] = 8 * j
    OBVIOUS
  <2>1. /\ off[k] \in W
        /\ off[k] < length => k <= off[k] /\ \E j \in Nat : off[k] = 8 * j
    BY <1>8
  <2>2. off[k + 1] = off[k] + Frag!chunkSize(off[k], length, mtu)
    <3>1. k + 1 \in 1 .. length /\ (k + 1) - 1 = k
      OBVIOUS
    <3> QED BY <1>6, <3>1
  <2>3. off[k + 1] = f[off[k]]
    <3> HIDE DEF W
    <3> QED BY <1>1, <2>1, <2>2
  <2>4. /\ off[k + 1] \in W /\ (off[k] < length => off[k] < off[k + 1])
        /\ off[k + 1] < length => off[k + 1] = off[k] + 8 * (mtu \div 8)
    <3> HIDE DEF W
    <3> QED BY <1>1, <2>1, <2>3
  <2>5. ASSUME off[k + 1] < length
        PROVE  k + 1 <= off[k + 1] /\ \E j \in Nat : off[k + 1] = 8 * j
    <3>1. mtu \div 8 \in Nat
      OBVIOUS
    <3>2. off[k] < length
      <4>1. off[k + 1] = off[k] + 8 * (mtu \div 8) /\ 8 * (mtu \div 8) \in Nat
        BY <2>4, <2>5, <3>1
      <4> QED BY <2>1, <2>5, <4>1
    <3>3. PICK j \in Nat : off[k] = 8 * j
      BY <2>1, <3>2
    <3> DEFINE eights == mtu \div 8
    <3>4. eights \in Nat /\ off[k + 1] = off[k] + 8 * eights
      BY <2>4, <2>5, <3>1
    <3> HIDE DEF eights
    <3>5. off[k + 1] = 8 * (j + eights) /\ j + eights \in Nat
      BY <3>3, <3>4
    <3>6. k + 1 <= off[k + 1]
      BY <2>1, <2>4, <3>2
    <3> QED BY <3>5, <3>6
  <2> QED BY <2>4, <2>5
<1>9. \A k \in Nat : k \in S
  <2> HIDE DEF S
  <2> QED BY <1>7, <1>8, Inductive
<1>10. off[length] = length
  <2>1. /\ off[length] \in Nat /\ off[length] <= length
        /\ off[length] < length => length <= off[length]
    BY <1>9
  <2> QED BY <2>1
<1>11. \A k \in 0 .. length : /\ off[k] \in Nat /\ off[k] <= length
                              /\ off[k] < length => \E j \in Nat : off[k] = 8 * j
  BY <1>9
<1> QED BY <1>6, <1>10, <1>11 DEF off

\* The fragments of a payload: where each begins and ends.
Cuts(off, last, length, mtu) ==
  /\ last \in Nat \ {0} /\ off \in [0 .. last -> Nat]
  /\ off[0] = 0 /\ off[last] = length
  /\ \A k \in 1 .. last :
       /\ off[k - 1] < off[k] /\ off[k] <= length /\ off[k] - off[k - 1] <= mtu
       /\ \E j \in Nat : off[k - 1] = 8 * j
       /\ k < last => off[k] < length

\* The packet that is cut like that.
CutAs(packet, off, last, base, payload) ==
  packet = [k \in 1 .. last |->
              [header |-> Frag!newIPHeader(base, off[k - 1], off[k] - off[k - 1],
                                           Len(payload)),
               chunk  |-> SubSeq(payload, off[k - 1] + 1, off[k])]]

\* FragmentPacket is such a cut.
LEMMA FragmentsAre ==
  ASSUME NEW B, NEW payload \in Seq(B), Len(payload) > 0, NEW base,
         NEW mtu \in Nat \ {0}, mtu >= 8 \/ Len(payload) <= mtu
  PROVE  \E last, off : /\ Cuts(off, last, Len(payload), mtu)
                        /\ CutAs(Frag!FragmentPacket(base, payload, mtu), off, last,
                                 base, payload)
<1> DEFINE length == Len(payload)
           offs == Frag!offsets(length, mtu)
           ends == { k \in 0 .. length : offs[k] = length }
           last == CHOOSE k \in ends : \A l \in ends : k <= l
           off  == [k \in 0 .. last |-> offs[k]]
           fragment(k) ==
             [header |-> Frag!newIPHeader(base, offs[k - 1], offs[k] - offs[k - 1], length),
              chunk  |-> SubSeq(payload, offs[k - 1] + 1, offs[k])]
<1>0. length \in Nat /\ length > 0 /\ (mtu >= 8 \/ length <= mtu)
  OBVIOUS
<1>1. Frag!FragmentPacket(base, payload, mtu)
        = IF ends = {} THEN Endless ELSE [k \in 1 .. last |-> fragment(k)]
  BY DEF Frag!FragmentPacket
<1> HIDE DEF length
<1>2. /\ offs[0] = 0 /\ offs[length] = length
      /\ \A k \in 0 .. length :
           /\ offs[k] \in Nat /\ offs[k] <= length
           /\ offs[k] < length => \E j \in Nat : offs[k] = 8 * j
      /\ \A k \in 1 .. length :
           offs[k] = offs[k - 1] + Frag!chunkSize(offs[k - 1], length, mtu)
  BY <1>0, OffsetsAre
<1> HIDE DEF offs
<1>3. ends \in SUBSET Nat /\ length \in ends
  BY <1>0, <1>2
<1>4. last \in ends /\ \A l \in ends : last <= l
  <2>1. \E k \in ends : \A l \in ends : k <= l
    <3> HIDE DEF ends
    <3> QED BY <1>3, LeastNumber
  <2> HIDE DEF ends
  <2> QED BY <2>1
<1>5. last \in Nat \ {0} /\ last <= length /\ offs[last] = length
      /\ \A k \in 0 .. last : k < last => offs[k] # length
  <2>1. last \in 0 .. length /\ offs[last] = length
    BY <1>4
  <2> HIDE DEF last
  <2>2. last # 0
    BY <1>0, <1>2, <2>1
  <2>3. ASSUME NEW k \in 0 .. last, k < last PROVE offs[k] # length
    <3>1. k \in 0 .. length /\ ~ (last <= k)
      BY <1>0, <2>1, <2>3
    <3>2. k \notin ends
      BY <1>4, <3>1
    <3> QED BY <3>1, <3>2
  <2> QED BY <1>0, <2>1, <2>2, <2>3
<1> HIDE DEF last
<1>6. Cuts(off, last, length, mtu)
  <2>1. \A k \in 0 .. last : off[k] = offs[k] /\ k \in 0 .. length
    BY <1>0, <1>5
  <2>2. off \in [0 .. last -> Nat] /\ off[0] = 0 /\ off[last] = length
    BY <1>2, <1>5, <2>1
  <2> HIDE DEF off
  <2>3. ASSUME NEW k \in 1 .. last
        PROVE  /\ off[k - 1] < off[k] /\ off[k] <= length /\ off[k] - off[k - 1] <= mtu
               /\ \E j \in Nat : off[k - 1] = 8 * j
               /\ k < last => off[k] < length
    <3>1. k \in 1 .. length /\ k \in 0 .. last /\ k - 1 \in 0 .. last /\ k - 1 < last
          /\ k \in 0 .. length /\ k - 1 \in 0 .. length
      BY <1>0, <1>5
    <3>2. off[k - 1] = offs[k - 1] /\ off[k] = offs[k]
      BY <2>1, <3>1
    <3>3. offs[k - 1] \in Nat /\ offs[k - 1] < length /\ offs[k] \in Nat /\ offs[k] <= length
      BY <1>0, <1>2, <1>5, <3>1
    <3>4. \E j \in Nat : off[k - 1] = 8 * j
      BY <1>2, <3>1, <3>2, <3>3
    <3> DEFINE o == offs[k - 1]
               size == Frag!chunkSize(o, length, mtu)
    <3>5. offs[k] = offs[k - 1] + size /\ o \in Nat /\ o <= length /\ o < length
      BY <1>0, <1>2, <3>1, <3>3
    <3> HIDE DEF o
    <3>6. size \in Nat /\ size <= mtu /\ size > 0
      BY <1>0, <3>5, ChunkIs
    <3> HIDE DEF size
    <3>7. off[k - 1] < off[k] /\ off[k] <= length /\ off[k] - off[k - 1] <= mtu
      BY <3>2, <3>3, <3>5, <3>6
    <3>8. k < last => off[k] < length
      BY <1>0, <1>5, <3>1, <3>2, <3>3
    <3> QED BY <3>4, <3>7, <3>8
  <2> QED BY <1>5, <2>2, <2>3 DEF Cuts
<1>7. [k \in 1 .. last |-> fragment(k)]
        = [k \in 1 .. last |->
             [header |-> Frag!newIPHeader(base, off[k - 1], off[k] - off[k - 1], length),
              chunk  |-> SubSeq(payload, off[k - 1] + 1, off[k])]]
  <2>1. \A k \in 1 .. last : off[k] = offs[k] /\ off[k - 1] = offs[k - 1]
    BY <1>5
  <2> HIDE DEF off
  <2> QED BY <2>1
<1>8. ends # {}
  BY <1>3
<1> HIDE DEF ends, off, fragment
<1>9. CutAs(Frag!FragmentPacket(base, payload, mtu), off, last, base, payload)
  BY <1>1, <1>7, <1>8 DEF length, CutAs
<1> QED BY <1>6, <1>9 DEF length

\* A fragment's header says where its chunk is and whether another follows, and
\* is the frame's own in its other words.
Same(h, base) == \A w \in DOMAIN h \ {2, 4, 6} : h[w] = base[w]

\* What the header of a fragment of size bytes from offset on says.
HeaderAs(h, base, offset, size, length) ==
  /\ h[2] = 20 + size
  /\ 8 * (h[4] % 8192) = offset
  /\ (h[4] >= 8192) = (offset + size < length)
  /\ Same(h, base)
  /\ Frag!WordSum(h) % (Frag!Words16 - 1) = 0 /\ Frag!WordSum(h) > 0

\* A fragment's offset counts in units of eight bytes.
Eighths(offset) == \E j \in Nat : offset = 8 * j

LEMMA HeaderIs ==
  ASSUME NEW base \in Header, NEW offset \in Nat, Eighths(offset),
         NEW size \in Nat, NEW length \in Nat, offset + size <= length,
         20 + length < Frag!Words16
  PROVE  HeaderAs(Frag!newIPHeader(base, offset, size, length), base, offset, size, length)
<1> DEFINE h == Frag!newIPHeader(base, offset, size, length)
           more == IF offset + size < length THEN 8192 ELSE 0
           said == (20 + size) % Frag!Words16
           where == ((offset \div 8) % 8192) + more
           filled == [base EXCEPT ![2] = said, ![4] = where, ![6] = 0]
<1>1. h = [filled EXCEPT ![6] = Frag!computeIPChecksum(filled)]
  BY DEF Frag!newIPHeader, Frag!TotalLength, Frag!FlagsAndOffset, Frag!Checksum,
         Frag!MoreFragments, Frag!HeaderBytes
<1> HIDE DEF h
<1>2. Frag!Words16 = 65536
  BY DEF Frag!Words16
<1> PICK j \in Nat : offset = 8 * j
  BY DEF Eighths
<1>3. said = 20 + size /\ 20 + size < Frag!Words16
  BY <1>2
<1>4. offset \div 8 = j /\ j < 8192 /\ j % 8192 = j
  BY <1>2
<1>5. where = j + more
  BY <1>4
<1>6. /\ where \in Nat /\ where < Frag!Words16 /\ 8 * (where % 8192) = offset
      /\ (where >= 8192) = (offset + size < length)
  <2>1. CASE offset + size < length
    <3>1. where = j + 8192 /\ (j + 8192) % 8192 = j
      BY <1>4, <1>5, <2>1
    <3> QED BY <1>2, <1>4, <2>1, <3>1
  <2>2. CASE ~ (offset + size < length)
    <3>1. where = j
      BY <1>5, <2>2
    <3> QED BY <1>2, <1>4, <2>2, <3>1
  <2> QED BY <2>1, <2>2
<1>7. base \in [1 .. 10 -> Nat] /\ \A w \in 1 .. 10 : base[w] < Frag!Words16
  BY DEF Header
<1> HIDE DEF said, where
<1>8. /\ filled \in [1 .. 10 -> Nat] /\ filled[2] = said /\ filled[4] = where
      /\ filled[6] = 0
      /\ \A w \in 1 .. 10 : w \notin {2, 4, 6} => filled[w] = base[w]
  BY <1>3, <1>6, <1>7
<1> HIDE DEF filled
<1>9. filled \in Header
  <2> SUFFICES ASSUME NEW w \in 1 .. 10 PROVE filled[w] < Frag!Words16
    BY <1>8 DEF Header
  <2> QED BY <1>2, <1>3, <1>6, <1>7, <1>8
<1>10. h \in Header /\ Frag!WordSum(h) % (Frag!Words16 - 1) = 0 /\ Frag!WordSum(h) > 0
  BY <1>1, <1>8, <1>9, ChecksumFits
<1>11. DOMAIN h = 1 .. 10 /\ \A w \in 1 .. 10 : w # 6 => h[w] = filled[w]
  BY <1>1, <1>8
<1>12. h[2] = said /\ h[4] = where
  BY <1>8, <1>11
<1>13. Same(h, base)
  BY <1>8, <1>11 DEF Same
<1>14. /\ h[2] = 20 + size
       /\ 8 * (h[4] % 8192) = offset
       /\ (h[4] >= 8192) = (offset + size < length)
  BY <1>3, <1>6, <1>12
<1> QED BY <1>10, <1>13, <1>14 DEF HeaderAs, h

\* What a cut is, for where the facts above it are many.
LEMMA CutsMeans ==
  ASSUME NEW off, NEW last, NEW length, NEW mtu, Cuts(off, last, length, mtu)
  PROVE  /\ last \in Nat \ {0} /\ off \in [0 .. last -> Nat] /\ off[0] = 0
         /\ off[last] = length
         /\ \A k \in 1 .. last :
              /\ off[k - 1] < off[k] /\ off[k] <= length /\ off[k] - off[k - 1] <= mtu
              /\ \E j \in Nat : off[k - 1] = 8 * j
              /\ k < last => off[k] < length
BY DEF Cuts

\* FlattenSeq appends one sequence after the other.
LEMMA FlattenIs ==
  ASSUME NEW seqs, Len(seqs) # 0
  PROVE  Frag!FlattenSeq(seqs) =
           (CHOOSE x : x = [k \in 1 .. Len(seqs) |->
                              IF k = 1 THEN seqs[k] ELSE x[k - 1] \o seqs[k]])[Len(seqs)]
BY DEF Frag!FlattenSeq

\* What lies between offsets that go up makes the whole, piece by piece.
Pieces(off, last, length) ==
  /\ last \in Nat \ {0} /\ off \in [0 .. last -> Nat]
  /\ off[0] = 0 /\ off[last] = length
  /\ \A k \in 1 .. last : off[k - 1] < off[k] /\ off[k] <= length

LEMMA PiecesJoin ==
  ASSUME NEW B, NEW payload \in Seq(B), NEW last, NEW off, Pieces(off, last, Len(payload)),
         NEW chunks, chunks = [k \in 1 .. last |-> SubSeq(payload, off[k - 1] + 1, off[k])]
  PROVE  Frag!FlattenSeq(chunks) = payload
<1> DEFINE upTo == [k \in 1 .. last |-> SubSeq(payload, 1, off[k])]
           Is(x) == x = [k \in 1 .. Len(chunks) |->
                           IF k = 1 THEN chunks[k] ELSE x[k - 1] \o chunks[k]]
           flat == CHOOSE x : Is(x)
<1>0. /\ last \in Nat /\ last >= 1 /\ Len(chunks) = last /\ off[last] = Len(payload) /\ off[0] = 0
      /\ Len(payload) \in Nat
      /\ \A k \in 0 .. last : off[k] \in Nat
      /\ \A k \in 1 .. last : /\ off[k - 1] \in Nat /\ off[k] \in Nat
                              /\ off[k - 1] < off[k] /\ off[k] <= Len(payload)
  <2>1. last \in Nat /\ last >= 1 /\ off[last] = Len(payload) /\ off[0] = 0
        /\ off \in [0 .. last -> Nat]
    BY DEF Pieces
  <2>2. Len(chunks) = last
    BY <2>1
  <2>3. \A k \in 1 .. last : off[k - 1] < off[k] /\ off[k] <= Len(payload)
    BY DEF Pieces
  <2>4. \A k \in 1 .. last : k \in 0 .. last /\ k - 1 \in 0 .. last
    BY <2>1
  <2> QED BY <2>1, <2>2, <2>3, <2>4
<1>1. Frag!FlattenSeq(chunks) = flat[last]
  <2>1. Len(chunks) # 0
    BY <1>0
  <2>2. Frag!FlattenSeq(chunks) = flat[Len(chunks)]
    BY <2>1, FlattenIs, Zenon
  <2> HIDE DEF flat
  <2> QED BY <1>0, <2>2
<1>2. \A k \in 1 .. last : chunks[k] = IF k = 1 THEN upTo[1]
                                       ELSE SubSeq(payload, off[k - 1] + 1, off[k])
  <2>1. 1 \in 1 .. last /\ 1 - 1 = 0 /\ off[1 - 1] + 1 = 1
    BY <1>0
  <2> QED BY <2>1
<1>3. \A k \in 1 .. last : k # 1 => upTo[k] = upTo[k - 1] \o chunks[k]
  <2> SUFFICES ASSUME NEW k \in 1 .. last, k # 1
               PROVE  upTo[k] = upTo[k - 1] \o chunks[k]
    OBVIOUS
  <2>1. k - 1 \in 1 .. last /\ k \in 1 .. last
    BY <1>0
  <2>2. /\ off[k - 1] \in 1 .. Len(payload) /\ off[k] \in 1 .. Len(payload)
        /\ off[k - 1] <= off[k]
    <3>1. /\ (k - 1) - 1 \in Nat
          /\ off[(k - 1) - 1] \in Nat /\ off[(k - 1) - 1] < off[k - 1]
          /\ off[k - 1] \in Nat /\ off[k] \in Nat
          /\ off[k - 1] < off[k] /\ off[k] <= Len(payload)
      BY <1>0, <2>1
    <3>2. Len(payload) \in Nat
      BY <1>0
    <3> QED BY <3>1, <3>2
  <2> DEFINE i == off[k - 1]
             l == off[k]
  <2>3. i \in 1 .. Len(payload) /\ l \in 1 .. Len(payload) /\ i <= l
    BY <2>2
  <2>4. SubSeq(payload, 1, i) \o SubSeq(payload, i + 1, l) = SubSeq(payload, 1, l)
    <3> HIDE DEF i, l
    <3>1. 1 \in 1 .. Len(payload) + 1 /\ i \in (1 - 1) .. l /\ l \in i .. Len(payload)
      BY <1>0, <2>3
    <3> QED BY <3>1, ConcatAdjacentSubSeq
  <2>5. upTo[k] = SubSeq(payload, 1, l) /\ upTo[k - 1] = SubSeq(payload, 1, i)
        /\ chunks[k] = SubSeq(payload, i + 1, l)
    BY <2>1
  <2> QED BY <2>4, <2>5
<1> HIDE DEF upTo
<1>4. upTo = [k \in 1 .. last |-> upTo[k]]
  BY DEF upTo
<1>5. \A k \in 1 .. last : upTo[k] = IF k = 1 THEN chunks[k] ELSE upTo[k - 1] \o chunks[k]
  BY <1>0, <1>2, <1>3
<1>6. Is(upTo)
  <2>1. [k \in 1 .. last |-> upTo[k]]
          = [k \in 1 .. last |-> IF k = 1 THEN chunks[k] ELSE upTo[k - 1] \o chunks[k]]
    BY <1>5, Zenon
  <2>2. Len(chunks) = last
    BY <1>0
  <2> QED BY <1>4, <2>1, <2>2, Zenon
<1>7. Is(flat)
  <2> HIDE DEF Is
  <2> QED BY <1>6
<1> HIDE DEF flat
<1>8. \A k \in 1 .. last : flat[k] = IF k = 1 THEN chunks[k] ELSE flat[k - 1] \o chunks[k]
  BY <1>0, <1>7
<1> HIDE DEF Is
<1> DEFINE S == { k \in Nat : k < last => flat[k + 1] = upTo[k + 1] }
<1>9. 0 \in S
  <2>1. 0 + 1 = 1 /\ 1 \in 1 .. last
    BY <1>0
  <2> QED BY <1>5, <1>8, <2>1
<1>10. ASSUME NEW k \in Nat, k \in S PROVE k + 1 \in S
  <2> SUFFICES ASSUME k + 1 < last PROVE flat[(k + 1) + 1] = upTo[(k + 1) + 1]
    OBVIOUS
  <2>1. k < last /\ (k + 1) + 1 \in 1 .. last /\ (k + 1) + 1 # 1
        /\ ((k + 1) + 1) - 1 = k + 1
    BY <1>0
  <2>2. flat[k + 1] = upTo[k + 1]
    BY <1>10, <2>1
  <2> QED BY <1>5, <1>8, <2>1, <2>2
<1>11. \A k \in Nat : k \in S
  <2> HIDE DEF S
  <2> QED BY <1>9, <1>10, Inductive
<1>12. flat[last] = upTo[last]
  <2>1. last - 1 \in Nat /\ last - 1 < last /\ (last - 1) + 1 = last
    BY <1>0
  <2> QED BY <1>11, <2>1
<1>13. upTo[last] = payload
  <2>1. upTo[last] = SubSeq(payload, 1, Len(payload))
    BY <1>0 DEF upTo
  <2> QED BY <2>1, SubSeqFull
<1> QED BY <1>1, <1>12, <1>13

LEMMA ChunksJoin ==
  ASSUME NEW B, NEW payload \in Seq(B), NEW last, NEW off, NEW mtu,
         Cuts(off, last, Len(payload), mtu),
         NEW chunks, chunks = [k \in 1 .. last |-> SubSeq(payload, off[k - 1] + 1, off[k])]
  PROVE  Frag!FlattenSeq(chunks) = payload
<1>1. Pieces(off, last, Len(payload))
  BY CutsMeans DEF Pieces
<1> QED BY <1>1, PiecesJoin

\* The distance of two numbers is a number.
LEMMA Step ==
  ASSUME NEW x \in Nat, NEW y \in Nat, y < x
  PROVE  x - y \in Nat /\ y + (x - y) = x
OBVIOUS

\* A word's size is a number.
LEMMA WordIs == Frag!Words16 \in Nat
BY DEF Frag!Words16

\* Any ten words are a header.
LEMMA HeaderOf ==
  ASSUME NEW word \in Nat, word = Frag!Words16, NEW base \in [1 .. 10 -> 0 .. word - 1]
  PROVE  base \in Header
<1>1. \A w \in 1 .. 10 : base[w] \in Nat /\ base[w] < word
  OBVIOUS
<1> QED BY <1>1 DEF Header

\* FragmentPacket cuts a datagram into fragments from which a receiver gets the
\* same datagram, with right checksums, whatever its header and payload are, for
\* every fragment size of eight or more (evasion/fragment.go).
THEOREM FragmentsReassemble ==
  ASSUME NEW B, NEW payload \in Seq(B), Len(payload) > 0,
         Frag!HeaderBytes + Len(payload) < Frag!Words16,
         NEW base \in [1 .. 10 -> 0 .. Frag!Words16 - 1],
         NEW mtu \in Nat \ {0}, mtu >= 8 \/ Len(payload) <= mtu
  PROVE  Frag!Reassembles(base, payload, mtu)
<1> DEFINE length == Len(payload)
           fs == Frag!FragmentPacket(base, payload, mtu)
<1>0. length \in Nat /\ length > 0 /\ 20 + length < Frag!Words16 /\ Frag!Words16 \in Nat
  <2>1. length \in Nat /\ length > 0
    BY LenProperties
  <2>2. 20 + length < Frag!Words16
    BY DEF Frag!HeaderBytes
  <2> QED BY <2>1, <2>2, WordIs
<1>1. base \in Header
  BY <1>0, HeaderOf
<1>2. PICK last, off : Cuts(off, last, length, mtu) /\ CutAs(fs, off, last, base, payload)
  BY FragmentsAre
<1>3. /\ last \in Nat \ {0} /\ off \in [0 .. last -> Nat] /\ off[0] = 0 /\ off[last] = length
      /\ \A k \in 1 .. last :
           /\ off[k - 1] < off[k] /\ off[k] <= length /\ off[k] - off[k - 1] <= mtu
           /\ \E j \in Nat : off[k - 1] = 8 * j
           /\ k < last => off[k] < length
  BY <1>2, CutsMeans
<1>4. /\ DOMAIN fs = 1 .. last /\ Len(fs) = last
      /\ \A k \in 1 .. last :
           /\ fs[k].header = Frag!newIPHeader(base, off[k - 1], off[k] - off[k - 1], length)
           /\ fs[k].chunk = SubSeq(payload, off[k - 1] + 1, off[k])
  BY <1>2, <1>3 DEF CutAs
<1> HIDE DEF fs
<1>5. \A k \in 1 .. last : Len(fs[k].chunk) = off[k] - off[k - 1]
  <2> TAKE k \in 1 .. last
  <2> DEFINE i == off[k - 1]
             l == off[k]
  <2>1. k - 1 \in 0 .. last /\ k \in 0 .. last
    BY <1>3
  <2>2. i \in Nat /\ l \in Nat /\ i < l /\ l <= length
    BY <1>3, <2>1
  <2>3. fs[k].chunk = SubSeq(payload, i + 1, l)
    BY <1>4
  <2> HIDE DEF i, l
  <2>4. Len(SubSeq(payload, i + 1, l)) = l - i
    BY <1>0, <2>2, SubSeqProperties
  <2> QED BY <2>3, <2>4 DEF i, l
<1>6. Frag!FlattenSeq([i \in DOMAIN fs |-> fs[i].chunk]) = payload
  <2> DEFINE chunks == [k \in 1 .. last |-> SubSeq(payload, off[k - 1] + 1, off[k])]
  <2>1. [i \in DOMAIN fs |-> fs[i].chunk] = chunks
    BY <1>4
  <2> HIDE DEF chunks
  <2>2. Frag!FlattenSeq(chunks) = payload
    <3>1. Cuts(off, last, Len(payload), mtu)
      BY <1>2
    <3>2. chunks = [k \in 1 .. last |-> SubSeq(payload, off[k - 1] + 1, off[k])]
      BY DEF chunks
    <3> QED BY <3>1, <3>2, ChunksJoin
  <2> QED BY <2>1, <2>2
<1> HIDE DEF length
<1>7. ASSUME NEW i \in 1 .. last
      PROVE  LET f == fs[i]
                 h == f.header
                 ones == Frag!WordSum(h)
             IN  /\ Frag!Offset(f) = Frag!WordSum([j \in 1 .. i - 1 |-> Len(fs[j].chunk)])
                 /\ Frag!More(f) = (i < Len(fs))
                 /\ h[Frag!TotalLength] = Frag!HeaderBytes + Len(f.chunk)
                 /\ Len(f.chunk) <= mtu
                 /\ \A w \in DOMAIN h \ {Frag!TotalLength, Frag!FlagsAndOffset, Frag!Checksum} :
                      h[w] = base[w]
                 /\ ones % (Frag!Words16 - 1) = 0 /\ ones > 0
  <2> DEFINE h == fs[i].header
             o == off[i - 1]
             size == off[i] - off[i - 1]
  <2>1. i - 1 \in 0 .. last /\ i \in 0 .. last /\ i \in Nat
    BY <1>3
  <2>2. /\ o \in Nat /\ size \in Nat /\ o + size = off[i] /\ o + size <= length /\ size <= mtu
        /\ off[i] \in Nat
    <3>1. off[i - 1] \in Nat /\ off[i] \in Nat
      BY <1>3, <2>1
    <3>2. off[i - 1] < off[i] /\ off[i] <= length /\ size <= mtu
      BY <1>3
    <3>3. size \in Nat /\ o + size = off[i]
      BY <3>1, <3>2, Step
    <3> QED BY <3>1, <3>2, <3>3
  <2>3. Eighths(o)
    BY <1>3 DEF Eighths
  <2>4. h = Frag!newIPHeader(base, o, size, length)
    BY <1>4
  <2>5. Len(fs[i].chunk) = size
    BY <1>5
  <2> HIDE DEF h, o, size
  <2>6. HeaderAs(h, base, o, size, length)
    <3>1. length \in Nat /\ 20 + length < Frag!Words16
      BY <1>0
    <3> QED BY <1>1, <2>2, <2>3, <2>4, <3>1, HeaderIs
  <2>17. /\ h[2] = 20 + size
         /\ 8 * (h[4] % 8192) = o
         /\ (h[4] >= 8192) = (o + size < length)
    BY <2>6 DEF HeaderAs
  <2>7. (o + size < length) = (i < Len(fs))
    <3>1. CASE i < last
      <4>1. off[i] < length
        BY <1>3, <3>1
      <4>2. o + size < length /\ i < Len(fs)
        BY <1>4, <2>2, <3>1, <4>1
      <4> QED BY <4>2
    <3>2. CASE i = last
      <4>1. ~ (o + size < length)
        BY <1>0, <1>3, <2>2, <3>2
      <4>2. ~ (i < Len(fs))
        BY <1>3, <1>4, <3>2
      <4> QED BY <4>1, <4>2
    <3> QED BY <2>1, <1>3, <3>1, <3>2
  <2>8. Frag!WordSum([k \in 1 .. i - 1 |-> Len(fs[k].chunk)]) = o
    <3> DEFINE lens == [k \in 1 .. i - 1 |-> Len(fs[k].chunk)]
               sums == [k \in 0 .. i - 1 |-> off[k]]
    <3>1. i - 1 \in Nat /\ \A k \in 0 .. i - 1 : k \in 0 .. last
      BY <2>1, <1>3
    <3>2. \A k \in 1 .. i - 1 : k \in 1 .. last /\ k - 1 \in 0 .. i - 1 /\ k \in 0 .. i - 1
      BY <2>1, <1>3
    <3>3. sums \in [0 .. i - 1 -> Nat] /\ sums[0] = 0 /\ sums[i - 1] = o
      <4>1. \A k \in 0 .. i - 1 : sums[k] = off[k] /\ off[k] \in Nat
        BY <1>3, <3>1
      <4>2. 0 \in 0 .. i - 1 /\ i - 1 \in 0 .. i - 1
        BY <3>1
      <4>3. sums \in [0 .. i - 1 -> Nat]
        BY <4>1
      <4> HIDE DEF sums
      <4> QED BY <1>3, <4>1, <4>2, <4>3 DEF o
    <3>4. \A k \in 1 .. i - 1 : /\ lens[k] = off[k] - off[k - 1] /\ lens[k] \in Nat
                                /\ sums[k] = off[k] /\ sums[k - 1] = off[k - 1]
                                /\ off[k - 1] + (off[k] - off[k - 1]) = off[k]
      <4> TAKE k \in 1 .. i - 1
      <4>1. k \in 1 .. last /\ k - 1 \in 0 .. i - 1 /\ k \in 0 .. i - 1
            /\ k \in 0 .. last /\ k - 1 \in 0 .. last
        BY <3>1, <3>2
      <4>2. off[k] \in Nat /\ off[k - 1] \in Nat /\ off[k - 1] < off[k]
        BY <1>3, <4>1
      <4>3. lens[k] = off[k] - off[k - 1] /\ sums[k] = off[k] /\ sums[k - 1] = off[k - 1]
        BY <1>5, <4>1
      <4>4. off[k] - off[k - 1] \in Nat /\ off[k - 1] + (off[k] - off[k - 1]) = off[k]
        BY <4>2, Step
      <4> HIDE DEF lens, sums
      <4> QED BY <4>2, <4>3, <4>4
    <3>5. lens \in [1 .. i - 1 -> Nat]
      BY <3>4
    <3> HIDE DEF lens, sums
    <3>6. \A k \in 1 .. i - 1 : sums[k] = sums[k - 1] + lens[k]
      BY <3>4
    <3>7. Frag!WordSum(lens) = sums[i - 1]
      BY <3>1, <3>3, <3>5, <3>6, WordSumIs
    <3> QED BY <3>3, <3>7 DEF lens
  <2>9. /\ Frag!TotalLength = 2 /\ Frag!FlagsAndOffset = 4 /\ Frag!Checksum = 6
        /\ Frag!HeaderBytes = 20
    BY DEF Frag!TotalLength, Frag!FlagsAndOffset, Frag!Checksum, Frag!HeaderBytes
  <2>10. Frag!Offset(fs[i]) = o /\ Frag!More(fs[i]) = (i < Len(fs))
    BY <2>17, <2>7 DEF h, Frag!Offset, Frag!More, Frag!FlagsAndOffset, Frag!MoreFragments
  <2>11. h[Frag!TotalLength] = Frag!HeaderBytes + Len(fs[i].chunk)
    BY <2>5, <2>17, <2>9
  <2>12. \A w \in DOMAIN h \ {Frag!TotalLength, Frag!FlagsAndOffset, Frag!Checksum} :
           h[w] = base[w]
    <3>1. {Frag!TotalLength, Frag!FlagsAndOffset, Frag!Checksum} = {2, 4, 6}
      BY <2>9
    <3>2. Same(h, base)
      BY <2>6 DEF HeaderAs
    <3> QED BY <3>1, <3>2, Zenon DEF Same
  <2>14. Frag!Offset(fs[i]) = Frag!WordSum([j \in 1 .. i - 1 |-> Len(fs[j].chunk)])
    BY <2>8, <2>10
  <2>15. Frag!More(fs[i]) = (i < Len(fs))
    BY <2>10
  <2>16. Frag!WordSum(h) % (Frag!Words16 - 1) = 0 /\ Frag!WordSum(h) > 0
    BY <2>6 DEF HeaderAs
  <2>13. Len(fs[i].chunk) <= mtu
    BY <2>2, <2>5
  <2> QED BY <2>11, <2>12, <2>13, <2>14, <2>15, <2>16, Zenon DEF h
<1> QED BY <1>4, <1>6, <1>7 DEF Frag!Reassembles, fs, length

-----------------------------------------------------------------------------
(* Reports of what became reachable.                                       *)

\* What a scan with one result an address and port says of them is what that
\* one says.
OneEach(results) ==
  \A i, j \in DOMAIN results :
    results[i].ip = results[j].ip /\ results[i].port = results[j].port => i = j

LEMMA PreviousIs ==
  ASSUME NEW results, OneEach(results), NEW i \in DOMAIN results, DOMAIN results \subseteq Nat,
         NEW r, r.ip = results[i].ip, r.port = results[i].port
  PROVE  X!At(results, r) = {i} /\ X!Previous(results, r) = results[i]
<1>1. X!At(results, r) = {i}
  BY DEF OneEach, X!At
<1>2. (CHOOSE k \in {i} : \A l \in {i} : l <= k) = i
  OBVIOUS
<1> QED BY <1>1, <1>2 DEF X!Previous

LEMMA GreatestNumber ==
  ASSUME NEW k \in Nat, NEW S \in SUBSET (1 .. k), S # {}
  PROVE  \E g \in S : \A l \in S : l <= g
<1> DEFINE R == { d \in 0 .. k : k - d \in S }
<1>1. R \in SUBSET Nat /\ R # {}
  <2>1. PICK g : g \in S
    OBVIOUS
  <2>2. g \in Nat /\ 1 <= g /\ g <= k
    BY <2>1
  <2>3. k - g \in 0 .. k /\ k - (k - g) = g
    BY <2>2
  <2>4. k - g \in R
    BY <2>1, <2>3
  <2>5. R \subseteq Nat
    OBVIOUS
  <2> QED BY <2>4, <2>5
<1>2. PICK d \in R : \A e \in R : d <= e
  BY <1>1, LeastNumber
<1>3. ASSUME NEW l \in S PROVE l <= k - d
  <2>1. l \in Nat /\ 1 <= l /\ l <= k
    OBVIOUS
  <2>2. k - l \in 0 .. k /\ k - (k - l) = l
    BY <2>1
  <2>3. k - l \in R
    BY <2>2
  <2>4. d <= k - l /\ d \in Nat
    BY <1>1, <1>2, <2>3
  <2> QED BY <2>1, <2>4
<1> QED BY <1>2, <1>3

\* What is kept of an address and port that a scan may have more than once is
\* its last result.
LEMMA PreviousIsLast ==
  ASSUME NEW B, NEW results \in Seq(B), NEW r, X!At(results, r) # {}
  PROVE  \E l \in X!At(results, r) :
           /\ \A j \in X!At(results, r) : j <= l
           /\ X!Previous(results, r) = results[l]
<1> DEFINE S == X!At(results, r)
           len == Len(results)
<1>1. len \in Nat /\ S \subseteq 1 .. len /\ S # {}
  BY DEF X!At
<1>2. \E g \in S : \A l \in S : l <= g
  <2> HIDE DEF S, len
  <2>1. S \in SUBSET (1 .. len)
    BY <1>1, Zenon
  <2> QED BY <1>1, <2>1, GreatestNumber, Zenon
<1>3. PICK l : l = CHOOSE i \in S : \A j \in S : j <= i
  OBVIOUS
<1>4. l \in S /\ \A j \in S : j <= l
  <2> HIDE DEF S
  <2> QED BY <1>2, <1>3
<1>5. X!Previous(results, r) = results[l]
  BY <1>3 DEF X!Previous
<1> QED BY <1>4, <1>5

LEMMA OpenBeforeIs ==
  ASSUME NEW B, NEW results \in Seq(B), NEW r
  PROVE  X!OpenBefore(results, r) <=> <<r.ip, r.port>> \in X!OpenAtLast(results)
<1>1. ASSUME X!OpenBefore(results, r) PROVE <<r.ip, r.port>> \in X!OpenAtLast(results)
  <2>1. PICK l \in X!At(results, r) : /\ \A j \in X!At(results, r) : j <= l
                                      /\ X!Previous(results, r) = results[l]
    BY <1>1, PreviousIsLast DEF X!OpenBefore
  <2>2. l \in X!OpenPlaces(results) /\ results[l].ip = r.ip /\ results[l].port = r.port
    BY <1>1, <2>1 DEF X!OpenBefore, X!OpenPlaces, X!At
  <2>3. X!At(results, results[l]) = X!At(results, r)
    BY <2>2 DEF X!At
  <2> QED BY <2>1, <2>2, <2>3 DEF X!OpenAtLast, X!Told
<1>2. ASSUME <<r.ip, r.port>> \in X!OpenAtLast(results) PROVE X!OpenBefore(results, r)
  <2>1. PICK i \in X!OpenPlaces(results) :
               /\ \A j \in X!At(results, results[i]) : j <= i
               /\ results[i].ip = r.ip /\ results[i].port = r.port
    BY <1>2 DEF X!OpenAtLast, X!Told
  <2>2. X!At(results, results[i]) = X!At(results, r) /\ i \in X!At(results, r)
    BY <2>1 DEF X!At, X!OpenPlaces
  <2>3. PICK l \in X!At(results, r) : /\ \A j \in X!At(results, r) : j <= l
                                      /\ X!Previous(results, r) = results[l]
    BY <2>2, PreviousIsLast
  <2>4. i \in Nat /\ l \in Nat /\ l <= i /\ i <= l
    BY <2>1, <2>2, <2>3 DEF X!At
  <2>5. X!Previous(results, r) = results[i]
    BY <2>3, <2>4
  <2> QED BY <2>1, <2>2, <2>5 DEF X!OpenBefore, X!OpenPlaces
<1> QED BY <1>1, <1>2

\* Where results agree, the last one says what each of them does.
LEMMA SettledIs ==
  ASSUME NEW B, NEW results \in Seq(B), NEW i \in DOMAIN results, NEW r,
         <<r.ip, r.port>> \in X!Settled(results),
         results[i].ip = r.ip, results[i].port = r.port
  PROVE  /\ X!OpenBefore(results, r) <=> X!IsOpen(results[i])
         /\ X!At(results, r) # {}
         /\ X!Previous(results, r).service = results[i].service
         /\ X!Previous(results, r).vulns = results[i].vulns
<1>1. PICK k \in DOMAIN results : /\ X!Agree(results, results[k])
                                  /\ results[k].ip = r.ip /\ results[k].port = r.port
  BY DEF X!Settled, X!Told
<1>2. X!At(results, results[k]) = X!At(results, r) /\ i \in X!At(results, r)
  BY <1>1 DEF X!At
<1>3. PICK l \in X!At(results, r) : X!Previous(results, r) = results[l]
  BY <1>2, PreviousIsLast
<1>4. /\ results[l].state = results[i].state /\ results[l].service = results[i].service
      /\ results[l].vulns = results[i].vulns
  BY <1>1, <1>2, <1>3 DEF X!Agree
<1> QED BY <1>2, <1>3, <1>4 DEF X!OpenBefore, X!IsOpen

\* A service that changed one way, of an address and port whose results agree,
\* changed the other way.
LEMMA ServicesChangeBothWays ==
  ASSUME NEW B, NEW one \in Seq(B), NEW other \in Seq(B), NEW e \in X!Settled(one),
         e \in X!Told(one, X!Compare(one, other).serviceChanges)
  PROVE  e \in X!Told(other, X!Compare(other, one).serviceChanges)
<1>1. PICK i \in DOMAIN one :
             /\ e = <<one[i].ip, one[i].port>>
             /\ X!IsOpen(one[i]) /\ X!OpenBefore(other, one[i])
             /\ X!Previous(other, one[i]).service # one[i].service
  BY DEF X!Told, X!Compare
<1>2. PICK l \in X!At(other, one[i]) : X!Previous(other, one[i]) = other[l]
  BY <1>1, PreviousIsLast DEF X!OpenBefore
<1>3. /\ l \in DOMAIN other /\ other[l].ip = one[i].ip /\ other[l].port = one[i].port
      /\ X!IsOpen(other[l]) /\ other[l].service # one[i].service
  BY <1>1, <1>2 DEF X!At, X!OpenBefore
<1>4. <<other[l].ip, other[l].port>> \in X!Settled(one)
  BY <1>1, <1>3
<1>5. /\ X!OpenBefore(one, other[l])
      /\ X!Previous(one, other[l]).service = one[i].service
  BY <1>1, <1>3, <1>4, SettledIs
<1>6. l \in X!Compare(other, one).serviceChanges
  BY <1>3, <1>5 DEF X!Compare
<1> QED BY <1>1, <1>3, <1>6 DEF X!Told

\* A comparison of two scans shows exactly what differs, in its direction, as
\* often as it was found, and nothing when nothing does.
LEMMA ComparisonIsExact ==
  ASSUME NEW B, NEW current \in Seq(B), NEW baseline \in Seq(B)
  PROVE  X!ComparesExactly(current, baseline)
<1>1. ASSUME NEW one \in Seq(B), NEW other \in Seq(B)
      PROVE  /\ X!Compare(one, other).newOpenPorts =
                  { i \in X!OpenPlaces(one) :
                      <<one[i].ip, one[i].port>> \notin X!OpenAtLast(other) }
             /\ X!Told(one, X!Compare(one, other).newOpenPorts) =
                  X!Told(one, X!OpenPlaces(one)) \ X!OpenAtLast(other)
  <2>1. X!Compare(one, other).newOpenPorts =
          { i \in X!OpenPlaces(one) :
              <<one[i].ip, one[i].port>> \notin X!OpenAtLast(other) }
    BY <1>1, OpenBeforeIs DEF X!Compare, X!OpenPlaces
  <2> QED BY <2>1 DEF X!Told
<1>2. ASSUME NEW i \in X!Compare(current, baseline).newOpenPorts
      PROVE  X!At(current, current[i]) \cap X!OpenPlaces(current)
               \subseteq X!Compare(current, baseline).newOpenPorts
  <2>1. <<current[i].ip, current[i].port>> \notin X!OpenAtLast(baseline)
    BY <1>1, <1>2
  <2>2. ASSUME NEW j \in X!At(current, current[i]), j \in X!OpenPlaces(current)
        PROVE  j \in X!Compare(current, baseline).newOpenPorts
    <3>1. current[j].ip = current[i].ip /\ current[j].port = current[i].port
      BY DEF X!At
    <3>2. <<current[j].ip, current[j].port>> \notin X!OpenAtLast(baseline)
      BY <2>1, <3>1
    <3> QED BY <1>1, <2>2, <3>2
  <2> QED BY <2>2
<1>3. ASSUME \A i \in DOMAIN current : X!Agree(current, current[i])
      PROVE  ~ X!HasChanges(X!Compare(current, current))
  <2>1. ASSUME NEW i \in DOMAIN current
        PROVE  /\ X!OpenBefore(current, current[i]) <=> X!IsOpen(current[i])
               /\ X!At(current, current[i]) # {}
               /\ X!Previous(current, current[i]).service = current[i].service
               /\ X!Previous(current, current[i]).vulns = current[i].vulns
    <3>1. <<current[i].ip, current[i].port>> \in X!Settled(current)
      BY <1>3 DEF X!Settled, X!Told
    <3> QED BY <3>1, SettledIs
  <2>2. X!Compare(current, current).newOpenPorts = {}
    BY <2>1 DEF X!Compare
  <2>3. X!Compare(current, current).serviceChanges = {}
    BY <2>1 DEF X!Compare
  <2>4. X!Compare(current, current).newVulnerabilities = {}
    BY <2>1 DEF X!Compare
  <2> QED BY <2>2, <2>3, <2>4 DEF X!HasChanges
<1>4. ASSUME NEW e \in X!Settled(current),
             e \in X!Told(current, X!Compare(current, baseline).newOpenPorts)
      PROVE  e \notin X!Told(baseline, X!Compare(baseline, current).newOpenPorts)
  <2>1. PICK i \in X!OpenPlaces(current) : e = <<current[i].ip, current[i].port>>
    BY <1>1, <1>4 DEF X!Told
  <2>2. X!OpenBefore(current, current[i])
    BY <1>4, <2>1, SettledIs DEF X!OpenPlaces
  <2>3. e \in X!OpenAtLast(current)
    BY <2>1, <2>2, OpenBeforeIs
  <2> QED BY <1>1, <2>3
<1>5. \A e \in X!Settled(current) \cap X!Settled(baseline) :
        e \in X!Told(current, X!Compare(current, baseline).serviceChanges)
          <=> e \in X!Told(baseline, X!Compare(baseline, current).serviceChanges)
  BY ServicesChangeBothWays
<1>6. X!Told(current, X!Compare(current, baseline).newOpenPorts) =
        X!Told(current, X!OpenPlaces(current)) \ X!OpenAtLast(baseline)
  BY <1>1
<1> QED BY <1>2, <1>3, <1>4, <1>5, <1>6 DEF X!ComparesExactly

\* The cardinality an instance knows is the one of the library.
LEMMA SameCardinality == \A S : X!Cardinality(S) = Cardinality(S)
BY Zenon DEF X!Cardinality, Cardinality

\* The image of a finite set under a function is finite.
LEMMA FiniteImage ==
  ASSUME NEW S, IsFiniteSet(S), NEW f, DOMAIN f = S, f = [x \in S |-> f[x]]
  PROVE  IsFiniteSet({ f[x] : x \in S }) /\ Cardinality({ f[x] : x \in S }) <= Cardinality(S)
<1> DEFINE I == { f[x] : x \in S }
<1>1. f \in Surjection(S, I)
  <2>1. f \in [S -> I] /\ \A t \in I : \E x \in S : f[x] = t
    OBVIOUS
  <2> QED BY <2>1 DEF Surjection
<1> HIDE DEF I
<1>2. IsFiniteSet(I) /\ Cardinality(I) <= Cardinality(S)
  BY <1>1, FS_Surjection
<1> QED BY <1>2 DEF I

\* The listener fold keeps is one of the port that reaches as far as any does.
LEMMA FoldIsWidest ==
  ASSUME NEW B, NEW ls \in Seq(B), NEW p
  PROVE  /\ p \in X!PortsOf(ls) => X!Widest(ls, p) = X!reach(X!fold(ls, p).address)
         /\ p \notin X!PortsOf(ls) => X!Widest(ls, p) = 3
<1> DEFINE mine == { i \in DOMAIN ls : ls[i].port = p }
           far(i) == X!reach(ls[i].address)
           all == { X!reach(l.address) : l \in { x \in X!ToSet(ls) : x.port = p } }
           Best(i) == \A j \in mine \ {i} : far(i) > far(j) \/ (i < j /\ far(j) <= far(i))
<1>1. all = { far(i) : i \in mine }
  BY DEF X!ToSet
<1>2. mine \subseteq Nat /\ \A i \in mine : far(i) \in {0, 1, 2}
  BY DEF X!reach
<1>3. (p \in X!PortsOf(ls)) <=> (mine # {})
  BY DEF X!PortsOf, X!ToSet
<1>4. X!Widest(ls, p) = IF 2 \in all THEN 2 ELSE IF 1 \in all THEN 1 ELSE IF 0 \in all THEN 0 ELSE 3
  BY DEF X!Widest
<1>5. X!fold(ls, p) = ls[CHOOSE i \in mine : Best(i)]
  BY DEF X!fold
<1> HIDE DEF mine, far, all, Best
<1>6. ASSUME NEW k \in {0, 1, 2}, k \in all, \A i \in mine : far(i) <= k
      PROVE  far(CHOOSE i \in mine : Best(i)) = k
  <2>1. PICK i \in mine : far(i) = k /\ \A j \in mine : far(j) = k => i <= j
    <3> DEFINE S == { i \in mine : far(i) = k }
    <3>1. S \in SUBSET Nat /\ S # {}
      BY <1>1, <1>2, <1>6
    <3>2. PICK i \in S : \A j \in S : i <= j
      <4> HIDE DEF S
      <4> QED BY <3>1, LeastNumber
    <3> QED BY <3>2
  <2>2. Best(i)
    <3> SUFFICES ASSUME NEW j \in mine \ {i}
                 PROVE  far(i) > far(j) \/ (i < j /\ far(j) <= far(i))
      BY DEF Best
    <3>1. i \in Nat /\ j \in Nat /\ far(j) \in {0, 1, 2} /\ far(j) <= k
      BY <1>2, <1>6
    <3> QED BY <2>1, <3>1
  <2>3. ASSUME NEW wb \in mine, Best(wb) PROVE far(wb) = k
    <3>1. CASE wb = i
      BY <2>1, <3>1
    <3>2. CASE wb # i
      <4>1. far(wb) > far(i) \/ (wb < i /\ far(i) <= far(wb))
        BY <2>3, <3>2 DEF Best
      <4>2. far(wb) \in {0, 1, 2} /\ far(wb) <= k /\ far(i) = k
        BY <1>2, <1>6, <2>1
      <4> QED BY <4>1, <4>2
    <3> QED BY <3>1, <3>2
  <2> DEFINE wb == CHOOSE x \in mine : Best(x)
  <2>4. wb \in mine /\ Best(wb)
    BY <2>2
  <2> QED BY <2>3, <2>4
<1>7. ASSUME mine # {}
      PROVE  \E k \in {0, 1, 2} : k \in all /\ (\A i \in mine : far(i) <= k)
                                  /\ X!Widest(ls, p) = k
  <2>1. all \subseteq {0, 1, 2} /\ all # {} /\ \A i \in mine : far(i) \in all
    BY <1>1, <1>2, <1>7
  <2>2. CASE 2 \in all
    BY <1>2, <1>4, <2>2
  <2>3. CASE 2 \notin all /\ 1 \in all
    <3>1. \A i \in mine : far(i) \in {0, 1}
      BY <2>1, <2>3
    <3> QED BY <1>4, <2>3, <3>1
  <2>4. CASE 2 \notin all /\ 1 \notin all
    <3>1. 0 \in all /\ \A i \in mine : far(i) = 0
      BY <2>1, <2>4
    <3> QED BY <1>4, <2>4, <3>1
  <2> QED BY <2>2, <2>3, <2>4
<1>8. ASSUME mine # {}
      PROVE  X!Widest(ls, p) = X!reach(X!fold(ls, p).address)
  <2>1. PICK k \in {0, 1, 2} : k \in all /\ (\A i \in mine : far(i) <= k)
                               /\ X!Widest(ls, p) = k
    BY <1>7, <1>8
  <2>2. far(CHOOSE i \in mine : Best(i)) = k
    BY <1>6, <2>1
  <2> QED BY <1>5, <2>1, <2>2 DEF far
<1>9. ASSUME mine = {} PROVE X!Widest(ls, p) = 3
  <2>1. all = {}
    BY <1>1, <1>9
  <2> QED BY <1>4, <2>1
<1> QED BY <1>3, <1>8, <1>9

Kinds      == {"appeared", "disappeared", "widened", "narrowed", "owner_changed"}
Severities == {"high", "medium", "info"}

\* What drift says of one port: nothing or one change of it, one if it reaches
\* elsewhere, and of high severity exactly if it reaches everywhere and did not.
LEMMA DifferenceIs ==
  ASSUME NEW B, NEW before \in Seq(B), NEW after \in Seq(B),
         NEW p \in X!PortsOf(before) \cup X!PortsOf(after)
  PROVE  LET D == X!Difference(before, after, p)
             wb == X!Widest(before, p)
             wa == X!Widest(after, p)
         IN  /\ \A e \in D : /\ e.port = p /\ e = [kind |-> e.kind, port |-> p,
                                                   severity |-> e.severity]
                             /\ e.kind \in Kinds /\ e.severity \in Severities
             /\ \A e, d \in D : e = d
             /\ wa # wb => D # {}
             /\ (\E e \in D : e.severity = "high") <=> (wa = 2 /\ wb # 2)
<1> DEFINE D == X!Difference(before, after, p)
           wb == X!Widest(before, p)
           wa == X!Widest(after, p)
           ra == X!reach(X!fold(after, p).address)
           rb == X!reach(X!fold(before, p).address)
           change(kind, severity) == { [kind |-> kind, port |-> p, severity |-> severity] }
           wide(kind) == change(kind, IF ra = 2 THEN "high" ELSE "medium")
<1>1. ra \in {0, 1, 2} /\ rb \in {0, 1, 2}
  BY DEF X!reach
<1>2. CASE p \notin X!PortsOf(before)
  <2>1. D = wide("appeared") /\ wb = 3 /\ wa = ra
    BY <1>2, FoldIsWidest DEF X!Difference
  <2> QED BY <1>1, <2>1 DEF Kinds, Severities
<1>3. CASE p \in X!PortsOf(before) /\ p \notin X!PortsOf(after)
  <2>1. D = change("disappeared", "info") /\ wa = 3 /\ wb = rb
    BY <1>3, FoldIsWidest DEF X!Difference
  <2> QED BY <1>1, <2>1 DEF Kinds, Severities
<1>4. CASE p \in X!PortsOf(before) /\ p \in X!PortsOf(after)
  <2>1. wa = ra /\ wb = rb
    BY <1>4, FoldIsWidest
  <2>2. CASE ra > rb
    <3>1. D = wide("widened")
      BY <1>4, <2>2 DEF X!Difference
    <3> QED BY <1>1, <2>1, <2>2, <3>1 DEF Kinds, Severities
  <2>3. CASE ra < rb
    <3>1. D = change("narrowed", "info")
      BY <1>1, <1>4, <2>3 DEF X!Difference
    <3> QED BY <1>1, <2>1, <2>3, <3>1 DEF Kinds, Severities
  <2>4. CASE ra = rb
    <3>1. D = change("owner_changed", IF ra = 2 THEN "medium" ELSE "info") \/ D = {}
      BY <1>1, <1>4, <2>4 DEF X!Difference
    <3> QED BY <1>1, <2>1, <2>4, <3>1 DEF Kinds, Severities
  <2> QED BY <1>1, <2>2, <2>3, <2>4
<1> QED BY <1>2, <1>3, <1>4

\* So drift fails exactly when a port reaches everywhere that did not, and says
\* one thing of a port at most, and one of each whose reach changed.
LEMMA DriftIsExact ==
  ASSUME NEW B, NEW before \in Seq(B), NEW after \in Seq(B)
  PROVE  X!DriftsExactly(before, after)
<1> DEFINE ports == X!PortsOf(before) \cup X!PortsOf(after)
           D(p) == X!Difference(before, after, p)
           high == { e \in X!Diff(before, after) : e.severity = "high" }
           wide(ls) == { p \in ports : X!Widest(ls, p) = 2 }
<1>1. X!Diff(before, after) = UNION { D(p) : p \in ports }
  BY DEF X!Diff
<1>2. \A p \in ports : \A e \in D(p) :
        e.port = p /\ e = [kind |-> e.kind, port |-> p, severity |-> e.severity]
        /\ e.kind \in Kinds /\ e.severity \in Severities
  BY DifferenceIs
<1>3. \A p \in ports : \A e, d \in D(p) : e = d
  BY DifferenceIs
<1>4. \A p \in ports : X!Widest(before, p) # X!Widest(after, p) => D(p) # {}
  BY DifferenceIs
<1>5. \A p \in ports : (\E e \in D(p) : e.severity = "high")
                         <=> (X!Widest(after, p) = 2 /\ X!Widest(before, p) # 2)
  BY DifferenceIs
<1> HIDE DEF D
<1>6. IsFiniteSet(ports)
  <2>1. ASSUME NEW ls \in Seq(B) PROVE IsFiniteSet(X!PortsOf(ls))
    <3>1. Len(ls) \in Nat /\ DOMAIN ls = 1 .. Len(ls)
      OBVIOUS
    <3>2. IsFiniteSet(1 .. Len(ls))
      BY <3>1, FS_Interval
    <3>3. X!PortsOf(ls) = { ls[i].port : i \in 1 .. Len(ls) }
      BY <3>1 DEF X!PortsOf, X!ToSet
    <3> DEFINE f == [i \in 1 .. Len(ls) |-> ls[i].port]
    <3>4. IsFiniteSet({ f[i] : i \in 1 .. Len(ls) })
      <4>1. DOMAIN f = 1 .. Len(ls) /\ f = [i \in 1 .. Len(ls) |-> f[i]]
        OBVIOUS
      <4> HIDE DEF f
      <4> QED BY <3>2, <4>1, FiniteImage
    <3>5. X!PortsOf(ls) = { f[i] : i \in 1 .. Len(ls) }
      BY <3>3
    <3> QED BY <3>4, <3>5
  <2> QED BY <2>1, FS_Union
<1>7. IsFiniteSet(high)
  <2> DEFINE every == UNION { D(p) : p \in ports }
  <2>1. IsFiniteSet({ D(p) : p \in ports })
    <3> DEFINE f == [p \in ports |-> D(p)]
    <3>1. DOMAIN f = ports /\ f = [p \in ports |-> f[p]]
      OBVIOUS
    <3>2. { D(p) : p \in ports } = { f[p] : p \in ports }
      OBVIOUS
    <3> HIDE DEF f, ports
    <3>3. IsFiniteSet({ f[p] : p \in ports })
      BY <1>6, <3>1, FiniteImage
    <3> QED BY <3>2, <3>3
  <2>2. \A s \in { D(p) : p \in ports } : IsFiniteSet(s)
    <3> SUFFICES ASSUME NEW p \in ports PROVE IsFiniteSet(D(p))
      OBVIOUS
    <3>1. CASE D(p) = {}
      BY <3>1, FS_EmptySet
    <3>2. CASE D(p) # {}
      <4>1. PICK e \in D(p) : TRUE
        BY <3>2
      <4>2. D(p) = {e}
        BY <1>3, <4>1
      <4> QED BY <4>2, FS_Singleton
    <3> QED BY <3>1, <3>2
  <2>3. IsFiniteSet(every)
    <3> HIDE DEF ports
    <3> QED BY <2>1, <2>2, FS_UNION
  <2> QED BY <1>1, <2>3, FS_Subset
<1>8. X!runDrift(before, after) = 1 <=> high # {}
  <2>2. X!runDrift(before, after) = IF Cardinality(high) > 0 THEN 1 ELSE 0
    <3>1. X!NewlyExposed(X!Diff(before, after)) = Cardinality(high)
      BY SameCardinality, Zenon DEF X!NewlyExposed
    <3> HIDE DEF high
    <3> QED BY <3>1, Zenon DEF X!runDrift
  <2> HIDE DEF high
  <2>1. Cardinality(high) \in Nat /\ (Cardinality(high) = 0 <=> high = {})
    BY <1>7, FS_CardinalityType, FS_EmptySet
  <2> QED BY <2>1, <2>2
<1>9. high # {} <=> wide(after) \ wide(before) # {}
  <2>1. high # {} <=> \E p \in ports : \E e \in D(p) : e.severity = "high"
    BY <1>1
  <2> HIDE DEF ports
  <2> QED BY <1>5, <2>1
<1>10. ASSUME NEW p \in ports
       PROVE  Cardinality({ e \in X!Diff(before, after) : e.port = p }) <= 1
  <2>1. { e \in X!Diff(before, after) : e.port = p } = D(p)
    BY <1>1, <1>2
  <2>4. Cardinality({}) = 0 /\ (\A e : Cardinality({e}) = 1)
    <3>1. Cardinality({}) = 0
      BY FS_EmptySet
    <3>2. \A e : Cardinality({e}) = 1
      BY FS_Singleton
    <3> QED BY <3>1, <3>2
  <2>2. CASE D(p) = {}
    <3>1. Cardinality({ e \in X!Diff(before, after) : e.port = p }) = 0
      BY <2>1, <2>2, <2>4, Zenon
    <3> QED BY <3>1
  <2>3. CASE D(p) # {}
    <3>1. PICK e \in D(p) : TRUE
      BY <2>3
    <3>2. D(p) = {e}
      BY <1>3, <3>1
    <3>3. Cardinality({ d \in X!Diff(before, after) : d.port = p }) = 1
      BY <2>1, <2>4, <3>2, Zenon
    <3> QED BY <3>3
  <2> QED BY <2>2, <2>3
<1>11. \A p \in ports : X!Widest(before, p) # X!Widest(after, p) =>
         \E e \in X!Diff(before, after) : e.port = p
  <2> HIDE DEF ports
  <2> QED BY <1>1, <1>2, <1>4
<1>12. X!runDrift(before, after) = 1 <=> wide(after) \ wide(before) # {}
  BY <1>8, <1>9
<1> QED BY <1>10, <1>11, <1>12, SameCardinality, Zenon DEF X!DriftsExactly

\* SetToSeq lists a finite set.
LEMMA SetToSeqIs ==
  ASSUME NEW S, IsFiniteSet(S), NEW q, q = X!SetToSeq(S)
  PROVE  /\ \E k \in Nat : q \in [1 .. k -> S]
         /\ \A x \in S : \E i \in DOMAIN q : q[i] = x
         /\ \A i, j \in DOMAIN q : q[i] = q[j] => i = j
<1> DEFINE k == Cardinality(S)
<1>1. k \in Nat /\ ExistsBijection(1 .. k, S)
  BY FS_CardinalityType
<1>2. PICK f : f \in Bijection(1 .. k, S)
  BY <1>1 DEF ExistsBijection
<1>3. f \in [1 .. k -> S] /\ X!IsInjective(f)
  <2>1. f \in Injection(1 .. k, S)
    BY <1>2 DEF Bijection
  <2>2. f \in [1 .. k -> S] /\ \A i, j \in 1 .. k : f[i] = f[j] => i = j
    BY <2>1 DEF Injection, IsInjective
  <2> QED BY <2>2 DEF X!IsInjective
<1>4. q = CHOOSE g \in [1 .. k -> S] : X!IsInjective(g)
  BY SameCardinality, Zenon DEF X!SetToSeq
<1> HIDE DEF k
<1>5. q \in [1 .. k -> S] /\ X!IsInjective(q)
  BY <1>3, <1>4
<1>6. \A i, j \in 1 .. k : q[i] = q[j] => i = j
  BY <1>5 DEF X!IsInjective
<1>7. q \in Injection(1 .. k, S)
  BY <1>5, <1>6 DEF Injection, IsInjective
<1>8. Cardinality(1 .. k) = Cardinality(S)
  <2>1. IsFiniteSet(1 .. k) /\ Cardinality(1 .. k) = k
    BY <1>1, FS_Interval
  <2> QED BY <2>1 DEF k
<1>9. q \in Surjection(1 .. k, S)
  BY <1>7, <1>8, FS_Injection
<1>10. \A x \in S : \E i \in 1 .. k : q[i] = x
  BY <1>9 DEF Surjection
<1> QED BY <1>1, <1>5, <1>6, <1>10

\* What a scan of the ports from here finds.
FoundAt(target, states, interposed, p) ==
  [ip |-> target, port |-> p, service |-> "", vulns |-> {},
   state |-> IF interposed THEN "open" ELSE states[p]]

FoundAll(ports, target, states, interposed) ==
  { FoundAt(target, states, interposed, p) : p \in ports }

\* What such a scan reports: each port, once, in the state it was found in.
Finds(results, ports, target, states, interposed) ==
  /\ \A p \in ports :
       X!StateOf(results, target, p) = FoundAt(target, states, interposed, p).state
  /\ \A p : p \notin ports => X!StateOf(results, target, p) = "not probed"
  /\ \A r \in X!ToSet(results) : r.ip = target /\ r.port \in ports
  /\ \A p \in ports : \E r \in X!ToSet(results) : r.ip = target /\ r.port = p

\* SetToSeq lists each result once, so StateOf finds it.
LEMMA FoundIs ==
  ASSUME NEW ports, IsFiniteSet(ports), NEW target, NEW states, NEW interposed,
         NEW results, results = X!SetToSeq(FoundAll(ports, target, states, interposed))
  PROVE  Finds(results, ports, target, states, interposed)
<1> DEFINE found(p) == FoundAt(target, states, interposed, p)
           S == { found(p) : p \in ports }
<1>1. IsFiniteSet(S)
  <2> DEFINE f == [p \in ports |-> found(p)]
  <2>1. DOMAIN f = ports /\ f = [p \in ports |-> f[p]]
    OBVIOUS
  <2>2. S = { f[p] : p \in ports }
    OBVIOUS
  <2> HIDE DEF f
  <2>3. IsFiniteSet({ f[p] : p \in ports })
    BY <2>1, FiniteImage
  <2> QED BY <2>2, <2>3
<1>2. \A p : found(p).ip = target /\ found(p).port = p
  BY DEF FoundAt
<1> HIDE DEF found
<1>3. \A x \in S : \E p \in ports : x = found(p) /\ x.ip = target /\ x.port = p
  BY <1>2
<1>4. \A p \in ports : found(p) \in S
  OBVIOUS
<1>5. results = X!SetToSeq(S)
  BY DEF found, FoundAll
<1> HIDE DEF S
<1>6. /\ \E k \in Nat : results \in [1 .. k -> S]
      /\ \A x \in S : \E i \in DOMAIN results : results[i] = x
      /\ \A i, j \in DOMAIN results : results[i] = results[j] => i = j
  BY <1>1, <1>5, SetToSeqIs
<1>7. DOMAIN results \subseteq Nat /\ \A i \in DOMAIN results : results[i] \in S
  <2>1. PICK k \in Nat : results \in [1 .. k -> S]
    BY <1>6
  <2>2. DOMAIN results = 1 .. k /\ 1 .. k \subseteq Nat
    BY <2>1
  <2> QED BY <2>1, <2>2
<1>8. OneEach(results)
  <2> SUFFICES ASSUME NEW i \in DOMAIN results, NEW j \in DOMAIN results,
                      results[i].port = results[j].port
               PROVE  i = j
    BY DEF OneEach
  <2>1. results[i] = results[j]
    BY <1>3, <1>7
  <2> QED BY <1>6, <2>1
<1>9. ASSUME NEW p \in ports PROVE X!StateOf(results, target, p) = found(p).state
  <2>1. PICK i \in DOMAIN results : results[i] = found(p)
    BY <1>4, <1>6
  <2> DEFINE r == [ip |-> target, port |-> p]
  <2>2. r.ip = results[i].ip /\ r.port = results[i].port
    BY <1>2, <2>1
  <2>3. X!At(results, r) = {i} /\ X!Previous(results, r) = results[i]
    BY <1>7, <1>8, <2>2, PreviousIs
  <2> QED BY <2>1, <2>3 DEF X!StateOf
<1>10. ASSUME NEW p, p \notin ports PROVE X!StateOf(results, target, p) = "not probed"
  <2>1. X!At(results, [ip |-> target, port |-> p]) = {}
    <3>1. \A i \in DOMAIN results : results[i].port \in ports
      BY <1>3, <1>7
    <3> QED BY <1>10, <3>1 DEF X!At
  <2> QED BY <2>1 DEF X!StateOf
<1>11. \A r \in X!ToSet(results) : r.ip = target /\ r.port \in ports
  BY <1>3, <1>7 DEF X!ToSet
<1>12. \A p \in ports : \E r \in X!ToSet(results) : r.ip = target /\ r.port = p
  <2> TAKE p \in ports
  <2>1. PICK i \in DOMAIN results : results[i] = found(p)
    BY <1>4, <1>6
  <2>2. results[i] \in X!ToSet(results)
    BY DEF X!ToSet
  <2> QED BY <1>2, <2>1, <2>2
<1> QED BY <1>9, <1>10, <1>11, <1>12 DEF found, Finds

\* The address probed is never loopback.
LEMMA TargetIs ==
  ASSUME X!ExposureAssumption, NEW A, NEW inv, inv.addresses \in Seq(A)
  PROVE  X!PublicAddress(inv) # X!Loopback
<1> DEFINE public(family) == { i \in DOMAIN inv.addresses :
                                 inv.addresses[i] \in family \ PrivateAddresses }
           first(places) == inv.addresses[CHOOSE i \in places : \A j \in places : i <= j]
<1>1. ASSUME NEW family, public(family) # {} PROVE first(public(family)) \in family
  <2>1. public(family) \in SUBSET Nat
    OBVIOUS
  <2>2. \E i \in public(family) : \A j \in public(family) : i <= j
    <3> HIDE DEF public
    <3> QED BY <1>1, <2>1, LeastNumber
  <2> DEFINE i == CHOOSE i \in public(family) : \A j \in public(family) : i <= j
  <2>3. i \in public(family)
    <3> HIDE DEF public
    <3> QED BY <2>2
  <2>4. inv.addresses[i] \in family
    <3> HIDE DEF i
    <3> QED BY <2>3
  <2> QED BY <2>4
<1>2. X!Loopback \notin V4Addresses /\ X!Loopback \notin V6Addresses /\ X!Loopback # ""
  BY DEF X!ExposureAssumption, X!Addresses, X!Loopback
<1>3. X!PublicAddress(inv) = IF public(V4Addresses) # {} THEN first(public(V4Addresses))
                             ELSE IF public(V6Addresses) # {} THEN first(public(V6Addresses))
                             ELSE ""
  BY DEF X!PublicAddress
<1> HIDE DEF public, first
<1> QED BY <1>1, <1>2, <1>3

\* The canary probes: none only if every candidate is in use.
LEMMA CanariesAre ==
  ASSUME X!ExposureAssumption, NEW B, NEW inv, inv.listeners \in Seq(B),
         \A s \in inv.services : s.nodePort \in Nat,
         NEW extra, X!CanaryPorts(inv, X!PortsToProbe(inv, extra)) = {}
  PROVE  X!ToSet(Candidates) \subseteq X!PortsOf(inv.listeners) \cup X!PortsToProbe(inv, extra)
<1> DEFINE ports == X!PortsToProbe(inv, extra)
           used == X!PortsOf(inv.listeners) \cup ports
                     \cup UNION { {s.port, s.nodePort} : s \in inv.services }
           free == { i \in DOMAIN Candidates : Candidates[i] \notin used }
<1>1. Candidates \in Seq(Nat \ {0})
  BY DEF X!ExposureAssumption
<1>2. ASSUME free # {} PROVE FALSE
  <2>1. free \in SUBSET Nat
    BY <1>1
  <2>2. PICK i \in free : \A j \in free : i <= j
    <3> HIDE DEF free
    <3> QED BY <1>2, <2>1, LeastNumber
  <2>3. { j \in free : j < i } = {}
    <3>1. \A j \in free : j \in Nat /\ i \in Nat /\ i <= j
      BY <2>1, <2>2
    <3> HIDE DEF free
    <3> QED BY <3>1
  <2>4. X!Cardinality({ j \in free : j < i }) < 3
    <3>1. Cardinality({}) = 0
      BY FS_EmptySet
    <3>2. X!Cardinality({ j \in free : j < i }) = 0
      BY <2>3, <3>1, SameCardinality, Zenon
    <3> QED BY <3>2
  <2>5. X!CanaryPorts(inv, ports) =
          { Candidates[l] : l \in { k \in free : X!Cardinality({ j \in free : j < k }) < 3 } }
    BY Zenon DEF X!CanaryPorts
  <2> HIDE DEF free, ports
  <2>6. Candidates[i] \in X!CanaryPorts(inv, ports)
    BY <2>4, <2>5
  <2> QED BY <2>6 DEF ports
<1>3. ASSUME NEW port \in X!ToSet(Candidates) PROVE port \in X!PortsOf(inv.listeners) \cup ports
  <2>1. PICK i \in DOMAIN Candidates : port = Candidates[i]
    BY DEF X!ToSet
  <2>2. port \in used /\ port \in Nat \ {0}
    BY <1>1, <1>2, <2>1
  <2>3. ASSUME NEW s \in inv.services, port \in {s.port, s.nodePort} PROVE port \in ports
    <3>1. CASE port = s.port
      BY <3>1 DEF X!PortsToProbe
    <3>2. CASE port = s.nodePort
      <4>1. s \in { x \in inv.services : x.nodePort > 0 }
        BY <2>2, <3>2
      <4> QED BY <3>2, <4>1 DEF X!PortsToProbe
    <3> QED BY <2>3, <3>1, <3>2
  <2> QED BY <2>2, <2>3
<1> QED BY <1>3

\* What is made of finitely many is finite.
LEMMA FinitePorts ==
  ASSUME NEW S, IsFiniteSet(S)
  PROVE  IsFiniteSet({ x.port : x \in S }) /\ IsFiniteSet({ x.nodePort : x \in S })
<1> DEFINE f == [x \in S |-> x.port]
           g == [x \in S |-> x.nodePort]
<1>1. DOMAIN f = S /\ f = [x \in S |-> f[x]] /\ { x.port : x \in S } = { f[x] : x \in S }
  OBVIOUS
<1>2. DOMAIN g = S /\ g = [x \in S |-> g[x]] /\ { x.nodePort : x \in S } = { g[x] : x \in S }
  OBVIOUS
<1> HIDE DEF f, g
<1>3. IsFiniteSet({ f[x] : x \in S }) /\ IsFiniteSet({ g[x] : x \in S })
  BY <1>1, <1>2, FiniteImage
<1> QED BY <1>1, <1>2, <1>3

LEMMA SeqIsFinite ==
  ASSUME NEW B, NEW ls \in Seq(B)
  PROVE  IsFiniteSet(X!ToSet(ls))
<1>1. Len(ls) \in Nat /\ DOMAIN ls = 1 .. Len(ls) /\ ls = [i \in 1 .. Len(ls) |-> ls[i]]
  OBVIOUS
<1>2. IsFiniteSet(1 .. Len(ls))
  <2>1. \A k \in Nat : IsFiniteSet(1 .. k)
    BY FS_Interval
  <2> QED BY <1>1, <2>1
<1>3. IsFiniteSet({ ls[i] : i \in 1 .. Len(ls) })
  BY <1>1, <1>2, FiniteImage
<1>4. X!ToSet(ls) = { ls[i] : i \in 1 .. Len(ls) }
  BY <1>1 DEF X!ToSet
<1> QED BY <1>3, <1>4

\* An exit status of 1 says what it stands for.
LEMMA OneIf ==
  ASSUME NEW status, NEW S, status = IF S # {} THEN 1 ELSE 0
  PROVE  status = 1 <=> S # {}
OBVIOUS

\* An explanation says 0 or 1 only if it can, and the one that is right.
LEMMA ExplanationIsExact ==
  ASSUME X!ExposureAssumption, NEW A, NEW B, NEW inv,
         inv.addresses \in Seq(A), inv.listeners \in Seq(B), IsFiniteSet(inv.services),
         \A s \in inv.services : s.nodePort \in Nat,
         NEW extra, IsFiniteSet(extra), NEW expected, IsFiniteSet(expected),
         NEW here, NEW given, given # X!Loopback \/ X!Loopback \in here,
         NEW interposed \in BOOLEAN, NEW states,
         \A p \in X!PortsToProbe(inv, extra \cup expected) : states[p] # "not probed"
  PROVE  X!ExplainsExactly(inv, given, here, extra, expected, states, interposed)
<1> DEFINE run == X!ScanFromHere(inv, given, here, extra, expected, states, interposed)
           target == IF given # "" THEN given ELSE X!PublicAddress(inv)
           ports == X!PortsToProbe(inv, extra \cup expected)
           found(p) == FoundAt(target, states, interposed, p)
           canaries == X!CanaryPorts(inv, ports)
           results == X!SetToSeq({ found(p) : p \in ports })
           entries == X!Explain(inv, results, target, expected)
           refused == target = "" \/ target \in here \/ \E p \in canaries : X!IsOpen(found(p))
<1>1. run = IF refused THEN [exit |-> 2, target |-> target, entries |-> {}]
            ELSE [exit |-> IF X!Problems(entries) # {} THEN 1 ELSE 0,
                  target |-> target, entries |-> entries]
  BY DEF X!ScanFromHere, FoundAt
<1>2. IsFiniteSet(ports)
  <2> DEFINE far == { l \in X!ToSet(inv.listeners) : X!BeyondLoopback(l) }
             kept == { s \in inv.services : s.nodePort > 0 }
  <2>1. \A S : IsFiniteSet(S) => /\ IsFiniteSet({ x.port : x \in S })
                                 /\ IsFiniteSet({ x.nodePort : x \in S })
    BY FinitePorts
  <2>3. IsFiniteSet(X!ToSet(inv.listeners))
    BY SeqIsFinite
  <2>4. IsFiniteSet(far) /\ IsFiniteSet(kept)
    BY <2>3, FS_Subset
  <2>5. ports = { l.port : l \in far } \cup { s.port : s \in inv.services }
                  \cup { s.nodePort : s \in kept } \cup (extra \cup expected)
    BY DEF X!PortsToProbe
  <2> HIDE DEF far, kept
  <2>6. /\ IsFiniteSet({ l.port : l \in far }) /\ IsFiniteSet({ s.port : s \in inv.services })
        /\ IsFiniteSet({ s.nodePort : s \in kept }) /\ IsFiniteSet(extra \cup expected)
    BY <2>1, <2>4, FS_Union
  <2>7. IsFiniteSet({ l.port : l \in far } \cup { s.port : s \in inv.services })
    BY <2>6, FS_Union
  <2>8. IsFiniteSet({ l.port : l \in far } \cup { s.port : s \in inv.services }
                      \cup { s.nodePort : s \in kept })
    BY <2>6, <2>7, FS_Union
  <2> QED BY <2>5, <2>6, <2>8, FS_Union
<1>3. /\ \A p \in ports : X!StateOf(results, target, p) = found(p).state
      /\ \A p : p \notin ports => X!StateOf(results, target, p) = "not probed"
      /\ \A r \in X!ToSet(results) : r.ip = target /\ r.port \in ports
      /\ \A p \in ports : \E r \in X!ToSet(results) : r.ip = target /\ r.port = p
  <2>1. results = X!SetToSeq(FoundAll(ports, target, states, interposed))
    BY DEF FoundAll
  <2>2. Finds(results, ports, target, states, interposed)
    <3> HIDE DEF ports, target, results, found
    <3> QED BY <1>2, <2>1, FoundIs
  <2>3. \A p : found(p) = FoundAt(target, states, interposed, p)
    OBVIOUS
  <2> HIDE DEF ports, target, results, found
  <2> QED BY <2>2, <2>3 DEF Finds
<1>4. \A p : found(p).state = IF interposed THEN "open" ELSE states[p]
  BY DEF FoundAt
<1> HIDE DEF found, results
<1>5. CASE refused
  <2>1. run.exit = 2
    <3> HIDE DEF run, refused, entries, target
    <3> QED BY <1>1, <1>5
  <2> QED BY <2>1, Zenon DEF X!ExplainsExactly
<1>6. CASE ~ refused
  <2>1. run.exit = (IF X!Problems(entries) # {} THEN 1 ELSE 0) /\ run.target = target
        /\ run.entries = entries
    <3> HIDE DEF run, refused, entries, target
    <3> QED BY <1>1, <1>6
  <2>2. target \notin here /\ target # X!Loopback
    <3>1. target \notin here
      BY <1>6
    <3>2. X!PublicAddress(inv) # X!Loopback
      BY TargetIs
    <3> QED BY <3>1, <3>2
  <2>3. ASSUME interposed
        PROVE  X!ToSet(Candidates) \subseteq X!PortsOf(inv.listeners) \cup ports
    <3>1. \A p : X!IsOpen(found(p))
      BY <1>4, <2>3 DEF X!IsOpen
    <3>2. canaries = {}
      BY <1>6, <3>1
    <3> QED BY <3>2, CanariesAre
  <2> DEFINE state(p) == X!StateOf(results, target, p)
             class(p) == X!Class(inv, results, target, p)
             answered == { r.port : r \in { q \in X!ToSet(results) :
                             q.ip = target /\ state(q.port) = "open" } }
             entry(p) == [port |-> p, class |-> class(p), expected |-> p \in expected,
                          severity |-> X!severity(class(p), p \in expected, p)]
             all == X!PortsOf(inv.listeners) \cup answered
             reachable(p) == \E l \in X!ToSet(inv.listeners) :
                               l.port = p /\ X!covers(l.address, target)
             forwards(p) == X!kubeServiceFor(inv.services, p)
  <2>4. entries = { entry(p) : p \in all }
    BY DEF X!Explain
  <2>5. \A p : class(p) = CASE state(p) = "open" /\ forwards(p) -> "FORWARDED"
       [] state(p) = "open" /\ reachable(p) /\ ~ forwards(p) -> "EXPOSED"
       [] state(p) = "open" /\ ~ reachable(p) /\ ~ forwards(p) -> "FORWARDED"
       [] state(p) = "closed" /\ reachable(p) -> "REFUSED"
       [] state(p) \notin {"open", "closed", "not probed"} /\ reachable(p) -> "SHIELDED"
       [] state(p) = "not probed" /\ reachable(p) -> "UNTESTED"
       [] OTHER -> "LOCAL"
    BY DEF X!Class
  <2>6. answered = { p \in ports : state(p) = "open" }
    <3> HIDE DEF state, ports, target
    <3>1. /\ \A r \in X!ToSet(results) : r.ip = target /\ r.port \in ports
          /\ \A p \in ports : \E r \in X!ToSet(results) : r.ip = target /\ r.port = p
      BY <1>3
    <3>2. answered \subseteq { p \in ports : state(p) = "open" }
      BY <3>1
    <3>3. \A p \in ports : state(p) = "open" => p \in answered
      BY <3>1
    <3> HIDE DEF answered
    <3> QED BY <3>2, <3>3
  <2>7. \A p : reachable(p) => p \in ports
    <3> SUFFICES ASSUME NEW l \in X!ToSet(inv.listeners), X!covers(l.address, target)
                 PROVE  l.port \in ports
      OBVIOUS
    <3>1. l.address # X!Loopback
      <4>1. X!Loopback # X!Any4 /\ X!Loopback # X!Any6
        BY DEF X!Loopback, X!Any4, X!Any6
      <4> QED BY <2>2, <4>1 DEF X!covers
    <3> QED BY <3>1 DEF X!PortsToProbe, X!BeyondLoopback
  <2> HIDE DEF state, class, reachable, forwards, answered, ports, target, entries
  <2>8. \A p : (class(p) \in {"EXPOSED", "FORWARDED"}) <=> state(p) = "open"
    BY <2>5
  <2>9. ASSUME ~ interposed, NEW p PROVE state(p) = "open" <=> p \in ports /\ states[p] = "open"
    BY <1>3, <1>4, <2>9 DEF state
  <2>10. \A p \in all : class(p) # "UNTESTED"
    <3> SUFFICES ASSUME NEW p, class(p) = "UNTESTED" PROVE FALSE
      OBVIOUS
    <3>1. state(p) = "not probed" /\ reachable(p)
      BY <2>5
    <3>2. p \in ports /\ state(p) = found(p).state
      BY <1>3, <2>7, <3>1 DEF state
    <3>3. states[p] # "not probed"
      BY <3>2 DEF ports
    <3> QED BY <1>4, <3>1, <3>2, <3>3
  <2>11. \A e \in entries : e.class # "UNTESTED"
    <3>1. \A p : entry(p).class = class(p)
      OBVIOUS
    <3> HIDE DEF entry, all
    <3> QED BY <2>4, <2>10, <3>1
  <2>12. X!Problems(entries) # {} <=> \E p \in all : state(p) = "open" /\ p \notin expected
    <3>1. X!Problems(entries) # {} <=> \E e \in entries : X!actionable(e)
      BY DEF X!Problems
    <3>2. \A p : X!actionable(entry(p)) <=> state(p) = "open" /\ p \notin expected
      BY <2>8 DEF X!actionable
    <3> HIDE DEF entry, all
    <3> QED BY <2>4, <3>1, <3>2
  <2>13. ASSUME ~ interposed
         PROVE  run.exit = 1 <=> \E p \in ports : states[p] = "open" /\ p \notin expected
    <3>1. \A p : state(p) = "open" <=> p \in ports /\ states[p] = "open"
      BY <2>9, <2>13
    <3>2. (\E p \in all : state(p) = "open" /\ p \notin expected)
            <=> \E p \in ports : states[p] = "open" /\ p \notin expected
      BY <2>6, <3>1
    <3>3. run.exit = 1 <=> X!Problems(entries) # {}
      <4>1. run.exit = IF X!Problems(entries) # {} THEN 1 ELSE 0
        BY <2>1
      <4> HIDE DEF run
      <4> QED BY <4>1, OneIf
    <3> QED BY <2>12, <3>2, <3>3
  <2>14. run.target \notin here
    BY <2>1, <2>2
  <2>15. \A e \in run.entries : e.class # "UNTESTED"
    BY <2>1, <2>11
  <2> QED BY <2>3, <2>13, <2>14, <2>15, Zenon DEF X!ExplainsExactly, ports
<1> QED BY <1>5, <1>6

-----------------------------------------------------------------------------
(* The three reports.                                                      *)

LEMMA SequencesOfMore ==
  ASSUME NEW A, NEW B, A \subseteq B PROVE Seq(A) \subseteq Seq(B)
OBVIOUS

\* A report says exactly what changed or what is exposed: the new ports and
\* changed services of two scans (compare.go), the changes (drift.go) and
\* exit status (cmd/drift.go) of two inventories in whatever order their
\* listeners come, and the classes and exit status of cmd/explain.go, whose
\* canary probes (explain/auto.go) keep it from believing a middlebox.
LEMMA EveryReportExact ==
  ASSUME X!ExposureAssumption, NEW report, IsReport(report)
  PROVE  X!ReportsExact(report)
<1>1. CASE report.of = "compare"
  <2>1. Listed(report.current) /\ Listed(report.baseline)
    BY <1>1 DEF IsReport
  <2> DEFINE B == { report.current[i] : i \in DOMAIN report.current }
                    \cup { report.baseline[i] : i \in DOMAIN report.baseline }
  <2>2. report.current \in Seq(B) /\ report.baseline \in Seq(B)
    BY <2>1, SequencesOfMore DEF Listed
  <2> HIDE DEF B
  <2>3. X!ComparesExactly(report.current, report.baseline)
    BY <2>2, ComparisonIsExact
  <2> QED BY <1>1, <2>3 DEF X!ReportsExact
<1>2. CASE report.of = "drift"
  <2>1. Listed(report.before) /\ Listed(report.after)
    BY <1>2 DEF IsReport
  <2> DEFINE B == { report.before[i] : i \in DOMAIN report.before }
                    \cup { report.after[i] : i \in DOMAIN report.after }
  <2>2. report.before \in Seq(B) /\ report.after \in Seq(B)
    BY <2>1, SequencesOfMore DEF Listed
  <2> HIDE DEF B
  <2>3. X!DriftsExactly(report.before, report.after)
    BY <2>2, DriftIsExact
  <2> QED BY <1>2, <2>3 DEF X!ReportsExact
<1>3. CASE report.of = "explain"
  <2> DEFINE A == { report.inv.addresses[i] : i \in DOMAIN report.inv.addresses }
             B == { report.inv.listeners[i] : i \in DOMAIN report.inv.listeners }
             inv == report.inv
             extra == report.extra
             expected == report.expected
             here == report.here
             given == report.given
             states == report.states
             interposed == report.interposed
  <2>1. /\ inv.addresses \in Seq(A) /\ inv.listeners \in Seq(B)
        /\ IsFiniteSet(inv.services) /\ \A s \in inv.services : s.nodePort \in Nat
        /\ IsFiniteSet(extra) /\ IsFiniteSet(expected)
        /\ given # X!Loopback \/ X!Loopback \in here
        /\ interposed \in BOOLEAN
        /\ \A p \in X!PortsToProbe(inv, extra \cup expected) : states[p] # "not probed"
    BY <1>3 DEF IsReport, Listed
  <2>2. X!ReportsExact(report) <=>
          X!ExplainsExactly(inv, given, here, extra, expected, states, interposed)
    BY <1>3 DEF X!ReportsExact
  <2> HIDE DEF A, B, inv, extra, expected, here, given, states, interposed
  <2>3. X!ExplainsExactly(inv, given, here, extra, expected, states, interposed)
    BY <2>1, ExplanationIsExact
  <2> QED BY <2>2, <2>3
<1> QED BY <1>1, <1>2, <1>3 DEF IsReport

-----------------------------------------------------------------------------
(* What is sent.                                                           *)

AtMostOne(S) == \A x, y \in S : x = y

\* The cardinality of the options' module is the cardinality.
LEMMA SameCount == \A S : O!Cardinality(S) = Cardinality(S)
BY Zenon DEF O!Cardinality, Cardinality

LEMMA CountOfOne ==
  ASSUME NEW S, IsFiniteSet(S)
  PROVE  O!Cardinality(S) <= 1 <=> AtMostOne(S)
<1>1. CASE S = {}
  <2>1. Cardinality(S) = 0 /\ AtMostOne(S)
    BY <1>1, FS_EmptySet DEF AtMostOne
  <2> QED BY <2>1, SameCount
<1>2. CASE S # {}
  <2>1. PICK x : x \in S
    BY <1>2
  <2>2. IsFiniteSet(S \ {x}) /\ Cardinality(S \ {x}) = Cardinality(S) - 1
    BY <2>1, FS_RemoveElement
  <2>3. Cardinality(S) \in Nat /\ Cardinality(S \ {x}) \in Nat
    BY <2>2, FS_CardinalityType
  <2>4. Cardinality(S \ {x}) = 0 <=> S \ {x} = {}
    BY <2>2, FS_EmptySet
  <2>5. S \ {x} = {} <=> AtMostOne(S)
    BY <2>1 DEF AtMostOne
  <2> QED BY <2>2, <2>3, <2>4, <2>5, SameCount
<1> QED BY <1>1, <1>2

LEMMA ScanTypesAreFinite == ASSUME NEW F PROVE IsFiniteSet(F \cap O!ScanTypes)
<1>1. IsFiniteSet({"syn", "connect", "ack", "window", "null", "fin", "xmas", "udp"})
  <2>1. IsFiniteSet({})
    BY FS_EmptySet
  <2>2. \A S, x : IsFiniteSet(S) => IsFiniteSet(S \cup {x})
    BY FS_AddElement
  <2>3. IsFiniteSet(((((((({} \cup {"syn"}) \cup {"connect"}) \cup {"ack"}) \cup {"window"})
                       \cup {"null"}) \cup {"fin"}) \cup {"xmas"}) \cup {"udp"})
    BY <2>1, <2>2, Zenon
  <2>4. (((((((({} \cup {"syn"}) \cup {"connect"}) \cup {"ack"}) \cup {"window"})
             \cup {"null"}) \cup {"fin"}) \cup {"xmas"}) \cup {"udp"})
          = {"syn", "connect", "ack", "window", "null", "fin", "xmas", "udp"}
    OBVIOUS
  <2> QED BY <2>3, <2>4
<1> QED BY <1>1, FS_Subset DEF O!ScanTypes

\* What the checks and a profile leave of the options: one scan type at most,
\* no bypass beside -sT, no fragments nobody asked for, and nothing crafted
\* under a profile.
LEMMA OptionsAre ==
  ASSUME NEW given, IsOptions(given), O!Valid(given)
  PROVE  LET o == O!Options(given) IN
         /\ AtMostOne(o.flags \cap O!ScanTypes)
         /\ "connect" \in o.flags => "bypass" \notin o.flags
         /\ "fragment" \in o.flags => "fragment" \in given.flags
         /\ o.profile # O!Unset => o.flags \cap O!Crafted = {} /\ o.evasion = "off"
<1> DEFINE checked == O!validateOptions(given)
           fit == O!Compatible(checked)
           o == O!Options(given)
           Parts == {"hex-dump", "timing-analysis", "protocol-trace"}
           Set == [flags : SUBSET (STRING \cup Parts), timing : Int, rate : Int, workers : Int,
                   batch : Int, retries : Int, ports : STRING, topPorts : Int,
                   evasion : STRING, profile : STRING]
<1>0. O!Unset # "safe-production" /\ O!Unset # "ot"
  BY Zenon DEF O!Unset
<1>1. given \in Set /\ AtMostOne(given.flags \cap O!ScanTypes)
      /\ given.profile \in {O!Unset, "safe-production", "ot"}
  <2>1. given \in Set /\ given.profile \in {O!Unset, "safe-production", "ot"}
    BY DEF IsOptions, O!Valid
  <2>2. O!Cardinality(given.flags \cap O!ScanTypes) <= 1
    BY DEF O!Valid
  <2> QED BY <2>1, <2>2, CountOfOne, ScanTypesAreFinite
<1>2. checked \in Set /\ checked.profile = given.profile
      /\ checked.flags \subseteq given.flags \cup Parts
  <2>1. CASE O!Has(given, "deep-inspect")
    <3>1. checked = [given EXCEPT !.flags = @ \cup Parts]
      BY <2>1 DEF O!validateOptions
    <3> QED BY <1>1, <3>1
  <2>2. CASE ~ O!Has(given, "deep-inspect")
    BY <1>1, <2>2 DEF O!validateOptions
  <2> QED BY <2>1, <2>2
<1>3. AtMostOne(checked.flags \cap O!ScanTypes)
  BY <1>1, <1>2 DEF AtMostOne, O!ScanTypes
<1>4. /\ fit \in Set /\ fit.profile = given.profile /\ fit.flags \subseteq checked.flags
      /\ "connect" \in fit.flags => "bypass" \notin fit.flags
  BY <1>2 DEF O!Compatible, O!Has
<1>5. AtMostOne(fit.flags \cap O!ScanTypes)
      /\ ("fragment" \in fit.flags => "fragment" \in given.flags)
  BY <1>2, <1>3, <1>4 DEF AtMostOne
<1>6. o = O!ApplyProfile(fit)
  BY DEF O!Options
<1> HIDE DEF checked, fit
<1>7. CASE given.profile = O!Unset
  <2>1. o = fit
    BY <1>0, <1>4, <1>6, <1>7 DEF O!ApplyProfile
  <2> QED BY <1>4, <1>5, <1>7, <2>1
<1>8. CASE given.profile = "safe-production"
  <2>1. o = [fit EXCEPT !.timing = 2, !.rate = 300, !.evasion = "off",
                        !.flags = (@ \ O!Crafted) \cup {"services"}]
    BY <1>4, <1>6, <1>8 DEF O!ApplyProfile
  <2>2. o.flags = (fit.flags \ O!Crafted) \cup {"services"} /\ o.evasion = "off"
    BY <1>4, <2>1
  <2> HIDE DEF o
  <2>3. AtMostOne(o.flags \cap O!ScanTypes)
    BY <1>5, <2>2 DEF AtMostOne, O!ScanTypes
  <2>4. o.flags \cap O!Crafted = {} /\ "bypass" \notin o.flags /\ "fragment" \notin o.flags
    BY <2>2 DEF O!Crafted
  <2> QED BY <2>2, <2>3, <2>4 DEF o
<1>9. CASE given.profile = "ot"
  <2>1. o = [fit EXCEPT !.timing = 1, !.rate = 5, !.evasion = "off", !.workers = 1,
                !.batch = 1, !.retries = 1,
                !.flags = (@ \ (O!Crafted \cup O!ScanTypes \cup {"xdp", "deep-inspect"}))
                            \cup {"connect", "services"},
                !.ports = IF @ = O!Unset /\ fit.topPorts = 0 THEN "industrial" ELSE @]
    BY <1>4, <1>6, <1>9 DEF O!ApplyProfile
  <2>2. o.evasion = "off"
        /\ o.flags = (fit.flags \ (O!Crafted \cup O!ScanTypes \cup {"xdp", "deep-inspect"}))
                       \cup {"connect", "services"}
    BY <1>4, <2>1
  <2> HIDE DEF o
  <2>3. AtMostOne(o.flags \cap O!ScanTypes)
    BY <2>2 DEF AtMostOne, O!ScanTypes
  <2>4. o.flags \cap O!Crafted = {} /\ "bypass" \notin o.flags /\ "fragment" \notin o.flags
    BY <2>2 DEF O!Crafted
  <2> QED BY <2>2, <2>3, <2>4 DEF o
<1> QED BY <1>1, <1>7, <1>8, <1>9

\* The technique is what was asked for: over AF_XDP or not, or by the kernel.
LEMMA TechniqueIs ==
  ASSUME NEW o, NEW xsk, NEW loopback, AtMostOne(o.flags \cap O!ScanTypes),
         "idle" \notin o.flags
  PROVE  LET main == O!Technique(o, xsk, loopback) IN
         /\ "connect" \in o.flags => main = "connect"
         /\ "udp" \in o.flags => main \in {"udp", "xdp-udp"}
         /\ o.flags \cap O!ScanTypes # {} =>
              \/ main \in o.flags \cap O!ScanTypes
              \/ "syn" \in o.flags /\ main = "xdp-syn"
              \/ "udp" \in o.flags /\ main = "xdp-udp"
<1> DEFINE main == O!Technique(o, xsk, loopback)
           asked == { i \in DOMAIN O!Order : O!Has(o, O!Order[i]) }
           other == o.flags \cap {"ack", "window", "null", "fin", "xmas"}
           eligible == xsk /\ O!xdpEligible(o, loopback)
           least == CHOOSE i \in asked : \A j \in asked : i <= j
<1>1. DOMAIN O!Order = 1 .. 8
      /\ O!Order[1] = "idle" /\ O!Order[2] = "ack" /\ O!Order[3] = "window"
      /\ O!Order[4] = "udp" /\ O!Order[5] = "syn" /\ O!Order[6] = "null"
      /\ O!Order[7] = "fin" /\ O!Order[8] = "xmas"
  BY DEF O!Order
<1>2. main = IF eligible /\ "udp" \in o.flags THEN "xdp-udp"
             ELSE IF eligible /\ ("syn" \in o.flags \/ other = {}) THEN "xdp-syn"
             ELSE IF asked = {} THEN "connect"
             ELSE O!Order[least]
  BY DEF O!Technique, O!Has
<1>3. asked # {} => least \in asked
  <2> SUFFICES ASSUME asked # {} PROVE least \in asked
    OBVIOUS
  <2>1. asked \in SUBSET Nat
    BY <1>1
  <2>2. \E i \in asked : \A j \in asked : i <= j
    BY <2>1, LeastNumber
  <2> QED BY <2>2
<1>4. \A i \in asked : O!Order[i] \in o.flags \cap O!ScanTypes /\ O!Order[i] # "connect"
  BY <1>1 DEF O!Has, O!ScanTypes
<1>5. \A t \in (o.flags \cap O!ScanTypes) \ {"connect"} : \E i \in asked : O!Order[i] = t
  BY <1>1 DEF O!Has, O!ScanTypes
<1>6. "connect" \in o.flags => ~ eligible
  BY DEF O!xdpEligible, O!Has
<1>7. {"connect", "udp", "syn"} \subseteq O!ScanTypes /\ other \subseteq O!ScanTypes
  BY DEF O!ScanTypes
<1>8. other = {} => o.flags \cap O!ScanTypes \subseteq {"syn", "connect", "udp"}
  BY DEF O!ScanTypes
<1> HIDE DEF main, asked, other, eligible, least
<1>9. "connect" \in o.flags => main = "connect"
  <2> SUFFICES ASSUME "connect" \in o.flags PROVE main = "connect"
    OBVIOUS
  <2>1. asked = {}
    BY <1>4, <1>7 DEF AtMostOne
  <2> QED BY <1>2, <1>6, <2>1
<1>10. "udp" \in o.flags => main \in {"udp", "xdp-udp"}
  <2> SUFFICES ASSUME "udp" \in o.flags PROVE main \in {"udp", "xdp-udp"}
    OBVIOUS
  <2>1. asked # {}
    BY <1>5, <1>7
  <2>2. O!Order[least] = "udp"
    BY <1>3, <1>4, <1>7, <2>1 DEF AtMostOne
  <2> QED BY <1>2, <2>1, <2>2
<1>11. o.flags \cap O!ScanTypes # {} =>
         \/ main \in o.flags \cap O!ScanTypes
         \/ "syn" \in o.flags /\ main = "xdp-syn"
         \/ "udp" \in o.flags /\ main = "xdp-udp"
  <2> SUFFICES ASSUME NEW t \in o.flags \cap O!ScanTypes
               PROVE  \/ main \in o.flags \cap O!ScanTypes
                      \/ "syn" \in o.flags /\ main = "xdp-syn"
                      \/ "udp" \in o.flags /\ main = "xdp-udp"
    OBVIOUS
  <2>1. CASE t = "connect"
    BY <1>9, <2>1
  <2>2. CASE t = "udp"
    BY <1>2, <1>3, <1>4, <1>5, <2>2
  <2>3. CASE t # "connect" /\ t # "udp"
    <3>1. asked # {} /\ "udp" \notin o.flags /\ (other = {} => t = "syn")
      BY <1>5, <1>7, <1>8, <2>3 DEF AtMostOne
    <3> QED BY <1>2, <1>3, <1>4, <3>1
  <2> QED BY <2>1, <2>2, <2>3
<1> QED BY <1>9, <1>10, <1>11 DEF main

\* Until one attempt decides, nothing is tried but what there is to try.
LEMMA UntilDecidedIs ==
  ASSUME NEW S, NEW tries \in Seq(S), NEW answers
  PROVE  O!UntilDecided(tries, answers) \in Seq(S)
<1> DEFINE decided == { i \in DOMAIN tries : O!Decides(tries[i], answers) }
           upTo == IF decided = {} THEN Len(tries)
                   ELSE CHOOSE i \in decided : \A j \in decided : i <= j
<1>1. Len(tries) \in Nat /\ DOMAIN tries = 1 .. Len(tries)
      /\ \A i \in 1 .. Len(tries) : tries[i] \in S
  OBVIOUS
<1>2. O!UntilDecided(tries, answers) = SubSeq(tries, 1, upTo)
  BY DEF O!UntilDecided
<1>3. decided \in SUBSET (1 .. Len(tries)) /\ decided \in SUBSET Nat
  BY <1>1
<1> HIDE DEF decided
<1>4. upTo \in Int /\ upTo <= Len(tries)
  <2>1. CASE decided = {}
    BY <1>1, <2>1
  <2>2. CASE decided # {}
    <3>1. \E i \in decided : \A j \in decided : i <= j
      BY <1>3, <2>2, LeastNumber
    <3>2. upTo \in decided
      BY <2>2, <3>1
    <3> HIDE DEF upTo
    <3> QED BY <1>1, <1>3, <3>2
  <2> QED BY <2>1, <2>2
<1> HIDE DEF upTo
<1>5. \A i \in 1 .. upTo : tries[i] \in S
  BY <1>1, <1>4
<1>6. SubSeq(tries, 1, upTo) \in Seq(S)
  BY <1>4, <1>5, SubSeqProperties
<1> QED BY <1>2, <1>6

\* With the bypass, a UDP scan tries its own technique in other guises.
LEMMA UDPBypasses ==
  ASSUME NEW o, "udp" \in o.flags, NEW main, NEW answers
  PROVE  LET tries == O!Bypass(o, main, answers) IN
         tries \in Seq({main} \X {"fragmented", "again", "port-53", "port-80", "port-443"})
<1> DEFINE S == {main} \X {"fragmented", "again", "port-53", "port-80", "port-443"}
<1>1. O!Disguised(main) \in Seq(S)
  BY DEF O!Disguised
<1>2. O!Bypass(o, main, answers) = O!UntilDecided(O!Disguised(main), answers)
  BY DEF O!Bypass, O!Has
<1> HIDE DEF S
<1>3. O!Bypass(o, main, answers) \in Seq(S)
  BY <1>1, <1>2, UntilDecidedIs
<1> QED BY <1>3 DEF S

\* A scan sends what was asked for, of whatever is asked: -sT goes through the
\* kernel, a UDP scan sends no TCP probe, a raw scan type is that type, nothing
\* is tried more than once without --smart-bypass, and nothing crafted under a
\* profile (config/options.go, scan/engine.go).
LEMMA EverythingSentWasAsked ==
  ASSUME NEW given, IsOptions(given), NEW xsk, NEW loopback, NEW answers
  PROVE  O!SendsAsAsked(given, xsk, loopback, answers)
<1> SUFFICES ASSUME O!Valid(given) PROVE O!SendsAsAsked(given, xsk, loopback, answers)
  BY DEF O!SendsAsAsked
<1> DEFINE o == O!Options(given)
           over == xsk /\ O!Has(o, "xdp")
           main == O!Technique(o, over, loopback)
           first == <<main, IF "fragment" \in o.flags /\ O!Cuts(main)
                            THEN "fragmented" ELSE "plain">>
           attempts == O!Attempts(o, over, loopback, answers)
           tried == O!ToSet(attempts)
           techniques == { x[1] : x \in tried }
           asked == o.flags \cap O!ScanTypes
<1>1. /\ AtMostOne(asked)
      /\ "connect" \in o.flags => "bypass" \notin o.flags
      /\ "fragment" \in o.flags => "fragment" \in given.flags
      /\ o.profile # O!Unset => o.flags \cap O!Crafted = {} /\ o.evasion = "off"
  BY OptionsAre
<1>2. O!Cardinality(asked) <= 1
  BY <1>1, CountOfOne, ScanTypesAreFinite
<1> HIDE DEF o
<1>3. attempts = IF answers[first] \in O!Silent /\ "bypass" \in o.flags
                 THEN <<first>> \o O!Bypass(o, main, answers) ELSE <<first>>
  BY DEF O!Attempts, O!Has
<1>4. tried = { attempts[i] : i \in DOMAIN attempts }
  BY DEF O!ToSet
<1> HIDE DEF attempts, tried
<1>5. "bypass" \notin o.flags => tried = {first} /\ techniques = {main}
  <2> SUFFICES ASSUME "bypass" \notin o.flags
               PROVE  tried = {first} /\ techniques = {main}
    OBVIOUS
  <2>1. attempts = <<first>>
    BY <1>3
  <2>2. tried = {first}
    BY <1>4, <2>1
  <2> QED BY <2>2
<1>6. "idle" \notin o.flags =>
        /\ "connect" \in o.flags => main = "connect"
        /\ "udp" \in o.flags => main \in {"udp", "xdp-udp"}
        /\ asked # {} => \/ main \in asked
                         \/ "syn" \in o.flags /\ main = "xdp-syn"
                         \/ "udp" \in o.flags /\ main = "xdp-udp"
  BY <1>1, TechniqueIs
<1> HIDE DEF main
<1>7. asked = {"connect"} /\ "idle" \notin o.flags => techniques = {"connect"}
  BY <1>1, <1>5, <1>6
<1>8. asked = {"udp"} /\ "idle" \notin o.flags => techniques \subseteq {"udp", "xdp-udp"}
  <2> SUFFICES ASSUME "udp" \in o.flags PROVE techniques \subseteq {main}
    BY <1>6
  <2>1. CASE answers[first] \in O!Silent /\ "bypass" \in o.flags
    <3> DEFINE bypass == O!Bypass(o, main, answers)
           S == {main} \X {"fragmented", "again", "port-53", "port-80", "port-443"}
    <3>1. attempts = <<first>> \o bypass /\ bypass \in Seq(S)
      BY <1>3, <2>1, UDPBypasses
    <3>2. \A t \in S : t[1] = main
      OBVIOUS
    <3> HIDE DEF bypass, S
    <3>3. \A i \in DOMAIN attempts : attempts[i] \in {first} \cup S
      BY <3>1
    <3> QED BY <1>4, <3>2, <3>3
  <2>2. CASE ~ (answers[first] \in O!Silent /\ "bypass" \in o.flags)
    <3>1. attempts = <<first>>
      BY <1>3, <2>2
    <3> QED BY <1>4, <3>1
  <2> QED BY <2>1, <2>2
<1>9. "bypass" \notin o.flags => O!Cardinality(tried) = 1
  <2>1. \A x : Cardinality({x}) = 1
    BY FS_Singleton
  <2> QED BY <1>5, <2>1, SameCount
<1>10. "bypass" \notin o.flags /\ "idle" \notin o.flags /\ asked # {} =>
         techniques \subseteq asked \cup
           (IF "syn" \in o.flags THEN {"xdp-syn"}
            ELSE IF "udp" \in o.flags THEN {"xdp-udp"} ELSE {})
  <2>1. ~ ("syn" \in o.flags /\ "udp" \in o.flags)
    BY <1>1 DEF AtMostOne, O!ScanTypes
  <2> QED BY <1>5, <1>6, <2>1
<1>11. (\E x \in tried : x[2] = "fragmented") =>
         "fragment" \in given.flags \/ "bypass" \in o.flags
  BY <1>1, <1>5
<1> HIDE DEF techniques, asked, over
<1> QED
  BY <1>1, <1>2, <1>7, <1>8, <1>9, <1>10, <1>11
  DEF O!SendsAsAsked, O!Has, o, over, main, attempts, tried, techniques, asked

-----------------------------------------------------------------------------
(* The specification.                                                      *)

\* What is chosen is one of the inputs of its kind; the walk is as far as its
\* count of steps says.
ChoiceInv ==
  /\ about = "report"   => input \in Reports
  /\ about = "decision" => input \in Decisions
  /\ about = "frame"    => input \in Frames
  /\ about = "draw"     => input \in Draws
  /\ about = "lookup"   => input \in Lookups
  /\ about = "service"  => input \in Services
  /\ PermutationInv

LEMMA ChoiceHolds == ASSUME AlgorithmAssumption PROVE Spec => []ChoiceInv
<1>1. P!PermutationAssumption
  BY DEF AlgorithmAssumption
<1>2. Init => ChoiceInv
  BY <1>1, PermutationAtFirst DEF Init, ChoiceInv
<1>3. ChoiceInv /\ [Next]_vars => ChoiceInv'
  <2> SUFFICES ASSUME ChoiceInv, [Next]_vars PROVE ChoiceInv'
    OBVIOUS
  <2>1. PermutationInv
    BY DEF ChoiceInv
  <2>2. CASE Choose
    <3>1. PermutationInv'
      <4>1. UNCHANGED P!vars
        BY <2>2 DEF Choose, walk, P!vars, P!params
      <4> QED BY <1>1, <2>1, <4>1, PermutationStep
    <3>2. \/ about' = "report"   /\ input' \in Reports
          \/ about' = "decision" /\ input' \in Decisions
          \/ about' = "frame"    /\ input' \in Frames
          \/ about' = "draw"     /\ input' \in Draws
          \/ about' = "lookup"   /\ input' \in Lookups
          \/ about' = "service"  /\ input' \in Services
          \/ about' = "other"    /\ input' \in Others
      BY <2>2 DEF Choose
    <3> QED BY <3>1, <3>2 DEF ChoiceInv
  <2>3. CASE Walk
    <3>1. PermutationInv'
      BY <1>1, <2>1, <2>3, PermutationStep DEF Walk
    <3> QED BY <2>3, <3>1 DEF Walk, ChoiceInv
  <2>4. CASE UNCHANGED vars
    <3>1. PermutationInv'
      <4>1. UNCHANGED P!vars
        BY <2>4 DEF vars, walk, P!vars, P!params
      <4> QED BY <1>1, <2>1, <4>1, PermutationStep
    <3> QED BY <2>4, <3>1 DEF vars, ChoiceInv
  <2> QED BY <2>2, <2>3, <2>4 DEF Next
<1> QED BY <1>2, <1>3, PTL DEF Spec

\* Every job index is handed out exactly once, at any point of the walk and for
\* any number of jobs that four times fits in a machine word, and every address
\* of a network too, whatever was drawn and although the multiplication wraps:
\* the generator's cycle is full (scan/permute.go:8-9 and 43-75,
\* target/generator.go:22-70).
THEOREM EverythingVisitedOnce ==
  ASSUME AlgorithmAssumption PROVE Spec => []VisitsEachOnce
<1>1. ChoiceInv => VisitsEachOnce
  <2> SUFFICES ASSUME ChoiceInv PROVE VisitsEachOnce
    OBVIOUS
  <2>1. P!PermutationAssumption /\ \A g \in Draws : IsGenerator(g)
    BY DEF AlgorithmAssumption
  <2>2. P!TypeOK /\ P!VisitsEachOnce
    BY <2>1, InvVisits DEF ChoiceInv, PermutationInv
  <2>3. ASSUME about = "draw"
        PROVE  LET order == T!RandomOrder(input, Word)
                   size  == input.m
               IN /\ order \in [1 .. size -> 0 .. size - 1]
                  /\ \A v \in 0 .. size - 1 : \E i \in 1 .. size : order[i] = v
                  /\ \A i, j \in 1 .. size : order[i] = order[j] => i = j
    <3>1. IsGenerator(input)
      BY <2>1, <2>3 DEF ChoiceInv
    <3>2. PICK e \in 0 .. 32 : /\ P!Doubled[e] <= Word
                               /\ input \in T!Generators(P!Doubled[e], Word)
      BY <3>1 DEF IsGenerator
    <3>3. PICK w \in 2 .. 64 : Word = P!Doubled[w]
      BY <2>1 DEF P!PermutationAssumption
    <3>4. input.m = P!Doubled[e]
      BY <3>2 DEF T!Generators
    <3> DEFINE order == T!RandomOrder(input, P!Doubled[w])
    <3>5. e \in Nat /\ w \in Nat
      OBVIOUS
    <3>6. P!Doubled[e] <= P!Doubled[w] /\ input \in T!Generators(P!Doubled[e], P!Doubled[w])
      BY <3>2, <3>3
    <3>7. Permutes(order, P!Doubled[e])
      <4> HIDE DEF order
      <4>1. order = T!RandomOrder(input, P!Doubled[w])
        BY DEF order
      <4> QED BY <3>5, <3>6, <4>1, RandomOrderVisitsEachOnce
    <3>8. T!RandomOrder(input, Word) = order
      BY <3>3, Zenon
    <3> HIDE DEF order
    <3> QED BY <3>4, <3>7, <3>8 DEF Permutes
  <2> QED BY <2>2, <2>3 DEF VisitsEachOnce
<1> QED BY <1>1, ChoiceHolds, PTL

\* The three reports say exactly what changed or is exposed, of any two scans,
\* any two inventories and any inventory seen from here.
THEOREM ReportsAreExact == ASSUME AlgorithmAssumption PROVE Spec => []ReportsExact
<1>1. ChoiceInv => ReportsExact
  BY EveryReportExact DEF ChoiceInv, ReportsExact, AlgorithmAssumption
<1> QED BY <1>1, ChoiceHolds, PTL

\* The bytes of a payload, each its place.
LEMMA CountingUp ==
  ASSUME NEW k \in Nat
  PROVE  [i \in 1 .. k |-> i] \in Seq(Nat) /\ Len([i \in 1 .. k |-> i]) = k
OBVIOUS

\* A scan sends what was asked for, whatever is asked and answered, and a
\* datagram that is cut (evasion/fragment.go) comes together again.
THEOREM SentAsAsked == ASSUME AlgorithmAssumption PROVE Spec => []SendsAsAsked
<1>1. ChoiceInv => SendsAsAsked
  <2> SUFFICES ASSUME ChoiceInv PROVE SendsAsAsked
    OBVIOUS
  <2>1. ASSUME about = "decision"
        PROVE  O!SendsAsAsked(input.given, input.xsk, input.loopback, input.answers)
    <3>1. IsOptions(input.given)
      BY <2>1 DEF ChoiceInv, AlgorithmAssumption
    <3> QED BY <3>1, EverythingSentWasAsked
  <2>2. ASSUME about = "frame"
        PROVE  Frag!Reassembles(input.header, [i \in 1 .. input.size |-> i], input.mtu)
    <3> DEFINE payload == [i \in 1 .. input.size |-> i]
    <3>1. /\ input.header \in [1 .. 10 -> 0 .. Frag!Words16 - 1]
          /\ input.size \in Nat \ {0} /\ Frag!HeaderBytes + input.size < Frag!Words16
          /\ input.mtu \in Nat \ {0} /\ (input.mtu >= 8 \/ input.size <= input.mtu)
      BY <2>2 DEF ChoiceInv, AlgorithmAssumption, IsFrame
    <3>2. payload \in Seq(Nat) /\ Len(payload) = input.size
      BY <3>1, CountingUp
    <3> HIDE DEF payload
    <3>3. Len(payload) > 0 /\ Frag!HeaderBytes + Len(payload) < Frag!Words16
          /\ (input.mtu >= 8 \/ Len(payload) <= input.mtu)
      BY <3>1, <3>2
    <3>4. Frag!Reassembles(input.header, payload, input.mtu)
      BY <3>1, <3>2, <3>3, FragmentsReassemble
    <3> QED BY <3>4 DEF payload
  <2> QED BY <2>1, <2>2 DEF SendsAsAsked
<1> QED BY <1>1, ChoiceHolds, PTL
=============================================================================
