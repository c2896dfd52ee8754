---------------------------- MODULE LookupProofs ----------------------------
(***************************************************************************)
(* Theorems about what is found out of an open port, for all that it may   *)
(* answer: that a vulnerability is looked up by its version, told once,    *)
(* with its worst score, and ranked (internal/vuln), and that the port is  *)
(* reported as what it said it is (internal/service).                      *)
(*                                                                         *)
(* A sort is a one to one assignment of places (Sorts); a feed's rows are  *)
(* what FoldedSoFar says after any number of entries; DetectService is a   *)
(* case of its stages, and what is found of TLS is attached before the     *)
(* first of them that may end it.                                          *)
(***************************************************************************)
EXTENDS AlgorithmProofs

-----------------------------------------------------------------------------
(* Orders.                                                                 *)

\* The cardinality VulnLookup knows is the one of the library.
LEMMA SameCountInLookup == \A S : V!Cardinality(S) = Cardinality(S)
BY Zenon DEF V!Cardinality, Cardinality

\* Which of two elements comes first is settled.
Orders(I, before) ==
  /\ \A i \in I : <<i, i>> \notin before
  /\ \A i, j \in I : i # j => <<i, j>> \in before \/ <<j, i>> \in before
  /\ \A i, j, k \in I : <<i, j>> \in before /\ <<j, k>> \in before => <<i, k>> \in before

\* Places lists the elements of I, each once, in the order of before.
Places(place, I, before) ==
  /\ place \in [1 .. Cardinality(I) -> I]
  /\ \A i \in I : \E k \in 1 .. Cardinality(I) : place[k] = i
  /\ \A k, l \in 1 .. Cardinality(I) : k < l <=> <<place[k], place[l]>> \in before

LEMMA InOrderIs ==
  ASSUME NEW s, NEW I, IsFiniteSet(I), NEW before, Orders(I, before)
  PROVE  \E place : /\ Places(place, I, before)
                    /\ V!InOrder(s, I, before) = [k \in 1 .. Cardinality(I) |-> s[place[k]]]
<1> DEFINE Earlier(i) == { j \in I : <<j, i>> \in before }
           count == V!Cardinality(I)
           number == [i \in I |-> V!Cardinality(Earlier(i)) + 1]
           place == [k \in 1 .. count |-> CHOOSE i \in I : number[i] = k]
<1>0. count = Cardinality(I)
  BY SameCountInLookup
<1> HIDE DEF count
<1>1. count \in Nat
  BY <1>0, FS_CardinalityType
<1>2. ASSUME NEW i \in I
      PROVE  number[i] \in 1 .. count
  <2>1. Earlier(i) \in SUBSET I /\ Earlier(i) # I
    BY DEF Orders
  <2> DEFINE E == Earlier(i)
  <2>2. number[i] = Cardinality(E) + 1
    BY SameCountInLookup
  <2>3. E \in SUBSET I /\ E # I
    BY <2>1
  <2> HIDE DEF E, number
  <2>4. IsFiniteSet(E) /\ Cardinality(E) <= count /\ Cardinality(E) # count
    BY <1>0, <2>3, FS_Subset
  <2>5. Cardinality(E) \in Nat
    BY <2>4, FS_CardinalityType
  <2> QED BY <1>1, <2>2, <2>4, <2>5
<1>3. ASSUME NEW i \in I, NEW j \in I, <<i, j>> \in before
      PROVE  number[i] < number[j]
  <2> DEFINE E == Earlier(i)
             F == Earlier(j)
  <2>1. E \in SUBSET F /\ i \in F /\ i \notin E /\ F \in SUBSET I
    BY <1>3 DEF Orders
  <2>2. number[i] = Cardinality(E) + 1 /\ number[j] = Cardinality(F) + 1
    BY SameCountInLookup
  <2> HIDE DEF E, F, number
  <2>3. IsFiniteSet(F)
    BY <2>1, FS_Subset
  <2>4. IsFiniteSet(E) /\ Cardinality(E) <= Cardinality(F) /\ Cardinality(E) # Cardinality(F)
    BY <2>1, <2>3, FS_Subset
  <2>5. Cardinality(E) \in Nat /\ Cardinality(F) \in Nat
    BY <2>3, <2>4, FS_CardinalityType
  <2> QED BY <2>2, <2>4, <2>5
<1>4. \A i, j \in I : number[i] = number[j] => i = j
  <2> SUFFICES ASSUME NEW i \in I, NEW j \in I, number[i] = number[j], i # j PROVE FALSE
    OBVIOUS
  <2>1. <<i, j>> \in before \/ <<j, i>> \in before
    BY DEF Orders
  <2>2. number[i] \in Nat /\ number[j] \in Nat
    <3>1. number[i] \in 1 .. count /\ number[j] \in 1 .. count
      BY <1>2
    <3> HIDE DEF number, count
    <3> QED BY <3>1
  <2> HIDE DEF number, count
  <2>3. number[i] < number[j] \/ number[j] < number[i]
    BY <1>3, <2>1
  <2> QED BY <2>2, <2>3
<1>5. number = [i \in I |-> number[i]] /\ DOMAIN number = I
  OBVIOUS
<1> HIDE DEF number
<1>6. \A k \in 1 .. count : \E i \in I : number[i] = k
  <2>1. number \in [I -> 1 .. count]
    BY <1>2, <1>5
  <2>2. number \in Injection(I, 1 .. count)
    BY <1>4, <2>1 DEF Injection, IsInjective
  <2>3. IsFiniteSet(1 .. count) /\ Cardinality(1 .. count) = count
    BY <1>1, FS_Interval
  <2>4. number \in Surjection(I, 1 .. count)
    BY <1>0, <2>2, <2>3, FS_Injection
  <2> QED BY <2>4 DEF Surjection
<1>7. \A k \in 1 .. count : place[k] \in I /\ number[place[k]] = k
  BY <1>6
<1>8. \A i \in I : number[i] \in 1 .. count /\ place[number[i]] = i
  <2> SUFFICES ASSUME NEW i \in I PROVE number[i] \in 1 .. count /\ place[number[i]] = i
    OBVIOUS
  <2>1. number[i] \in 1 .. count
    BY <1>2
  <2>2. place[number[i]] \in I /\ number[place[number[i]]] = number[i]
    BY <1>7, <2>1
  <2> HIDE DEF place
  <2> QED BY <1>4, <2>1, <2>2
<1>9. place \in [1 .. count -> I]
  <2>1. place = [k \in 1 .. count |-> place[k]]
    OBVIOUS
  <2> HIDE DEF place
  <2> QED BY <1>7, <2>1
<1>10. V!InOrder(s, I, before) = [k \in 1 .. count |-> s[place[k]]]
  <2>1. V!InOrder(s, I, before)
          = [k \in 1 .. count |-> s[CHOOSE i \in I : V!Cardinality(Earlier(i)) + 1 = k]]
    BY Zenon DEF V!InOrder, count
  <2>2. \A k : (CHOOSE i \in I : V!Cardinality(Earlier(i)) + 1 = k)
                 = (CHOOSE i \in I : number[i] = k)
    BY Zenon DEF number
  <2>3. \A k \in 1 .. count :
          place[k] = CHOOSE i \in I : V!Cardinality(Earlier(i)) + 1 = k
    BY <2>2, Zenon
  <2> HIDE DEF place, Earlier
  <2> QED BY <2>1, <2>3, Zenon
<1>11. \A k, l \in 1 .. count : k < l <=> <<place[k], place[l]>> \in before
  <2> SUFFICES ASSUME NEW k \in 1 .. count, NEW l \in 1 .. count
               PROVE  k < l <=> <<place[k], place[l]>> \in before
    OBVIOUS
  <2>1. /\ place[k] \in I /\ place[l] \in I
        /\ number[place[k]] = k /\ number[place[l]] = l
    BY <1>7
  <2> HIDE DEF place
  <2>2. /\ <<place[k], place[l]>> \in before => k < l
        /\ <<place[l], place[k]>> \in before => l < k
    BY <1>3, <2>1
  <2>3. k # l => place[k] # place[l]
    BY <2>1
  <2>4. place[k] # place[l] => <<place[k], place[l]>> \in before \/ <<place[l], place[k]>> \in before
    BY <2>1 DEF Orders
  <2>5. k \in Nat /\ l \in Nat
    BY <1>1
  <2> QED BY <2>2, <2>3, <2>4, <2>5
<1> HIDE DEF place
<1>12. Places(place, I, before)
  <2>1. \A i \in I : \E k \in 1 .. count : place[k] = i
    BY <1>8
  <2> QED BY <1>0, <1>9, <1>11, <2>1 DEF Places
<1> QED BY <1>0, <1>10, <1>12

\* Going on in a list is going up.
LEMMA SelectedIs ==
  ASSUME NEW B, NEW s \in Seq(B), NEW I \in SUBSET DOMAIN s
  PROVE  /\ V!Selected(s, I) \in Seq(B)
         /\ \A k \in DOMAIN V!Selected(s, I) : \E i \in I : V!Selected(s, I)[k] = s[i]
         /\ \A i \in I : \E k \in DOMAIN V!Selected(s, I) : V!Selected(s, I)[k] = s[i]
<1> DEFINE before == { p \in I \X I : p[1] < p[2] }
           size   == Cardinality(I)
<1>1. I \in SUBSET (1 .. Len(s)) /\ Len(s) \in Nat /\ \A i \in 1 .. Len(s) : s[i] \in B
  OBVIOUS
<1>2. IsFiniteSet(I)
  <2>1. IsFiniteSet(1 .. Len(s))
    BY <1>1, FS_Interval
  <2> QED BY <1>1, <2>1, FS_Subset
<1>3. Orders(I, before)
  <2>1. \A i \in I : i \in Nat
    BY <1>1
  <2>2. \A i, j \in I : <<i, j>> \in before <=> i < j
    OBVIOUS
  <2> HIDE DEF before
  <2> QED BY <2>1, <2>2 DEF Orders
<1>4. V!Selected(s, I) = V!InOrder(s, I, before)
  BY DEF V!Selected
<1>5. size \in Nat
  BY <1>2, FS_CardinalityType
<1> HIDE DEF before, size
<1>6. PICK place : Places(place, I, before)
                   /\ V!Selected(s, I) = [k \in 1 .. size |-> s[place[k]]]
  BY <1>2, <1>3, <1>4, InOrderIs DEF size
<1>7. /\ \A k \in 1 .. size : place[k] \in I
      /\ \A i \in I : \E k \in 1 .. size : place[k] = i
  BY <1>6 DEF Places, size
<1>8. DOMAIN V!Selected(s, I) = 1 .. size
      /\ \A k \in 1 .. size : V!Selected(s, I)[k] = s[place[k]]
  BY <1>6
<1>9. V!Selected(s, I) \in Seq(B)
  <2>1. \A k \in 1 .. size : s[place[k]] \in B
    BY <1>1, <1>7
  <2>2. [k \in 1 .. size |-> s[place[k]]] \in [1 .. size -> B]
    BY <2>1
  <2> QED BY <1>5, <1>6, <2>2
<1> QED BY <1>7, <1>8, <1>9

\* Better is a comparison one can sort by: strict, and what it does not tell
\* apart is alike to it.
Sortable(I, better) ==
  /\ \A i, j \in I : <<i, j>> \in better => <<j, i>> \notin better
  /\ \A i, j, k \in I :
       <<i, j>> \notin better /\ <<j, k>> \notin better => <<i, k>> \notin better

LEMMA StablyOrders ==
  ASSUME NEW I \in SUBSET Nat, NEW better, Sortable(I, better)
  PROVE  /\ Orders(I, V!Stably(I, better))
         /\ \A i, j \in I : <<i, j>> \in V!Stably(I, better) => <<j, i>> \notin better
<1> DEFINE before == V!Stably(I, better)
<1>1. \A i, j \in I : <<i, j>> \in before
        <=> <<i, j>> \in better \/ (<<j, i>> \notin better /\ i < j)
  BY DEF V!Stably
<1>2. \A i, j \in I : <<i, j>> \in better => <<j, i>> \notin better
  BY DEF Sortable
<1>3. \A i, j, k \in I :
        <<i, j>> \notin better /\ <<j, k>> \notin better => <<i, k>> \notin better
  BY DEF Sortable
<1> HIDE DEF before
<1>4. \A i \in I : <<i, i>> \notin before
  BY <1>1, <1>2
<1>5. \A i, j \in I : i # j => <<i, j>> \in before \/ <<j, i>> \in before
  BY <1>1, <1>2
<1>6. ASSUME NEW i \in I, NEW j \in I, NEW k \in I,
             <<i, j>> \in before, <<j, k>> \in before
      PROVE  <<i, k>> \in before
  <2>1. <<j, i>> \notin better /\ <<k, j>> \notin better
    BY <1>1, <1>2, <1>6
  <2>2. <<k, i>> \notin better
    BY <1>3, <2>1
  <2>3. CASE <<i, k>> \in better
    BY <1>1, <2>3
  <2>4. CASE <<i, k>> \notin better
    <3>1. <<i, j>> \notin better
      BY <1>3, <2>1, <2>4
    <3>2. <<j, k>> \notin better
      BY <1>3, <2>1, <2>4
    <3>3. i < j /\ j < k
      BY <1>1, <1>6, <3>1, <3>2
    <3> QED BY <1>1, <2>2, <3>3
  <2> QED BY <2>3, <2>4
<1>7. Orders(I, before)
  BY <1>4, <1>5, <1>6 DEF Orders
<1>8. \A i, j \in I : <<i, j>> \in before => <<j, i>> \notin better
  BY <1>1, <1>2
<1> QED BY <1>7, <1>8 DEF before

\* A sort moves each element to a place of its own, and none before a better.
Sorts(place, size, better) ==
  /\ place \in [1 .. size -> 1 .. size]
  /\ \A i \in 1 .. size : \E k \in 1 .. size : place[k] = i
  /\ \A k, l \in 1 .. size : place[k] = place[l] => k = l
  /\ \A k, l \in 1 .. size : k < l => <<place[l], place[k]>> \notin better

LEMMA StableSortIs ==
  ASSUME NEW B, NEW s \in Seq(B), NEW better, Sortable(DOMAIN s, better)
  PROVE  \E place : /\ Sorts(place, Len(s), better)
                    /\ V!StableSort(s, better) = [k \in 1 .. Len(s) |-> s[place[k]]]
<1> DEFINE I == 1 .. Len(s)
           before == V!Stably(I, better)
<1>1. Len(s) \in Nat /\ DOMAIN s = I
  OBVIOUS
<1>2. I \in SUBSET Nat
  OBVIOUS
<1>3. IsFiniteSet(I) /\ Cardinality(I) = Len(s)
  BY <1>1, FS_Interval
<1>4. V!StableSort(s, better) = V!InOrder(s, I, before)
  BY <1>1, Zenon DEF V!StableSort
<1>5. Orders(I, before) /\ \A i, j \in I : <<i, j>> \in before => <<j, i>> \notin better
  BY <1>1, <1>2, StablyOrders
<1> HIDE DEF before
<1>6. PICK place : Places(place, I, before)
                   /\ V!InOrder(s, I, before) = [k \in 1 .. Cardinality(I) |-> s[place[k]]]
  <2> HIDE DEF I
  <2>1. \A J, b : IsFiniteSet(J) /\ Orders(J, b) =>
          \E place : Places(place, J, b)
                     /\ V!InOrder(s, J, b) = [k \in 1 .. Cardinality(J) |-> s[place[k]]]
    BY InOrderIs
  <2> QED BY <1>3, <1>5, <2>1
<1>7. /\ place \in [1 .. Len(s) -> I]
      /\ \A i \in I : \E k \in 1 .. Len(s) : place[k] = i
      /\ \A k, l \in 1 .. Len(s) : k < l <=> <<place[k], place[l]>> \in before
  BY <1>3, <1>6 DEF Places
<1>8. \A k, l \in 1 .. Len(s) : place[k] = place[l] => k = l
  <2> SUFFICES ASSUME NEW k \in 1 .. Len(s), NEW l \in 1 .. Len(s), place[k] = place[l]
               PROVE  k = l
    OBVIOUS
  <2>1. k < l <=> k < k
    BY <1>7
  <2>2. l < k <=> k < k
    BY <1>7
  <2> QED BY <1>1, <2>1, <2>2
<1>9. \A k, l \in 1 .. Len(s) : k < l => <<place[l], place[k]>> \notin better
  BY <1>5, <1>7
<1>10. Sorts(place, Len(s), better)
  BY <1>7, <1>8, <1>9 DEF Sorts
<1> QED BY <1>3, <1>4, <1>6, <1>10

-----------------------------------------------------------------------------
(* Versions.                                                               *)

\* One version comes before another by the first token in which they differ.
Below(u, v) ==
  \E k \in Nat \ {0} :
    /\ V!TokenLess(V!TokenAt(u, k), V!TokenAt(v, k))
    /\ \A l \in Nat \ {0} : l < k => V!TokenAt(u, l) = V!TokenAt(v, l)

LEMMA TokensAre ==
  ASSUME NEW u \in Version, NEW k \in Nat \ {0}
  PROVE  /\ V!TokenAt(u, k) \in {0, 1, 2} \X Nat
         /\ V!TokenAt(u, k) # V!NoToken <=> k <= Len(u)
<1>1. CASE k <= Len(u)
  <2>1. u[k] \in {1, 2} \X Nat
    BY <1>1 DEF Version
  <2>2. V!TokenAt(u, k) = u[k]
    BY <1>1 DEF V!TokenAt
  <2> QED BY <1>1, <2>1, <2>2 DEF V!NoToken
<1>2. CASE ~ (k <= Len(u))
  BY <1>2 DEF V!TokenAt, V!NoToken
<1> QED BY <1>1, <1>2

\* Tokens are in order.
LEMMA TokensOrdered ==
  LET Token == {0, 1, 2} \X Nat
  IN  /\ \A s, t \in Token : V!TokenLess(s, t) => ~ V!TokenLess(t, s) /\ s # t
      /\ \A s, t \in Token : s = t \/ V!TokenLess(s, t) \/ V!TokenLess(t, s)
      /\ \A s, t, w \in Token : V!TokenLess(s, t) /\ V!TokenLess(t, w) => V!TokenLess(s, w)
BY DEF V!TokenLess

LEMMA SameTokens ==
  ASSUME NEW u \in Version, NEW v \in Version,
         \A k \in Nat \ {0} : V!TokenAt(u, k) = V!TokenAt(v, k)
  PROVE  u = v
<1>1. Len(u) \in Nat /\ Len(v) \in Nat
  BY DEF Version
<1>2. \A k \in Nat \ {0} : k <= Len(u) <=> k <= Len(v)
  BY TokensAre
<1>3. Len(u) = Len(v)
  <2>1. Len(u) # 0 => Len(u) <= Len(v)
    BY <1>1, <1>2
  <2>2. Len(v) # 0 => Len(v) <= Len(u)
    BY <1>1, <1>2
  <2> QED BY <1>1, <2>1, <2>2
<1>4. \A k \in 1 .. Len(u) : u[k] = v[k]
  <2> SUFFICES ASSUME NEW k \in 1 .. Len(u) PROVE u[k] = v[k]
    OBVIOUS
  <2>1. k \in Nat \ {0} /\ k <= Len(u) /\ k <= Len(v)
    BY <1>1, <1>3
  <2> QED BY <2>1 DEF V!TokenAt
<1>5. /\ u = [k \in 1 .. Len(u) |-> u[k]]
      /\ v = [k \in 1 .. Len(v) |-> v[k]]
  BY DEF Version
<1> QED BY <1>3, <1>4, <1>5

\* What the comparison says.
LEMMA CompareIs ==
  ASSUME NEW u \in Version, NEW v \in Version
  PROVE  \/ V!CompareVersions(u, v) = 0 /\ u = v
         \/ V!CompareVersions(u, v) = -1 /\ Below(u, v)
         \/ V!CompareVersions(u, v) = 1 /\ Below(v, u)
<1> DEFINE size == V!maxLen(u, v)
           Differs(i) == V!TokenAt(u, i) # V!TokenAt(v, i)
           differ == { i \in 1 .. size : Differs(i) }
           least == CHOOSE k \in differ : \A l \in differ : k <= l
<1>1. size \in Nat /\ Len(u) <= size /\ Len(v) <= size /\ Len(u) \in Nat /\ Len(v) \in Nat
  BY DEF Version, V!maxLen
<1> HIDE DEF size
<1>2. V!CompareVersions(u, v)
        = IF differ = {} THEN 0
          ELSE IF V!TokenLess(V!TokenAt(u, least), V!TokenAt(v, least)) THEN -1 ELSE 1
  BY Zenon DEF V!CompareVersions, size
<1>3. \A i \in Nat \ {0} : Differs(i) => i \in differ
  <2> SUFFICES ASSUME NEW i \in Nat \ {0}, Differs(i), ~ (i <= size) PROVE FALSE
    BY <1>1
  <2>1. ~ (i <= Len(u)) /\ ~ (i <= Len(v))
    BY <1>1
  <2> QED BY <2>1 DEF V!TokenAt
<1>4. CASE differ = {}
  <2>1. \A i \in Nat \ {0} : ~ Differs(i)
    BY <1>3, <1>4
  <2>2. u = v
    BY <2>1, SameTokens
  <2> QED BY <1>2, <1>4, <2>2
<1>5. CASE differ # {}
  <2>1. differ \in SUBSET Nat
    BY <1>1
  <2>2. \E k \in differ : \A l \in differ : k <= l
    <3> HIDE DEF differ
    <3> QED BY <1>5, <2>1, LeastNumber
  <2>3. least \in differ /\ \A l \in differ : least <= l
    <3> HIDE DEF differ
    <3> QED BY <2>2
  <2>4. least \in Nat \ {0} /\ Differs(least)
    BY <1>1, <2>3
  <2>5. \A l \in Nat \ {0} : l < least => V!TokenAt(u, l) = V!TokenAt(v, l)
    <3> SUFFICES ASSUME NEW l \in Nat \ {0}, l < least, Differs(l) PROVE FALSE
      OBVIOUS
    <3>1. l \in differ
      BY <1>3
    <3>2. least <= l
      BY <2>3, <3>1
    <3> HIDE DEF least
    <3> QED BY <2>4, <3>2
  <2> HIDE DEF least, differ
  <2>6. \/ V!TokenLess(V!TokenAt(u, least), V!TokenAt(v, least))
        \/ V!TokenLess(V!TokenAt(v, least), V!TokenAt(u, least))
    <3>1. /\ V!TokenAt(u, least) \in {0, 1, 2} \X Nat
          /\ V!TokenAt(v, least) \in {0, 1, 2} \X Nat
      BY <2>4, TokensAre
    <3> QED BY <2>4, <3>1, TokensOrdered
  <2>7. V!TokenLess(V!TokenAt(u, least), V!TokenAt(v, least)) => Below(u, v)
    BY <2>4, <2>5 DEF Below
  <2>8. V!TokenLess(V!TokenAt(v, least), V!TokenAt(u, least)) => Below(v, u)
    BY <2>4, <2>5 DEF Below
  <2> QED BY <1>2, <1>5, <2>6, <2>7, <2>8
<1> QED BY <1>4, <1>5

\* Where one version is below, it is not above, and not below itself.
LEMMA BelowOrders ==
  ASSUME NEW u \in Version, NEW v \in Version
  PROVE  Below(u, v) => ~ Below(v, u) /\ u # v
<1> SUFFICES ASSUME Below(u, v) PROVE ~ Below(v, u) /\ u # v
  OBVIOUS
<1>1. PICK k \in Nat \ {0} :
        /\ V!TokenLess(V!TokenAt(u, k), V!TokenAt(v, k))
        /\ \A l \in Nat \ {0} : l < k => V!TokenAt(u, l) = V!TokenAt(v, l)
  BY DEF Below
<1>2. \A i \in Nat \ {0} : /\ V!TokenAt(u, i) \in {0, 1, 2} \X Nat
                           /\ V!TokenAt(v, i) \in {0, 1, 2} \X Nat
  BY TokensAre
<1>3. V!TokenAt(u, k) # V!TokenAt(v, k)
  BY <1>1, <1>2, TokensOrdered
<1>4. ~ Below(v, u)
  <2> SUFFICES ASSUME Below(v, u) PROVE FALSE
    OBVIOUS
  <2>1. PICK l \in Nat \ {0} :
          /\ V!TokenLess(V!TokenAt(v, l), V!TokenAt(u, l))
          /\ \A i \in Nat \ {0} : i < l => V!TokenAt(v, i) = V!TokenAt(u, i)
    BY DEF Below
  <2>2. CASE k < l
    BY <1>3, <2>1, <2>2
  <2>3. CASE l < k
    BY <1>1, <1>2, <2>1, <2>3, TokensOrdered
  <2>4. CASE k = l
    BY <1>1, <1>2, <2>1, <2>4, TokensOrdered
  <2> QED BY <2>2, <2>3, <2>4
<1> QED BY <1>3, <1>4

LEMMA BelowIsTransitive ==
  ASSUME NEW u \in Version, NEW v \in Version, NEW w \in Version, Below(u, v), Below(v, w)
  PROVE  Below(u, w)
<1>1. PICK k \in Nat \ {0} :
        /\ V!TokenLess(V!TokenAt(u, k), V!TokenAt(v, k))
        /\ \A l \in Nat \ {0} : l < k => V!TokenAt(u, l) = V!TokenAt(v, l)
  BY DEF Below
<1>2. PICK j \in Nat \ {0} :
        /\ V!TokenLess(V!TokenAt(v, j), V!TokenAt(w, j))
        /\ \A l \in Nat \ {0} : l < j => V!TokenAt(v, l) = V!TokenAt(w, l)
  BY DEF Below
<1>3. \A i \in Nat \ {0} : /\ V!TokenAt(u, i) \in {0, 1, 2} \X Nat
                           /\ V!TokenAt(v, i) \in {0, 1, 2} \X Nat
                           /\ V!TokenAt(w, i) \in {0, 1, 2} \X Nat
  BY TokensAre
<1>4. CASE k < j
  <2>1. V!TokenLess(V!TokenAt(u, k), V!TokenAt(w, k))
    BY <1>1, <1>2, <1>4
  <2>2. \A l \in Nat \ {0} : l < k => V!TokenAt(u, l) = V!TokenAt(w, l)
    BY <1>1, <1>2, <1>4
  <2> QED BY <2>1, <2>2 DEF Below
<1>5. CASE j < k
  <2>1. V!TokenLess(V!TokenAt(u, j), V!TokenAt(w, j))
    BY <1>1, <1>2, <1>5
  <2>2. \A l \in Nat \ {0} : l < j => V!TokenAt(u, l) = V!TokenAt(w, l)
    BY <1>1, <1>2, <1>5
  <2> QED BY <2>1, <2>2 DEF Below
<1>6. CASE k = j
  <2>1. V!TokenLess(V!TokenAt(u, k), V!TokenAt(w, k))
    BY <1>1, <1>2, <1>3, <1>6, TokensOrdered
  <2>2. \A l \in Nat \ {0} : l < k => V!TokenAt(u, l) = V!TokenAt(w, l)
    BY <1>1, <1>2, <1>6
  <2> QED BY <2>1, <2>2 DEF Below
<1> QED BY <1>4, <1>5, <1>6

LEMMA VersionsAreOrdered ==
  ASSUME NEW u \in Version, NEW v \in Version, NEW w \in Version
  PROVE  V!VersionsOrdered(u, v, w)
<1>1. \A x, y \in Version : Below(x, y) => ~ Below(y, x) /\ x # y
  BY BelowOrders
<1>2. \A x, y, z \in Version : Below(x, y) /\ Below(y, z) => Below(x, z)
  BY BelowIsTransitive
<1>3. \A x, y \in Version :
        /\ V!CompareVersions(x, y) \in {-1, 0, 1}
        /\ V!CompareVersions(x, y) = 0 <=> x = y
        /\ V!CompareVersions(x, y) = -1 <=> Below(x, y)
        /\ V!CompareVersions(x, y) = 1 <=> Below(y, x)
  BY <1>1, CompareIs
<1>4. V!CompareVersions(u, v) = - V!CompareVersions(v, u)
  BY <1>1, <1>3
<1>5. (V!CompareVersions(u, v) = 0) = (u = v)
  BY <1>3
<1>6. V!CompareVersions(u, v) <= 0 /\ V!CompareVersions(v, w) <= 0
        => V!CompareVersions(u, w) <= 0
  BY <1>1, <1>2, <1>3
<1> QED BY <1>4, <1>5, <1>6 DEF V!VersionsOrdered

\* A step for each number up to some, from a value on, can be taken.
Stepper(f, W, size)    == f \in [(1 .. size) \X W -> W]
Steps(r, x, f, W, size) ==
  /\ r \in [0 .. size -> W] /\ r[0] = x
  /\ \A k \in 1 .. size : r[k] = f[<<k, r[k - 1]>>]

LEMMA Recurses ==
  ASSUME NEW W, NEW x \in W, NEW size \in Nat, NEW f, Stepper(f, W, size)
  PROVE  \E r : Steps(r, x, f, W, size)
<1> DEFINE Runs(j) == { r \in [0 .. j -> W] :
                          r[0] = x /\ \A k \in 1 .. j : r[k] = f[<<k, r[k - 1]>>] }
           S == { j \in Nat : j <= size => Runs(j) # {} }
<1>0. f \in [(1 .. size) \X W -> W]
  BY DEF Stepper
<1>1. 0 \in S
  <2>1. [i \in 0 .. 0 |-> x] \in Runs(0)
    OBVIOUS
  <2> QED BY <2>1
<1>2. ASSUME NEW j \in Nat, j \in S PROVE j + 1 \in S
  <2> SUFFICES ASSUME j + 1 <= size PROVE Runs(j + 1) # {}
    OBVIOUS
  <2>1. PICK r \in [0 .. j -> W] : r[0] = x /\ \A k \in 1 .. j : r[k] = f[<<k, r[k - 1]>>]
    BY <1>2
  <2> DEFINE g == [i \in 0 .. j + 1 |-> IF i = j + 1 THEN f[<<j + 1, r[j]>>] ELSE r[i]]
  <2>2. r[j] \in W /\ j + 1 \in 1 .. size /\ f[<<j + 1, r[j]>>] \in W
    BY <1>0
  <2>3. /\ g \in [0 .. j + 1 -> W] /\ g[j + 1] = f[<<j + 1, r[j]>>]
        /\ \A i \in 0 .. j : g[i] = r[i]
    BY <2>2
  <2> HIDE DEF g
  <2>4. ASSUME NEW k \in 1 .. j + 1 PROVE g[k] = f[<<k, g[k - 1]>>]
    <3>1. CASE k = j + 1
      <4>1. k - 1 = j /\ j \in 0 .. j
        BY <3>1
      <4>2. g[k - 1] = r[j]
        BY <2>3, <4>1
      <4> QED BY <2>3, <3>1, <4>2
    <3>2. CASE k # j + 1
      <4>1. k \in 1 .. j /\ k \in 0 .. j /\ k - 1 \in 0 .. j
        BY <3>2
      <4> QED BY <2>1, <2>3, <4>1
    <3> QED BY <3>1, <3>2
  <2>5. g[0] = x
    BY <2>1, <2>3
  <2>6. g \in Runs(j + 1)
    BY <2>3, <2>4, <2>5
  <2> QED BY <2>6
<1>3. size \in S
  <2> HIDE DEF S
  <2> QED BY <1>1, <1>2, Inductive
<1>4. PICK r : r \in Runs(size)
  BY <1>3
<1> QED BY <1>4 DEF Steps

Reaches(v, boundary) == boundary # <<>> /\ V!CompareVersions(v, boundary) >= 0

\* The window a version is in is known after each event of a range.
LEMMA WindowIs ==
  ASSUME NEW v \in Version, NEW events \in Seq(Event)
  PROVE  V!AfterEvents(v, events) = V!InSomeWindow(v, events)
<1> DEFINE last == Len(events)
           Within(k) == \E i \in 1 .. k :
                          /\ Reaches(v, events[i].introduced)
                          /\ \A j \in i .. k : ~ Reaches(v, events[j].fixed)
           within == [k \in 0 .. last |-> Within(k)]
           Is(x) == x = [k \in 0 .. last |->
                           IF k = 0 THEN FALSE ELSE V!AfterEvent(v, x[k - 1], events[k])]
           after == CHOOSE x : Is(x)
<1>1. last \in Nat /\ DOMAIN events = 1 .. last /\ \A j \in 1 .. last : events[j] \in Event
  OBVIOUS
<1>2. V!AfterEvents(v, events) = after[last]
  BY Zenon DEF V!AfterEvents
<1>3. \A k \in 1 .. last : \A before :
        V!AfterEvent(v, before, events[k])
          = (~ Reaches(v, events[k].fixed)
               /\ (before \/ Reaches(v, events[k].introduced)))
  BY DEF V!AfterEvent, Reaches
<1> HIDE DEF last
<1>4. \A k \in 1 .. last :
        Within(k) = (~ Reaches(v, events[k].fixed)
                       /\ (Within(k - 1) \/ Reaches(v, events[k].introduced)))
  <2> SUFFICES ASSUME NEW k \in 1 .. last
               PROVE  Within(k) = (~ Reaches(v, events[k].fixed)
                                    /\ (Within(k - 1) \/ Reaches(v, events[k].introduced)))
    OBVIOUS
  <2> DEFINE In(i) == Reaches(v, events[i].introduced)
             Out(j) == Reaches(v, events[j].fixed)
  <2>0. k \in Nat /\ k >= 1 /\ k \in 1 .. k
    BY <1>1
  <2> HIDE DEF In, Out
  <2>1. ASSUME Within(k) PROVE ~ Out(k) /\ (Within(k - 1) \/ In(k))
    <3>1. PICK i \in 1 .. k : In(i) /\ \A j \in i .. k : ~ Out(j)
      BY <2>1 DEF In, Out
    <3>2. k \in i .. k
      BY <2>0, <3>1
    <3>3. CASE i = k
      BY <3>1, <3>2, <3>3
    <3>4. CASE i # k
      <4>1. i \in 1 .. (k - 1) /\ \A j \in i .. (k - 1) : j \in i .. k
        BY <2>0, <3>4
      <4>2. In(i) /\ \A j \in i .. (k - 1) : ~ Out(j)
        BY <3>1, <4>1
      <4> QED BY <3>1, <3>2, <4>1, <4>2 DEF In, Out
    <3> QED BY <3>3, <3>4
  <2>2. ASSUME ~ Out(k), Within(k - 1) PROVE Within(k)
    <3>1. PICK i \in 1 .. (k - 1) : In(i) /\ \A j \in i .. (k - 1) : ~ Out(j)
      BY <2>2 DEF In, Out
    <3>2. i \in 1 .. k /\ \A j \in i .. k : j = k \/ j \in i .. (k - 1)
      BY <2>0
    <3>3. In(i) /\ \A j \in i .. k : ~ Out(j)
      BY <2>2, <3>1, <3>2
    <3> QED BY <3>2, <3>3 DEF In, Out
  <2>3. ASSUME ~ Out(k), In(k) PROVE Within(k)
    <3>1. \A j \in k .. k : j = k
      BY <2>0
    <3> QED BY <2>0, <2>3, <3>1 DEF In, Out
  <2>4. Within(k) \in BOOLEAN
    OBVIOUS
  <2> HIDE DEF Within
  <2> QED BY <2>1, <2>2, <2>3, <2>4 DEF In, Out
<1>5. ~ Within(0)
  OBVIOUS
<1>6. Is(within)
  <2>1. /\ within[0] = FALSE
        /\ \A k \in 1 .. last : within[k] = Within(k) /\ within[k - 1] = Within(k - 1)
    <3> HIDE DEF Within
    <3> QED BY <1>1, <1>5
  <2>2. \A k \in 1 .. last : within[k] = V!AfterEvent(v, within[k - 1], events[k])
    <3> HIDE DEF Within, within
    <3> QED BY <1>3, <1>4, <2>1
  <2>3. within = [k \in 0 .. last |-> within[k]]
    OBVIOUS
  <2> HIDE DEF within
  <2>4. \A k \in 0 .. last :
          within[k] = IF k = 0 THEN FALSE ELSE V!AfterEvent(v, within[k - 1], events[k])
    <3> HIDE DEF Within
    <3>1. \A k \in 0 .. last : k = 0 \/ (k # 0 /\ k \in 1 .. last)
      BY <1>1
    <3> QED BY <2>1, <2>2, <3>1, Zenon
  <2>5. [k \in 0 .. last |-> within[k]]
          = [k \in 0 .. last |->
               IF k = 0 THEN FALSE ELSE V!AfterEvent(v, within[k - 1], events[k])]
    BY <2>4, Zenon
  <2> QED BY <2>3, <2>5, Zenon
<1>7. Is(after)
  <2> HIDE DEF Is
  <2> QED BY <1>6
<1> HIDE DEF after
<1>8. after[0] = FALSE
      /\ \A k \in 1 .. last : after[k] = V!AfterEvent(v, after[k - 1], events[k])
  BY <1>1, <1>7
<1> HIDE DEF Is
<1> DEFINE S == { k \in Nat : k <= last => after[k] = Within(k) }
<1>9. 0 \in S
  BY <1>5, <1>8
<1>10. ASSUME NEW k \in Nat, k \in S PROVE k + 1 \in S
  <2> HIDE DEF Within
  <2> SUFFICES ASSUME k + 1 <= last PROVE after[k + 1] = Within(k + 1)
    BY <1>10
  <2>1. k + 1 \in 1 .. last /\ (k + 1) - 1 = k /\ k <= last
    BY <1>1
  <2>2. after[k] = Within(k)
    BY <1>10, <2>1
  <2> QED BY <1>3, <1>4, <1>8, <2>1, <2>2
<1>11. after[last] = Within(last)
  <2>1. \A k \in Nat : k \in S
    <3> HIDE DEF S
    <3> QED BY <1>9, <1>10, Inductive
  <2> HIDE DEF Within
  <2> QED BY <1>1, <2>1
<1>12. Within(last) = V!InSomeWindow(v, events)
  <2>1. \A j \in 1 .. last : V!CompareVersions(v, events[j].fixed) \in Int
    <3> SUFFICES ASSUME NEW j \in 1 .. last PROVE V!CompareVersions(v, events[j].fixed) \in Int
      OBVIOUS
    <3>1. events[j].fixed \in Version
      BY <1>1, Zenon DEF Event
    <3> QED BY <3>1, CompareIs
  <2>2. \A i \in 1 .. last : \A j \in i .. last : j \in 1 .. last
    BY <1>1
  <2>3. \A i \in 1 .. last :
          (\A j \in i .. last : ~ Reaches(v, events[j].fixed))
            <=> \A j \in i .. last : events[j].fixed # <<>>
                                       => V!CompareVersions(v, events[j].fixed) < 0
    BY <2>1, <2>2 DEF Reaches
  <2>4. V!InSomeWindow(v, events)
          = \E i \in 1 .. last :
              /\ Reaches(v, events[i].introduced)
              /\ \A j \in i .. last : events[j].fixed # <<>>
                                        => V!CompareVersions(v, events[j].fixed) < 0
    BY <1>1 DEF V!InSomeWindow, Reaches, last
  <2> QED BY <2>3, <2>4
<1> QED BY <1>2, <1>11, <1>12

-----------------------------------------------------------------------------
(* The feed.                                                               *)

\* A row that a feed's entries make: an entry's identifier, feed and title.
RowOf(entries) ==
  [id         : { V!canonicalCVEID(e).id : e \in V!Range(entries) },
   feed       : { V!canonicalCVEID(e).feed : e \in V!Range(entries) },
   title      : { e.title : e \in V!Range(entries) },
   cvss       : Int,
   confidence : {V!Unsaid}]

\* The score of an entry is one of its scores, or none.
LEMMA ScoreIs ==
  ASSUME NEW e, e.scores \in Seq(Int)
  PROVE  V!extractCVSSScore(e) \in Int
<1> DEFINE there == { i \in DOMAIN e.scores : e.scores[i] > 0 }
           least == CHOOSE i \in there : \A j \in there : i <= j
<1>1. V!extractCVSSScore(e) = IF there = {} THEN 0 ELSE e.scores[least]
  BY Zenon DEF V!extractCVSSScore
<1>2. CASE there # {}
  <2>1. there \in SUBSET Nat /\ there \in SUBSET DOMAIN e.scores
    OBVIOUS
  <2>2. \E i \in there : \A j \in there : i <= j
    <3> HIDE DEF there
    <3> QED BY <1>2, <2>1, LeastNumber
  <2>3. least \in there
    <3> HIDE DEF there
    <3> QED BY <2>2
  <2> HIDE DEF there, least
  <2> QED BY <1>1, <1>2, <2>1, <2>3
<1> QED BY <1>1, <1>2

\* What an entry does to the rows.
LEMMA EntryFolds ==
  ASSUME NEW B, NEW rows \in Seq(B), NEW e,
         V!NewRow(e) \in B, \A v \in B : V!Raised(v, e) \in B
  PROVE  /\ V!Folded(rows, e) \in Seq(B)
         /\ \/ /\ \A i \in DOMAIN rows : rows[i].id # V!canonicalCVEID(e).id
               /\ V!Folded(rows, e) = Append(rows, V!NewRow(e))
            \/ \E i \in DOMAIN rows :
                 /\ rows[i].id = V!canonicalCVEID(e).id
                 /\ V!Folded(rows, e) = [rows EXCEPT ![i] = V!Raised(rows[i], e)]
<1> DEFINE same == { i \in DOMAIN rows : rows[i].id = V!canonicalCVEID(e).id }
           it == CHOOSE i \in same : TRUE
<1>1. V!Folded(rows, e) = IF same = {} THEN Append(rows, V!NewRow(e))
                          ELSE [rows EXCEPT ![it] = V!Raised(rows[it], e)]
  BY DEF V!Folded
<1>2. CASE same = {}
  <2>1. \A i \in DOMAIN rows : rows[i].id # V!canonicalCVEID(e).id
    BY <1>2
  <2>2. V!Folded(rows, e) = Append(rows, V!NewRow(e))
    BY <1>1, <1>2
  <2> QED BY <2>1, <2>2
<1>3. CASE same # {}
  <2>1. it \in same
    BY <1>3
  <2>2. it \in DOMAIN rows /\ rows[it].id = V!canonicalCVEID(e).id
    BY <2>1
  <2>3. V!Folded(rows, e) = [rows EXCEPT ![it] = V!Raised(rows[it], e)]
    BY <1>1, <1>3
  <2> HIDE DEF same, it
  <2>4. V!Raised(rows[it], e) \in B
    BY <2>2
  <2>5. [rows EXCEPT ![it] = V!Raised(rows[it], e)] \in Seq(B)
    <3>1. rows \in [1 .. Len(rows) -> B] /\ Len(rows) \in Nat
      OBVIOUS
    <3>2. [rows EXCEPT ![it] = V!Raised(rows[it], e)] \in [1 .. Len(rows) -> B]
      BY <2>4, <3>1
    <3> QED BY <3>1, <3>2
  <2> QED BY <2>2, <2>3, <2>5, Zenon
<1> QED BY <1>2, <1>3

\* The first entries of a feed are folded into one row each vulnerability.
FoldedSoFar(rows, entries, k, version) ==
  LET Stated(i) == V!IsVersionAffected(version, entries[i].affected)
      Id(i) == V!canonicalCVEID(entries[i]).id
      Score(i) == V!extractCVSSScore(entries[i])
  IN  /\ rows \in Seq(RowOf(entries))
      /\ \A i, j \in DOMAIN rows : rows[i].id = rows[j].id => i = j
      /\ \A i \in 1 .. k : Stated(i) =>
           \E j \in DOMAIN rows : rows[j].id = Id(i) /\ rows[j].cvss >= Score(i)
      /\ \A j \in DOMAIN rows :
           \E i \in 1 .. k : Stated(i) /\ rows[j].id = Id(i) /\ rows[j].cvss = Score(i)

LEMMA RowsOfEntry ==
  ASSUME NEW entries, NEW i \in DOMAIN entries,
         \A e \in V!Range(entries) : e.scores \in Seq(Int)
  PROVE  /\ V!NewRow(entries[i]) \in RowOf(entries)
         /\ \A v \in RowOf(entries) :
              /\ V!Raised(v, entries[i]) \in RowOf(entries)
              /\ V!Raised(v, entries[i]).id = v.id
              /\ V!Raised(v, entries[i]).cvss >= v.cvss
              /\ V!Raised(v, entries[i]).cvss >= V!extractCVSSScore(entries[i])
              /\ V!Raised(v, entries[i]).cvss \in {v.cvss, V!extractCVSSScore(entries[i])}
         /\ V!NewRow(entries[i]).id = V!canonicalCVEID(entries[i]).id
         /\ V!NewRow(entries[i]).cvss = V!extractCVSSScore(entries[i])
<1> DEFINE e == entries[i]
           score == V!extractCVSSScore(e)
           own == V!canonicalCVEID(e)
           Ids == { V!canonicalCVEID(x).id : x \in V!Range(entries) }
           Feeds == { V!canonicalCVEID(x).feed : x \in V!Range(entries) }
           Titles == { x.title : x \in V!Range(entries) }
<1>1. e \in V!Range(entries)
  BY DEF V!Range
<1>2. own.id \in Ids /\ own.feed \in Feeds /\ e.title \in Titles
  BY <1>1
<1>3. score \in Int
  BY <1>1, ScoreIs
<1>4. V!NewRow(e) = [id |-> own.id, feed |-> own.feed, title |-> e.title,
                     cvss |-> score, confidence |-> V!Unsaid]
  BY DEF V!NewRow
<1>5. RowOf(entries) = [id : Ids, feed : Feeds, title : Titles, cvss : Int,
                        confidence : {V!Unsaid}]
  BY DEF RowOf
<1>6. \A v : V!Raised(v, e) = [id |-> v.id, feed |-> v.feed,
                               title |-> IF v.title = V!Unsaid THEN e.title ELSE v.title,
                               cvss |-> IF score > v.cvss THEN score ELSE v.cvss,
                               confidence |-> v.confidence]
  BY DEF V!Raised
<1> HIDE DEF e, score, own, Ids, Feeds, Titles
<1>7. V!NewRow(e) \in RowOf(entries) /\ V!NewRow(e).id = own.id /\ V!NewRow(e).cvss = score
  BY <1>2, <1>3, <1>4, <1>5
<1>8. ASSUME NEW v \in RowOf(entries)
      PROVE  /\ V!Raised(v, e) \in RowOf(entries) /\ V!Raised(v, e).id = v.id
             /\ V!Raised(v, e).cvss >= v.cvss /\ V!Raised(v, e).cvss >= score
             /\ V!Raised(v, e).cvss \in {v.cvss, score}
  BY <1>2, <1>3, <1>5, <1>6
<1> QED BY <1>7, <1>8 DEF e, score, own

LEMMA FeedStep ==
  ASSUME NEW entries, IsFeed(entries), NEW version, NEW k \in 1 .. Len(entries), NEW rows,
         FoldedSoFar(rows, entries, k - 1, version)
  PROVE  FoldedSoFar(IF V!IsVersionAffected(version, entries[k].affected)
                       THEN V!Folded(rows, entries[k]) ELSE rows, entries, k, version)
<1> DEFINE R == RowOf(entries)
           Stated(i) == V!IsVersionAffected(version, entries[i].affected)
           Id(i) == V!canonicalCVEID(entries[i]).id
           Score(i) == V!extractCVSSScore(entries[i])
<1>1. Len(entries) \in Nat /\ DOMAIN entries = 1 .. Len(entries)
  BY DEF IsFeed
<1>2. k \in Nat /\ k \in DOMAIN entries /\ 1 .. k = (1 .. (k - 1)) \cup {k}
  BY <1>1
<1>3. /\ rows \in Seq(R)
      /\ \A i, j \in DOMAIN rows : rows[i].id = rows[j].id => i = j
      /\ \A i \in 1 .. (k - 1) : Stated(i) =>
           \E j \in DOMAIN rows : rows[j].id = Id(i) /\ rows[j].cvss >= Score(i)
      /\ \A j \in DOMAIN rows :
           \E i \in 1 .. (k - 1) : Stated(i) /\ rows[j].id = Id(i) /\ rows[j].cvss = Score(i)
  BY Zenon DEF FoldedSoFar
<1>4. \A i \in 1 .. Len(entries) : Score(i) \in Int
  <2> SUFFICES ASSUME NEW i \in 1 .. Len(entries) PROVE Score(i) \in Int
    OBVIOUS
  <2>1. entries[i] \in V!Range(entries)
    BY <1>1 DEF V!Range
  <2>2. entries[i].scores \in Seq(Int)
    BY <2>1 DEF IsFeed
  <2> QED BY <2>2, ScoreIs
<1>5. /\ V!NewRow(entries[k]) \in R
      /\ \A v \in R :
           /\ V!Raised(v, entries[k]) \in R /\ V!Raised(v, entries[k]).id = v.id
           /\ V!Raised(v, entries[k]).cvss >= v.cvss
           /\ V!Raised(v, entries[k]).cvss >= Score(k)
           /\ V!Raised(v, entries[k]).cvss \in {v.cvss, Score(k)}
      /\ V!NewRow(entries[k]).id = Id(k) /\ V!NewRow(entries[k]).cvss = Score(k)
  BY <1>2, RowsOfEntry DEF IsFeed
<1>6. \A v \in R : v.cvss \in Int
  BY DEF RowOf
<1> SUFFICES ASSUME NEW next, next = IF Stated(k) THEN V!Folded(rows, entries[k]) ELSE rows
             PROVE  FoldedSoFar(next, entries, k, version)
  OBVIOUS
<1>7. \/ ~ Stated(k) /\ next = rows
      \/ Stated(k) /\ next \in Seq(R) /\ next = Append(rows, V!NewRow(entries[k]))
           /\ \A i \in DOMAIN rows : rows[i].id # Id(k)
      \/ Stated(k) /\ next \in Seq(R) /\ \E i \in DOMAIN rows :
           rows[i].id = Id(k) /\ next = [rows EXCEPT ![i] = V!Raised(rows[i], entries[k])]
  <2>1. /\ V!NewRow(entries[k]) \in R
        /\ \A v \in R : V!Raised(v, entries[k]) \in R
        /\ rows \in Seq(R)
    BY <1>3, <1>5
  <2> HIDE DEF R
  <2>2. /\ V!Folded(rows, entries[k]) \in Seq(R)
        /\ \/ /\ \A i \in DOMAIN rows : rows[i].id # Id(k)
              /\ V!Folded(rows, entries[k]) = Append(rows, V!NewRow(entries[k]))
           \/ \E i \in DOMAIN rows :
                /\ rows[i].id = Id(k)
                /\ V!Folded(rows, entries[k])
                     = [rows EXCEPT ![i] = V!Raised(rows[i], entries[k])]
    <3> DEFINE e == entries[k]
    <3> HIDE DEF e
    <3>1. V!NewRow(e) \in R /\ \A v \in R : V!Raised(v, e) \in R
      BY <2>1 DEF e
    <3>2. /\ V!Folded(rows, e) \in Seq(R)
          /\ \/ /\ \A i \in DOMAIN rows : rows[i].id # V!canonicalCVEID(e).id
                /\ V!Folded(rows, e) = Append(rows, V!NewRow(e))
             \/ \E i \in DOMAIN rows :
                  /\ rows[i].id = V!canonicalCVEID(e).id
                  /\ V!Folded(rows, e) = [rows EXCEPT ![i] = V!Raised(rows[i], e)]
      BY <2>1, <3>1, EntryFolds
    <3> QED BY <3>2 DEF e
  <2>3. CASE ~ Stated(k)
    BY <2>3
  <2>4. CASE Stated(k)
    <3>1. next = V!Folded(rows, entries[k])
      BY <2>4
    <3> HIDE DEF Stated, Id
    <3> QED BY <2>2, <2>4, <3>1
  <2> QED BY <2>3, <2>4
<1>8. 1 .. k \subseteq 1 .. Len(entries) /\ 1 .. (k - 1) \subseteq 1 .. Len(entries)
  BY <1>1, <1>2
<1> HIDE DEF R, Stated, Id, Score
<1>9. /\ next \in Seq(R)
      /\ \A i, j \in DOMAIN next : next[i].id = next[j].id => i = j
      /\ \A i \in 1 .. k : Stated(i) =>
           \E j \in DOMAIN next : next[j].id = Id(i) /\ next[j].cvss >= Score(i)
      /\ \A j \in DOMAIN next :
           \E i \in 1 .. k : Stated(i) /\ next[j].id = Id(i) /\ next[j].cvss = Score(i)
  <2>1. CASE ~ Stated(k) /\ next = rows
    BY <1>2, <1>3, <2>1
  <2>2. CASE Stated(k) /\ next \in Seq(R) /\ next = Append(rows, V!NewRow(entries[k]))
             /\ \A i \in DOMAIN rows : rows[i].id # Id(k)
    <3> DEFINE new == Len(rows) + 1
    <3>1. /\ DOMAIN next = DOMAIN rows \cup {new} /\ new \notin DOMAIN rows
          /\ next[new] = V!NewRow(entries[k])
          /\ \A i \in DOMAIN rows : next[i] = rows[i]
      <4>1. DOMAIN rows = 1 .. Len(rows) /\ Len(rows) \in Nat
        BY <1>3
      <4>2. /\ Len(next) = Len(rows) + 1 /\ next[Len(rows) + 1] = V!NewRow(entries[k])
            /\ \A i \in 1 .. Len(rows) : next[i] = rows[i]
        BY <1>3, <1>5, <2>2, AppendProperties
      <4>3. DOMAIN next = 1 .. Len(rows) + 1
        BY <2>2, <4>2
      <4> QED BY <4>1, <4>2, <4>3
    <3> HIDE DEF new
    <3>a. next[new].id = Id(k) /\ next[new].cvss = Score(k)
      BY <1>5, <3>1
    <3>b. \A i \in DOMAIN rows : next[i].id = rows[i].id /\ next[i].id # next[new].id
      BY <2>2, <3>1, <3>a
    <3>2. \A i, j \in DOMAIN next : next[i].id = next[j].id => i = j
      <4> SUFFICES ASSUME NEW i \in DOMAIN next, NEW j \in DOMAIN next, next[i].id = next[j].id
                   PROVE  i = j
        OBVIOUS
      <4>1. CASE i = new \/ j = new
        BY <3>1, <3>b, <4>1
      <4>2. CASE i \in DOMAIN rows /\ j \in DOMAIN rows
        BY <1>3, <3>b, <4>2
      <4> QED BY <3>1, <4>1, <4>2
    <3>3. Score(k) \in Int /\ Score(k) >= Score(k)
      BY <1>1, <1>2, <1>4
    <3>4. \A i \in 1 .. k : Stated(i) =>
            \E j \in DOMAIN next : next[j].id = Id(i) /\ next[j].cvss >= Score(i)
      <4> SUFFICES ASSUME NEW i \in 1 .. k, Stated(i)
                   PROVE  \E j \in DOMAIN next : next[j].id = Id(i) /\ next[j].cvss >= Score(i)
        OBVIOUS
      <4>1. CASE i = k
        <5>1. next[new].cvss >= Score(k)
          BY <3>3, <3>a
        <5> QED BY <3>1, <3>a, <4>1, <5>1
      <4>2. CASE i # k
        <5>1. i \in 1 .. (k - 1)
          BY <1>2, <4>2
        <5>2. PICK j \in DOMAIN rows : rows[j].id = Id(i) /\ rows[j].cvss >= Score(i)
          BY <1>3, <5>1
        <5> QED BY <3>1, <5>2
      <4> QED BY <4>1, <4>2
    <3>5. \A j \in DOMAIN next :
            \E i \in 1 .. k : Stated(i) /\ next[j].id = Id(i) /\ next[j].cvss = Score(i)
      BY <1>2, <1>3, <1>5, <2>2, <3>1
    <3> QED BY <2>2, <3>2, <3>4, <3>5
  <2>3. CASE Stated(k) /\ next \in Seq(R) /\ \E i \in DOMAIN rows :
             rows[i].id = Id(k) /\ next = [rows EXCEPT ![i] = V!Raised(rows[i], entries[k])]
    <3>1. PICK at \in DOMAIN rows :
            rows[at].id = Id(k) /\ next = [rows EXCEPT ![at] = V!Raised(rows[at], entries[k])]
      BY <2>3
    <3>2. /\ DOMAIN next = DOMAIN rows
          /\ next[at] = V!Raised(rows[at], entries[k])
          /\ \A i \in DOMAIN rows : i # at => next[i] = rows[i]
      BY <1>3, <3>1
    <3>3. \A i \in DOMAIN rows : rows[i] \in R /\ rows[i].cvss \in Int
      BY <1>3, <1>6
    <3>4. /\ next[at].id = rows[at].id /\ next[at].cvss >= rows[at].cvss
          /\ next[at].cvss >= Score(k) /\ next[at].cvss \in {rows[at].cvss, Score(k)}
      BY <1>5, <3>2, <3>3
    <3>5. \A i \in DOMAIN rows : next[i].id = rows[i].id /\ next[i].cvss \in Int
                                 /\ next[i].cvss >= rows[i].cvss
      BY <1>2, <1>4, <1>1, <3>2, <3>3, <3>4
    <3>6. \A i, j \in DOMAIN next : next[i].id = next[j].id => i = j
      BY <1>3, <3>2, <3>5
    <3>7. \A i \in 1 .. k : Stated(i) =>
            \E j \in DOMAIN next : next[j].id = Id(i) /\ next[j].cvss >= Score(i)
      <4> SUFFICES ASSUME NEW i \in 1 .. k, Stated(i)
                   PROVE  \E j \in DOMAIN next : next[j].id = Id(i) /\ next[j].cvss >= Score(i)
        OBVIOUS
      <4>1. CASE i = k
        BY <3>1, <3>2, <3>4, <4>1
      <4>2. CASE i # k
        <5>1. i \in 1 .. (k - 1) /\ Score(i) \in Int
          BY <1>2, <1>4, <1>8, <4>2
        <5>2. PICK j \in DOMAIN rows : rows[j].id = Id(i) /\ rows[j].cvss >= Score(i)
          BY <1>3, <5>1
        <5> QED BY <3>2, <3>3, <3>5, <5>1, <5>2
      <4> QED BY <4>1, <4>2
    <3>8. \A j \in DOMAIN next :
            \E i \in 1 .. k : Stated(i) /\ next[j].id = Id(i) /\ next[j].cvss = Score(i)
      <4> SUFFICES ASSUME NEW j \in DOMAIN rows
                   PROVE  \E i \in 1 .. k : Stated(i) /\ next[j].id = Id(i)
                                              /\ next[j].cvss = Score(i)
        BY <3>2
      <4>1. CASE next[j].cvss = rows[j].cvss
        <5>1. PICK i \in 1 .. (k - 1) :
                Stated(i) /\ rows[j].id = Id(i) /\ rows[j].cvss = Score(i)
          BY <1>3
        <5>2. i \in 1 .. k /\ next[j].id = rows[j].id
          BY <1>2, <3>5
        <5> QED BY <4>1, <5>1, <5>2
      <4>2. CASE next[j].cvss # rows[j].cvss
        <5>1. j = at
          BY <3>2, <4>2
        <5> QED BY <1>2, <2>3, <3>1, <3>4, <4>2, <5>1
      <4> QED BY <4>1, <4>2
    <3> QED BY <2>3, <3>6, <3>7, <3>8
  <2> QED BY <1>7, <2>1, <2>2, <2>3
<1> QED BY <1>9, Zenon DEF FoldedSoFar, R, Stated, Id, Score

LEMMA FeedIs ==
  ASSUME NEW entries, IsFeed(entries), NEW version
  PROVE  FoldedSoFar(V!query(entries, version), entries, Len(entries), version)
<1> DEFINE last == Len(entries)
           R == RowOf(entries)
           Stated(k) == V!IsVersionAffected(version, entries[k].affected)
           After(k, rows) == IF Stated(k) THEN V!Folded(rows, entries[k]) ELSE rows
           Is(x) == x = [k \in 0 .. last |->
                           IF k = 0 THEN <<>>
                           ELSE IF Stated(k) THEN V!Folded(x[k - 1], entries[k])
                           ELSE x[k - 1]]
           folded == CHOOSE x : Is(x)
           f == [p \in (1 .. last) \X Seq(R) |-> After(p[1], p[2])]
<1>1. last \in Nat /\ DOMAIN entries = 1 .. last
  BY DEF IsFeed
<1>2. V!query(entries, version) = folded[last]
  BY Zenon DEF V!query
<1>3. ASSUME NEW k \in 1 .. last, NEW rows \in Seq(R)
      PROVE  After(k, rows) \in Seq(R)
  <2> DEFINE e == entries[k]
  <2>1. V!NewRow(e) \in R /\ \A v \in R : V!Raised(v, e) \in R
    BY <1>1, RowsOfEntry DEF IsFeed
  <2> HIDE DEF e, R
  <2>2. V!Folded(rows, e) \in Seq(R)
    BY <2>1, EntryFolds
  <2> HIDE DEF Stated
  <2> QED BY <2>2 DEF e
<1> HIDE DEF last, After
<1>4. f \in [(1 .. last) \X Seq(R) -> Seq(R)]
  <2> HIDE DEF R
  <2> QED BY <1>3
<1>5. \E x : Is(x)
  <2>1. <<>> \in Seq(R)
    <3> HIDE DEF R
    <3> QED OBVIOUS
  <2> DEFINE W == Seq(R)
  <2>2. f \in [(1 .. last) \X W -> W] /\ <<>> \in W
    BY <1>4, <2>1
  <2>3. PICK x \in [0 .. last -> W] :
          x[0] = <<>> /\ \A k \in 1 .. last : x[k] = f[<<k, x[k - 1]>>]
    <3> HIDE DEF W, f
    <3>1. last \in Nat /\ Stepper(f, W, last)
      BY <1>1, <2>2 DEF Stepper
    <3>2. \E x : Steps(x, <<>>, f, W, last)
      BY <2>2, <3>1, Recurses, Zenon
    <3> QED BY <3>2 DEF Steps
  <2>4. \A k \in 1 .. last : x[k] = After(k, x[k - 1])
    <3> SUFFICES ASSUME NEW k \in 1 .. last PROVE x[k] = After(k, x[k - 1])
      OBVIOUS
    <3>1. k - 1 \in 0 .. last
      BY <1>1
    <3> HIDE DEF R
    <3>2. x[k - 1] \in W
      BY <3>1
    <3> QED BY <2>3, <3>2
  <2> HIDE DEF W, f
  <2>5. \A k \in 0 .. last : k = 0 \/ (k # 0 /\ k \in 1 .. last)
    BY <1>1
  <2>6. \A k \in 0 .. last :
          x[k] = IF k = 0 THEN <<>>
                 ELSE IF Stated(k) THEN V!Folded(x[k - 1], entries[k]) ELSE x[k - 1]
    <3> HIDE DEF Stated
    <3> QED BY <2>3, <2>4, <2>5, Zenon DEF After
  <2>7. x = [k \in 0 .. last |-> x[k]]
    BY <2>3
  <2>8. [k \in 0 .. last |-> x[k]]
          = [k \in 0 .. last |->
               IF k = 0 THEN <<>>
               ELSE IF Stated(k) THEN V!Folded(x[k - 1], entries[k]) ELSE x[k - 1]]
    BY <2>6, Zenon
  <2> QED BY <2>7, <2>8, Zenon
<1>6. Is(folded)
  <2> HIDE DEF Is
  <2> QED BY <1>5
<1> HIDE DEF folded
<1>7. folded[0] = <<>> /\ \A k \in 1 .. last : folded[k] = After(k, folded[k - 1])
  <2> HIDE DEF Stated
  <2>1. \A k \in 0 .. last :
          folded[k] = IF k = 0 THEN <<>>
                      ELSE IF Stated(k) THEN V!Folded(folded[k - 1], entries[k])
                      ELSE folded[k - 1]
    BY <1>6
  <2>2. 0 \in 0 .. last /\ \A k \in 1 .. last : k # 0 /\ k \in 0 .. last
    BY <1>1
  <2> QED BY <2>1, <2>2, Zenon DEF After
<1> HIDE DEF Is
<1> DEFINE Fine(k) == FoldedSoFar(folded[k], entries, k, version)
           S == { k \in Nat : k <= last => Fine(k) }
<1>8. 0 \in S
  <2>1. <<>> \in Seq(R) /\ DOMAIN <<>> = {} /\ 1 .. 0 = {}
    OBVIOUS
  <2>2. FoldedSoFar(<<>>, entries, 0, version)
    BY <2>1 DEF FoldedSoFar
  <2> QED BY <1>7, <2>2
<1>9. ASSUME NEW k \in Nat, k \in S PROVE k + 1 \in S
  <2> HIDE DEF Fine
  <2> SUFFICES ASSUME k + 1 <= last PROVE Fine(k + 1)
    BY <1>9
  <2>1. k + 1 \in 1 .. last /\ (k + 1) - 1 = k /\ k <= last
    BY <1>1
  <2>2. Fine(k)
    BY <1>9, <2>1
  <2>3. FoldedSoFar(folded[k], entries, (k + 1) - 1, version)
    BY <2>1, <2>2 DEF Fine
  <2>4. FoldedSoFar(After(k + 1, folded[k]), entries, k + 1, version)
    BY <2>1, <2>3, FeedStep DEF After, last
  <2>5. folded[k + 1] = After(k + 1, folded[k])
    BY <1>7, <2>1
  <2> QED BY <2>4, <2>5 DEF Fine
<1>10. Fine(last)
  <2>1. \A k \in Nat : k \in S
    <3> HIDE DEF S
    <3> QED BY <1>8, <1>9, Inductive
  <2> HIDE DEF Fine
  <2> QED BY <1>1, <2>1
<1> QED BY <1>2, <1>10 DEF last

\* One row to each vulnerability of the version, with the highest of its scores.
LEMMA FeedHasOneRowEach ==
  ASSUME NEW entries, IsFeed(entries), NEW version
  PROVE  V!OneRowEach(entries, version)
<1> DEFINE rows == V!query(entries, version)
           Id(e) == V!canonicalCVEID(e).id
           Affects(e) == V!IsVersionAffected(version, e.affected)
           Stating(id) == { e \in V!Range(entries) : Id(e) = id /\ Affects(e) }
           ids == { Id(e) : e \in V!Range(entries) }
           Of(id) == { i \in DOMAIN rows : rows[i].id = id }
<1>1. DOMAIN entries = 1 .. Len(entries)
      /\ V!Range(entries) = { entries[i] : i \in 1 .. Len(entries) }
  BY DEF IsFeed, V!Range
<1>2. /\ rows \in Seq(RowOf(entries))
      /\ \A i, j \in DOMAIN rows : rows[i].id = rows[j].id => i = j
      /\ \A i \in 1 .. Len(entries) : Affects(entries[i]) =>
           \E j \in DOMAIN rows :
             rows[j].id = Id(entries[i]) /\ rows[j].cvss >= V!extractCVSSScore(entries[i])
      /\ \A j \in DOMAIN rows :
           \E i \in 1 .. Len(entries) :
             /\ Affects(entries[i]) /\ rows[j].id = Id(entries[i])
             /\ rows[j].cvss = V!extractCVSSScore(entries[i])
  <2>1. FoldedSoFar(rows, entries, Len(entries), version)
    BY FeedIs
  <2> HIDE DEF rows
  <2> QED BY <2>1, Zenon DEF FoldedSoFar
<1>3. V!Range(rows) = { rows[j] : j \in DOMAIN rows }
  BY DEF V!Range
<1> HIDE DEF rows, Id, Affects
<1>4. \A e \in V!Range(entries) : Affects(e) =>
        \E j \in DOMAIN rows : rows[j].id = Id(e) /\ rows[j].cvss >= V!extractCVSSScore(e)
  BY <1>1, <1>2
<1>5. \A j \in DOMAIN rows :
        \E e \in V!Range(entries) : Affects(e) /\ rows[j].id = Id(e)
                                      /\ rows[j].cvss = V!extractCVSSScore(e)
  BY <1>1, <1>2
<1>6. ASSUME NEW id \in ids
      PROVE  V!Cardinality(Of(id)) = IF Stating(id) = {} THEN 0 ELSE 1
  <2>1. CASE Stating(id) = {}
    <3>1. Of(id) = {}
      BY <1>5, <2>1
    <3> HIDE DEF Of
    <3> QED BY <2>1, <3>1, SameCountInLookup, FS_EmptySet
  <2>2. CASE Stating(id) # {}
    <3>1. PICK e \in V!Range(entries) : Id(e) = id /\ Affects(e)
      BY <2>2
    <3>2. PICK j \in DOMAIN rows : rows[j].id = id
      BY <1>4, <3>1
    <3>3. Of(id) = {j}
      BY <1>2, <3>2
    <3> HIDE DEF Of
    <3> QED BY <2>2, <3>3, SameCountInLookup, FS_Singleton
  <2> QED BY <2>1, <2>2
<1>7. ASSUME NEW v \in V!Range(rows)
      PROVE  /\ v.id \in ids
             /\ \E e \in Stating(v.id) : v.cvss = V!extractCVSSScore(e)
             /\ \A e \in Stating(v.id) : v.cvss >= V!extractCVSSScore(e)
  <2>1. PICK j \in DOMAIN rows : v = rows[j]
    BY <1>3
  <2>2. PICK e \in V!Range(entries) : Affects(e) /\ v.id = Id(e) /\ v.cvss = V!extractCVSSScore(e)
    BY <1>5, <2>1
  <2>3. \A x \in Stating(v.id) : v.cvss >= V!extractCVSSScore(x)
    <3> SUFFICES ASSUME NEW x \in V!Range(entries), Id(x) = v.id, Affects(x)
                 PROVE  v.cvss >= V!extractCVSSScore(x)
      OBVIOUS
    <3>1. PICK i \in DOMAIN rows : rows[i].id = Id(x) /\ rows[i].cvss >= V!extractCVSSScore(x)
      BY <1>4
    <3>2. i = j
      BY <1>2, <2>1, <3>1
    <3> QED BY <2>1, <3>1, <3>2
  <2> QED BY <2>2, <2>3
<1> QED BY <1>6, <1>7, Zenon DEF V!OneRowEach, rows, Id, Affects

-----------------------------------------------------------------------------
(* The rows of a port.                                                     *)

\* Who may confirm a row: the distribution of the port's own banner, or else the
\* offline database.
Refines(port, answers) == port.suffix /\ answers.distro # Failed
Inherited(answers, id) ==
  /\ answers.upstream = Failed /\ answers.offline # Failed
  /\ \E w \in V!Range(answers.offline) :
       w.id = id /\ w.confidence = "distro-backport-confirmed"

\* What is known of a row of a port, before and after it is annotated.
RowSays(v, port, answers) ==
  /\ v.cvss \in Int
  /\ V!Confirms(port, answers, v.id) => v.confidence = "distro-backport-confirmed"
  /\ v.confidence = "distro-backport-confirmed" =>
       \/ V!Confirms(port, answers, v.id)
       \/ ~ Refines(port, answers) /\ Inherited(answers, v.id)
RowsOf(rows, port, answers) ==
  rows \in Seq(V!Range(rows)) /\ \A v \in V!Range(rows) : RowSays(v, port, answers)

\* What can be said of a row can be told apart.
LEMMA ConfidencesDiffer ==
  /\ V!Unsaid # "distro-backport-confirmed" /\ V!Potential # "distro-backport-confirmed"
  /\ "version-based" # "distro-backport-confirmed"
BY Zenon DEF V!Unsaid, V!Potential

LEMMA ElementsOf ==
  ASSUME NEW B, NEW s \in Seq(B)
  PROVE  /\ Len(s) \in Nat /\ DOMAIN s = 1 .. Len(s)
         /\ V!Range(s) = { s[i] : i \in 1 .. Len(s) }
         /\ s \in Seq(V!Range(s)) /\ V!Range(s) \subseteq B
<1>1. Len(s) \in Nat /\ DOMAIN s = 1 .. Len(s) /\ \A i \in 1 .. Len(s) : s[i] \in B
  OBVIOUS
<1>2. V!Range(s) = { s[i] : i \in 1 .. Len(s) }
  BY <1>1 DEF V!Range
<1>3. s \in Seq(V!Range(s))
  <2>1. s = [i \in 1 .. Len(s) |-> s[i]]
    OBVIOUS
  <2>2. \A i \in 1 .. Len(s) : s[i] \in V!Range(s)
    BY <1>2
  <2>3. [i \in 1 .. Len(s) |-> s[i]] \in [1 .. Len(s) -> V!Range(s)]
    BY <2>2
  <2> QED BY <1>1, <2>1, <2>3
<1> QED BY <1>1, <1>2, <1>3

LEMMA RefinedIs ==
  ASSUME NEW port, NEW answers, Refines(port, answers), NEW rows, IsRows(rows),
         IsRows(answers.distro)
  PROVE  /\ RowsOf(V!Refined(rows, answers.distro), port, answers)
         /\ \E n1 \in Nat : DOMAIN V!Refined(rows, answers.distro) = 1 .. n1
         /\ DOMAIN rows \subseteq DOMAIN V!Refined(rows, answers.distro)
<1> DEFINE distro == answers.distro
           new == { i \in DOMAIN distro : \A w \in V!Range(rows) : w.id # distro[i].id }
           more == V!Selected(distro, new)
           all == rows \o more
           Confirmed(v) == \E w \in V!Range(distro) : w.id = v.id
           B == V!Range(rows) \cup V!Range(distro)
           refined == V!Refined(rows, distro)
<1>1. refined = [i \in DOMAIN all |->
                   [id |-> all[i].id, feed |-> all[i].feed, title |-> all[i].title,
                    cvss |-> all[i].cvss,
                    confidence |-> IF Confirmed(all[i]) THEN "distro-backport-confirmed"
                                   ELSE V!Potential]]
  BY Zenon DEF V!Refined
<1>2. all \in Seq(B) /\ \A v \in B : v.cvss \in Int
  <2>1. rows \in Seq(B)
    <3>1. rows \in Seq(V!Range(rows))
      BY DEF IsRows
    <3> QED BY <3>1
  <2>2. distro \in Seq(V!Range(distro))
    BY DEF IsRows
  <2>3. more \in Seq(B)
    <3>1. new \in SUBSET DOMAIN distro
      OBVIOUS
    <3> DEFINE D == V!Range(distro)
    <3> HIDE DEF new, distro, D
    <3>2. more \in Seq(D)
      BY <2>2, <3>1, SelectedIs DEF D
    <3> HIDE DEF more
    <3> QED BY <3>2 DEF D
  <2>4. all \in Seq(B)
    <3> HIDE DEF more, B
    <3> QED BY <2>1, <2>3
  <2> QED BY <2>4 DEF IsRows
<1> HIDE DEF all, B, refined
<1>3. \A i \in DOMAIN all : all[i].cvss \in Int
  BY <1>2
<1>4. \A i \in DOMAIN all :
        /\ refined[i].id = all[i].id /\ refined[i].cvss = all[i].cvss
        /\ refined[i].confidence = IF Confirmed(all[i]) THEN "distro-backport-confirmed"
                                   ELSE V!Potential
  <2> HIDE DEF Confirmed
  <2> QED BY <1>1
<1>5. DOMAIN refined = DOMAIN all
  BY <1>1
<1>6. \E n1 \in Nat : DOMAIN all = 1 .. n1
  BY <1>2
<1>7. refined \in Seq({ refined[i] : i \in DOMAIN all })
  <2>1. refined = [i \in DOMAIN all |-> refined[i]]
    BY <1>1
  <2>2. [i \in DOMAIN all |-> refined[i]]
          \in [DOMAIN all -> { refined[i] : i \in DOMAIN all }]
    OBVIOUS
  <2>3. refined \in [DOMAIN all -> { refined[i] : i \in DOMAIN all }]
    BY <2>1, <2>2
  <2> QED BY <1>6, <2>3
<1>8. V!Range(refined) = { refined[i] : i \in DOMAIN all }
  BY <1>5, Zenon DEF V!Range
<1>9. ASSUME NEW v \in V!Range(refined)
      PROVE  RowSays(v, port, answers)
  <2>1. PICK i \in DOMAIN all : v = refined[i]
    BY <1>8
  <2>2. Confirmed(all[i]) <=> Confirmed(v)
    BY <1>4, <2>1
  <2>3. Confirmed(v) <=> V!Confirms(port, answers, v.id)
    BY DEF V!Confirms, Refines
  <2> HIDE DEF Confirmed
  <2>4. v.cvss \in Int /\ (v.confidence = "distro-backport-confirmed" <=> Confirmed(v))
    BY <1>3, <1>4, <2>1, <2>2, ConfidencesDiffer
  <2> QED BY <2>3, <2>4 DEF RowSays
<1>10. DOMAIN rows \subseteq DOMAIN all
  <2>1. rows \in Seq(V!Range(rows)) /\ distro \in Seq(V!Range(distro))
    BY DEF IsRows
  <2>2. more \in Seq(V!Range(distro))
    <3>1. new \in SUBSET DOMAIN distro
      OBVIOUS
    <3> DEFINE D == V!Range(distro)
    <3> HIDE DEF new, distro, D
    <3> QED BY <2>1, <3>1, SelectedIs DEF D
  <2> HIDE DEF more, distro
  <2> QED BY <2>1, <2>2 DEF all
<1> QED BY <1>5, <1>6, <1>7, <1>8, <1>9, <1>10 DEF RowsOf, refined

\* What three sources may answer.
IsAsked(answers) ==
  /\ IsAnswer(answers.upstream) /\ IsAnswer(answers.distro)
  /\ answers.offline = Failed \/ IsRows(answers.offline)

LEMMA FoundIsOfThePort ==
  ASSUME NEW port, NEW answers, IsAsked(answers), V!Found(port, answers) # Failed
  PROVE  RowsOf(V!Found(port, answers), port, answers)
<1> DEFINE upstream == IF answers.upstream = Failed THEN answers.offline ELSE answers.upstream
<1>1. V!Found(port, answers)
        = IF upstream # Failed /\ port.suffix /\ answers.distro # Failed
            THEN V!Refined(upstream, answers.distro) ELSE upstream
  BY DEF V!Found
<1>2. upstream = Failed \/ IsRows(upstream)
  BY DEF IsAsked, IsAnswer
<1>3. ASSUME upstream # Failed, NEW v \in V!Range(upstream),
             v.confidence = "distro-backport-confirmed"
      PROVE  Inherited(answers, v.id)
  <2>1. CASE answers.upstream = Failed
    BY <1>3, <2>1 DEF Inherited
  <2>2. CASE answers.upstream # Failed
    BY <1>3, <2>2, ConfidencesDiffer DEF IsAsked, IsAnswer
  <2> QED BY <2>1, <2>2
<1> HIDE DEF upstream
<1>4. CASE upstream # Failed /\ port.suffix /\ answers.distro # Failed
  <2>1. Refines(port, answers) /\ IsRows(upstream) /\ IsRows(answers.distro)
    BY <1>2, <1>4 DEF Refines, IsAsked, IsAnswer
  <2> QED BY <1>1, <1>4, <2>1, RefinedIs
<1>5. CASE ~ (upstream # Failed /\ port.suffix /\ answers.distro # Failed)
  <2>1. V!Found(port, answers) = upstream /\ IsRows(upstream) /\ upstream # Failed
    BY <1>1, <1>2, <1>5
  <2>2. ~ Refines(port, answers) /\ \A id : ~ V!Confirms(port, answers, id)
    BY <1>5, <2>1 DEF Refines, V!Confirms
  <2>3. \A v \in V!Range(upstream) : RowSays(v, port, answers)
    BY <1>3, <2>1, <2>2 DEF RowSays, IsRows
  <2> QED BY <2>1, <2>3 DEF IsRows, RowsOf
<1> QED BY <1>4, <1>5

\* Filtering and annotating keep rows what they are.
LEMMA AnnotatedIs ==
  ASSUME NEW port, NEW answers, NEW found, RowsOf(found, port, answers), NEW os
  PROVE  RowsOf(V!Annotated(V!FilterRelevantCVEs(found, os), os), port, answers)
<1> DEFINE kept == V!FilterRelevantCVEs(found, os)
           B == V!Range(found)
           rows == V!Annotated(kept, os)
<1>1. kept \in Seq(B)
  <2> DEFINE feeds == {"CVE", "GHSA"}
                        \cup IF os \in DOMAIN V!OwnFeeds THEN V!OwnFeeds[os] ELSE {}
             I == { i \in DOMAIN found : IF os = "unknown" THEN found[i].cvss >= 50
                                         ELSE found[i].feed \in feeds }
  <2>1. kept = V!Selected(found, I)
    BY Zenon DEF V!FilterRelevantCVEs
  <2>2. I \in SUBSET DOMAIN found
    OBVIOUS
  <2>3. found \in Seq(B)
    BY DEF RowsOf
  <2> HIDE DEF I, kept, B
  <2> QED BY <2>1, <2>2, <2>3, SelectedIs
<1> HIDE DEF kept, B
<1>2. DOMAIN kept = 1 .. Len(kept) /\ Len(kept) \in Nat /\ \A i \in DOMAIN kept : kept[i] \in B
  BY <1>1
<1>3. rows = [i \in DOMAIN kept |->
                [id |-> kept[i].id, cvss |-> kept[i].cvss,
                 severity |-> V!SeverityForCVSS(kept[i].cvss),
                 confidence |-> IF kept[i].confidence = V!Unsaid THEN "version-based"
                                ELSE kept[i].confidence,
                 note |-> V!Applicability(kept[i].title, os)]]
  BY Zenon DEF V!Annotated
<1> HIDE DEF rows
<1>4. \A i \in DOMAIN kept :
        /\ rows[i].id = kept[i].id /\ rows[i].cvss = kept[i].cvss
        /\ rows[i].confidence = "distro-backport-confirmed"
             <=> kept[i].confidence = "distro-backport-confirmed"
  BY <1>3, ConfidencesDiffer
<1>5. rows \in Seq({ rows[i] : i \in DOMAIN kept }) /\ DOMAIN rows = DOMAIN kept
  <2>1. rows = [i \in DOMAIN kept |-> rows[i]] /\ DOMAIN rows = DOMAIN kept
    BY <1>3
  <2>2. [i \in DOMAIN kept |-> rows[i]] \in [DOMAIN kept -> { rows[i] : i \in DOMAIN kept }]
    OBVIOUS
  <2>3. rows \in [DOMAIN kept -> { rows[i] : i \in DOMAIN kept }]
    BY <2>1, <2>2
  <2> QED BY <1>2, <2>1, <2>3
<1>6. V!Range(rows) = { rows[i] : i \in DOMAIN kept }
  BY <1>5, Zenon DEF V!Range
<1>7. ASSUME NEW v \in V!Range(rows)
      PROVE  RowSays(v, port, answers)
  <2>1. PICK i \in DOMAIN kept : v = rows[i]
    BY <1>6
  <2>2. kept[i] \in V!Range(found)
    BY <1>2 DEF B
  <2>3. RowSays(kept[i], port, answers)
    BY <2>2, Zenon DEF RowsOf
  <2> QED BY <1>4, <2>1, <2>3 DEF RowSays
<1> QED BY <1>5, <1>6, <1>7 DEF RowsOf, rows, kept

\* The sorted rows are the rows, each in the place the sort gives it.
SortOf(sorted, rows, better, B) ==
  \E place :
    /\ Sorts(place, Len(rows), better)
    /\ sorted \in Seq(B)
    /\ Len(sorted) = Len(rows)
    /\ DOMAIN sorted = 1 .. Len(rows)
    /\ \A k \in 1 .. Len(rows) : sorted[k] = rows[place[k]]

\* A sort of rows has the same rows.
LEMMA SortIs ==
  ASSUME NEW B, NEW rows \in Seq(B), NEW better, Sortable(DOMAIN rows, better)
  PROVE  SortOf(V!StableSort(rows, better), rows, better, B)
<1>1. PICK place : /\ Sorts(place, Len(rows), better)
                   /\ V!StableSort(rows, better) = [k \in 1 .. Len(rows) |-> rows[place[k]]]
  BY StableSortIs
<1> DEFINE sorted == V!StableSort(rows, better)
<1>2. Len(rows) \in Nat /\ \A i \in 1 .. Len(rows) : rows[i] \in B
  OBVIOUS
<1>3. \A k \in 1 .. Len(rows) : place[k] \in 1 .. Len(rows)
  BY <1>1 DEF Sorts
<1>4. sorted = [k \in 1 .. Len(rows) |-> rows[place[k]]]
  BY <1>1
<1> HIDE DEF sorted
<1>5. /\ DOMAIN sorted = 1 .. Len(rows)
      /\ \A k \in 1 .. Len(rows) : sorted[k] = rows[place[k]] /\ sorted[k] \in B
  BY <1>2, <1>3, <1>4
<1>6. sorted \in [1 .. Len(rows) -> B]
  <2>1. sorted = [k \in 1 .. Len(rows) |-> sorted[k]]
    BY <1>4
  <2> QED BY <1>5, <2>1
<1>7. sorted \in Seq(B) /\ Len(sorted) = Len(rows)
  BY <1>2, <1>6
<1>8. SortOf(sorted, rows, better, B)
  BY <1>1, <1>5, <1>7 DEF SortOf
<1> QED BY <1>8 DEF sorted

\* Without exploit intelligence the rows come by their score.
LEMMA ByScoreIs ==
  ASSUME NEW port, NEW answers, NEW rows, RowsOf(rows, port, answers)
  PROVE  /\ RowsOf(V!ByScore(rows), port, answers)
         /\ \A k, l \in DOMAIN V!ByScore(rows) :
              k < l => V!ByScore(rows)[k].cvss >= V!ByScore(rows)[l].cvss
<1> DEFINE better == { p \in (DOMAIN rows) \X (DOMAIN rows) : rows[p[1]].cvss > rows[p[2]].cvss }
           sorted == V!ByScore(rows)
           B == V!Range(rows)
<1>1. rows \in Seq(B)
  BY DEF RowsOf
<1>2. \A v \in B : RowSays(v, port, answers) /\ v.cvss \in Int
  BY Zenon DEF RowsOf, RowSays
<1> HIDE DEF B
<1>3. DOMAIN rows = 1 .. Len(rows) /\ \A i \in 1 .. Len(rows) : rows[i] \in B /\ rows[i].cvss \in Int
  BY <1>1, <1>2
<1>4. \A i, j \in DOMAIN rows : <<i, j>> \in better <=> rows[i].cvss > rows[j].cvss
  OBVIOUS
<1>5. sorted = V!StableSort(rows, better)
  BY Zenon DEF V!ByScore
<1> HIDE DEF better, sorted
<1>6. Sortable(DOMAIN rows, better)
  BY <1>3, <1>4 DEF Sortable
<1>7. PICK place : /\ Sorts(place, Len(rows), better) /\ sorted \in Seq(B)
                   /\ Len(sorted) = Len(rows) /\ DOMAIN sorted = 1 .. Len(rows)
                   /\ \A k \in 1 .. Len(rows) : sorted[k] = rows[place[k]]
  <2>1. SortOf(sorted, rows, better, B)
    BY <1>1, <1>5, <1>6, SortIs
  <2> QED BY <2>1 DEF SortOf
<1>8. \A k, l \in DOMAIN sorted : k < l => sorted[k].cvss >= sorted[l].cvss
  <2> SUFFICES ASSUME NEW k \in 1 .. Len(rows), NEW l \in 1 .. Len(rows), k < l
               PROVE  sorted[k].cvss >= sorted[l].cvss
    BY <1>7
  <2>1. place[k] \in 1 .. Len(rows) /\ place[l] \in 1 .. Len(rows)
        /\ <<place[l], place[k]>> \notin better
    BY <1>7 DEF Sorts
  <2> QED BY <1>3, <1>4, <1>7, <2>1
<1>9. RowsOf(sorted, port, answers)
  <2>1. sorted \in Seq(V!Range(sorted)) /\ V!Range(sorted) \subseteq B
    BY <1>7, ElementsOf
  <2> QED BY <1>2, <2>1, Zenon DEF RowsOf
<1> QED BY <1>8, <1>9 DEF sorted

\* The headline of rows that come by score is the worst that applies.
LEMMA HeadlineIs ==
  ASSUME NEW B, NEW rows \in Seq(B), rows # <<>>,
         \A k \in DOMAIN rows : rows[k].cvss \in Int,
         \A k, l \in DOMAIN rows : k < l => rows[k].cvss >= rows[l].cvss
  PROVE  \E v \in V!Range(rows) :
           /\ V!RiskSeverity(rows) = v.severity
           /\ (\E w \in V!Range(rows) : w.note = V!Unsaid) => v.note = V!Unsaid
           /\ \A w \in V!Range(rows) : w.note = V!Unsaid => w.cvss <= v.cvss
<1> DEFINE applicable == { i \in DOMAIN rows : rows[i].note = V!Unsaid }
           least == CHOOSE i \in applicable : \A j \in applicable : i <= j
<1>1. V!RiskSeverity(rows) = IF applicable = {} THEN rows[1].severity ELSE rows[least].severity
  BY Zenon DEF V!RiskSeverity
<1>2. V!Range(rows) = { rows[i] : i \in DOMAIN rows }
  BY DEF V!Range
<1>3. CASE applicable = {}
  <2>1. 1 \in DOMAIN rows
    OBVIOUS
  <2>2. \A w \in V!Range(rows) : w.note # V!Unsaid
    BY <1>2, <1>3
  <2>3. rows[1] \in V!Range(rows) /\ V!RiskSeverity(rows) = rows[1].severity
    BY <1>1, <1>2, <1>3, <2>1
  <2> HIDE DEF applicable, least
  <2> QED BY <2>2, <2>3
<1>4. CASE applicable # {}
  <2>1. applicable \in SUBSET Nat
    OBVIOUS
  <2>2. \E i \in applicable : \A j \in applicable : i <= j
    <3> HIDE DEF applicable
    <3> QED BY <1>4, <2>1, LeastNumber
  <2>3. least \in applicable /\ \A j \in applicable : least <= j
    <3> HIDE DEF applicable
    <3> QED BY <2>2
  <2>4. V!RiskSeverity(rows) = rows[least].severity
    BY <1>1, <1>4
  <2> HIDE DEF least
  <2>5. least \in DOMAIN rows /\ rows[least].note = V!Unsaid /\ least \in Nat
    BY <2>3
  <2>6. ASSUME NEW w \in V!Range(rows), w.note = V!Unsaid PROVE w.cvss <= rows[least].cvss
    <3>1. PICK j \in DOMAIN rows : w = rows[j]
      BY <1>2
    <3>2. least <= j /\ j \in Nat
      BY <2>3, <2>6, <3>1
    <3> QED BY <2>5, <3>1, <3>2
  <2>7. rows[least] \in V!Range(rows)
    BY <1>2, <2>5
  <2> HIDE DEF applicable
  <2> QED BY <2>4, <2>5, <2>6, <2>7
<1> QED BY <1>3, <1>4

LEMMA WorstIsTheHeadline ==
  ASSUME NEW port, NEW answers, IsAsked(answers)
  PROVE  /\ V!HeadlineIsTheWorst(port, answers)
         /\ \A v \in V!Range(V!Assess(port, answers, NoIntel).rows) : RowSays(v, port, answers)
<1> DEFINE found == V!Found(port, answers)
           rows == V!ByScore(V!Annotated(V!FilterRelevantCVEs(found, port.os), port.os))
           assessed == V!Assess(port, answers, NoIntel)
<1>1. assessed = CASE port.version = <<>> ->
                        [status |-> "not_assessed", rows |-> <<>>, risk |-> V!Unsaid]
                   [] port.version # <<>> /\ found = Failed ->
                        [status |-> "error", rows |-> <<>>, risk |-> V!Unsaid]
                   [] OTHER ->
                        IF rows = <<>>
                          THEN [status |-> "no_match", rows |-> <<>>, risk |-> V!Unsaid]
                          ELSE [status |-> "matched", rows |-> rows,
                                risk |-> V!RiskSeverity(rows)]
  BY Zenon DEF V!Assess
<1> HIDE DEF found, rows, assessed
<1>2. \/ assessed.status # "matched" /\ assessed.rows = <<>>
      \/ /\ found # Failed /\ rows # <<>>
         /\ assessed.rows = rows /\ assessed.risk = V!RiskSeverity(rows)
  <2>1. CASE port.version = <<>>
    BY <1>1, <2>1
  <2>2. CASE port.version # <<>> /\ found = Failed
    BY <1>1, <2>2
  <2>3. CASE port.version # <<>> /\ found # Failed
    BY <1>1, <2>3
  <2> QED BY <2>1, <2>2, <2>3
<1>3. CASE assessed.status # "matched" /\ assessed.rows = <<>>
  <2>1. V!Range(<<>>) = {}
    BY DEF V!Range
  <2>2. V!HeadlineIsTheWorst(port, answers)
    BY <1>3, Zenon DEF V!HeadlineIsTheWorst, assessed
  <2> QED BY <1>3, <2>1, <2>2, Zenon DEF assessed
<1>4. CASE /\ found # Failed /\ rows # <<>>
           /\ assessed.rows = rows /\ assessed.risk = V!RiskSeverity(rows)
  <2>1. RowsOf(found, port, answers)
    BY <1>4, FoundIsOfThePort DEF found
  <2>2. /\ RowsOf(rows, port, answers)
        /\ \A k, l \in DOMAIN rows : k < l => rows[k].cvss >= rows[l].cvss
    BY <2>1, AnnotatedIs, ByScoreIs DEF rows
  <2>3. /\ rows \in Seq(V!Range(rows)) /\ \A k \in DOMAIN rows : rows[k] \in V!Range(rows)
        /\ \A v \in V!Range(rows) : v.cvss \in Int
        /\ \A v \in V!Range(rows) : RowSays(v, port, answers)
    <3>1. /\ rows \in Seq(V!Range(rows)) 
          /\ \A v \in V!Range(rows) : v.cvss \in Int
          /\ \A v \in V!Range(rows) : RowSays(v, port, answers)
      BY <2>2, Zenon DEF RowsOf, RowSays
    <3>2. \A k \in DOMAIN rows : rows[k] \in V!Range(rows)
      BY DEF V!Range
    <3> QED BY <3>1, <3>2, Zenon
  <2>4. \A k \in DOMAIN rows : rows[k].cvss \in Int
    BY <2>3
  <2>5. \E v \in V!Range(rows) :
          /\ V!RiskSeverity(rows) = v.severity
          /\ (\E w \in V!Range(rows) : w.note = V!Unsaid) => v.note = V!Unsaid
          /\ \A w \in V!Range(rows) : w.note = V!Unsaid => w.cvss <= v.cvss
    BY <1>4, <2>2, <2>3, <2>4, HeadlineIs
  <2>6. V!HeadlineIsTheWorst(port, answers)
    BY <1>4, <2>5, Zenon DEF V!HeadlineIsTheWorst, assessed
  <2> QED BY <1>4, <2>3, <2>6, Zenon DEF assessed
<1> QED BY <1>2, <1>3, <1>4

\* What an earlier port said of the database's rows is what its distribution said.
LEMMA OfflineIs ==
  ASSUME NEW ports, NEW answers, NEW db, IsPorts(ports, answers, db), db # Failed,
         NEW k \in DOMAIN ports
  PROVE  /\ IsRows(V!OfflineAt(k, ports, answers, db))
         /\ answers[k].upstream = Failed =>
              \A v \in V!Range(V!OfflineAt(k, ports, answers, db)) :
                v.confidence = "distro-backport-confirmed"
                  => V!Inherits(k, ports, answers, db, v.id)
<1> DEFINE rows == db[ports[k].software]
           sayers == { l \in 1 .. k - 1 : /\ ports[l].software = ports[k].software
                                          /\ V!SaysForGood(ports[l], answers[l], rows) }
           last == CHOOSE l \in sayers : \A j \in sayers : j <= l
           refined == V!Refined(rows, answers[last].distro)
           said == [i \in DOMAIN rows |-> refined[i]]
           offline == V!OfflineAt(k, ports, answers, db)
<1>1. offline = IF sayers = {} THEN rows ELSE said
  BY Zenon DEF V!OfflineAt
<1>2. IsRows(rows) /\ DOMAIN ports \subseteq Nat /\ k \in Nat
      /\ \A l \in 1 .. k - 1 : l \in DOMAIN ports
  BY DEF IsPorts, Listed
<1> HIDE DEF offline, rows
<1>3. CASE sayers = {}
  <2>1. offline = rows
    BY <1>1, <1>3
  <2>2. ASSUME answers[k].upstream = Failed, NEW v \in V!Range(rows),
               v.confidence = "distro-backport-confirmed"
        PROVE  V!Inherits(k, ports, answers, db, v.id)
    BY <2>2 DEF V!Inherits, rows
  <2> QED BY <1>2, <2>1, <2>2 DEF offline
<1>4. CASE sayers # {}
  <2>1. last \in sayers
    <3> DEFINE S == { d \in Nat : k - d \in sayers }
    <3>1. S \in SUBSET Nat /\ S # {}
      <4>1. PICK l \in sayers : TRUE
        BY <1>4
      <4>2. k - l \in Nat /\ k - (k - l) = l
        BY <1>2
      <4> QED BY <4>1, <4>2
    <3>2. PICK d \in S : \A e \in S : d <= e
      BY <3>1, LeastNumber
    <3>3. k - d \in sayers /\ \A j \in sayers : j <= k - d
      <4>1. ASSUME NEW j \in sayers PROVE j <= k - d
        <5>1. j \in Nat /\ k - j \in Nat /\ k - (k - j) = j /\ d \in Nat
          BY <1>2
        <5>2. k - j \in S
          BY <5>1
        <5> QED BY <1>2, <3>2, <5>1, <5>2
      <4> QED BY <4>1
    <3> HIDE DEF sayers, S
    <3> QED BY <3>3
  <2> HIDE DEF last
  <2>2. /\ last \in 1 .. k - 1 /\ ports[last].software = ports[k].software
        /\ answers[last].upstream = Failed /\ ports[last].suffix
        /\ answers[last].distro # Failed
    BY <2>1 DEF V!SaysForGood
  <2>3. Refines(ports[last], answers[last]) /\ IsRows(answers[last].distro)
    BY <1>2, <2>2 DEF Refines, IsPorts, IsAnswer
  <2>4. /\ RowsOf(refined, ports[last], answers[last])
        /\ DOMAIN rows \subseteq DOMAIN refined
    BY <1>2, <2>3, RefinedIs
  <2> HIDE DEF refined, sayers
  <2>5. \E n1 \in Nat : DOMAIN rows = 1 .. n1
    BY <1>2 DEF IsRows
  <2>6. offline = said
    BY <1>1, <1>4
  <2>7. \A i \in DOMAIN rows : refined[i] \in V!Range(refined)
    BY <2>4 DEF V!Range
  <2>8. DOMAIN said = DOMAIN rows /\ \A i \in DOMAIN rows : said[i] = refined[i]
    OBVIOUS
  <2>9. V!Range(said) = { said[i] : i \in DOMAIN rows }
    BY <2>8, Zenon DEF V!Range
  <2>10. said \in Seq({ said[i] : i \in DOMAIN rows })
    <3>1. said \in [DOMAIN rows -> { said[i] : i \in DOMAIN rows }]
      OBVIOUS
    <3> QED BY <2>5, <3>1
  <2> HIDE DEF said
  <2>11. \A v \in V!Range(said) : v \in V!Range(refined) /\ RowSays(v, ports[last], answers[last])
    BY <2>4, <2>7, <2>8, <2>9 DEF RowsOf
  <2>12. IsRows(said)
    BY <2>9, <2>10, <2>11 DEF IsRows, RowSays
  <2>13. ASSUME answers[k].upstream = Failed, NEW v \in V!Range(said),
                v.confidence = "distro-backport-confirmed"
         PROVE  V!Inherits(k, ports, answers, db, v.id)
    <3>1. V!Confirms(ports[last], answers[last], v.id)
      BY <2>3, <2>11, <2>13 DEF RowSays
    <3> QED BY <2>2, <2>13, <3>1 DEF V!Inherits
  <2> QED BY <2>6, <2>12, <2>13 DEF offline
<1> QED BY <1>3, <1>4

LEMMA PortsAreAsAnswered ==
  ASSUME NEW ports, NEW answers, NEW db, IsPorts(ports, answers, db), NEW k \in DOMAIN ports
  PROVE  V!PortAsAnswered(k, ports, answers, db)
<1> DEFINE asked == [upstream |-> answers[k].upstream, distro |-> answers[k].distro,
                     offline |-> V!OfflineAt(k, ports, answers, db)]
<1>1. /\ asked.upstream = answers[k].upstream /\ asked.distro = answers[k].distro
      /\ asked.offline = V!OfflineAt(k, ports, answers, db)
  OBVIOUS
<1>2. db = Failed => asked.offline = Failed
  BY DEF V!OfflineAt
<1> HIDE DEF asked
<1>3. IsAsked(asked)
  BY <1>1, <1>2, OfflineIs DEF IsAsked, IsPorts
<1>4. \A id : V!Confirms(ports[k], asked, id) <=> V!Confirms(ports[k], answers[k], id)
  BY <1>1 DEF V!Confirms
<1>5. \A id : Inherited(asked, id) => V!Inherits(k, ports, answers, db, id)
  BY <1>1, <1>2, OfflineIs DEF Inherited
<1>6. /\ V!HeadlineIsTheWorst(ports[k], asked)
      /\ \A v \in V!Range(V!Assess(ports[k], asked, NoIntel).rows) : RowSays(v, ports[k], asked)
  BY <1>3, WorstIsTheHeadline
<1>7. ASSUME NEW v, RowSays(v, ports[k], asked)
      PROVE  /\ V!Confirms(ports[k], answers[k], v.id)
                  => v.confidence = "distro-backport-confirmed"
             /\ v.confidence = "distro-backport-confirmed" =>
                  \/ V!Confirms(ports[k], answers[k], v.id)
                  \/ /\ ~ (ports[k].suffix /\ answers[k].distro # Failed)
                     /\ V!Inherits(k, ports, answers, db, v.id)
  BY <1>1, <1>4, <1>5, <1>7 DEF RowSays, Refines
<1> QED BY <1>6, <1>7, Zenon DEF V!PortAsAnswered, asked

\* Known to be exploited, then likely to be, then the score: one can sort by it.
LEMMA UrgencySorts ==
  ASSUME NEW I, NEW x, NEW p, NEW q, NEW better,
         \A i \in I : x[i] \in BOOLEAN /\ p[i] \in Int /\ q[i] \in Int,
         \A i, j \in I : <<i, j>> \in better <=>
           \/ x[i] # x[j] /\ x[i]
           \/ x[i] = x[j] /\ p[i] # p[j] /\ p[i] > p[j]
           \/ x[i] = x[j] /\ p[i] = p[j] /\ q[i] > q[j]
  PROVE  Sortable(I, better)
<1>1. ASSUME NEW i \in I, NEW j \in I, <<i, j>> \in better PROVE <<j, i>> \notin better
  BY <1>1
<1>2. ASSUME NEW i \in I, NEW j \in I, NEW k \in I,
             <<i, j>> \notin better, <<j, k>> \notin better
      PROVE  <<i, k>> \notin better
  BY <1>2
<1> QED BY <1>1, <1>2 DEF Sortable

LEMMA RankingKeepsRows ==
  ASSUME NEW rows, NEW intel, IsRanking(rows, intel)
  PROVE  V!RankedByUrgency(rows, intel)
<1> DEFINE better == { p \in (DOMAIN rows) \X (DOMAIN rows) :
                         V!MoreUrgent(rows[p[1]], rows[p[2]], intel) }
           ranked == V!PrioritizeExploitability(rows, intel)
           B == V!Range(rows)
           exploited == [i \in DOMAIN rows |-> V!Exploited(rows[i], intel)]
           likely == [i \in DOMAIN rows |-> V!EPSS(rows[i], intel)]
           score == [i \in DOMAIN rows |-> rows[i].cvss]
<1>1. /\ rows \in Seq(B) /\ \A i \in DOMAIN rows : rows[i] \in B /\ rows[i].cvss \in Int
      /\ DOMAIN rows = 1 .. Len(rows) /\ Len(rows) \in Nat
  <2>1. rows \in Seq(B) /\ \A v \in B : v.cvss \in Int
    BY DEF IsRanking
  <2> HIDE DEF B
  <2> QED BY <2>1
<1>2. \A i, j \in DOMAIN rows :
        <<i, j>> \in better <=> V!MoreUrgent(rows[i], rows[j], intel)
  OBVIOUS
<1>3. \A i \in DOMAIN rows :
        exploited[i] \in BOOLEAN /\ likely[i] \in Int /\ score[i] \in Int
  BY <1>1 DEF V!Exploited, V!EPSS, IsRanking
<1>4. \A i, j \in DOMAIN rows : V!MoreUrgent(rows[i], rows[j], intel) <=>
        \/ exploited[i] # exploited[j] /\ exploited[i]
        \/ exploited[i] = exploited[j] /\ likely[i] # likely[j] /\ likely[i] > likely[j]
        \/ exploited[i] = exploited[j] /\ likely[i] = likely[j] /\ score[i] > score[j]
  <2> SUFFICES ASSUME NEW i \in DOMAIN rows, NEW j \in DOMAIN rows
               PROVE  V!MoreUrgent(rows[i], rows[j], intel) <=>
                 \/ exploited[i] # exploited[j] /\ exploited[i]
                 \/ exploited[i] = exploited[j] /\ likely[i] # likely[j] /\ likely[i] > likely[j]
                 \/ exploited[i] = exploited[j] /\ likely[i] = likely[j] /\ score[i] > score[j]
    OBVIOUS
  <2>1. /\ exploited[i] = V!Exploited(rows[i], intel) /\ exploited[j] = V!Exploited(rows[j], intel)
        /\ likely[i] = V!EPSS(rows[i], intel) /\ likely[j] = V!EPSS(rows[j], intel)
        /\ score[i] = rows[i].cvss /\ score[j] = rows[j].cvss
    OBVIOUS
  <2> HIDE DEF exploited, likely, score, better, ranked, B
  <2>2. CASE exploited[i] # exploited[j]
    BY <1>3, <2>1, <2>2 DEF V!MoreUrgent
  <2>3. CASE exploited[i] = exploited[j] /\ likely[i] # likely[j]
    BY <1>3, <2>1, <2>3 DEF V!MoreUrgent
  <2>4. CASE exploited[i] = exploited[j] /\ likely[i] = likely[j]
    BY <1>3, <2>1, <2>4 DEF V!MoreUrgent
  <2> QED BY <2>2, <2>3, <2>4
<1>5. ranked = V!StableSort(rows, better)
  BY Zenon DEF V!PrioritizeExploitability
<1> HIDE DEF better, ranked, B, exploited, likely, score
<1>6. Sortable(DOMAIN rows, better)
  <2> DEFINE I == DOMAIN rows
  <2>1. \A i \in I : exploited[i] \in BOOLEAN /\ likely[i] \in Int /\ score[i] \in Int
    BY <1>3
  <2>2. \A i, j \in I : <<i, j>> \in better <=>
          \/ exploited[i] # exploited[j] /\ exploited[i]
          \/ exploited[i] = exploited[j] /\ likely[i] # likely[j] /\ likely[i] > likely[j]
          \/ exploited[i] = exploited[j] /\ likely[i] = likely[j] /\ score[i] > score[j]
    BY <1>2, <1>4
  <2> HIDE DEF I
  <2>3. Sortable(I, better)
    BY <2>1, <2>2, UrgencySorts
  <2> QED BY <2>3 DEF I
<1>7. PICK place : /\ Sorts(place, Len(rows), better) /\ ranked \in Seq(B)
                   /\ Len(ranked) = Len(rows) /\ DOMAIN ranked = 1 .. Len(rows)
                   /\ \A k \in 1 .. Len(rows) : ranked[k] = rows[place[k]]
  <2>1. rows \in Seq(B)
    BY <1>1
  <2>2. SortOf(ranked, rows, better, B)
    BY <1>5, <1>6, <2>1, SortIs
  <2> QED BY <2>2 DEF SortOf
<1>8. /\ place \in [1 .. Len(rows) -> 1 .. Len(rows)]
      /\ \A i \in 1 .. Len(rows) : \E k \in 1 .. Len(rows) : place[k] = i
      /\ \A k, l \in 1 .. Len(rows) : place[k] = place[l] => k = l
      /\ \A k, l \in 1 .. Len(rows) : k < l => <<place[l], place[k]>> \notin better
  BY <1>7 DEF Sorts
<1>9. ASSUME NEW v
      PROVE  V!Cardinality({ i \in DOMAIN ranked : ranked[i] = v })
               = V!Cardinality({ i \in DOMAIN rows : rows[i] = v })
  <2> DEFINE from == { k \in 1 .. Len(rows) : ranked[k] = v }
             to == { i \in 1 .. Len(rows) : rows[i] = v }
             move == [k \in from |-> place[k]]
  <2>1. \A k \in from : place[k] \in to
    BY <1>7, <1>8
  <2>2. \A i \in to : \E k \in from : place[k] = i
    BY <1>7, <1>8
  <2>3. \A k, l \in from : place[k] = place[l] => k = l
    BY <1>8
  <2>4. IsFiniteSet(from)
    <3>1. IsFiniteSet(1 .. Len(rows)) /\ from \in SUBSET (1 .. Len(rows))
      BY <1>1, FS_Interval
    <3> HIDE DEF from
    <3> QED BY <3>1, FS_Subset
  <2> HIDE DEF from, to
  <2>5. move \in Bijection(from, to)
    <3>1. move \in [from -> to]
      BY <2>1
    <3>2. \A k \in from : move[k] = place[k]
      OBVIOUS
    <3> HIDE DEF move
    <3> QED BY <2>2, <2>3, <3>1, <3>2 DEF Bijection, Injection, Surjection, IsInjective
  <2>6. Cardinality(to) = Cardinality(from)
    BY <2>4, <2>5, FS_Bijection DEF ExistsBijection
  <2> QED BY <1>1, <1>7, <2>6, SameCountInLookup DEF from, to
<1>10. ASSUME NEW i \in DOMAIN ranked, NEW j \in DOMAIN ranked,
              ranked[i].id \notin intel.kev, ranked[j].id \in intel.kev
       PROVE  j < i
  <2>1. /\ i \in 1 .. Len(rows) /\ j \in 1 .. Len(rows)
        /\ place[i] \in DOMAIN rows /\ place[j] \in DOMAIN rows
        /\ rows[place[i]] = ranked[i] /\ rows[place[j]] = ranked[j]
    BY <1>1, <1>7, <1>8
  <2>2. ~ exploited[place[i]] /\ exploited[place[j]]
    BY <1>10, <2>1 DEF exploited, V!Exploited
  <2>3. <<place[j], place[i]>> \in better
    BY <1>2, <1>4, <2>1, <2>2
  <2>4. ~ (i < j)
    BY <1>8, <2>1, <2>3
  <2>5. i # j
    BY <1>10
  <2> QED BY <1>1, <2>1, <2>4, <2>5
<1> QED BY <1>7, <1>9, <1>10, Zenon DEF V!RankedByUrgency, ranked

\* Multiples of size up to a length, and then that length.
LEMMA CoverIs ==
  ASSUME NEW size \in Nat \ {0}, NEW length \in Nat \ {0}
  PROVE  LET last == (length + size - 1) \div size
         IN  /\ last \in Nat \ {0} /\ last * size >= length
             /\ \A k \in Nat : k < last => k * size < length
             /\ \A k \in Nat : k * size \in Nat /\ (k + 1) * size = k * size + size
<1> DEFINE top == length + size - 1
           last == top \div size
<1>1. top \in Nat
  OBVIOUS
<1>2. last \in Nat /\ size * last <= top /\ top < size * last + size
  <2> HIDE DEF top
  <2>1. top = size * (top \div size) + (top % size) /\ top % size \in 0 .. (size - 1)
        /\ top \div size \in Nat
    BY <1>1
  <2> QED BY <1>1, <2>1
<1>3. \A k \in Nat : k * size = size * k /\ size * k \in Nat
                     /\ (k + 1) * size = k * size + size
  OBVIOUS
<1> HIDE DEF last
<1>4. last * size >= length
  BY <1>2, <1>3 DEF top
<1>5. last # 0
  <2>1. size * 0 = 0
    OBVIOUS
  <2> QED BY <1>4, <1>3, <1>2, <2>1
<1>6. ASSUME NEW k \in Nat, k < last PROVE k * size < length
  <2>1. k + 1 <= last
    BY <1>2, <1>6
  <2>2. PICK d \in Nat : last = (k + 1) + d
    BY <1>2, <2>1
  <2>3. size * last = size * (k + 1) + size * d /\ size * d \in Nat
    BY <2>2
  <2>4. size * (k + 1) = k * size + size
    BY <1>3
  <2>5. k * size \in Nat
    BY <1>3
  <2> HIDE DEF top
  <2>6. k * size + size <= top
    BY <1>1, <1>2, <2>3, <2>4, <2>5
  <2> QED BY <2>5, <2>6 DEF top
<1> QED BY <1>2, <1>3, <1>4, <1>5, <1>6 DEF last, top

\* Both modules flatten a sequence of sequences alike.
LEMMA LookupPiecesJoin ==
  ASSUME NEW B, NEW payload \in Seq(B), NEW last, NEW off, Pieces(off, last, Len(payload)),
         NEW chunks, chunks = [k \in 1 .. last |-> SubSeq(payload, off[k - 1] + 1, off[k])]
  PROVE  V!FlattenSeq(chunks) = payload
<1>1. V!FlattenSeq(chunks) = Frag!FlattenSeq(chunks)
  BY Zenon DEF V!FlattenSeq, Frag!FlattenSeq
<1> QED BY <1>1, PiecesJoin

\* The requests for predictions ask about every identifier once.
LEMMA RequestsAreAll ==
  ASSUME NEW B, NEW ids \in Seq(B), NEW size \in Nat \ {0}
  PROVE  V!AsksOnce(ids, size)
<1> DEFINE length == Len(ids)
           last == (length + size - 1) \div size
           Upto(k) == IF k > length THEN length ELSE k
           off == [k \in 0 .. last |-> Upto(k * size)]
           chunks == V!fetchEPSS(ids, size)
<1>1. length \in Nat
  OBVIOUS
<1>2. chunks = [b \in 1 .. last |-> SubSeq(ids, (b - 1) * size + 1, Upto(b * size))]
  BY Zenon DEF V!fetchEPSS
<1>3. CASE length = 0
  <2>1. (length + size - 1) = size - 1 /\ (size - 1) \div size = 0
    BY <1>3
  <2>2. last = 0
    BY <2>1
  <2>3. chunks = <<>> /\ DOMAIN chunks = {} /\ ids = <<>>
    <3> HIDE DEF last, chunks
    <3>1. DOMAIN chunks = 1 .. last /\ chunks = [b \in 1 .. last |-> chunks[b]]
      BY <1>2
    <3>2. 1 .. last = {}
      BY <2>2
    <3>3. ids = <<>>
      BY <1>3
    <3> QED BY <3>1, <3>2, <3>3
  <2>4. V!FlattenSeq(chunks) = ids
    BY <2>3 DEF V!FlattenSeq
  <2> QED BY <2>3, <2>4, Zenon DEF V!AsksOnce
<1>4. CASE length # 0
  <2>1. /\ last \in Nat \ {0} /\ last * size >= length
        /\ \A k \in Nat : k < last => k * size < length
        /\ \A k \in Nat : k * size \in Nat /\ (k + 1) * size = k * size + size
    BY <1>1, <1>4, CoverIs
  <2>2. length \in Nat \ {0} /\ 0 * size = 0
    BY <1>1, <1>4
  <2> HIDE DEF length, last, chunks
  <2>3. \A k \in 0 .. last : k \in Nat /\ Upto(k * size) \in Nat /\ Upto(k * size) <= length
    BY <2>1, <2>2
  <2>4. off \in [0 .. last -> Nat] /\ \A k \in 0 .. last : off[k] = Upto(k * size)
    BY <2>3
  <2>5. 0 \in 0 .. last /\ last \in 0 .. last
    BY <2>1
  <2>6. off[0] = 0
    <3>1. Upto(0) = 0
      BY <2>2
    <3> HIDE DEF Upto, off
    <3> QED BY <2>2, <2>4, <2>5, <3>1
  <2>7. off[last] = length
    <3>1. Upto(last * size) = length
      BY <2>1, <2>2
    <3> HIDE DEF Upto, off
    <3> QED BY <2>4, <2>5, <3>1
  <2>8. ASSUME NEW k \in 1 .. last
        PROVE  /\ off[k - 1] = (k - 1) * size /\ off[k] = Upto(k * size)
               /\ off[k - 1] < off[k] /\ off[k] <= length
               /\ off[k] - off[k - 1] \in 1 .. size /\ off[k] \in Nat /\ off[k - 1] \in Nat
    <3>1. k - 1 \in Nat /\ k - 1 < last /\ k - 1 \in 0 .. last /\ k \in 0 .. last /\ (k - 1) + 1 = k
      BY <2>1
    <3>2. (k - 1) * size < length /\ (k - 1) * size \in Nat /\ k * size = (k - 1) * size + size
      BY <2>1, <3>1
    <3>3. Upto((k - 1) * size) = (k - 1) * size
      BY <2>2, <3>2
    <3>4. (k - 1) * size < Upto(k * size) /\ Upto(k * size) <= (k - 1) * size + size
          /\ Upto(k * size) <= length /\ Upto(k * size) \in Nat
      <4> DEFINE x == (k - 1) * size
                 y == k * size
      <4>1. x \in Nat /\ x < length /\ y = x + size
        BY <3>2
      <4> HIDE DEF x, y
      <4>2. x < Upto(y) /\ Upto(y) <= x + size /\ Upto(y) <= length /\ Upto(y) \in Nat
        BY <2>2, <4>1
      <4> QED BY <4>2 DEF x, y
    <3>5. off[k - 1] = (k - 1) * size /\ off[k] = Upto(k * size)
      <4> HIDE DEF Upto, off
      <4> QED BY <2>4, <3>1, <3>3
    <3> DEFINE x == (k - 1) * size
               y == Upto(k * size)
    <3>6. x \in Nat /\ y \in Nat /\ x < y /\ y <= x + size /\ y <= length
      BY <3>2, <3>4
    <3> HIDE DEF x, y, off, Upto
    <3>7. y - x \in 1 .. size
      BY <3>6
    <3> QED BY <3>5, <3>6, <3>7 DEF x, y
  <2> HIDE DEF off, Upto
  <2>9. chunks = [k \in 1 .. last |-> SubSeq(ids, off[k - 1] + 1, off[k])]
    BY <1>2, <2>8
  <2>10. V!FlattenSeq(chunks) = ids
    <3>1. Pieces(off, last, Len(ids))
      BY <2>1, <2>4, <2>6, <2>7, <2>8 DEF Pieces, length
    <3> QED BY <2>9, <3>1, LookupPiecesJoin
  <2>11. ASSUME NEW b \in DOMAIN chunks PROVE Len(chunks[b]) \in 1 .. size
    <3>1. b \in 1 .. last /\ chunks[b] = SubSeq(ids, off[b - 1] + 1, off[b])
      BY <2>9
    <3>2. Len(chunks[b]) = off[b] - off[b - 1]
      <4> DEFINE x == off[b - 1]
                 y == off[b]
      <4>1. x \in Nat /\ y \in Nat /\ x < y
        BY <2>8, <3>1
      <4>2. chunks[b] = SubSeq(ids, x + 1, y)
        BY <3>1
      <4> HIDE DEF x, y
      <4>3. Len(SubSeq(ids, x + 1, y)) = y - x
        BY <4>1
      <4> QED BY <4>2, <4>3 DEF x, y
    <3> QED BY <2>8, <3>1, <3>2
  <2> QED BY <2>10, <2>11, Zenon DEF V!AsksOnce, chunks
<1> QED BY <1>3, <1>4

\* The window a range describes is the one that is told.
LEMMA WindowsAreTold ==
  ASSUME NEW v \in Version, NEW events \in Seq(Event)
  PROVE  V!WindowIsTold(v, events)
<1> DEFINE range == [type |-> "SEMVER", events |-> events]
           one == [versions |-> {}, ranges |-> <<range>>]
           affected == <<one>>
<1>1. V!Range(affected) = {one} /\ V!Range(one.ranges) = {range} /\ affected # <<>>
  <2>1. \A y : V!Range(<<y>>) = {y} /\ <<y>> # <<>>
    <3> SUFFICES ASSUME NEW y PROVE V!Range(<<y>>) = {y} /\ <<y>> # <<>>
      OBVIOUS
    <3> DEFINE s == <<y>>
    <3>1. DOMAIN s = {1} /\ s[1] = y /\ s # <<>>
      OBVIOUS
    <3> HIDE DEF s
    <3>2. V!Range(s) = {y}
      BY <3>1 DEF V!Range
    <3> QED BY <3>1, <3>2 DEF s
  <2>2. one.ranges = <<range>>
    OBVIOUS
  <2> HIDE DEF range, one
  <2> QED BY <2>1, <2>2
<1>2. one.versions = {} /\ range.type = "SEMVER" /\ range.events = events
  OBVIOUS
<1> HIDE DEF range, one, affected
<1>3. V!IsVersionAffected(v, affected) <=> V!AfterEvents(v, events)
  BY <1>1, <1>2 DEF V!IsVersionAffected
<1>4. V!AfterEvents(v, events) = V!InSomeWindow(v, events)
  BY WindowIs
<1>5. V!IsVersionAffected(v, affected) \in BOOLEAN /\ V!InSomeWindow(v, events) \in BOOLEAN
  BY DEF V!IsVersionAffected, V!InSomeWindow
<1>6. V!IsVersionAffected(v, affected) = V!InSomeWindow(v, events)
  BY <1>3, <1>4, <1>5
<1> QED BY <1>6, Zenon DEF V!WindowIsTold, affected, one, range

LEMMA EveryLookupRight ==
  ASSUME NEW lookup, IsLookup(lookup)
  PROVE  V!LookupRight(lookup)
<1>1. lookup.of = "order" => V!VersionsOrdered(lookup.u, lookup.v, lookup.w)
  BY VersionsAreOrdered DEF IsLookup
<1>2. lookup.of = "window" => V!WindowIsTold(lookup.v, lookup.events)
  BY WindowsAreTold DEF IsLookup
<1>3. lookup.of = "feed" => V!OneRowEach(lookup.entries, lookup.version)
  BY FeedHasOneRowEach DEF IsLookup
<1>4. lookup.of = "ports" =>
        \A k \in DOMAIN lookup.ports :
          V!PortAsAnswered(k, lookup.ports, lookup.answers, lookup.db)
  BY PortsAreAsAnswered DEF IsLookup
<1>5. lookup.of = "ranks" => /\ V!RankedByUrgency(lookup.rows, lookup.intel)
                             /\ V!AsksOnce(lookup.rows, lookup.size)
  <2> SUFFICES ASSUME lookup.of = "ranks"
               PROVE  /\ V!RankedByUrgency(lookup.rows, lookup.intel)
                      /\ V!AsksOnce(lookup.rows, lookup.size)
    OBVIOUS
  <2>1. IsRanking(lookup.rows, lookup.intel) /\ lookup.size \in Nat \ {0}
    BY DEF IsLookup
  <2>2. lookup.rows \in Seq(V!Range(lookup.rows))
    BY <2>1 DEF IsRanking
  <2> QED BY <2>1, <2>2, RankingKeepsRows, RequestsAreAll
<1> QED BY <1>1, <1>2, <1>3, <1>4, <1>5 DEF V!LookupRight

-----------------------------------------------------------------------------
(* Services.  DetectService is a case of its stages; what is found of TLS is  *)
(* attached before the first of them that may end it.                         *)

\* What is found of TLS is never taken for its absence.
LEMMA TLSIs ==
  ASSUME Detect!ServiceAssumption, NEW s, IsServer(s), s.tls # Failed, NEW ip, NEW hostname,
         NEW t, t = Detect!probeTLS(s, ip, hostname)
  PROVE  /\ t # Failed
         /\ t.weak <=> \/ s.tls.accepts \cap {10, 11} # {} \/ s.tls.version < 12
                       \/ s.tls.cipher = "insecure"
         /\ t.fingerprint = IF s.tls.certs = <<>> THEN Detect!Unsaid ELSE s.tls.certs[1].id
<1>1. /\ s.tls.version \in Nat /\ s.tls.accepts \subseteq Nat /\ s.tls.certs \in Seq(Certificate)
  BY DEF IsServer
<1>2. s.tls.certs # <<>> => s.tls.certs[1].id \in STRING
  <2>1. s.tls.certs # <<>> => s.tls.certs[1] \in Certificate
    BY <1>1
  <2>2. \A d \in Certificate : d.id \in STRING
    BY DEF Certificate
  <2> QED BY <2>1, <2>2
<1>3. \A d : Detect!Expiry(d) \in Detect!Expiries
  BY DEF Detect!Expiry, Detect!Expiries
<1>4. \A d : Detect!Mismatch(d, ip, hostname) \in Detect!Matches
  BY DEF Detect!Mismatch, Detect!Matches
<1> DEFINE weak == \/ s.tls.version < 12 \/ s.tls.cipher = "insecure"
                   \/ s.tls.accepts \cap {10, 11} # {}
           classical == s.tls.version = 13 /\ s.tls.group = "classical"
           fingerprint == IF s.tls.certs = <<>> THEN Detect!Unsaid ELSE s.tls.certs[1].id
           expiry == IF s.tls.certs = <<>> THEN "none" ELSE Detect!Expiry(s.tls.certs[1])
           selfSigned == Len(s.tls.certs) = 1 /\ s.tls.certs[1].issuer = s.tls.certs[1].subject
           name == IF s.tls.certs = <<>> THEN "none"
                   ELSE Detect!Mismatch(s.tls.certs[1], ip, hostname)
<1>5. t = [ version |-> s.tls.version, supported |-> s.tls.accepts, weak |-> weak,
            downgrades |-> s.tls.accepts \cap {10, 11}, classical |-> classical,
            fingerprint |-> fingerprint, expiry |-> expiry, selfSigned |-> selfSigned,
            name |-> name ]
  BY Zenon DEF Detect!probeTLS
<1>6. /\ fingerprint \in STRING \cup {Detect!Unsaid}
      /\ expiry \in Detect!Expiries /\ name \in Detect!Matches
      /\ weak \in BOOLEAN /\ classical \in BOOLEAN /\ selfSigned \in BOOLEAN
  BY <1>2, <1>3, <1>4 DEF Detect!Expiries, Detect!Matches
<1>7. weak <=> \/ s.tls.accepts \cap {10, 11} # {} \/ s.tls.version < 12
               \/ s.tls.cipher = "insecure"
  OBVIOUS
<1> HIDE DEF weak, classical, expiry, selfSigned, name
<1>8. t \in Detect!TLSInfo
  <2> HIDE DEF fingerprint
  <2>1. s.tls.accepts \cap {10, 11} \subseteq Nat
    BY <1>1
  <2> QED BY <1>1, <1>5, <1>6, <2>1 DEF Detect!TLSInfo
<1>9. t # Failed
  BY <1>8 DEF Detect!ServiceAssumption
<1> QED BY <1>5, <1>7, <1>9

\* A port may be asked for TLS, and then is what it answers.
LEMMA TLSFoundIs ==
  ASSUME Detect!ServiceAssumption, NEW s, IsServer(s), NEW o
  PROVE  /\ s.tls = Failed => Detect!TLSFound(s, o) = Failed
         /\ s.tls # Failed /\ (s.port \in Detect!KnownTLSPorts \/ o.jarm) =>
              /\ Detect!TLSFound(s, o) # Failed
              /\ Detect!TLSFound(s, o).weak <=>
                   \/ s.tls.accepts \cap {10, 11} # {} \/ s.tls.version < 12
                   \/ s.tls.cipher = "insecure"
              /\ Detect!TLSFound(s, o).fingerprint =
                   IF s.tls.certs = <<>> THEN Detect!Unsaid ELSE s.tls.certs[1].id
         /\ ~ (s.port \in Detect!KnownTLSPorts \/ o.jarm) => Detect!TLSFound(s, o) = Failed
<1>1. s.tls = Failed => Detect!probeTLS(s, s.ip, o.hostname) = Failed
  BY Zenon DEF Detect!probeTLS
<1>2. CASE s.tls = Failed
  BY <1>1, <1>2 DEF Detect!TLSFound
<1>3. CASE s.tls # Failed
  <2> DEFINE t == Detect!probeTLS(s, s.ip, o.hostname)
  <2>1. /\ t # Failed
        /\ t.weak <=> \/ s.tls.accepts \cap {10, 11} # {} \/ s.tls.version < 12
                      \/ s.tls.cipher = "insecure"
        /\ t.fingerprint = IF s.tls.certs = <<>> THEN Detect!Unsaid ELSE s.tls.certs[1].id
    BY <1>3, TLSIs
  <2>2. Detect!TLSFound(s, o) = IF s.port \in Detect!KnownTLSPorts \/ o.jarm THEN t ELSE Failed
    BY Zenon DEF Detect!TLSFound
  <2> HIDE DEF t
  <2> QED BY <1>3, <2>1, <2>2
<1> QED BY <1>2, <1>3

\* A greeting is one of the table's exactly if a row of it matches.
LEMMA SignatureIs ==
  ASSUME Detect!ServiceAssumption, NEW s, IsServer(s), NEW g, g = s.greeting, g # Failed
  PROVE  LET sig == Detect!matchBannerSignature(g)
         IN /\ g.matches = {} => sig = Failed
            /\ g.matches # {} =>
                 /\ sig # Failed
                 /\ \E k \in g.matches : sig.name = Signatures[k].name
                 /\ sig.version \in {g.version, Detect!Unsaid}
<1>1. g.matches \subseteq DOMAIN Signatures /\ g.version \in STRING
  BY DEF IsServer
<1>2. CASE g.matches = {}
  BY <1>2 DEF Detect!matchBannerSignature
<1>3. CASE g.matches # {}
  <2> DEFINE Rows == [name : STRING, captures : BOOLEAN, binary : BOOLEAN]
  <2>0. Signatures \in Seq(Rows)
    BY DEF Detect!ServiceAssumption
  <2>1. /\ DOMAIN Signatures = 1 .. Len(Signatures) /\ Len(Signatures) \in Nat
        /\ \A k \in DOMAIN Signatures : Signatures[k].name \in STRING
    <3>1. \A r \in Rows : r.name \in STRING
      OBVIOUS
    <3> HIDE DEF Rows
    <3> QED BY <2>0, <3>1
  <2>2. g.matches \in SUBSET Nat
    BY <1>1, <2>1
  <2>3. \E k \in g.matches : \A l \in g.matches : k <= l
    BY <1>3, <2>2, LeastNumber
  <2> DEFINE k == Detect!Min(g.matches)
  <2>4. k \in g.matches
    BY <2>3 DEF Detect!Min
  <2> HIDE DEF k
  <2> DEFINE sig == Detect!matchBannerSignature(g)
             version == IF Signatures[k].captures THEN g.version ELSE Detect!Unsaid
  <2>5. sig = [name |-> Signatures[k].name, version |-> version]
    BY <1>3, Zenon DEF Detect!matchBannerSignature, k
  <2>6. version \in STRING \cup {Detect!Unsaid} /\ version \in {g.version, Detect!Unsaid}
    BY <1>1
  <2> HIDE DEF version, sig
  <2>7. Signatures[k].name \in STRING
    BY <1>1, <2>1, <2>4
  <2>8. sig \in Detect!Product
    BY <2>5, <2>6, <2>7 DEF Detect!Product
  <2>9. sig # Failed
    BY <2>8 DEF Detect!ServiceAssumption
  <2>10. sig.name = Signatures[k].name /\ sig.version = version
    BY <2>5
  <2> QED BY <1>3, <2>4, <2>6, <2>9, <2>10 DEF sig
<1> QED BY <1>2, <1>3


\* What a stage does to what was found before it: it names the service and
\* leaves the TLS found.
KeepsTLS(got, found, name, version) ==
  got.name = name /\ got.version = version /\ got.tls = found.tls

Found(s, o) == Detect!Attached(Detect!Info, s, Detect!TLSFound(s, o),
                 (s.port \in Detect!KnownTLSPorts \/ Detect!TLSFound(s, o) # Failed) /\ o.jarm)

\* What is heard of a port before it is named, and after.
Heard(info, ssh)   == [info EXCEPT !.ssh = ssh]
InSystem(info, os) == [info EXCEPT !.os = os]

LEMMA FoundCase ==
  ASSUME NEW s, NEW o
  PROVE  /\ Found(s, o).version = Detect!Unsaid
         /\ Found(s, o).tls = Detect!TLSFound(s, o)
<1> DEFINE t == Detect!TLSFound(s, o)
           jarm == (s.port \in Detect!KnownTLSPorts \/ t # Failed) /\ o.jarm
<1>1. Found(s, o) = Detect!Attached(Detect!Info, s, t, jarm)
  BY Zenon DEF Found
<1> HIDE DEF t, jarm
<1> QED BY <1>1 DEF Detect!Attached, Detect!Info, t

LEMMA FoundNamed ==
  ASSUME NEW s, NEW o, NEW ssh, NEW http, NEW os, NEW name, NEW version
  PROVE  LET found == Found(s, o)
         IN /\ KeepsTLS(Detect!Named(Heard(found, ssh), name, version), found, name, version)
            /\ KeepsTLS(InSystem(Detect!Named(Heard(found, ssh), name, version), os), found, name,
                     version)
            /\ KeepsTLS(Detect!Named(Detect!Visited(found, http, os), name, version), found, name,
                     version)
            /\ KeepsTLS(Detect!Named([found EXCEPT !.http = http], name, version), found, name,
                     version)
<1> DEFINE t == Detect!TLSFound(s, o)
           jarm == (s.port \in Detect!KnownTLSPorts \/ t # Failed) /\ o.jarm
           info == [name |-> "unknown", version |-> Detect!Unsaid, os |-> {}, tls |-> t,
                    jarm |-> jarm, http |-> Failed, ssh |-> Failed, findings |-> {}]
<1>1. Found(s, o) = Detect!Attached(Detect!Info, s, t, jarm)
  BY Zenon DEF Found
<1> HIDE DEF t, jarm
<1>2. Found(s, o) = info
  BY <1>1 DEF Detect!Attached, Detect!Info
<1>3. /\ KeepsTLS(Detect!Named(Heard(info, ssh), name, version), info, name, version)
      /\ KeepsTLS(InSystem(Detect!Named(Heard(info, ssh), name, version), os), info, name, version)
      /\ KeepsTLS(Detect!Named(Detect!Visited(info, http, os), name, version), info, name, version)
      /\ KeepsTLS(Detect!Named([info EXCEPT !.http = http], name, version), info, name, version)
  BY DEF KeepsTLS, Detect!Named, Heard, InSystem, Detect!Visited
<1> HIDE DEF info
<1> QED BY <1>2, <1>3

LEMMA FoundVisited ==
  ASSUME NEW s, NEW o, NEW http, NEW os, NEW name, NEW version,
         NEW got, got = Detect!Named(Detect!Visited(Found(s, o), http, os), name, version)
  PROVE  KeepsTLS(got, Found(s, o), name, version)
<1> PICK ssh : ssh = Failed
  OBVIOUS
<1> QED BY FoundNamed

LEMMA FoundDefault ==
  ASSUME NEW s, NEW o, NEW http, NEW name, NEW version,
         NEW got, got = Detect!Named([Found(s, o) EXCEPT !.http = http], name, version)
  PROVE  KeepsTLS(got, Found(s, o), name, version)
<1> PICK ssh, os : ssh = Failed /\ os = {}
  OBVIOUS
<1> QED BY FoundNamed

LEMMA InfoIs ==
  /\ Detect!Info.version = Detect!Unsaid /\ Detect!Info.tls = Failed
  /\ \A name, version :
       KeepsTLS(Detect!Named(Detect!Info, name, version), Detect!Info, name, version)
  /\ \A name, version, findings :
       KeepsTLS(Detect!Spoken(name, version, findings), Detect!Info, name, version)
BY DEF KeepsTLS, Detect!Info, Detect!Named, Detect!Spoken

\* What a greeting that is recognised says.
LEMMA GreetedIs ==
  ASSUME Detect!ServiceAssumption, NEW s, IsServer(s), NEW o, NEW g, g = s.greeting, g # Failed,
         Detect!Recognized(g), NEW got, got = Detect!Greeted(Found(s, o), g)
  PROVE  /\ got.tls = Detect!TLSFound(s, o)
         /\ got.version # Detect!Unsaid =>
              got.version = g.version /\ got.name \in Detect!NamedBy(g)
         /\ g.matches # {} => got.name \in Detect!NamedBy(g)
<1> DEFINE sig == Detect!matchBannerSignature(g)
           ssh == IF g.starts = "SSH-" THEN Detect!sshPostureFromConn(g) ELSE Found(s, o).ssh
           heard == Heard(Found(s, o), ssh)
           Is(name, version) == KeepsTLS(got, Found(s, o), name, version)
<1>0. heard = [Found(s, o) EXCEPT !.ssh = IF g.starts = "SSH-"
                                          THEN Detect!sshPostureFromConn(g) ELSE @]
  BY Zenon DEF Heard
<1>1. /\ g.matches = {} => sig = Failed
      /\ g.matches # {} =>
           /\ sig # Failed
           /\ \E k \in g.matches : sig.name = Signatures[k].name
           /\ sig.version \in {g.version, Detect!Unsaid}
  BY SignatureIs
<1> HIDE DEF sig, ssh
<1>h. \A name, version, os :
        /\ KeepsTLS(Detect!Named(heard, name, version), Found(s, o), name, version)
        /\ KeepsTLS(InSystem(Detect!Named(heard, name, version), os), Found(s, o), name, version)
  <2> SUFFICES ASSUME NEW name, NEW version, NEW os
               PROVE  /\ KeepsTLS(Detect!Named(heard, name, version), Found(s, o), name, version)
                      /\ KeepsTLS(InSystem(Detect!Named(heard, name, version), os), Found(s, o),
                               name, version)
    OBVIOUS
  <2> QED BY FoundNamed
<1> HIDE DEF heard
<1>2. Found(s, o).tls = Detect!TLSFound(s, o)
  BY FoundCase
<1>3. CASE sig # Failed
  <2>1. got = InSystem(Detect!Named(heard, sig.name, sig.version),
                       Detect!extractOSFromBanner(g.os))
    <3> QED BY <1>0, <1>3 DEF Detect!Greeted, InSystem, sig
  <2>2. Is(sig.name, sig.version)
    BY <2>1, <1>h
  <2>3. sig.name \in Detect!NamedBy(g)
    BY <1>1, <1>3 DEF Detect!NamedBy
  <2> QED BY <1>1, <1>2, <1>3, <2>2, <2>3 DEF KeepsTLS
<1>4. CASE sig = Failed
  <2>1. g.starts \in {"SSH-", "220", "+OK", "*OK", "RFB", "MySQL"}
    BY <1>4 DEF Detect!Recognized, sig
  <2>2. CASE g.starts = "SSH-" /\ "OpenSSH" \in g.says
    <3>1. got = InSystem(Detect!Named(heard, "openssh", g.version),
                         Detect!extractOSFromBanner(g.os))
      <4> QED BY <1>0, <1>4, <2>2 DEF Detect!Greeted, InSystem, sig
    <3>2. Is("openssh", g.version)
      BY <3>1, <1>h
    <3>3. "openssh" \in Detect!NamedBy(g)
      BY <2>2 DEF Detect!NamedBy
    <3> QED BY <1>1, <1>2, <1>4, <3>2, <3>3 DEF KeepsTLS
  <2>3. CASE g.starts = "SSH-" /\ "OpenSSH" \notin g.says
    <3>1. got = Detect!Named(heard, "ssh", Detect!Unsaid)
      <4> QED BY <1>0, <1>4, <2>3 DEF Detect!Greeted, sig
    <3>2. Is("ssh", Detect!Unsaid)
      BY <3>1, <1>h
    <3> QED BY <1>1, <1>2, <1>4, <3>2 DEF KeepsTLS
  <2>4. CASE g.starts \in {"220", "+OK", "*OK"}
    <3>1. \E name : got = Detect!Named(heard, name, Detect!Unsaid)
      <4>1. CASE g.starts = "220"
        BY <1>0, <1>4, <4>1 DEF Detect!Greeted, sig
      <4>2. CASE g.starts = "+OK"
        BY <1>0, <1>4, <4>2 DEF Detect!Greeted, sig
      <4>3. CASE g.starts = "*OK"
        BY <1>0, <1>4, <4>3 DEF Detect!Greeted, sig
      <4> QED BY <2>4, <4>1, <4>2, <4>3
    <3>2. PICK name : got = Detect!Named(heard, name, Detect!Unsaid)
      BY <3>1
    <3>3. Is(name, Detect!Unsaid)
      BY <3>2, <1>h
    <3> QED BY <1>1, <1>2, <1>4, <3>3 DEF KeepsTLS
  <2>5. CASE g.starts = "RFB"
    <3>1. got = Detect!Named(heard, "vnc", g.version)
      <4> QED BY <1>0, <1>4, <2>5 DEF Detect!Greeted, sig
    <3>2. Is("vnc", g.version)
      BY <3>1, <1>h
    <3>3. "vnc" \in Detect!NamedBy(g)
      BY <2>5 DEF Detect!NamedBy
    <3> QED BY <1>1, <1>2, <1>4, <3>2, <3>3 DEF KeepsTLS
  <2>6. CASE g.starts = "MySQL"
    <3>1. got = Detect!Named(heard, "mysql", g.version)
      <4> QED BY <1>0, <1>4, <2>6 DEF Detect!Greeted, sig
    <3>2. Is("mysql", g.version)
      BY <3>1, <1>h
    <3>3. "mysql" \in Detect!NamedBy(g)
      BY <2>6 DEF Detect!NamedBy
    <3> QED BY <1>1, <1>2, <1>4, <3>2, <3>3 DEF KeepsTLS
  <2> QED BY <2>1, <2>2, <2>3, <2>4, <2>5, <2>6
<1> QED BY <1>3, <1>4


\* The posture check reads a page over TLS if the port speaks it, else without.
LEMMA PostureIs ==
  ASSUME Detect!ServiceAssumption, NEW s, IsServer(s), NEW useTLS, NEW trusts,
         NEW p, p = Detect!probeHTTPPosture(s, useTLS, trusts)
  PROVE  /\ p # Failed => s.page # Failed /\ p.server = s.page.server
         /\ s.page # Failed /\ s.page.tls = useTLS /\ (useTLS => trusts) => p # Failed
<1> DEFINE reads == s.page # Failed /\ s.page.tls = useTLS /\ (useTLS => trusts)
           asked == Detect!SecurityHeaders
                      \cup (IF useTLS THEN {"Strict-Transport-Security"} ELSE {})
           exposed == { q \in DOMAIN s.page.paths :
                          s.page.paths[q].status = 200 /\ s.page.paths[q].signed }
<1>1. CASE reads
  <2>1. p = [server |-> s.page.server, missing |-> asked \ s.page.headers, exposed |-> exposed]
    <3> HIDE DEF exposed
    <3>1. s.page # Failed /\ ~ (s.page.tls # useTLS \/ (useTLS /\ ~ trusts))
      BY <1>1
    <3> QED BY <3>1, Zenon DEF Detect!probeHTTPPosture, exposed
  <2>2. /\ s.page.server \in Detect!Header \cup {Failed} /\ exposed \in SUBSET STRING
        /\ asked \ s.page.headers \in SUBSET {"Content-Security-Policy", "X-Frame-Options",
                                              "Strict-Transport-Security"}
    BY <1>1 DEF IsServer, Detect!SecurityHeaders
  <2> HIDE DEF exposed, asked
  <2>3. p \in Detect!Posture
    BY <2>1, <2>2 DEF Detect!Posture
  <2>4. p # Failed
    BY <2>3 DEF Detect!ServiceAssumption
  <2> QED BY <1>1, <2>1, <2>4
<1>2. CASE ~ reads
  <2>1. p = Failed
    <3> HIDE DEF exposed
    <3>1. s.page = Failed \/ s.page.tls # useTLS \/ (useTLS /\ ~ trusts)
      BY <1>2
    <3>2. CASE s.page = Failed
      BY <3>2, Zenon DEF Detect!probeHTTPPosture
    <3>3. CASE s.page # Failed
      <4>1. s.page.tls # useTLS \/ (useTLS /\ ~ trusts)
        BY <3>1, <3>3
      <4> QED BY <3>3, <4>1, Zenon DEF Detect!probeHTTPPosture
    <3> QED BY <3>2, <3>3
  <2> QED BY <1>2, <2>1
<1> QED BY <1>1, <1>2

PageSays(page) == { <<h.software, h.version>> : h \in {page.server, page.body} \ {Failed} }

\* What the web stage makes of a port; the header of a plain page on port 80
\* is read, by the GET or by the posture check.
LEMMA BrowsedIs ==
  ASSUME Detect!ServiceAssumption, NEW s, IsServer(s), NEW o, NEW insecure, NEW trusts,
         NEW useTLS, useTLS = (s.port \in Detect!KnownTLSPorts \/ Detect!TLSFound(s, o) # Failed),
         NEW posture, posture = Detect!probeHTTPPosture(s, useTLS, trusts),
         NEW got, got = Detect!WebNamed(Found(s, o), s, posture, insecure)
  PROVE  /\ Detect!Browsed(s, posture, insecure) =>
              /\ got.tls = Detect!TLSFound(s, o)
              /\ got.version # Detect!Unsaid =>
                   s.page # Failed /\ <<got.name, got.version>> \in PageSays(s.page)
         /\ /\ s.port = 80 /\ s.page # Failed /\ s.page.server # Failed
            /\ ~ s.page.tls /\ s.page.server.software # Detect!Unsaid
            => Detect!Browsed(s, posture, insecure) /\ got.name = s.page.server.software
<1> DEFINE header == Detect!Read(s, posture, insecure)
           answered == Detect!Got(s, insecure)
           Is(name, version) == KeepsTLS(got, Found(s, o), name, version)
           as(os, name, version) ==
             Detect!Named(Detect!Visited(Found(s, o), posture, os), name, version)
<1>1. /\ posture # Failed => s.page # Failed /\ posture.server = s.page.server
      /\ s.page # Failed /\ s.page.tls = useTLS /\ (useTLS => trusts) => posture # Failed
  BY PostureIs
<1>2. header # Failed => s.page # Failed /\ header \in {s.page.server, s.page.body} \ {Failed}
  BY <1>1 DEF Detect!Read, Detect!Got, Detect!extractServerHeader
<1>3. \A os, name, version : got = as(os, name, version) => Is(name, version)
  <2> SUFFICES ASSUME NEW os, NEW name, NEW version, got = as(os, name, version)
               PROVE  Is(name, version)
    OBVIOUS
  <2>1. got = Detect!Named(Detect!Visited(Found(s, o), posture, os), name, version)
    OBVIOUS
  <2> HIDE DEF as
  <2> QED BY <2>1, FoundVisited
<1>4. header # Failed /\ header.software # Detect!Unsaid =>
        \E os : got = as(os, header.software, header.version)
  BY Zenon DEF Detect!WebNamed
<1>5. header # Failed /\ header.software = Detect!Unsaid =>
        \E os : got = as(os, "http", Detect!Unsaid)
  BY Zenon DEF Detect!WebNamed
<1>6. header = Failed =>
        \E os, name : got = as(os, name, Detect!Unsaid)
  BY Zenon DEF Detect!WebNamed
<1>7. header # Failed => <<header.software, header.version>> \in PageSays(s.page)
  BY <1>2 DEF PageSays
<1>8. Found(s, o).tls = Detect!TLSFound(s, o)
  BY FoundCase
<1> HIDE DEF header, as
<1>9. /\ got.tls = Detect!TLSFound(s, o)
      /\ got.version # Detect!Unsaid =>
           s.page # Failed /\ <<got.name, got.version>> \in PageSays(s.page)
  <2>1. \A name, version : Is(name, version) =>
          got.name = name /\ got.version = version /\ got.tls = Detect!TLSFound(s, o)
    BY <1>8 DEF KeepsTLS
  <2> HIDE DEF Is
  <2>2. CASE header # Failed /\ header.software # Detect!Unsaid
    <3>1. Is(header.software, header.version)
      BY <1>3, <1>4, <2>2
    <3> QED BY <1>2, <1>7, <2>1, <2>2, <3>1
  <2>3. CASE header # Failed /\ header.software = Detect!Unsaid
    <3>1. Is("http", Detect!Unsaid)
      BY <1>3, <1>5, <2>3
    <3> QED BY <2>1, <3>1
  <2>4. CASE header = Failed
    <3>1. \E name : Is(name, Detect!Unsaid)
      BY <1>3, <1>6, <2>4
    <3> QED BY <2>1, <3>1
  <2> QED BY <2>2, <2>3, <2>4
<1>10. ASSUME s.port = 80, s.page # Failed, s.page.server # Failed, ~ s.page.tls,
              s.page.server.software # Detect!Unsaid
       PROVE  Detect!Browsed(s, posture, insecure) /\ got.name = s.page.server.software
  <2>1. s.page.tls = (s.tls # Failed)
    BY <1>10 DEF IsServer
  <2>a. s.tls = Failed
    BY <1>10, <2>1
  <2>2. s.tls = Failed /\ Detect!TLSFound(s, o) = Failed
    BY <2>a, TLSFoundIs
  <2>3. 80 \notin Detect!KnownTLSPorts
    BY DEF Detect!KnownTLSPorts
  <2>4. s.page.tls = useTLS /\ ~ useTLS
    BY <1>10, <2>1, <2>2, <2>3
  <2>5. posture # Failed
    BY <1>1, <1>10, <2>4
  <2>6. header = s.page.server
    <3>1. CASE answered
      BY <1>10, <3>1 DEF Detect!Read, Detect!extractServerHeader, header
    <3>2. CASE ~ answered
      BY <1>1, <2>5, <3>2 DEF Detect!Read, header
    <3> QED BY <3>1, <3>2
  <2>7. Detect!Browsed(s, posture, insecure)
    BY <1>10, <2>6 DEF Detect!Browsed, header
  <2>8. \E os : got = as(os, header.software, header.version)
    BY <1>4, <1>10, <2>6
  <2>9. got.name = header.software
    BY <1>3, <2>8 DEF KeepsTLS
  <2> QED BY <2>6, <2>7, <2>9
<1> QED BY <1>9, <1>10

\* What the service said that had to be spoken to.
LEMMA SpokenIs ==
  ASSUME NEW s, NEW got, got = Detect!activeProbe(s), got # Failed
  PROVE  /\ got.tls = Failed
         /\ s.reply # Failed /\ s.port \notin Detect!KnownTLSPorts
         /\ got.version # Detect!Unsaid =>
              /\ got.version = s.reply.value
              /\ got.name \in {"redis", "memcached", "ms-wbt-server"}
<1> DEFINE r == s.reply
           Is(name, version) == \E findings : got = Detect!Spoken(name, version, findings)
<1>1. r # Failed
  BY DEF Detect!activeProbe
<1>2. \A name, version : Is(name, version) =>
        got.name = name /\ got.version = version /\ got.tls = Failed
  BY InfoIs DEF KeepsTLS
<1>3. s.port \in {6379, 11211, 5432, 445, 3389, 1883}
  BY DEF Detect!activeProbe
<1>4. s.port \notin Detect!KnownTLSPorts
  BY <1>3 DEF Detect!KnownTLSPorts
<1>5. CASE s.port = 6379
  <2>1. got = Detect!probeRedis(r)
    BY <1>1, <1>5 DEF Detect!activeProbe
  <2>2. Is("redis", r.value)
    BY <2>1, Zenon DEF Detect!probeRedis
  <2> QED BY <1>1, <1>2, <1>4, <2>2
<1>6. CASE s.port = 11211
  <2>1. got = Detect!probeMemcached(r)
    BY <1>1, <1>6 DEF Detect!activeProbe
  <2>2. Is("memcached", r.value)
    BY <2>1, Zenon DEF Detect!probeMemcached
  <2> QED BY <1>1, <1>2, <1>4, <2>2
<1>7. CASE s.port = 5432
  <2>1. got = Detect!probePostgres(r)
    BY <1>1, <1>7 DEF Detect!activeProbe
  <2>2. Is("postgresql", Detect!Unsaid)
    BY <2>1, Zenon DEF Detect!probePostgres
  <2> QED BY <1>1, <1>2, <1>4, <2>2
<1>8. CASE s.port = 445
  <2>1. got = Detect!probeSMB(r)
    BY <1>1, <1>8 DEF Detect!activeProbe
  <2>2. Is("microsoft-ds", Detect!Unsaid)
    BY <2>1, Zenon DEF Detect!probeSMB
  <2> QED BY <1>1, <1>2, <1>4, <2>2
<1>9. CASE s.port = 3389
  <2>1. got = Detect!probeRDP(r)
    BY <1>1, <1>9 DEF Detect!activeProbe
  <2>2. Is("ms-wbt-server", r.value) \/ Is("ms-wbt-server", Detect!Unsaid)
    BY <2>1 DEF Detect!probeRDP
  <2> QED BY <1>1, <1>2, <1>4, <2>2
<1>10. CASE s.port = 1883
  <2>1. got = Detect!probeMQTT(r)
    BY <1>1, <1>10 DEF Detect!activeProbe
  <2>2. Is("mqtt", Detect!Unsaid)
    BY <2>1, Zenon DEF Detect!probeMQTT
  <2> QED BY <1>1, <1>2, <1>4, <2>2
<1> QED BY <1>1, <1>3, <1>5, <1>6, <1>7, <1>8, <1>9, <1>10


\* What the stages make of a port that no probe of its own identified.
LEMMA PassiveIs ==
  ASSUME Detect!ServiceAssumption, NEW s, IsServer(s), NEW o,
         NEW got, got = Detect!Passive(s, o)
  PROVE  /\ got.version # Detect!Unsaid =>
              <<got.name, got.version>> \in Detect!Announced(s) \cup Detect!Picked(s)
         /\ s.accepts /\ s.greeting # Failed /\ s.greeting.matches # {} =>
              got.name \in Detect!NamedBy(s.greeting)
         /\ /\ s.accepts /\ s.greeting = Failed /\ s.port = 80 /\ s.page # Failed
            /\ s.page.server # Failed /\ ~ s.page.tls
            /\ s.page.server.software # Detect!Unsaid
            => got.name = s.page.server.software
         /\ \/ got.tls = Detect!TLSFound(s, o)
            \/ s.reply # Failed /\ s.port \notin Detect!KnownTLSPorts /\ got.tls = Failed
<1> DEFINE isTLSPort == s.port \in Detect!KnownTLSPorts \/ Detect!TLSFound(s, o) # Failed
           read == Detect!probeHTTPPosture(s, isTLSPort, s.trusted \/ o.insecure)
           posture == IF s.port \in Detect!WebPorts THEN read ELSE Failed
           spoken == Detect!activeProbe(s)
           greeted == s.greeting # Failed /\ Detect!Recognized(s.greeting)
           browsed == s.port \in Detect!WebPorts /\ Detect!Browsed(s, posture, o.insecure)
           default == Detect!resolveDefaultPortName(s.port)
<1>1. got = IF ~ s.accepts THEN Found(s, o)
            ELSE IF greeted THEN Detect!Greeted(Found(s, o), s.greeting)
            ELSE IF browsed THEN Detect!WebNamed(Found(s, o), s, posture, o.insecure)
            ELSE IF spoken # Failed THEN spoken
            ELSE Detect!Named([Found(s, o) EXCEPT !.http = posture], default, Detect!Unsaid)
  BY Zenon DEF Detect!Passive, Found
<1>2. /\ Found(s, o).version = Detect!Unsaid
      /\ Found(s, o).tls = Detect!TLSFound(s, o)
  BY FoundCase
<1>3. /\ s.greeting # Failed =>
           \A name \in Detect!NamedBy(s.greeting) :
             <<name, s.greeting.version>> \in Detect!Announced(s)
      /\ s.page # Failed => PageSays(s.page) \subseteq Detect!Announced(s)
      /\ s.reply # Failed =>
           \A name \in {"redis", "memcached", "ms-wbt-server"} :
             <<name, s.reply.value>> \in Detect!Announced(s) \cup Detect!Picked(s)
  BY DEF Detect!Announced, Detect!Picked, PageSays
<1>4. s.greeting # Failed /\ s.greeting.matches # {} => greeted
  BY SignatureIs DEF Detect!Recognized
<1>5. 80 \in Detect!WebPorts
  BY DEF Detect!WebPorts
<1>6. s.port \in Detect!WebPorts => posture = read
  OBVIOUS
<1> HIDE DEF isTLSPort, read, posture, spoken, greeted, browsed, default
<1>7. CASE ~ s.accepts
  BY <1>1, <1>2, <1>7
<1>8. CASE s.accepts /\ greeted
  <2>1. got = Detect!Greeted(Found(s, o), s.greeting)
    BY <1>1, <1>8
  <2>2. s.greeting # Failed /\ Detect!Recognized(s.greeting)
    BY <1>8 DEF greeted
  <2>3. /\ got.tls = Detect!TLSFound(s, o)
        /\ got.version # Detect!Unsaid =>
             got.version = s.greeting.version /\ got.name \in Detect!NamedBy(s.greeting)
        /\ s.greeting.matches # {} => got.name \in Detect!NamedBy(s.greeting)
    BY <2>1, <2>2, GreetedIs
  <2> QED BY <1>3, <2>2, <2>3
<1>9. CASE s.accepts /\ ~ greeted /\ s.port \in Detect!WebPorts
  <2>0. PICK web : web = Detect!WebNamed(Found(s, o), s, posture, o.insecure)
    OBVIOUS
  <2>1. /\ browsed =>
             /\ web.tls = Detect!TLSFound(s, o)
             /\ web.version # Detect!Unsaid =>
                  s.page # Failed /\ <<web.name, web.version>> \in PageSays(s.page)
        /\ /\ s.port = 80 /\ s.page # Failed /\ s.page.server # Failed
           /\ ~ s.page.tls /\ s.page.server.software # Detect!Unsaid
           => browsed /\ web.name = s.page.server.software
    <3>1. posture = Detect!probeHTTPPosture(s, isTLSPort, s.trusted \/ o.insecure)
      BY <1>6, <1>9 DEF read
    <3>2. isTLSPort = (s.port \in Detect!KnownTLSPorts \/ Detect!TLSFound(s, o) # Failed)
      BY DEF isTLSPort
    <3>3. browsed <=> Detect!Browsed(s, posture, o.insecure)
      BY <1>9 DEF browsed
    <3> QED BY <2>0, <3>1, <3>2, <3>3, BrowsedIs
  <2>2. CASE browsed
    <3>1. got = web
      BY <1>1, <1>9, <2>0, <2>2
    <3> QED BY <1>3, <1>4, <1>9, <2>1, <2>2, <3>1
  <2>3. CASE ~ browsed /\ spoken # Failed
    <3>1. got = spoken
      BY <1>1, <1>9, <2>3
    <3>2. /\ got.tls = Failed
          /\ s.reply # Failed /\ s.port \notin Detect!KnownTLSPorts
          /\ got.version # Detect!Unsaid =>
               /\ got.version = s.reply.value
               /\ got.name \in {"redis", "memcached", "ms-wbt-server"}
      BY <2>3, <3>1, SpokenIs DEF spoken
    <3> QED BY <1>3, <1>4, <1>9, <2>1, <2>3, <3>1, <3>2 DEF spoken
  <2>4. CASE ~ browsed /\ spoken = Failed
    <3>1. got = Detect!Named([Found(s, o) EXCEPT !.http = posture], default, Detect!Unsaid)
      BY <1>1, <1>9, <2>4
    <3>2. KeepsTLS(got, Found(s, o), default, Detect!Unsaid)
      BY <3>1, FoundDefault
    <3> QED BY <1>2, <1>4, <1>9, <2>1, <2>4, <3>2 DEF KeepsTLS
  <2> QED BY <2>2, <2>3, <2>4
<1>10. CASE s.accepts /\ ~ greeted /\ s.port \notin Detect!WebPorts
  <2>1. ~ browsed /\ s.port # 80
    BY <1>5, <1>10 DEF browsed
  <2>2. CASE spoken # Failed
    <3>1. got = spoken
      BY <1>1, <1>10, <2>1, <2>2
    <3>2. /\ got.tls = Failed
          /\ s.reply # Failed /\ s.port \notin Detect!KnownTLSPorts
          /\ got.version # Detect!Unsaid =>
               /\ got.version = s.reply.value
               /\ got.name \in {"redis", "memcached", "ms-wbt-server"}
      BY <2>2, <3>1, SpokenIs DEF spoken
    <3> QED BY <1>3, <1>4, <1>10, <2>1, <3>1, <3>2 DEF spoken
  <2>3. CASE spoken = Failed
    <3>1. got = Detect!Named([Found(s, o) EXCEPT !.http = posture], default, Detect!Unsaid)
      BY <1>1, <1>10, <2>1, <2>3
    <3>2. KeepsTLS(got, Found(s, o), default, Detect!Unsaid)
      BY <3>1, FoundDefault
    <3> QED BY <1>2, <1>4, <1>10, <2>1, <3>2 DEF KeepsTLS
  <2> QED BY <2>2, <2>3
<1> QED BY <1>7, <1>8, <1>9, <1>10


-----------------------------------------------------------------------------
(* The objects of an industrial device: once the first runs past the end,    *)
(* nothing more is read.                                                     *)

Identity == [id : 1 .. 3, len : Nat, text : STRING]
Reading  == [p : Nat, cut : BOOLEAN, said : [1 .. 3 -> STRING \cup {Detect!Unsaid}]]

\* Of what the walk has read: the first object fits, or nothing does.
FirstFits(size, objects) == Len(objects) >= 1 /\ 7 + 2 + objects[1].len <= size
Nothing(size, read)      == read.said = Detect!Silence /\ (read.cut \/ read.p + 2 > size)

LEMMA ReadObjectIs ==
  ASSUME NEW size \in Int, NEW read \in Reading, NEW object \in Identity
  PROVE  LET next == Detect!ReadObject(size, read, object)
         IN /\ next \in Reading
            /\ Nothing(size, read) => Nothing(size, next)
            /\ read.said = Detect!Silence /\ read.p + 2 + object.len > size => Nothing(size, next)
<1> DEFINE next == Detect!ReadObject(size, read, object)
<1>1. CASE read.p + 2 > size \/ read.cut
  <2>1. next = read
    BY <1>1, Zenon DEF Detect!ReadObject
  <2> QED BY <1>1, <2>1 DEF Nothing
<1>2. CASE ~ (read.p + 2 > size \/ read.cut) /\ read.p + 2 + object.len > size
  <2>1. next = [read EXCEPT !.cut = TRUE]
    BY <1>2, Zenon DEF Detect!ReadObject
  <2> HIDE DEF next
  <2>2. next \in Reading /\ next.cut = TRUE /\ next.said = read.said
    BY <2>1 DEF Reading
  <2> QED BY <1>2, <2>2 DEF Nothing, next
<1>3. CASE ~ (read.p + 2 > size \/ read.cut) /\ ~ (read.p + 2 + object.len > size)
  <2>1. next = [p |-> read.p + 2 + object.len, cut |-> FALSE,
                said |-> [read.said EXCEPT ![object.id] = object.text]]
    BY <1>3, Zenon DEF Detect!ReadObject
  <2>2. /\ read.p + 2 + object.len \in Nat
        /\ [read.said EXCEPT ![object.id] = object.text]
             \in [1 .. 3 -> STRING \cup {Detect!Unsaid}]
    BY DEF Reading, Identity
  <2> HIDE DEF next
  <2>3. next \in Reading
    BY <2>1, <2>2 DEF Reading
  <2> QED BY <1>3, <2>3 DEF Nothing, next
<1> QED BY <1>1, <1>2, <1>3

LEMMA FirstObjectFits ==
  ASSUME NEW size \in Int, NEW objects \in Seq(Identity), NEW count \in Nat,
         Detect!ReadObjects(size, objects, count).said # Detect!Silence
  PROVE  FirstFits(size, objects)
<1> DEFINE last == Len(objects)
           start == [p |-> 7, cut |-> FALSE, said |-> Detect!Silence]
           Is(x) == x = [k \in 0 .. last |->
                           IF k = 0 THEN start ELSE Detect!ReadObject(size, x[k - 1], objects[k])]
           read == CHOOSE x : Is(x)
           end == IF count < last THEN count ELSE last
           f == [e \in (1 .. last) \X Reading |-> Detect!ReadObject(size, e[2], objects[e[1]])]
<1>1. Detect!ReadObjects(size, objects, count) = read[end]
  BY Zenon DEF Detect!ReadObjects
<1>2. last \in Nat /\ end \in 0 .. last /\ \A k \in 1 .. last : objects[k] \in Identity
  OBVIOUS
<1>3. start \in Reading /\ start.p = 7 /\ start.said = Detect!Silence
  BY DEF Reading, Detect!Silence
<1> HIDE DEF last, start, end
<1>4. Stepper(f, Reading, last)
  <2>1. \A k \in 1 .. last : \A r \in Reading : Detect!ReadObject(size, r, objects[k]) \in Reading
    BY <1>2, ReadObjectIs
  <2> QED BY <2>1 DEF Stepper
<1>5. PICK r : Steps(r, start, f, Reading, last)
  BY <1>2, <1>3, <1>4, Recurses
<1>6. /\ r \in [0 .. last -> Reading] /\ r[0] = start
      /\ \A k \in 1 .. last : r[k] = Detect!ReadObject(size, r[k - 1], objects[k])
  <2>1. \A k \in 1 .. last : k - 1 \in 0 .. last
    BY <1>2
  <2> QED BY <1>5, <2>1 DEF Steps
<1> HIDE DEF f
<1>7. Is(r)
  <2> DEFINE g == [k \in 0 .. last |->
                     IF k = 0 THEN start ELSE Detect!ReadObject(size, r[k - 1], objects[k])]
  <2>1. \A k \in 0 .. last : r[k] = g[k]
    BY <1>2, <1>6
  <2>2. r = g
    <3>1. DOMAIN r = 0 .. last /\ DOMAIN g = 0 .. last
      BY <1>6
    <3> HIDE DEF g
    <3>2. r = [k \in 0 .. last |-> r[k]]
      BY <1>6
    <3>3. g = [k \in 0 .. last |-> g[k]]
      BY DEF g
    <3> QED BY <2>1, <3>2, <3>3
  <2> QED BY <2>2
<1>8. Is(read)
  <2> HIDE DEF Is
  <2> QED BY <1>7
<1>9. /\ read[0] = start
      /\ \A k \in 1 .. last : read[k] = Detect!ReadObject(size, read[k - 1], objects[k])
  <2> HIDE DEF read
  <2>1. read = [k \in 0 .. last |->
                 IF k = 0 THEN start ELSE Detect!ReadObject(size, read[k - 1], objects[k])]
    BY <1>8
  <2> QED BY <1>2, <2>1
<1> HIDE DEF read, Is
<1> SUFFICES ASSUME ~ FirstFits(size, objects) PROVE FALSE
  OBVIOUS
<1> DEFINE S == { k \in Nat : k \in 1 .. last => read[k] \in Reading /\ Nothing(size, read[k]) }
<1>10. 0 \in S
  OBVIOUS
<1>11. ASSUME NEW k \in Nat, k \in S PROVE k + 1 \in S
  <2> SUFFICES ASSUME k + 1 \in 1 .. last
               PROVE  read[k + 1] \in Reading /\ Nothing(size, read[k + 1])
    OBVIOUS
  <2>1. read[k + 1] = Detect!ReadObject(size, read[k], objects[k + 1]) /\ objects[k + 1] \in Identity
    <3>1. (k + 1) - 1 = k
      OBVIOUS
    <3> QED BY <1>2, <1>9, <3>1
  <2>2. CASE k = 0
    <3>1. read[k] = start /\ objects[1] \in Identity /\ objects[1].len \in Nat
      BY <1>9, <2>1, <2>2 DEF Identity
    <3>2. 7 + 2 + objects[1].len > size
      BY <2>2, <3>1 DEF FirstFits, last
    <3>3. start.said = Detect!Silence /\ start.p + 2 + objects[1].len > size
      BY <1>3, <3>2
    <3>4. read[k + 1] = Detect!ReadObject(size, start, objects[1])
      BY <2>1, <2>2, <3>1
    <3> QED BY <1>3, <3>1, <3>3, <3>4, ReadObjectIs
  <2>3. CASE k # 0
    <3>1. read[k] \in Reading /\ Nothing(size, read[k])
      BY <1>2, <1>11, <2>3
    <3> QED BY <2>1, <3>1, ReadObjectIs
  <2> QED BY <2>2, <2>3
<1>12. end \in S
  <2>1. end \in Nat
    BY <1>2
  <2> HIDE DEF S, end
  <2>2. \A k \in Nat : k \in S => k + 1 \in S
    BY <1>11
  <2>3. \A k \in Nat : k \in S
    BY <1>10, <2>2, Inductive
  <2> QED BY <2>1, <2>3
<1>13. read[end].said = Detect!Silence
  <2>1. CASE end = 0
    BY <1>3, <1>9, <2>1
  <2>2. CASE end # 0
    BY <1>2, <1>12, <2>2 DEF Nothing
  <2> QED BY <2>1, <2>2
<1> QED BY <1>1, <1>13

LEMMA ProbeIs ==
  ASSUME NEW s, IsServer(s), s.port = 502, Detect!probeOTService(s) \notin {Failed, Panics}
  PROVE  7 + 7 + 2 + s.ot.objects[1].len <= s.ot.n
<1> DEFINE r == s.ot
           size == r.n - 7
<1>1. r # Failed /\ Detect!modbusIdentify(r) \notin {Failed, Panics}
  BY DEF Detect!probeOTService
<1>2. r.n \in Nat /\ r.count \in Nat /\ r.objects \in Seq(Identity)
  BY <1>1 DEF IsServer, Identity
<1>3. Detect!ReadObjects(size, r.objects, r.count).said # Detect!Silence
  BY <1>1, Zenon DEF Detect!modbusIdentify
<1>4. FirstFits(size, r.objects)
  BY <1>2, <1>3, FirstObjectFits
<1>5. r.objects[1] \in Identity
  BY <1>2, <1>4 DEF FirstFits
<1>6. r.objects[1].len \in Nat
  BY <1>5 DEF Identity
<1> QED BY <1>2, <1>4, <1>6 DEF FirstFits

\* What is reported of a port.
LEMMA AnswersAreItsOwn ==
  ASSUME Detect!ServiceAssumption, NEW s, IsServer(s), NEW o
  PROVE  Detect!AnsweredService(s, o)
<1> DEFINE got == Detect!DetectService(s, o)
           ot == Detect!ByOTProbe(s, o)
<1>1. /\ ot = Panics => got = Panics
      /\ ot # Panics /\ ot # Failed => got = Detect!Named(Detect!Info, ot.name, ot.version)
      /\ ot # Panics /\ ot = Failed => got = Detect!Passive(s, o)
  <2> HIDE DEF ot
  <2> QED BY DEF Detect!DetectService, ot
<1>2. s.port = 80 => ot = Failed
  BY DEF Detect!ByOTProbe, Detect!probeOTService
<1>3. s.port = 502 /\ Detect!probeOTService(s) \notin {Failed, Panics} =>
        7 + 7 + 2 + s.ot.objects[1].len <= s.ot.n
  BY ProbeIs
<1>4. s.greeting # Failed =>
        Detect!NamedBy(s.greeting) \subseteq { e[1] : e \in Detect!Announced(s) }
  <2> SUFFICES ASSUME s.greeting # Failed, NEW name \in Detect!NamedBy(s.greeting)
               PROVE  name \in { e[1] : e \in Detect!Announced(s) }
    OBVIOUS
  <2>1. <<name, s.greeting.version>> \in Detect!Announced(s)
    BY DEF Detect!Announced
  <2>2. <<name, s.greeting.version>>[1] = name
    OBVIOUS
  <2> QED BY <2>1, <2>2
<1> DEFINE tls == Detect!TLSFound(s, o)
           weak == \/ s.tls.accepts \cap {10, 11} # {} \/ s.tls.version < 12
                   \/ s.tls.cipher = "insecure"
<1>5. /\ s.tls = Failed => tls = Failed
      /\ s.tls # Failed /\ (s.port \in Detect!KnownTLSPorts \/ o.jarm) =>
           tls # Failed /\ (tls.weak <=> weak)
      /\ tls # Failed => s.port \in Detect!KnownTLSPorts \/ o.jarm
  BY TLSFoundIs DEF Detect!TLSFound
<1>6. ot # Panics /\ ot # Failed => got.tls = Failed
  <2> HIDE DEF got, ot
  <2> QED BY <1>1, InfoIs DEF KeepsTLS
<1>7. ot # Panics /\ ot = Failed =>
        /\ got.version # Detect!Unsaid =>
             <<got.name, got.version>> \in Detect!Announced(s) \cup Detect!Picked(s)
        /\ s.accepts /\ s.greeting # Failed /\ s.greeting.matches # {} =>
             got.name \in Detect!NamedBy(s.greeting)
        /\ /\ s.accepts /\ s.greeting = Failed /\ s.port = 80 /\ s.page # Failed
           /\ s.page.server # Failed /\ ~ s.page.tls
           /\ s.page.server.software # Detect!Unsaid
           => got.name = s.page.server.software
        /\ \/ got.tls = tls
           \/ s.reply # Failed /\ s.port \notin Detect!KnownTLSPorts /\ got.tls = Failed
  <2> HIDE DEF got, ot
  <2> QED BY <1>1, PassiveIs
<1> HIDE DEF got, ot, tls, weak
<1>8. CASE got = Panics
  BY <1>8 DEF Detect!AnsweredService, got
<1>9. CASE got # Panics
  <2>1. ot # Panics
    BY <1>1, <1>9
  <2>2. got.version # Detect!Unsaid /\ ot = Failed =>
          <<got.name, got.version>> \in Detect!Announced(s) \cup Detect!Picked(s)
    BY <1>7, <2>1
  <2>3. s.accepts /\ s.greeting # Failed /\ ot = Failed =>
          (s.greeting.matches # {} => got.name \in { e[1] : e \in Detect!Announced(s) })
    BY <1>4, <1>7, <2>1
  <2>4. /\ s.accepts /\ s.greeting = Failed /\ s.port = 80
        /\ s.page # Failed
        => (s.page.server # Failed /\ ~ s.page.tls /\ s.page.server.software # Detect!Unsaid
              => got.name = s.page.server.software)
    BY <1>2, <1>7, <2>1
  <2>5. /\ s.tls # Failed /\ ot = Failed
        /\ s.port \in Detect!KnownTLSPorts \/ (o.jarm /\ s.reply = Failed)
        => got.tls # Failed
    BY <1>5, <1>7, <2>1
  <2>6. got.tls # Failed => got.tls = tls
    BY <1>6, <1>7, <2>1
  <2>7. got.tls # Failed => s.tls # Failed /\ (got.tls.weak <=> weak)
    BY <1>5, <2>6
  <2> QED BY <1>3, <2>2, <2>3, <2>4, <2>5, <2>7, Zenon DEF Detect!AnsweredService, got, ot, weak
<1> QED BY <1>8, <1>9

\* The grades of a certificate follow the time it has left.
LEMMA ExpiryIsOrdered ==
  ASSUME NEW one, NEW later, one.hoursLeft \in Int, later.hoursLeft \in Int
  PROVE  Detect!ExpiryOrdered(one, later)
<1> DEFINE Grade(h) == IF h < 0 THEN 3 ELSE IF h < 48 THEN 2 ELSE IF h < 336 THEN 1 ELSE 0
<1>1. ASSUME NEW d, d.hoursLeft \in Int
      PROVE  /\ Detect!Urgency[Detect!Expiry(d)] = Grade(d.hoursLeft)
             /\ d.hoursLeft < 0 <=> Detect!Expiry(d) = "expired"
  <2> DEFINE h == d.hoursLeft
             days == Detect!CertDaysLeft(d)
  <2>1. h >= 48 => (days < 14 <=> h < 336)
    BY <1>1 DEF Detect!CertDaysLeft
  <2>2. Detect!Expiry(d) = CASE h < 0                  -> "expired"
                             [] h \in 0 .. 47          -> "expires-in-hours"
                             [] h >= 48 /\ days < 14   -> "expires-in-days"
                             [] OTHER                  -> "good"
    BY Zenon DEF Detect!Expiry
  <2> HIDE DEF days
  <2>3. Detect!Expiry(d) = IF h < 0 THEN "expired" ELSE IF h < 48 THEN "expires-in-hours"
                           ELSE IF h < 336 THEN "expires-in-days" ELSE "good"
    BY <1>1, <2>1, <2>2
  <2>4. /\ Detect!Urgency["good"] = 0 /\ Detect!Urgency["expires-in-days"] = 1
        /\ Detect!Urgency["expires-in-hours"] = 2 /\ Detect!Urgency["expired"] = 3
    BY DEF Detect!Urgency
  <2> QED BY <1>1, <2>3, <2>4
<1>2. one.hoursLeft <= later.hoursLeft => Grade(one.hoursLeft) >= Grade(later.hoursLeft)
  OBVIOUS
<1> HIDE DEF Grade
<1> QED BY <1>1, <1>2 DEF Detect!ExpiryOrdered


-----------------------------------------------------------------------------
(* The registry holds of each certificate who showed it.                     *)

\* What the k-th server adds to the registry.
Observation(servers, k) ==
  [fingerprint |-> servers[k].tls.certs[1].id, host |-> servers[k].ip, port |-> servers[k].port]
Shows(servers, o, k) == Detect!Showed(servers[k], o, servers[k].tls.certs[1].id)
Observed(servers, o, k) ==
  { Observation(servers, j) : j \in { i \in 1 .. k : Shows(servers, o, i) } }

LEMMA SeenIs ==
  ASSUME Detect!ServiceAssumption, NEW registry, NEW servers, NEW o, NEW k, IsServer(servers[k])
  PROVE  Detect!Seen(registry, servers[k], o)
           = IF Shows(servers, o, k) THEN registry \cup {Observation(servers, k)} ELSE registry
<1> DEFINE s == servers[k]
           t == Detect!TLSFound(s, o)
           asked == s.port \in Detect!KnownTLSPorts \/ o.jarm
<1>1. /\ s.tls = Failed => t = Failed
      /\ s.tls # Failed /\ asked =>
           t # Failed /\ t.fingerprint = IF s.tls.certs = <<>> THEN Detect!Unsaid
                                         ELSE s.tls.certs[1].id
      /\ ~ asked => t = Failed
  BY TLSFoundIs
<1>2. s.tls # Failed /\ s.tls.certs # <<>> => s.tls.certs[1].id # Detect!Unsaid
  <2> SUFFICES ASSUME s.tls # Failed, s.tls.certs # <<>> PROVE s.tls.certs[1].id # Detect!Unsaid
    OBVIOUS
  <2>1. s.tls.certs \in Seq(Certificate)
    BY DEF IsServer
  <2>2. s.tls.certs[1] \in Certificate
    BY <2>1
  <2>3. \A d \in Certificate : d.id # Detect!Unsaid
    BY DEF Certificate
  <2> QED BY <2>2, <2>3
<1>3. Shows(servers, o, k) = (/\ asked /\ Detect!ByOTProbe(s, o) = Failed
                              /\ s.tls # Failed /\ s.tls.certs # <<>>)
  BY DEF Shows, Detect!Showed
<1> HIDE DEF t, asked
<1>4. Detect!Seen(registry, s, o)
        = IF Detect!ByOTProbe(s, o) # Failed \/ t = Failed THEN registry
          ELSE Detect!RecordCertObservation(registry, t.fingerprint, s.ip, s.port)
  BY Zenon DEF Detect!Seen, t
<1>5. CASE Shows(servers, o, k)
  <2>1. t # Failed /\ t.fingerprint = s.tls.certs[1].id /\ t.fingerprint # Detect!Unsaid
    BY <1>1, <1>2, <1>3, <1>5
  <2>2. Detect!Seen(registry, s, o)
          = registry \cup { [fingerprint |-> t.fingerprint, host |-> s.ip, port |-> s.port] }
    BY <1>3, <1>4, <1>5, <2>1 DEF Detect!RecordCertObservation
  <2> QED BY <1>5, <2>1, <2>2 DEF Observation
<1>6. CASE ~ Shows(servers, o, k)
  <2>1. \/ Detect!ByOTProbe(s, o) # Failed \/ t = Failed
        \/ t.fingerprint = Detect!Unsaid
    BY <1>1, <1>3, <1>6
  <2>2. Detect!Seen(registry, s, o) = registry
    BY <1>4, <2>1, Zenon DEF Detect!RecordCertObservation
  <2> QED BY <1>6, <2>2
<1> QED BY <1>5, <1>6

LEMMA RegistryIs ==
  ASSUME Detect!ServiceAssumption, NEW servers, servers \in Seq(Detect!Range(servers)), NEW o,
         \A k \in DOMAIN servers : IsServer(servers[k])
  PROVE  Detect!DetectAll(servers, o) = Observed(servers, o, Len(servers))
<1> DEFINE last == Len(servers)
           Is(x) == x = [k \in 0 .. last |->
                           IF k = 0 THEN {} ELSE Detect!Seen(x[k - 1], servers[k], o)]
           seen == CHOOSE x : Is(x)
           r == [k \in 0 .. last |-> Observed(servers, o, k)]
<1>1. Detect!DetectAll(servers, o) = seen[last]
  BY Zenon DEF Detect!DetectAll
<1>2. last \in Nat /\ DOMAIN servers = 1 .. last
  OBVIOUS
<1> HIDE DEF last
<1>3. Observed(servers, o, 0) = {}
  BY DEF Observed
<1>4. ASSUME NEW k \in 1 .. last
      PROVE  Observed(servers, o, k) = Detect!Seen(Observed(servers, o, k - 1), servers[k], o)
  <2>1. IsServer(servers[k])
    BY <1>2
  <2>2. Detect!Seen(Observed(servers, o, k - 1), servers[k], o)
          = IF Shows(servers, o, k)
            THEN Observed(servers, o, k - 1) \cup {Observation(servers, k)}
            ELSE Observed(servers, o, k - 1)
    BY <2>1, SeenIs
  <2>3. \A i : i \in 1 .. k <=> i \in 1 .. (k - 1) \/ i = k
    BY <1>2
  <2>4. Observed(servers, o, k)
          = IF Shows(servers, o, k)
            THEN Observed(servers, o, k - 1) \cup {Observation(servers, k)}
            ELSE Observed(servers, o, k - 1)
    BY <2>3 DEF Observed
  <2> QED BY <2>2, <2>4
<1>5. Is(r)
  <2> DEFINE g == [k \in 0 .. last |->
                     IF k = 0 THEN {} ELSE Detect!Seen(r[k - 1], servers[k], o)]
  <2>1. ASSUME NEW k \in 0 .. last PROVE r[k] = g[k]
    <3>1. CASE k = 0
      BY <1>3, <3>1
    <3>2. CASE k # 0
      <4>1. k \in 1 .. last /\ k - 1 \in 0 .. last
        BY <1>2, <3>2
      <4>2. r[k - 1] = Observed(servers, o, k - 1) /\ r[k] = Observed(servers, o, k)
        BY <4>1
      <4> QED BY <1>4, <3>2, <4>1, <4>2
    <3> QED BY <3>1, <3>2
  <2>2. r = [k \in 0 .. last |-> r[k]] /\ g = [k \in 0 .. last |-> g[k]]
    OBVIOUS
  <2>3. r = g
    <3> HIDE DEF r, g
    <3> QED BY <2>1, <2>2
  <2> QED BY <2>3
<1> HIDE DEF r
<1>6. Is(seen)
  <2> HIDE DEF Is
  <2> QED BY <1>5
<1>7. /\ seen[0] = {}
      /\ \A k \in 1 .. last : seen[k] = Detect!Seen(seen[k - 1], servers[k], o)
  <2> HIDE DEF seen
  <2> DEFINE step(k) == IF k = 0 THEN {} ELSE Detect!Seen(seen[k - 1], servers[k], o)
  <2>1. seen = [k \in 0 .. last |-> step(k)]
    BY <1>6
  <2>2. \A k \in 0 .. last : seen[k] = step(k)
    <3> HIDE DEF step
    <3> QED BY <2>1
  <2>3. 0 \in 0 .. last /\ \A k \in 1 .. last : k \in 0 .. last /\ k # 0
    BY <1>2
  <2>4. seen[0] = {}
    BY <2>2, <2>3
  <2>5. ASSUME NEW k \in 1 .. last PROVE seen[k] = Detect!Seen(seen[k - 1], servers[k], o)
    BY <2>2, <2>3, Zenon
  <2> QED BY <2>4, <2>5
<1> HIDE DEF seen, Is
<1> DEFINE S == { k \in Nat : k \in 0 .. last => seen[k] = Observed(servers, o, k) }
<1>8. 0 \in S
  BY <1>3, <1>7
<1>9. ASSUME NEW k \in Nat, k \in S PROVE k + 1 \in S
  <2> SUFFICES ASSUME k + 1 \in 0 .. last PROVE seen[k + 1] = Observed(servers, o, k + 1)
    OBVIOUS
  <2>1. k + 1 \in 1 .. last /\ (k + 1) - 1 = k /\ k \in 0 .. last
    BY <1>2
  <2>2. seen[k] = Observed(servers, o, k)
    BY <1>9, <2>1
  <2> QED BY <1>4, <1>7, <2>1, <2>2
<1>10. last \in S
  <2> HIDE DEF S
  <2> QED BY <1>2, <1>8, <1>9, Inductive
<1> QED BY <1>1, <1>2, <1>10 DEF last

LEMMA CertificatesAreShared ==
  ASSUME Detect!ServiceAssumption, NEW servers, servers \in Seq(Detect!Range(servers)), NEW o,
         \A k \in DOMAIN servers : IsServer(servers[k])
  PROVE  Detect!SharedExactly(servers, o)
<1> DEFINE registry == Detect!DetectAll(servers, o)
           by(f) == { q \in registry : q.fingerprint = f }
           Two(f) == \E p, q \in by(f) : p.host # q.host
           groups == Detect!FindReusedCertificates(registry)
           first(k) == servers[k].tls.certs[1].id
           ids == { first(k) : k \in { i \in DOMAIN servers : servers[i].tls # Failed
                                                      /\ servers[i].tls.certs # <<>> } }
<1>1. registry = Observed(servers, o, Len(servers)) /\ DOMAIN servers = 1 .. Len(servers)
  BY RegistryIs
<1> HIDE DEF registry
<1>2. \A f : f \in { g.fingerprint : g \in groups } <=> Two(f)
  <2>1. groups = { [fingerprint |-> f, hosts |-> by(f)] :
                     f \in { g \in { q.fingerprint : q \in registry } : Two(g) } }
    BY Zenon DEF Detect!FindReusedCertificates
  <2>2. \A f : Two(f) => f \in { q.fingerprint : q \in registry }
    OBVIOUS
  <2> DEFINE group(f) == [fingerprint |-> f, hosts |-> by(f)]
  <2>3. \A f : group(f).fingerprint = f
    OBVIOUS
  <2> HIDE DEF by, Two
  <2>4. \A x : x \in groups <=> \E f : f \in { q.fingerprint : q \in registry } /\ Two(f) /\ x = group(f)
    BY <2>1
  <2> HIDE DEF group, groups
  <2> QED BY <2>2, <2>3, <2>4
<1>3. \A q : q \in registry <=>
        \E k \in DOMAIN servers : Shows(servers, o, k) /\ q = Observation(servers, k)
  BY <1>1 DEF Observed
<1>4. \A k \in DOMAIN servers : \A f :
        Detect!Showed(servers[k], o, f) <=> Shows(servers, o, k) /\ f = first(k)
  BY DEF Shows, Detect!Showed
<1>5. \A k : /\ Observation(servers, k).fingerprint = first(k)
             /\ Observation(servers, k).host = servers[k].ip
  BY DEF Observation
<1> HIDE DEF first
<1>6. ASSUME NEW f PROVE Two(f) <=> Detect!Shared(servers, o, f)
  <2>1. ASSUME Two(f) PROVE Detect!Shared(servers, o, f)
    <3>1. PICK p, q \in by(f) : p.host # q.host
      BY <2>1
    <3>2. PICK i \in DOMAIN servers : Shows(servers, o, i) /\ p = Observation(servers, i)
      BY <1>3, <3>1
    <3>3. PICK j \in DOMAIN servers : Shows(servers, o, j) /\ q = Observation(servers, j)
      BY <1>3, <3>1
    <3>4. first(i) = f /\ first(j) = f /\ servers[i].ip # servers[j].ip
      BY <1>5, <3>1, <3>2, <3>3
    <3> QED BY <1>4, <3>2, <3>3, <3>4 DEF Detect!Shared
  <2>2. ASSUME Detect!Shared(servers, o, f) PROVE Two(f)
    <3>1. PICK i, j \in DOMAIN servers :
            /\ servers[i].ip # servers[j].ip
            /\ Detect!Showed(servers[i], o, f) /\ Detect!Showed(servers[j], o, f)
      BY <2>2 DEF Detect!Shared
    <3>2. /\ Shows(servers, o, i) /\ f = first(i)
          /\ Shows(servers, o, j) /\ f = first(j)
      BY <1>4, <3>1
    <3>3. Observation(servers, i) \in by(f) /\ Observation(servers, j) \in by(f)
      BY <1>3, <1>5, <3>2
    <3> QED BY <1>5, <3>1, <3>3
  <2> QED BY <2>1, <2>2
<1>7. \A f : Detect!Shared(servers, o, f) => f \in ids
  <2> SUFFICES ASSUME NEW f, Detect!Shared(servers, o, f) PROVE f \in ids
    OBVIOUS
  <2>1. PICK i \in DOMAIN servers : Detect!Showed(servers[i], o, f)
    BY DEF Detect!Shared
  <2>2. servers[i].tls # Failed /\ servers[i].tls.certs # <<>> /\ f = first(i)
    BY <2>1 DEF Detect!Showed, first
  <2> QED BY <2>2
<1> HIDE DEF by, Two, groups, ids
<1>8. { g.fingerprint : g \in groups } = { f \in ids : Detect!Shared(servers, o, f) }
  BY <1>2, <1>6, <1>7
<1> QED BY <1>8, Zenon DEF Detect!SharedExactly, groups, registry, ids, first

\* What is reported of an open port, of a certificate and of those who share it.
LEMMA EveryServiceAnswered ==
  ASSUME Detect!ServiceAssumption, NEW p, IsService(p)
  PROVE  CASE p.of = "service" -> Detect!AnsweredService(p.server, p.o)
           [] p.of = "certificates" ->
                /\ Detect!ExpiryOrdered(p.one, p.other)
                /\ Detect!SharedExactly(p.servers, p.o)
<1>1. CASE p.of = "service"
  <2>1. IsServer(p.server)
    BY <1>1 DEF IsService
  <2>2. Detect!AnsweredService(p.server, p.o)
    BY <2>1, AnswersAreItsOwn
  <2> QED BY <1>1, <2>2
<1>2. CASE p.of = "certificates"
  <2>1. /\ p.one \in Certificate /\ p.other \in Certificate
        /\ Listed(p.servers) /\ \A k \in DOMAIN p.servers : IsServer(p.servers[k])
    BY <1>2 DEF IsService
  <2>2. p.one.hoursLeft \in Int /\ p.other.hoursLeft \in Int
    BY <2>1 DEF Certificate
  <2>3. Detect!ExpiryOrdered(p.one, p.other)
    BY <2>2, ExpiryIsOrdered
  <2>4. p.servers \in Seq(Detect!Range(p.servers))
    BY <2>1 DEF Listed, Detect!Range
  <2>5. Detect!SharedExactly(p.servers, p.o)
    BY <2>1, <2>4, CertificatesAreShared
  <2> QED BY <1>2, <2>3, <2>5
<1> QED BY <1>1, <1>2 DEF IsService

-----------------------------------------------------------------------------
(* The specification.                                                        *)

\* What is reported of vulnerabilities is right, for every feed, version and
\* port: versions are in order and windows told, a vulnerability is one row
\* with its highest score, the headline is the worst that applies, a row is
\* confirmed by a distribution or inherits it, and ranking loses no row.
THEOREM LookupsAreRight == ASSUME AlgorithmAssumption PROVE Spec => []OneRowAndTheWorst
<1>1. ChoiceInv => OneRowAndTheWorst
  BY EveryLookupRight DEF ChoiceInv, OneRowAndTheWorst, AlgorithmAssumption
<1> QED BY <1>1, ChoiceHolds, PTL

\* What is reported of a port is what the port said of itself, for every port
\* that answers and every table of greetings; a certificate with less time left
\* is never said to be the better, and the certificates of any ports are said
\* to be shared exactly when two hosts showed them.
THEOREM ServicesAreAnswered == ASSUME AlgorithmAssumption PROVE Spec => []ServicesAsAnswered
<1>1. ChoiceInv => ServicesAsAnswered
  <2> SUFFICES ASSUME ChoiceInv, about = "service" PROVE ServicesAsAnswered
    BY DEF ServicesAsAnswered
  <2>1. IsService(input) /\ Detect!ServiceAssumption
    BY DEF ChoiceInv, AlgorithmAssumption
  <2> QED BY <2>1, EveryServiceAnswered DEF ServicesAsAnswered
<1> QED BY <1>1, ChoiceHolds, PTL
=============================================================================
