---------------------------- MODULE WindowProofs ----------------------------
(***************************************************************************)
(* The core is precise.  Its reorder buffer without the wrong path is the  *)
(* window of PreciseWindow, and every cycle a step of it.  As there,     *)
(* the frontend loses no rollback tag (MarkerRace is FALSE).               *)
(***************************************************************************)
EXTENDS RollbackProofs

(***************************************************************************)
(* The elements of a set of numbers in their order: what Nth enumerates.   *)
(***************************************************************************)
Upto(S, i) == {j \in S : j <= i}
Enumerates(f, m, S) ==
    /\ S \in SUBSET Nat /\ m \in Nat /\ f \in [1 .. m -> S]
    /\ \A k, l \in 1 .. m : k < l => f[k] < f[l]
    /\ \A i \in S : \E k \in 1 .. m : f[k] = i
IsPrefix(T, f, k) == \A i : i \in T <=> \E j \in 1 .. k : i = f[j]

LEMMA BoundedFinite ==
    ASSUME NEW n \in Nat, NEW S \in SUBSET (1 .. n)
    PROVE  IsFiniteSet(S) /\ Cardinality(S) \in Nat
<1>1. IsFiniteSet(1 .. n)
  BY FS_Interval
<1>2. IsFiniteSet(S)
  BY <1>1, FS_Subset
<1> QED BY <1>2, FS_CardinalityType

\* The first k elements of an enumeration are k elements.
LEMMA EnumerationCounts ==
    ASSUME NEW S, NEW m, NEW f, Enumerates(f, m, S),
           NEW k \in 0 .. m, NEW T, IsPrefix(T, f, k)
    PROVE  Cardinality(T) = k
<1> DEFINE P == 1 .. k
           g == [j \in P |-> f[j]]
<1>0. m \in Nat /\ k \in Nat /\ P \subseteq 1 .. m
  BY DEF Enumerates
<1>1. g \in Bijection(P, T)
  <2>1. g \in [P -> T]
    BY DEF IsPrefix
  <2>2. \A i, j \in P : g[i] = g[j] => i = j
    <3> SUFFICES ASSUME NEW i \in P, NEW j \in P, f[i] = f[j] PROVE i = j
      OBVIOUS
    <3>1. i \in 1 .. m /\ j \in 1 .. m /\ f[i] \in Nat /\ f[j] \in Nat
      BY <1>0 DEF Enumerates
    <3>2. ~(i < j) /\ ~(j < i)
      BY <3>1 DEF Enumerates
    <3> QED BY <1>0, <3>1, <3>2
  <2>3. \A t \in T : \E j \in P : g[j] = t
    BY DEF IsPrefix
  <2> HIDE DEF g, P
  <2> QED BY <2>1, <2>2, <2>3 DEF Bijection, Injection, Surjection, IsInjective
<1>2. IsFiniteSet(P) /\ Cardinality(P) = k
  <2>1. IsFiniteSet(P) /\ Cardinality(P) = IF 1 > k THEN 0 ELSE k - 1 + 1
    BY <1>0, FS_Interval
  <2>2. (IF 1 > k THEN 0 ELSE k - 1 + 1) = k
    BY <1>0
  <2> QED BY <2>1, <2>2
<1>3. ExistsBijection(P, T)
  <2> HIDE DEF g, P
  <2> QED BY <1>1 DEF ExistsBijection
<1> HIDE DEF g, P
<1> QED BY <1>2, <1>3, FS_Bijection

LEMMA EnumerationRank ==
    ASSUME NEW S, NEW m, NEW f, Enumerates(f, m, S)
    PROVE  /\ Cardinality(S) = m
           /\ \A k \in 1 .. m : Cardinality(Upto(S, f[k])) = k
<1>1. m \in Nat
  BY DEF Enumerates
<1>2. Cardinality(S) = m
  <2>1. m \in 0 .. m
    BY <1>1
  <2>2. (\A j \in 1 .. m : f[j] \in S) /\ \A i \in S : \E j \in 1 .. m : i = f[j]
    BY DEF Enumerates
  <2>3. IsPrefix(S, f, m)
    BY <2>2 DEF IsPrefix
  <2> QED BY <2>1, <2>3, EnumerationCounts
<1>3. ASSUME NEW k \in 1 .. m PROVE Cardinality(Upto(S, f[k])) = k
  <2>1. IsPrefix(Upto(S, f[k]), f, k)
    <3>1. ASSUME NEW i \in Upto(S, f[k]) PROVE \E j \in 1 .. k : i = f[j]
      <4>1. i \in S /\ i <= f[k] /\ i \in Nat /\ f[k] \in Nat
        BY <3>1 DEF Upto, Enumerates
      <4>2. PICK j \in 1 .. m : f[j] = i
        BY <4>1 DEF Enumerates
      <4>3. ~(k < j)
        BY <4>1, <4>2 DEF Enumerates
      <4>4. j \in 1 .. k
        BY <1>1, <4>2, <4>3
      <4> QED BY <4>2, <4>4
    <3>2. ASSUME NEW j \in 1 .. k PROVE f[j] \in Upto(S, f[k])
      <4>0. j \in 1 .. m
        BY <1>1
      <4>1. j \in 1 .. m /\ f[j] \in S /\ f[j] \in Nat /\ f[k] \in Nat
        BY <4>0 DEF Enumerates
      <4>2. j < k => f[j] < f[k]
        BY <4>1 DEF Enumerates
      <4>3. j < k \/ j = k
        BY <1>1
      <4>4. f[j] <= f[k]
        BY <4>1, <4>2, <4>3
      <4> QED BY <4>1, <4>4 DEF Upto
    <3> QED BY <3>1, <3>2 DEF IsPrefix
  <2>2. k \in 0 .. m
    BY <1>1
  <2> QED BY <2>1, <2>2, EnumerationCounts
<1> QED BY <1>2, <1>3

\* Elements with the same number of elements up to them are the same.
LEMMA RankUnique ==
    ASSUME NEW S, S \subseteq Nat, IsFiniteSet(S), NEW i \in S, NEW j \in S,
           Cardinality(Upto(S, i)) = Cardinality(Upto(S, j))
    PROVE  i = j
<1>1. ASSUME NEW a \in S, NEW b \in S, Cardinality(Upto(S, a)) = Cardinality(Upto(S, b)), a < b
      PROVE  FALSE
  <2>1. a \in Nat /\ b \in Nat
    OBVIOUS
  <2>2. Upto(S, b) \in SUBSET S /\ Upto(S, a) \in SUBSET Upto(S, b)
    <3>1. \A c \in S : c <= a => c <= b
      <4> SUFFICES ASSUME NEW c \in S, c <= a PROVE c <= b
        OBVIOUS
      <4>1. c \in Nat
        OBVIOUS
      <4> QED BY <1>1, <2>1, <4>1
    <3> QED BY <3>1 DEF Upto
  <2>3. IsFiniteSet(Upto(S, b))
    BY <2>2, FS_Subset
  <2>4. Upto(S, a) = Upto(S, b)
    BY <1>1, <2>2, <2>3, FS_Subset
  <2>5. b \in Upto(S, b) /\ b \notin Upto(S, a)
    BY <1>1, <2>1 DEF Upto
  <2> QED BY <2>4, <2>5
<1>2. ~(i < j) /\ ~(j < i)
  BY <1>1
<1>3. i \in Nat /\ j \in Nat
  OBVIOUS
<1> QED BY <1>2, <1>3

\* Nth gives the elements of any enumeration.
LEMMA NthOfEnumeration ==
    ASSUME NEW S, NEW m, NEW f, Enumerates(f, m, S), IsFiniteSet(S), NEW k \in 1 .. m
    PROVE  Nth(S, k) = f[k]
<1>1. f[k] \in S /\ Cardinality(Upto(S, f[k])) = k
  <2>1. f[k] \in S
    BY DEF Enumerates
  <2>2. Cardinality(Upto(S, f[k])) = k
    BY EnumerationRank
  <2> QED BY <2>1, <2>2
<1>2. Nth(S, k) = CHOOSE i \in S : Cardinality(Upto(S, i)) = k
  BY DEF Nth, Upto
<1>3. PICK x : x = CHOOSE i \in S : Cardinality(Upto(S, i)) = k
  OBVIOUS
<1>4. x \in S /\ Cardinality(Upto(S, x)) = k
  BY <1>1, <1>3
<1>5. x = f[k]
  <2>1. S \subseteq Nat
    BY DEF Enumerates
  <2> QED BY <1>1, <1>4, <2>1, RankUnique
<1> QED BY <1>2, <1>3, <1>5

\* Every set of numbers up to n is enumerated.
LEMMA CountStep ==
    ASSUME NEW n \in Nat, NEW S \in SUBSET (1 .. n), NEW i \in 1 .. n
    PROVE  /\ Cardinality(Upto(S, i)) \in Nat /\ Cardinality(Upto(S, i - 1)) \in Nat
           /\ Cardinality(Upto(S, i)) = Cardinality(Upto(S, i - 1)) + (IF i \in S THEN 1 ELSE 0)
<1>1. Upto(S, i) \in SUBSET (1 .. n) /\ Upto(S, i - 1) \in SUBSET (1 .. n)
  BY DEF Upto
<1>2. IsFiniteSet(Upto(S, i - 1)) /\ Cardinality(Upto(S, i)) \in Nat /\ Cardinality(Upto(S, i - 1)) \in Nat
  BY <1>1, BoundedFinite
<1>3. CASE i \in S
  <2>1. Upto(S, i) = Upto(S, i - 1) \cup {i} /\ i \notin Upto(S, i - 1)
    <3>1. \A j \in S : j <= i <=> j <= i - 1 \/ j = i
      OBVIOUS
    <3>2. ~(i <= i - 1) /\ i <= i
      OBVIOUS
    <3> QED BY <1>3, <3>1, <3>2 DEF Upto
  <2>2. Cardinality(Upto(S, i - 1) \cup {i}) = Cardinality(Upto(S, i - 1)) + 1
    BY <1>2, <2>1, FS_AddElement
  <2> QED BY <1>2, <1>3, <2>1, <2>2
<1>4. CASE i \notin S
  <2>1. Upto(S, i) = Upto(S, i - 1)
    <3>1. \A j \in S : j <= i <=> j <= i - 1
      <4> SUFFICES ASSUME NEW j \in S PROVE j <= i <=> j <= i - 1
        OBVIOUS
      <4>1. j # i /\ j \in 1 .. n
        BY <1>4
      <4> QED BY <4>1
    <3> QED BY <3>1 DEF Upto
  <2> QED BY <1>2, <1>4, <2>1
<1> QED BY <1>2, <1>3, <1>4

LEMMA CountMonotone ==
    ASSUME NEW n \in Nat, NEW S \in SUBSET (1 .. n), NEW i \in Nat, NEW j \in Nat, i <= j
    PROVE  /\ Cardinality(Upto(S, i)) <= Cardinality(Upto(S, j))
           /\ Cardinality(Upto(S, i)) \in Nat /\ Cardinality(Upto(S, j)) \in Nat
<1>1. Upto(S, j) \in SUBSET (1 .. n) /\ Upto(S, i) \in SUBSET (1 .. n)
  BY DEF Upto
<1>2. Upto(S, i) \in SUBSET Upto(S, j)
  <2>1. \A k \in S : k <= i => k <= j
    <3> SUFFICES ASSUME NEW k \in S, k <= i PROVE k <= j
      OBVIOUS
    <3>1. k \in 1 .. n
      OBVIOUS
    <3> QED BY <3>1
  <2> QED BY <2>1 DEF Upto
<1>3. IsFiniteSet(Upto(S, j)) /\ Cardinality(Upto(S, i)) \in Nat /\ Cardinality(Upto(S, j)) \in Nat
  BY <1>1, BoundedFinite
<1> QED BY <1>2, <1>3, FS_Subset

LEMMA CountEnds ==
    ASSUME NEW n \in Nat, NEW S \in SUBSET (1 .. n)
    PROVE  /\ Cardinality(Upto(S, 0)) = 0
           /\ Upto(S, n) = S
<1>1. Upto(S, 0) = {}
  <2> SUFFICES ASSUME NEW j \in S, j <= 0 PROVE FALSE
    BY DEF Upto
  <2>1. j \in 1 .. n
    OBVIOUS
  <2> QED BY <2>1
<1>2. Upto(S, n) = S
  <2>1. \A j \in S : j <= n
    <3> SUFFICES ASSUME NEW j \in S PROVE j <= n
      OBVIOUS
    <3>1. j \in 1 .. n
      OBVIOUS
    <3> QED BY <3>1
  <2> QED BY <2>1 DEF Upto
<1> QED BY <1>1, <1>2, FS_EmptySet

LEMMA NthExists ==
    ASSUME NEW n \in Nat, NEW S \in SUBSET (1 .. n), NEW k \in 1 .. Cardinality(S)
    PROVE  Nth(S, k) \in S /\ Cardinality(Upto(S, Nth(S, k))) = k
<1> DEFINE T == {i \in Nat : i <= n /\ k <= Cardinality(Upto(S, i))}
<1>0. Cardinality(S) \in Nat
  BY BoundedFinite
<1>1. n \in T /\ T \in SUBSET Nat
  <2>1. Upto(S, n) = S
    BY CountEnds
  <2> QED BY <1>0, <2>1
<1>2. PICK x \in T : \A y \in T : x <= y
  <2> HIDE DEF T
  <2> QED BY <1>1, LeastNumber
<1>3. x \in Nat /\ x <= n /\ k <= Cardinality(Upto(S, x))
  BY <1>2
<1>4. x # 0
  <2> SUFFICES ASSUME x = 0 PROVE FALSE
    OBVIOUS
  <2>1. Cardinality(Upto(S, 0)) = 0
    BY CountEnds
  <2>2. k <= 0 /\ k \in Nat /\ k >= 1
    BY <1>0, <1>3, <2>1
  <2> QED BY <2>2
<1>5. x \in 1 .. n /\ x - 1 \in Nat /\ x - 1 <= n /\ ~(x <= x - 1)
  BY <1>3, <1>4
<1>6. ~(k <= Cardinality(Upto(S, x - 1)))
  BY <1>2, <1>5
<1>7. x \in S /\ Cardinality(Upto(S, x)) = k
  <2>1. /\ Cardinality(Upto(S, x)) \in Nat /\ Cardinality(Upto(S, x - 1)) \in Nat
        /\ Cardinality(Upto(S, x)) = Cardinality(Upto(S, x - 1)) + (IF x \in S THEN 1 ELSE 0)
    BY <1>5, CountStep
  <2>2. PICK c1 \in Nat, c0 \in Nat : c1 = Cardinality(Upto(S, x)) /\ c0 = Cardinality(Upto(S, x - 1))
    BY <2>1
  <2>3. k \in Nat /\ k <= c1 /\ ~(k <= c0) /\ c1 = c0 + (IF x \in S THEN 1 ELSE 0)
    BY <1>0, <1>3, <1>6, <2>1, <2>2
  <2>4. x \in S /\ c1 = k
    BY <2>2, <2>3
  <2> QED BY <2>2, <2>4
<1>8. Nth(S, k) = CHOOSE i \in S : Cardinality(Upto(S, i)) = k
  BY DEF Nth, Upto
<1> QED BY <1>7, <1>8

LEMMA NthEnumerates ==
    ASSUME NEW n \in Nat, NEW S \in SUBSET (1 .. n)
    PROVE  Enumerates([k \in 1 .. Cardinality(S) |-> Nth(S, k)], Cardinality(S), S)
<1>1. PICK m \in Nat : m = Cardinality(S)
  BY BoundedFinite
<1>2. PICK f : f = [k \in 1 .. m |-> Nth(S, k)]
  OBVIOUS
<1>3. ASSUME NEW k \in 1 .. m
      PROVE  f[k] = Nth(S, k) /\ f[k] \in S /\ f[k] \in Nat /\ Cardinality(Upto(S, f[k])) = k
  <2>1. Nth(S, k) \in S /\ Cardinality(Upto(S, Nth(S, k))) = k
    BY <1>1, NthExists
  <2>2. f[k] = Nth(S, k)
    BY <1>2
  <2>3. f[k] \in 1 .. n
    BY <2>1, <2>2
  <2> QED BY <2>1, <2>2, <2>3
<1>4. f \in [1 .. m -> S]
  BY <1>2, <1>3
<1>5. ASSUME NEW k \in 1 .. m, NEW l \in 1 .. m, k < l PROVE f[k] < f[l]
  <2>1. PICK a \in Nat, b \in Nat : a = f[k] /\ b = f[l]
    BY <1>3
  <2>2. Cardinality(Upto(S, a)) = k /\ Cardinality(Upto(S, b)) = l
    BY <1>3, <2>1
  <2>3. b <= a => l <= k
    BY <2>2, CountMonotone
  <2>4. ~(b <= a)
    BY <1>1, <1>5, <2>3
  <2>5. a < b
    BY <2>1, <2>4
  <2> QED BY <2>1, <2>5
<1>6. ASSUME NEW i \in S PROVE \E k \in 1 .. m : f[k] = i
  <2>1. i \in 1 .. n /\ i \in Nat /\ i <= n
    OBVIOUS
  <2>2. PICK k \in Nat : k = Cardinality(Upto(S, i))
    BY <2>1, CountStep
  <2>3. k <= m
    <3>1. Cardinality(Upto(S, i)) <= Cardinality(Upto(S, n))
      BY <2>1, CountMonotone
    <3>2. Upto(S, n) = S
      BY CountEnds
    <3> QED BY <1>1, <2>2, <3>1, <3>2
  <2>4. k >= 1
    <3>1. /\ Cardinality(Upto(S, i)) \in Nat /\ Cardinality(Upto(S, i - 1)) \in Nat
          /\ Cardinality(Upto(S, i)) = Cardinality(Upto(S, i - 1)) + (IF i \in S THEN 1 ELSE 0)
      BY <2>1, CountStep
    <3> QED BY <2>2, <3>1
  <2>5. k \in 1 .. m
    BY <1>1, <2>2, <2>3, <2>4
  <2>6. f[k] \in S /\ Cardinality(Upto(S, f[k])) = Cardinality(Upto(S, i))
    BY <1>3, <2>2, <2>5
  <2>7. f[k] = i
    <3>1. S \subseteq Nat
      OBVIOUS
    <3>2. IsFiniteSet(S)
      BY BoundedFinite
    <3> QED BY <2>6, <3>1, <3>2, RankUnique
  <2> QED BY <2>5, <2>7
<1>7. S \in SUBSET Nat
  OBVIOUS
<1>8. Enumerates(f, m, S)
  BY <1>1, <1>4, <1>5, <1>6, <1>7 DEF Enumerates
<1> QED BY <1>1, <1>2, <1>8

\* The k-th element is up to x iff there are k elements up to x.
LEMMA RankOrder ==
    ASSUME NEW n \in Nat, NEW S \in SUBSET (1 .. n), NEW k \in 1 .. Cardinality(S), NEW x \in Nat
    PROVE  /\ Nth(S, k) <= x <=> k <= Cardinality(Upto(S, x))
           /\ Nth(S, k) \in S /\ Nth(S, k) \in 1 .. n
<1>0. Cardinality(S) \in Nat /\ k \in Nat
  BY BoundedFinite
<1>1. PICK y : y = Nth(S, k)
  OBVIOUS
<1>2. y \in S /\ y \in 1 .. n /\ Cardinality(Upto(S, y)) = k
  <2>1. y \in S /\ Cardinality(Upto(S, y)) = k
    BY <1>1, NthExists
  <2> QED BY <2>1
<1>3. y <= x => k <= Cardinality(Upto(S, x))
  <2> SUFFICES ASSUME y <= x PROVE k <= Cardinality(Upto(S, x))
    OBVIOUS
  <2>1. y \in Nat
    BY <1>2
  <2>2. Cardinality(Upto(S, y)) <= Cardinality(Upto(S, x))
    BY <2>1, CountMonotone
  <2> QED BY <1>2, <2>2
<1>4. ~(y <= x) => ~(k <= Cardinality(Upto(S, x)))
  <2> SUFFICES ASSUME ~(y <= x) PROVE ~(k <= Cardinality(Upto(S, x)))
    OBVIOUS
  <2>1. y - 1 \in Nat /\ x <= y - 1
    BY <1>2
  <2>2. /\ Cardinality(Upto(S, x)) <= Cardinality(Upto(S, y - 1))
        /\ Cardinality(Upto(S, x)) \in Nat /\ Cardinality(Upto(S, y - 1)) \in Nat
    BY <2>1, CountMonotone
  <2>3. Cardinality(Upto(S, y)) = Cardinality(Upto(S, y - 1)) + 1
    <3>1. Cardinality(Upto(S, y)) = Cardinality(Upto(S, y - 1)) + (IF y \in S THEN 1 ELSE 0)
      BY <1>2, CountStep
    <3> QED BY <1>2, <3>1
  <2>4. PICK a \in Nat, b \in Nat : a = Cardinality(Upto(S, x)) /\ b = Cardinality(Upto(S, y - 1))
    BY <2>2
  <2>5. k = b + 1 /\ a <= b
    BY <1>2, <2>2, <2>3, <2>4
  <2>6. ~(k <= a)
    BY <2>4, <2>5
  <2> QED BY <2>4, <2>6
<1> QED BY <1>1, <1>2, <1>3, <1>4

\* What is left of a set when the numbers up to r and the ones after h go.
LEMMA RestEnumerates ==
    ASSUME NEW n \in Nat, NEW S \in SUBSET (1 .. n), NEW r \in Nat, NEW h \in Nat, r <= h, h <= n,
           NEW T, \A i : i \in T <=> i \in 1 .. h - r /\ i + r \in S,
           NEW c \in Nat, c = Cardinality(Upto(S, r)), NEW d \in Nat, d = Cardinality(Upto(S, h))
    PROVE  /\ c <= d /\ d <= Cardinality(S)
           /\ Enumerates([k \in 1 .. d - c |-> Nth(S, k + c) - r], d - c, T)
<1>0. PICK m \in Nat : m = Cardinality(S)
  BY BoundedFinite
<1>1. c <= d
  BY CountMonotone
<1>2. d <= m
  <2>1. Cardinality(Upto(S, h)) <= Cardinality(Upto(S, n)) /\ Upto(S, n) = S
    BY CountMonotone, CountEnds
  <2> QED BY <1>0, <2>1
<1>3. PICK p : p = [k \in 1 .. m |-> Nth(S, k)]
  OBVIOUS
<1>4. Enumerates(p, m, S)
  BY <1>0, <1>3, NthEnumerates
<1>5. ASSUME NEW k \in 1 .. m
      PROVE  /\ p[k] = Nth(S, k) /\ p[k] \in S /\ p[k] \in Nat
             /\ (p[k] <= r <=> k <= c)
             /\ (p[k] <= h <=> k <= d)
  <2>1. /\ Nth(S, k) <= r <=> k <= Cardinality(Upto(S, r))
        /\ Nth(S, k) <= h <=> k <= Cardinality(Upto(S, h))
        /\ Nth(S, k) \in S /\ Nth(S, k) \in 1 .. n
    BY <1>0, RankOrder
  <2>2. p[k] = Nth(S, k)
    BY <1>3
  <2> QED BY <2>1, <2>2
<1>6. PICK e \in Nat : e = d - c
  BY <1>1
<1>7. PICK g : g = [k \in 1 .. e |-> Nth(S, k + c) - r]
  OBVIOUS
<1>8. ASSUME NEW k \in 1 .. e
      PROVE  k + c \in 1 .. m /\ g[k] = p[k + c] - r /\ g[k] \in T /\ p[k + c] \in Nat
  <2>1. k + c \in 1 .. m /\ ~(k + c <= c) /\ k + c <= d
    BY <1>1, <1>2, <1>6
  <2>2. /\ p[k + c] = Nth(S, k + c) /\ p[k + c] \in S /\ p[k + c] \in Nat
        /\ ~(p[k + c] <= r) /\ p[k + c] <= h
    BY <1>5, <2>1
  <2>3. g[k] = p[k + c] - r
    BY <1>7, <2>2
  <2>4. p[k + c] - r \in 1 .. h - r /\ p[k + c] - r + r = p[k + c]
    BY <2>2
  <2> QED BY <2>1, <2>2, <2>3, <2>4
<1>9. T \in SUBSET Nat /\ g \in [1 .. e -> T]
  BY <1>7, <1>8
<1>10. ASSUME NEW k \in 1 .. e, NEW l \in 1 .. e, k < l PROVE g[k] < g[l]
  <2>1. k + c < l + c /\ k + c \in 1 .. m /\ l + c \in 1 .. m
    BY <1>6, <1>8, <1>10
  <2>2. p[k + c] < p[l + c]
    BY <1>4, <2>1 DEF Enumerates
  <2> QED BY <1>8, <2>2
<1>11. ASSUME NEW i \in T PROVE \E k \in 1 .. e : g[k] = i
  <2>1. i \in 1 .. h - r /\ i + r \in S
    BY <1>11
  <2>2. PICK x \in Nat : x = i + r
    BY <2>1
  <2>3. PICK k \in 1 .. m : p[k] = x
    BY <1>4, <2>1, <2>2 DEF Enumerates
  <2>4. ~(p[k] <= r) /\ p[k] <= h
    BY <2>1, <2>2, <2>3
  <2>5. ~(k <= c) /\ k <= d
    BY <1>5, <2>4
  <2>6. PICK k0 \in 1 .. e : k = k0 + c
    <3>1. k - c \in 1 .. e /\ k = (k - c) + c
      BY <1>0, <1>6, <2>5
    <3> QED BY <3>1
  <2>7. g[k0] = i
    BY <1>8, <2>1, <2>2, <2>3, <2>6
  <2> QED BY <2>6, <2>7
<1>12. Enumerates(g, e, T)
  BY <1>9, <1>10, <1>11 DEF Enumerates
<1> QED BY <1>0, <1>1, <1>2, <1>6, <1>7, <1>12

LEMMA AppendEnumerates ==
    ASSUME NEW S, NEW m, NEW f, Enumerates(f, m, S), NEW i \in Nat, \A j \in S : j < i
    PROVE  Enumerates([k \in 1 .. m + 1 |-> IF k <= m THEN f[k] ELSE i], m + 1, S \cup {i})
<1>1. m \in Nat /\ S \in SUBSET Nat /\ f \in [1 .. m -> S]
  BY DEF Enumerates
<1>2. PICK g : g = [k \in 1 .. m + 1 |-> IF k <= m THEN f[k] ELSE i]
  OBVIOUS
<1>3. ASSUME NEW k \in 1 .. m + 1
      PROVE  \/ k \in 1 .. m /\ k < m + 1 /\ g[k] = f[k] /\ f[k] \in S
             \/ k = m + 1 /\ g[k] = i
  BY <1>1, <1>2
<1>4. S \cup {i} \in SUBSET Nat /\ m + 1 \in Nat
  BY <1>1
<1>5. g \in [1 .. m + 1 -> S \cup {i}]
  BY <1>1, <1>2
<1>6. ASSUME NEW k \in 1 .. m + 1, NEW l \in 1 .. m + 1, k < l PROVE g[k] < g[l]
  <2>1. k \in 1 .. m /\ g[k] = f[k] /\ f[k] \in S
    BY <1>1, <1>3, <1>6
  <2>2. CASE l = m + 1
    <3>1. g[l] = i
      BY <1>1, <1>2, <2>2
    <3>2. f[k] < i
      BY <2>1
    <3> QED BY <2>1, <3>1, <3>2
  <2>3. CASE l # m + 1
    <3>1. l \in 1 .. m /\ g[l] = f[l]
      BY <1>3, <2>3
    <3>2. f[k] < f[l]
      BY <1>6, <2>1, <3>1 DEF Enumerates
    <3> QED BY <2>1, <3>1, <3>2
  <2> QED BY <2>2, <2>3
<1>7. ASSUME NEW j \in S \cup {i} PROVE \E k \in 1 .. m + 1 : g[k] = j
  <2>1. CASE j = i
    <3>1. m + 1 \in 1 .. m + 1 /\ g[m + 1] = i
      BY <1>1, <1>2
    <3> QED BY <2>1, <3>1
  <2>2. CASE j \in S
    <3>1. PICK k \in 1 .. m : f[k] = j
      BY <2>2 DEF Enumerates
    <3>2. k \in 1 .. m + 1 /\ g[k] = f[k]
      BY <1>1, <1>2, <3>1
    <3> QED BY <3>1, <3>2
  <2> QED BY <2>1, <2>2
<1> QED BY <1>2, <1>4, <1>5, <1>6, <1>7 DEF Enumerates

-----------------------------------------------------------------------------
(***************************************************************************)
(* The window of a reorder buffer R: its valid entries in order.           *)
(***************************************************************************)
PathOf(R) == {i \in DOMAIN R : ~R[i].wrong}
ItemsOf(R) == [k \in 1 .. Cardinality(PathOf(R)) |-> WindowItem(R[Nth(PathOf(R), k)])]
Items == [rl : LRegs, rp : AnyReg, br : BOOLEAN, exc : BOOLEAN]

LEMMA WindowIsItems ==
    /\ Window = IF fsm = "NORMAL" THEN ItemsOf(rob) ELSE <<>>
    /\ Window' = IF fsm' = "NORMAL" THEN ItemsOf(rob') ELSE <<>>
BY DEF Window, ItemsOf, PathOf, ValidPath

LEMMA PathBounds ==
    ASSUME NEW R \in Seq(Entry)
    PROVE  /\ Len(R) \in Nat /\ DOMAIN R = 1 .. Len(R) /\ PathOf(R) \in SUBSET (1 .. Len(R))
           /\ Cardinality(PathOf(R)) \in Nat
<1>1. Len(R) \in Nat /\ DOMAIN R = 1 .. Len(R)
  OBVIOUS
<1>2. PathOf(R) \in SUBSET (1 .. Len(R))
  BY <1>1 DEF PathOf
<1>3. Cardinality(PathOf(R)) \in Nat
  BY <1>1, <1>2, BoundedFinite
<1> QED BY <1>1, <1>2, <1>3

LEMMA ItemsEnumerated ==
    ASSUME NEW R \in Seq(Entry), NEW m, NEW f, Enumerates(f, m, PathOf(R))
    PROVE  /\ m \in Nat
           /\ ItemsOf(R) \in Seq(Items) /\ Len(ItemsOf(R)) = m /\ DOMAIN ItemsOf(R) = 1 .. m
           /\ \A k \in 1 .. m : ItemsOf(R)[k] = WindowItem(R[f[k]]) /\ f[k] \in 1 .. Len(R)
<1>1. PICK n \in Nat : n = Len(R) /\ DOMAIN R = 1 .. n
  BY PathBounds
<1>2. PICK S : S = PathOf(R)
  OBVIOUS
<1>3. S \in SUBSET (1 .. n) /\ Enumerates(f, m, S) /\ IsFiniteSet(S)
  <2>1. S \in SUBSET (1 .. n)
    BY <1>1, <1>2, PathBounds
  <2>2. IsFiniteSet(S)
    BY <1>1, <2>1, BoundedFinite
  <2> QED BY <1>2, <2>1, <2>2
<1>4. m \in Nat /\ Cardinality(S) = m
  <2>1. m \in Nat
    BY <1>3 DEF Enumerates
  <2>2. Cardinality(S) = m
    BY <1>3, EnumerationRank
  <2> QED BY <2>1, <2>2
<1>5. ASSUME NEW k \in 1 .. m
      PROVE  Nth(S, k) = f[k] /\ f[k] \in 1 .. n /\ WindowItem(R[f[k]]) \in Items
  <2>1. Nth(S, k) = f[k]
    BY <1>1, <1>3, NthOfEnumeration
  <2>2. f[k] \in 1 .. n
    BY <1>3 DEF Enumerates
  <2>3. R[f[k]] \in Entry
    BY <1>1, <2>2
  <2>4. WindowItem(R[f[k]]) \in Items
    BY <2>3 DEF WindowItem, Items, Entry, Flag
  <2> QED BY <2>1, <2>2, <2>4
<1>6. PICK I : I = ItemsOf(R)
  OBVIOUS
<1>7. I = [k \in 1 .. m |-> WindowItem(R[Nth(S, k)])]
  BY <1>2, <1>4, <1>6 DEF ItemsOf
<1>8. \A k \in 1 .. m : I[k] = WindowItem(R[f[k]]) /\ I[k] \in Items
  BY <1>5, <1>7
<1>9. I \in [1 .. m -> Items]
  BY <1>7, <1>8
<1>10. I \in Seq(Items) /\ Len(I) = m
  BY <1>4, <1>9
<1> QED BY <1>1, <1>4, <1>5, <1>6, <1>8, <1>9, <1>10

(***************************************************************************)
(* R2 is R without its first r entries and, after entry h, nothing on the  *)
(* path, but for a last entry when "last" holds.                           *)
(***************************************************************************)
Rank(R, x) == Cardinality(Upto(PathOf(R), x))
NewPath(R, R2, r, h, last) ==
    \A i : i \in PathOf(R2) <=> \/ i \in 1 .. h - r /\ i + r \in PathOf(R)
                                \/ last /\ i = h - r + 1
Entries(R, R2, c, d, r, h) ==
    \A k \in 1 .. d - c :
        /\ Nth(PathOf(R), k + c) \in r + 1 .. h
        /\ ItemsOf(R2)[k] = WindowItem(R2[Nth(PathOf(R), k + c) - r])

LEMMA RankType ==
    ASSUME NEW R \in Seq(Entry), NEW x \in Nat
    PROVE  Rank(R, x) \in Nat /\ Rank(R, x) <= Cardinality(PathOf(R))
<1>1. PICK n, S : n \in Nat /\ n = Len(R) /\ S = PathOf(R) /\ S \in SUBSET (1 .. n)
  BY PathBounds
<1>2. S \in SUBSET (1 .. n) /\ n \in Nat
  BY <1>1
<1>0. PICK y \in Nat : x <= y /\ n <= y
  <2>1. x + n \in Nat /\ x <= x + n /\ n <= x + n
    BY <1>2
  <2> QED BY <2>1
<1>3. /\ Cardinality(Upto(S, x)) \in Nat
      /\ Cardinality(Upto(S, x)) <= Cardinality(Upto(S, y))
  BY <1>0, <1>2, CountMonotone
<1>4. Upto(S, y) = S
  <2>1. \A j \in S : j <= y
    <3> SUFFICES ASSUME NEW j \in S PROVE j <= y
      OBVIOUS
    <3>1. j \in 1 .. n
      BY <1>2
    <3> QED BY <1>0, <1>2, <3>1
  <2> QED BY <2>1 DEF Upto
<1> QED BY <1>1, <1>3, <1>4 DEF Rank

LEMMA ItemsShift ==
    ASSUME NEW R \in Seq(Entry), NEW R2 \in Seq(Entry), NEW r \in Nat, NEW h \in Nat,
           r <= h, h <= Len(R), NEW last \in BOOLEAN, NewPath(R, R2, r, h, last),
           NEW c \in Nat, c = Rank(R, r), NEW d \in Nat, d = Rank(R, h)
    PROVE  /\ c <= d /\ d <= Len(ItemsOf(R))
           /\ Len(ItemsOf(R2)) = d - c + (IF last THEN 1 ELSE 0)
           /\ ItemsOf(R2) \in Seq(Items)
           /\ Entries(R, R2, c, d, r, h)
           /\ last => ItemsOf(R2)[d - c + 1] = WindowItem(R2[h - r + 1])
<1>1. PICK n, S : n \in Nat /\ n = Len(R) /\ S = PathOf(R) /\ S \in SUBSET (1 .. n)
  BY PathBounds
<1>2. S \in SUBSET (1 .. n) /\ n \in Nat /\ h <= n
  BY <1>1
<1>3. PICK T : T = {i \in 1 .. h - r : i + r \in S}
  OBVIOUS
<1>4. c = Cardinality(Upto(S, r)) /\ d = Cardinality(Upto(S, h))
  BY <1>1 DEF Rank
<1>5. PICK e : e = d - c
  OBVIOUS
<1>6. PICK g : g = [k \in 1 .. e |-> Nth(S, k + c) - r]
  OBVIOUS
<1>7. c <= d /\ d <= Cardinality(S) /\ Enumerates(g, e, T)
  <2>1. \A i : i \in T <=> i \in 1 .. h - r /\ i + r \in S
    BY <1>3
  <2>2. /\ c <= d /\ d <= Cardinality(S)
        /\ Enumerates([k \in 1 .. d - c |-> Nth(S, k + c) - r], d - c, T)
    BY <1>2, <1>4, <2>1, RestEnumerates
  <2> QED BY <1>5, <1>6, <2>2
<1>8. e \in Nat
  BY <1>5, <1>7
<1>9. Len(ItemsOf(R)) = Cardinality(S)
  <2>1. Enumerates([k \in 1 .. Cardinality(S) |-> Nth(S, k)], Cardinality(S), S)
    BY <1>2, NthEnumerates
  <2> QED BY <1>1, <2>1, ItemsEnumerated
<1>10. ASSUME NEW k \in 1 .. e
       PROVE  /\ g[k] = Nth(S, k + c) - r /\ g[k] \in 1 .. h - r
              /\ Nth(S, k + c) \in r + 1 .. h
  <2>1. g[k] = Nth(S, k + c) - r
    BY <1>6
  <2>2. g[k] \in 1 .. h - r
    BY <1>3, <1>7 DEF Enumerates
  <2>3. k + c \in 1 .. Cardinality(S)
    <3>1. Cardinality(S) \in Nat
      BY <1>2, BoundedFinite
    <3> QED BY <1>5, <1>7, <3>1
  <2>4. Nth(S, k + c) \in 1 .. n
    BY <1>2, <2>3, RankOrder
  <2> QED BY <2>1, <2>2, <2>4
<1>11. CASE ~last
  <2>1. PathOf(R2) = T
    BY <1>1, <1>3, <1>11 DEF NewPath
  <2>2. /\ ItemsOf(R2) \in Seq(Items) /\ Len(ItemsOf(R2)) = e
        /\ \A k \in 1 .. e : ItemsOf(R2)[k] = WindowItem(R2[g[k]])
    BY <1>7, <2>1, ItemsEnumerated
  <2>3. Entries(R, R2, c, d, r, h)
    BY <1>1, <1>5, <1>10, <2>2 DEF Entries
  <2>4. Len(ItemsOf(R2)) = d - c + (IF last THEN 1 ELSE 0)
    BY <1>5, <1>8, <1>11, <2>2
  <2> QED BY <1>7, <1>9, <1>11, <2>2, <2>3, <2>4
<1>12. CASE last
  <2>1. PICK i \in Nat : i = h - r + 1
    OBVIOUS
  <2>2. PathOf(R2) = T \cup {i}
    BY <1>1, <1>3, <1>12, <2>1 DEF NewPath
  <2>3. \A j \in T : j < i
    BY <1>3, <2>1
  <2>4. PICK f : f = [k \in 1 .. e + 1 |-> IF k <= e THEN g[k] ELSE i]
    OBVIOUS
  <2>5. Enumerates(f, e + 1, PathOf(R2))
    BY <1>7, <2>1, <2>2, <2>3, <2>4, AppendEnumerates
  <2>6. /\ ItemsOf(R2) \in Seq(Items) /\ Len(ItemsOf(R2)) = e + 1
        /\ \A k \in 1 .. e + 1 : ItemsOf(R2)[k] = WindowItem(R2[f[k]])
    BY <2>5, ItemsEnumerated
  <2>7. \A k \in 1 .. e : k \in 1 .. e + 1 /\ f[k] = g[k]
    BY <1>8, <2>4
  <2>8. Entries(R, R2, c, d, r, h)
    <3>1. \A k \in 1 .. e : ItemsOf(R2)[k] = WindowItem(R2[g[k]])
      BY <2>6, <2>7
    <3> QED BY <1>1, <1>5, <1>10, <3>1 DEF Entries
  <2>9. ItemsOf(R2)[d - c + 1] = WindowItem(R2[h - r + 1])
    <3>1. e + 1 \in 1 .. e + 1 /\ f[e + 1] = i
      BY <1>8, <2>4
    <3>2. ItemsOf(R2)[e + 1] = WindowItem(R2[i])
      BY <2>6, <3>1
    <3> QED BY <1>5, <2>1, <3>2
  <2>10. Len(ItemsOf(R2)) = d - c + (IF last THEN 1 ELSE 0)
    BY <1>5, <1>8, <1>12, <2>6
  <2> QED BY <1>7, <1>9, <2>6, <2>8, <2>9, <2>10
<1> QED BY <1>11, <1>12

-----------------------------------------------------------------------------
(***************************************************************************)
(* The window of the core in a cycle.                                      *)
(***************************************************************************)

\* The items of a window are the valid entries, which Rank finds.
LEMMA WindowEntries ==
    ASSUME TypeOK, fsm = "NORMAL"
    PROVE  /\ Window = ItemsOf(rob) /\ Window \in Seq(Items)
           /\ Len(Window) \in Nat /\ DOMAIN Window = 1 .. Len(Window)
           /\ Len(Window) = Cardinality(PathOf(rob)) /\ Len(Window) = Rank(rob, Len(rob))
           /\ \A k \in DOMAIN Window :
                 /\ Nth(PathOf(rob), k) \in DOMAIN rob /\ ~rob[Nth(PathOf(rob), k)].wrong
                 /\ Window[k] = WindowItem(rob[Nth(PathOf(rob), k)])
<1>1. rob \in Seq(Entry)
  BY DEF TypeOK
<1>2. PICK n, S : n \in Nat /\ n = Len(rob) /\ S = PathOf(rob) /\ S \in SUBSET (1 .. n) /\ DOMAIN rob = 1 .. n
  BY <1>1, PathBounds
<1>3. n \in Nat /\ S \in SUBSET (1 .. n)
  BY <1>2
<1>4. PICK m \in Nat : m = Cardinality(S)
  BY <1>3, BoundedFinite
<1>5. Enumerates([k \in 1 .. m |-> Nth(S, k)], m, S)
  BY <1>3, <1>4, NthEnumerates
<1>6. PICK p : p = [k \in 1 .. m |-> Nth(S, k)]
  OBVIOUS
<1>7. Enumerates(p, m, PathOf(rob))
  BY <1>2, <1>5, <1>6
<1>8. /\ ItemsOf(rob) \in Seq(Items) /\ Len(ItemsOf(rob)) = m /\ DOMAIN ItemsOf(rob) = 1 .. m
      /\ \A k \in 1 .. m : ItemsOf(rob)[k] = WindowItem(rob[p[k]])
  BY <1>1, <1>7, ItemsEnumerated
<1>9. Window = ItemsOf(rob)
  BY WindowIsItems
<1>10. Upto(S, n) = S
  BY <1>3, CountEnds
<1>11. \A k \in 1 .. m : p[k] = Nth(S, k) /\ p[k] \in S
  BY <1>2, <1>6, <1>7 DEF Enumerates
<1>12. \A i \in S : i \in DOMAIN rob /\ ~rob[i].wrong
  BY <1>2 DEF PathOf
<1> QED BY <1>2, <1>4, <1>8, <1>9, <1>10, <1>11, <1>12 DEF Rank

\* Every valid entry is the item of its rank.
LEMMA EntryRank ==
    ASSUME TypeOK, fsm = "NORMAL", NEW i \in DOMAIN rob, ~rob[i].wrong
    PROVE  /\ Rank(rob, i) \in DOMAIN Window /\ Nth(PathOf(rob), Rank(rob, i)) = i
           /\ Rank(rob, i - 1) = Rank(rob, i) - 1 /\ i - 1 \in Nat
<1>1. rob \in Seq(Entry)
  BY DEF TypeOK
<1>2. PICK n, S : n \in Nat /\ n = Len(rob) /\ S = PathOf(rob) /\ S \in SUBSET (1 .. n) /\ DOMAIN rob = 1 .. n
  BY <1>1, PathBounds
<1>3. n \in Nat /\ S \in SUBSET (1 .. n) /\ i \in S /\ i \in 1 .. n /\ i \in Nat
  BY <1>2 DEF PathOf
<1>4. /\ Cardinality(Upto(S, i)) \in Nat /\ Cardinality(Upto(S, i - 1)) \in Nat
      /\ Cardinality(Upto(S, i)) = Cardinality(Upto(S, i - 1)) + 1
  <2>1. /\ Cardinality(Upto(S, i)) \in Nat /\ Cardinality(Upto(S, i - 1)) \in Nat
        /\ Cardinality(Upto(S, i)) = Cardinality(Upto(S, i - 1)) + (IF i \in S THEN 1 ELSE 0)
    BY <1>3, CountStep
  <2> QED BY <1>3, <2>1
<1>5. PICK q \in Nat : q = Cardinality(Upto(S, i))
  BY <1>4
<1>6. q = Rank(rob, i) /\ Rank(rob, i - 1) = q - 1 /\ q >= 1
  BY <1>2, <1>4, <1>5 DEF Rank
<1>7. q <= Cardinality(S) /\ Cardinality(S) \in Nat
  <2>1. Cardinality(S) \in Nat
    BY <1>3, BoundedFinite
  <2>2. Rank(rob, i) <= Cardinality(PathOf(rob))
    BY <1>1, <1>3, RankType
  <2> QED BY <1>2, <1>6, <2>1, <2>2
<1>8. q \in 1 .. Cardinality(S)
  BY <1>5, <1>6, <1>7
<1>9. Nth(S, q) \in S /\ Cardinality(Upto(S, Nth(S, q))) = q
  BY <1>3, <1>8, NthExists
<1>10. Nth(S, q) = i
  <2>1. S \subseteq Nat
    BY <1>3
  <2>2. IsFiniteSet(S)
    BY <1>3, BoundedFinite
  <2> QED BY <1>3, <1>5, <1>9, <2>1, <2>2, RankUnique
<1>11. DOMAIN Window = 1 .. Cardinality(S)
  BY <1>2, WindowEntries
<1> QED BY <1>2, <1>3, <1>6, <1>8, <1>10, <1>11

\* The items up to entry x are the first Rank(rob, x).
LEMMA ItemRank ==
    ASSUME TypeOK, fsm = "NORMAL", NEW k \in DOMAIN Window, NEW x \in Nat
    PROVE  Nth(PathOf(rob), k) <= x <=> k <= Rank(rob, x)
<1>1. rob \in Seq(Entry)
  BY DEF TypeOK
<1>2. PICK n, S : n \in Nat /\ n = Len(rob) /\ S = PathOf(rob) /\ S \in SUBSET (1 .. n)
  BY <1>1, PathBounds
<1>3. n \in Nat /\ S \in SUBSET (1 .. n) /\ k \in 1 .. Cardinality(S)
  BY <1>2, WindowEntries
<1>4. Nth(S, k) <= x <=> k <= Cardinality(Upto(S, x))
  BY <1>3, RankOrder
<1> QED BY <1>2, <1>4 DEF Rank

LEMMA RankBound ==
    ASSUME NEW R \in Seq(Entry), NEW x \in Nat
    PROVE  Rank(R, x) <= x /\ Rank(R, x) \in Nat
<1>1. Upto(PathOf(R), x) \in SUBSET (1 .. x)
  <2> SUFFICES ASSUME NEW j \in PathOf(R), j <= x PROVE j \in 1 .. x
    BY DEF Upto
  <2>1. j \in 1 .. Len(R) /\ Len(R) \in Nat
    BY PathBounds
  <2> QED BY <2>1
<1>2. IsFiniteSet(1 .. x) /\ Cardinality(1 .. x) = IF 1 > x THEN 0 ELSE x - 1 + 1
  BY FS_Interval
<1>3. Cardinality(1 .. x) = x
  BY <1>2
<1>4. Cardinality(Upto(PathOf(R), x)) <= Cardinality(1 .. x)
  BY <1>1, <1>2, FS_Subset
<1> QED BY <1>3, <1>4, RankType DEF Rank

\* Committing the valid entries up to x commits the first Rank(rob, x) items.
LEMMA CommitsPrefix ==
    ASSUME TypeOK, fsm = "NORMAL", NEW x \in Nat, NEW C, C \subseteq Retiring,
           \A i : i \in C <=> i \in DOMAIN rob /\ ~rob[i].wrong /\ i <= x
    PROVE  Committed(C) = Precise!After(Rank(rob, x))
<1>1. PICK c \in Nat : c = Rank(rob, x) /\ c <= Len(Window)
  <2>1. rob \in Seq(Entry)
    BY DEF TypeOK
  <2>2. Rank(rob, x) \in Nat /\ Rank(rob, x) <= Cardinality(PathOf(rob))
    BY <2>1, RankType
  <2> QED BY <2>2, WindowEntries
<1>2. Len(Window) \in Nat /\ DOMAIN Window = 1 .. Len(Window)
  BY WindowEntries
<1>3. ASSUME NEW k \in 1 .. c
      PROVE  /\ k \in DOMAIN Window /\ Nth(PathOf(rob), k) \in C /\ Nth(PathOf(rob), k) \in Nat
             /\ Window[k].rl = rob[Nth(PathOf(rob), k)].rl /\ Window[k].rp = rob[Nth(PathOf(rob), k)].rp
  <2>1. k \in DOMAIN Window /\ k <= Rank(rob, x)
    BY <1>1, <1>2
  <2>2. /\ Nth(PathOf(rob), k) \in DOMAIN rob /\ ~rob[Nth(PathOf(rob), k)].wrong
        /\ Window[k] = WindowItem(rob[Nth(PathOf(rob), k)])
    BY <2>1, WindowEntries
  <2>3. Nth(PathOf(rob), k) <= x
    BY <2>1, ItemRank
  <2>4. Nth(PathOf(rob), k) \in Nat
    BY <2>2, InstrType
  <2> QED BY <2>1, <2>2, <2>3, <2>4 DEF WindowItem
<1>4. ASSUME NEW j \in C
      PROVE  /\ Rank(rob, j) \in 1 .. c /\ Nth(PathOf(rob), Rank(rob, j)) = j
             /\ \A k \in 1 .. c : Nth(PathOf(rob), k) <= j <=> k <= Rank(rob, j)
  <2>1. j \in DOMAIN rob /\ ~rob[j].wrong /\ j <= x /\ j \in Nat
    BY InstrType
  <2>2. Rank(rob, j) \in DOMAIN Window /\ Nth(PathOf(rob), Rank(rob, j)) = j
    BY <2>1, EntryRank
  <2>3. Rank(rob, j) <= Rank(rob, x)
    BY <2>1, <2>2, ItemRank
  <2>4. Rank(rob, j) \in 1 .. c
    BY <1>1, <1>2, <2>2, <2>3
  <2>5. \A k \in 1 .. c : Nth(PathOf(rob), k) <= j <=> k <= Rank(rob, j)
    BY <1>3, <2>1, ItemRank
  <2> QED BY <2>2, <2>4, <2>5
<1>5. ASSUME NEW l \in LRegs PROVE Committed(C)[l] = Precise!After(c)[l]
  <2> DEFINE W == {i \in 1 .. c : Window[i].rl = l}
  <2>1. Precise!After(c)[l] = IF W = {} THEN rrat[l] ELSE Window[Max(W)].rp
    BY DEF Precise!After, Precise!Max, Max
  <2>2. CASE (\A i \in C : rob[i].rl # l) /\ Committed(C)[l] = rrat[l]
    <3>1. W = {}
      BY <1>3, <2>2
    <3> QED BY <2>1, <2>2, <3>1
  <2>3. CASE \E j \in C : /\ rob[j].rl = l
                          /\ Committed(C)[l] = rob[j].rp
                          /\ \A i \in C : rob[i].rl = l => i <= j
    <3>1. PICK j \in C : /\ rob[j].rl = l
                         /\ Committed(C)[l] = rob[j].rp
                         /\ \A i \in C : rob[i].rl = l => i <= j
      BY <2>3
    <3>2. PICK q : q = Rank(rob, j)
      OBVIOUS
    <3>3. q \in 1 .. c /\ Nth(PathOf(rob), q) = j
      BY <1>4, <3>1, <3>2
    <3>4. q \in W
      BY <1>3, <3>1, <3>3
    <3>5. \A k \in W : k <= q
      <4> SUFFICES ASSUME NEW k \in 1 .. c, Window[k].rl = l PROVE k <= q
        OBVIOUS
      <4>1. Nth(PathOf(rob), k) \in C /\ rob[Nth(PathOf(rob), k)].rl = l
        BY <1>3
      <4>2. Nth(PathOf(rob), k) <= j
        BY <3>1, <4>1
      <4> QED BY <1>4, <3>1, <3>2, <4>2
    <3>6. Max(W) = q
      <4>1. W \in SUBSET (0 .. c) /\ W # {}
        BY <3>4
      <4>2. Max(W) \in W /\ \A y \in W : y <= Max(W)
        <5> HIDE DEF W
        <5> QED BY <1>1, <4>1, MaxIsGreatest
      <4>3. Max(W) \in Nat /\ q \in Nat /\ Max(W) <= q /\ q <= Max(W)
        BY <1>1, <3>3, <3>4, <3>5, <4>2
      <4> HIDE DEF W
      <4> QED BY <4>3
    <3>7. Window[q].rp = rob[j].rp
      BY <1>3, <3>3
    <3>8. Precise!After(c)[l] = Window[q].rp
      BY <2>1, <3>4, <3>6
    <3> QED BY <3>1, <3>7, <3>8
  <2> QED BY <2>2, <2>3, CommittedValue
<1>6. Committed(C) = [l \in LRegs |-> Committed(C)[l]]
  BY DEF Committed
<1>7. Precise!After(c) = [l \in LRegs |-> Precise!After(c)[l]]
  BY DEF Precise!After
<1>8. Committed(C) = Precise!After(c)
  BY <1>5, <1>6, <1>7
<1> QED BY <1>1, <1>8

\* Whether an entry that leaves is on the valid path.
LEMMA RetiringPath ==
    ASSUME TypeOK, TagInv, PathInv, fsm = "NORMAL", NEW i \in Retiring
    PROVE  /\ TagActive(i) <=> ~rob[i].wrong
           /\ i \in DOMAIN rob /\ i \in Nat
<1>1. RetireTag(i) = rob[i].tag
  BY TagsDerived DEF RetirementTagsExact
<1>2. i \in DOMAIN rob
  BY RetiringInRob
<1>3. i \in 1 .. InFlight /\ i <= Len(rob)
  BY <1>2, InstrType
<1>4. rob[i].wrong <=> rob[i].tag \notin active_tags
  BY <1>3 DEF PathInv, PathTags, WrongInactive, Instr
<1>5. ActiveTags = active_tags
  BY DEF ActiveTags, Flushing
<1> QED BY <1>1, <1>2, <1>3, <1>4, <1>5 DEF TagActive

\* Where the valid path ends among the entries there are, and whether it grows.
PathEnd(ex) == IF RollbackTag(ex) # NoTag THEN ex[1].at ELSE Len(rob)
Grows(go, ex) == RenameFires(go) /\ ~instr_tag_buf[1].wrong /\ RollbackTag(ex) = NoTag

LEMMA PathAfterStep ==
    ASSUME NEW push, NEW go, NEW ex, NEW rp, NEW async, PathStep(push, go, ex, rp, async)
    PROVE  /\ PathEnd(ex) \in Nat /\ Retired \in Nat /\ Retired <= PathEnd(ex) /\ PathEnd(ex) <= Len(rob)
           /\ Grows(go, ex) \in BOOLEAN
           /\ NewPath(rob, rob', Retired, PathEnd(ex), Grows(go, ex))
<1>1. /\ TypeOK /\ TypeOK' /\ ex \in Executions /\ rp \in Reports /\ RobCycle(go, ex, rp)
  BY CycleParts DEF PathStep, TypeInv
<1>2. PICK n \in Nat, r \in Nat, R2 \in Seq(Entry) : n = Len(rob) /\ r = Retired /\ R2 = rob' /\ r <= n
  BY <1>1, RetiringInRob, InstrType DEF TypeOK
<1>3. PICK h : h = PathEnd(ex)
  OBVIOUS
<1>4. h \in Nat /\ r <= h /\ h <= n /\ (RollbackTag(ex) # NoTag => h = ex[1].at) /\ (RollbackTag(ex) = NoTag => h = n)
  <2>1. CASE RollbackTag(ex) = NoTag
    BY <1>2, <1>3, <2>1 DEF PathEnd
  <2>2. CASE RollbackTag(ex) # NoTag
    <3>1. ex[1].at \in 1 .. n /\ ex[1].at > r
      BY <1>1, <1>2, <2>2, RollbackFacts, InstrType
    <3>2. h = ex[1].at
      BY <1>3, <2>2 DEF PathEnd
    <3> QED BY <1>2, <2>2, <3>1, <3>2
  <2> QED BY <2>1, <2>2
<1>5. /\ Len(R2) = n - r + (IF RenameFires(go) THEN 1 ELSE 0)
      /\ \A i \in 1 .. n - r : R2[i] = UpdatedEntry(i + r, ex, rp)
      /\ RenameFires(go) => R2[Len(R2)] = RobEntry(instr_tag_buf[1], RollbackTag(ex) # NoTag)
  BY <1>1, <1>2, RobStep
<1>6. DOMAIN R2 = 1 .. Len(R2) /\ DOMAIN rob = 1 .. n
  BY <1>1, <1>2, InstrType
<1>7. ASSUME NEW i \in 1 .. n - r
      PROVE  /\ i \in DOMAIN R2 /\ i + r \in DOMAIN rob
             /\ R2[i].wrong = (rob[i + r].wrong \/ ~(i <= h - r))
  <2>1. i + r \in DOMAIN rob /\ i \in DOMAIN R2 /\ i + r <= n
    BY <1>2, <1>5, <1>6
  <2>2. PICK x : x = i + r
    OBVIOUS
  <2>3. R2[i] = UpdatedEntry(x, ex, rp) /\ x \in DOMAIN rob
    BY <1>5, <2>1, <2>2
  <2>4. UpdatedEntry(x, ex, rp).wrong = (rob[x].wrong \/ (RollbackTag(ex) # NoTag /\ x > ex[1].at))
    BY <1>1, <2>3, UpdatedFields
  <2>5. (RollbackTag(ex) # NoTag /\ x > ex[1].at) <=> ~(i <= h - r)
    <3>1. CASE RollbackTag(ex) = NoTag
      BY <1>2, <1>4, <2>1, <3>1
    <3>2. CASE RollbackTag(ex) # NoTag
      <4>1. h = ex[1].at
        BY <1>4, <3>2
      <4>2. x > h <=> ~(i <= h - r)
        BY <1>2, <1>4, <2>2
      <4> QED BY <3>2, <4>1, <4>2
    <3> QED BY <3>1, <3>2
  <2>6. rob[x] \in Entry
    BY <1>1, <2>3, RobElement
  <2>7. rob[x].wrong \in BOOLEAN
    BY <2>6 DEF Entry, Flag
  <2> QED BY <2>1, <2>2, <2>3, <2>4, <2>5, <2>7
<1>8. ASSUME RenameFires(go)
      PROVE  /\ n - r + 1 \in DOMAIN R2 /\ Len(R2) = n - r + 1
             /\ R2[n - r + 1].wrong = (instr_tag_buf[1].wrong \/ RollbackTag(ex) # NoTag)
  <2>1. Len(R2) = n - r + 1
    BY <1>5, <1>8
  <2>2. n - r + 1 \in DOMAIN R2
    BY <1>2, <1>6, <2>1
  <2>3. R2[n - r + 1] = RobEntry(instr_tag_buf[1], RollbackTag(ex) # NoTag)
    BY <1>5, <1>8, <2>1
  <2>4. R2[n - r + 1].wrong = (instr_tag_buf[1].wrong \/ RollbackTag(ex) # NoTag)
    BY <2>3 DEF RobEntry
  <2> QED BY <2>1, <2>2, <2>4
<1>9. ASSUME NEW i \in PathOf(R2)
      PROVE  \/ i \in 1 .. h - r /\ i + r \in PathOf(rob)
             \/ Grows(go, ex) /\ i = h - r + 1
  <2>1. i \in 1 .. Len(R2) /\ ~R2[i].wrong
    BY <1>6 DEF PathOf
  <2>2. CASE i \in 1 .. n - r
    <3>1. i + r \in DOMAIN rob /\ ~(rob[i + r].wrong \/ ~(i <= h - r))
      BY <1>7, <2>1, <2>2
    <3>2. i + r \in PathOf(rob)
      BY <3>1 DEF PathOf
    <3> QED BY <1>2, <1>4, <2>2, <3>1, <3>2
  <2>3. CASE i \notin 1 .. n - r
    <3>1. RenameFires(go) /\ i = n - r + 1
      BY <1>2, <1>5, <2>1, <2>3
    <3>2. ~(instr_tag_buf[1].wrong \/ RollbackTag(ex) # NoTag)
      BY <1>8, <2>1, <3>1
    <3>3. h = n
      BY <1>4, <3>2
    <3> QED BY <3>1, <3>2, <3>3 DEF Grows
  <2> QED BY <2>2, <2>3
<1>10. ASSUME NEW i \in 1 .. h - r, i + r \in PathOf(rob)
       PROVE  i \in PathOf(R2)
  <2>1. i \in 1 .. n - r /\ i <= h - r
    BY <1>2, <1>4
  <2>2. ~rob[i + r].wrong
    BY <1>10 DEF PathOf
  <2>3. i \in DOMAIN R2 /\ ~R2[i].wrong
    BY <1>7, <2>1, <2>2
  <2> QED BY <2>3 DEF PathOf
<1>11. ASSUME Grows(go, ex) PROVE h - r + 1 \in PathOf(R2)
  <2>1. h = n /\ RenameFires(go) /\ ~instr_tag_buf[1].wrong /\ RollbackTag(ex) = NoTag
    BY <1>4, <1>11 DEF Grows
  <2>2. n - r + 1 \in DOMAIN R2 /\ ~R2[n - r + 1].wrong
    BY <1>8, <2>1
  <2> QED BY <2>1, <2>2 DEF PathOf
<1>12. NewPath(rob, R2, r, h, Grows(go, ex))
  BY <1>9, <1>10, <1>11 DEF NewPath
<1>13. Grows(go, ex) \in BOOLEAN
  BY DEF Grows
<1> QED BY <1>2, <1>3, <1>4, <1>12, <1>13

\* What a cycle does to the item of an entry: it may have faulted.
Faults(ex, i) == ex # <<>> /\ ex[1].at = i /\ ex[1].exc
ItemsKept(ex, c, d) ==
    \A k \in 1 .. d - c :
       /\ ~Faults(ex, Nth(PathOf(rob), k + c)) => Window'[k] = Window[k + c]
       /\ Faults(ex, Nth(PathOf(rob), k + c)) => Window'[k] = [Window[k + c] EXCEPT !.exc = TRUE]

LEMMA UpdatedItem ==
    ASSUME TypeOK, NEW i \in DOMAIN rob, NEW ex \in Executions, NEW rp \in Reports
    PROVE  /\ ~Faults(ex, i) => WindowItem(UpdatedEntry(i, ex, rp)) = WindowItem(rob[i])
           /\ Faults(ex, i) => WindowItem(UpdatedEntry(i, ex, rp)) = [WindowItem(rob[i]) EXCEPT !.exc = TRUE]
<1>1. rob[i] \in Entry
  BY RobElement
<1>2. PICK e : e = rob[i]
  OBVIOUS
<1>3. e \in Entry /\ e.exc \in BOOLEAN
  BY <1>1, <1>2 DEF Entry, Flag
<1>4. PICK u : u = UpdatedEntry(i, ex, rp)
  OBVIOUS
<1>5. u.rl = e.rl /\ u.rp = e.rp /\ u.br = e.br /\ u.exc = (e.exc \/ Faults(ex, i))
  BY <1>2, <1>3, <1>4 DEF UpdatedEntry, Entry, Faults
<1>6. ~Faults(ex, i) => u.exc = e.exc
  BY <1>3, <1>5
<1>7. Faults(ex, i) => u.exc = TRUE
  BY <1>5
<1>8. ~Faults(ex, i) => WindowItem(u) = WindowItem(e)
  BY <1>5, <1>6 DEF WindowItem
<1>9. Faults(ex, i) => WindowItem(u) = [WindowItem(e) EXCEPT !.exc = TRUE]
  <2> SUFFICES ASSUME Faults(ex, i) PROVE WindowItem(u) = [WindowItem(e) EXCEPT !.exc = TRUE]
    OBVIOUS
  <2>1. WindowItem(u) = [rl |-> e.rl, rp |-> e.rp, br |-> e.br, exc |-> TRUE]
    BY <1>5, <1>7 DEF WindowItem
  <2>2. PICK w : w = WindowItem(e)
    OBVIOUS
  <2>3. w \in Items /\ w.rl = e.rl /\ w.rp = e.rp /\ w.br = e.br
    BY <1>3, <2>2 DEF WindowItem, Items, Entry, Flag
  <2>4. PICK y, z : y = [w EXCEPT !.exc = TRUE] /\ z = [rl |-> e.rl, rp |-> e.rp, br |-> e.br, exc |-> TRUE]
    OBVIOUS
  <2>5. y.rl = w.rl /\ y.rp = w.rp /\ y.br = w.br
    BY <2>3, <2>4 DEF Items
  <2>6. y.exc = TRUE
    BY <2>3, <2>4 DEF Items
  <2>7. y \in Items
    BY <2>3, <2>4 DEF Items
  <2>8. z \in Items /\ z.rl = e.rl /\ z.rp = e.rp /\ z.br = e.br
    BY <2>3, <2>4 DEF Items
  <2>9. z.exc = TRUE
    BY <2>4
  <2>10. y = z
    BY <2>3, <2>5, <2>6, <2>7, <2>8, <2>9 DEF Items
  <2> QED BY <2>1, <2>2, <2>4, <2>10
<1> QED BY <1>2, <1>4, <1>8, <1>9

LEMMA WindowAfterStep ==
    ASSUME NEW push, NEW go, NEW ex, NEW rp, NEW async, PathStep(push, go, ex, rp, async),
           fsm = "NORMAL", fsm' = "NORMAL",
           NEW c \in Nat, c = Rank(rob, Retired), NEW d \in Nat, d = Rank(rob, PathEnd(ex))
    PROVE  /\ c <= d /\ d <= Len(Window)
           /\ Window' \in Seq(Items) /\ Len(Window') = d - c + (IF Grows(go, ex) THEN 1 ELSE 0)
           /\ ItemsKept(ex, c, d)
           /\ Grows(go, ex) => Window'[d - c + 1] = WindowItem(RobEntry(instr_tag_buf[1], FALSE))
<1>1. /\ TypeOK /\ TypeOK' /\ ex \in Executions /\ rp \in Reports /\ RobCycle(go, ex, rp)
  BY CycleParts DEF PathStep, TypeInv
<1>2. PICK n \in Nat, r \in Nat, h \in Nat, R2 \in Seq(Entry), last \in BOOLEAN :
          n = Len(rob) /\ r = Retired /\ h = PathEnd(ex) /\ R2 = rob' /\ last = Grows(go, ex)
  BY <1>1, PathAfterStep, InstrType DEF TypeOK
<1>3. r <= h /\ h <= n /\ NewPath(rob, R2, r, h, last) /\ c = Rank(rob, r) /\ d = Rank(rob, h)
  BY <1>2, PathAfterStep
<1>4. rob \in Seq(Entry) /\ DOMAIN rob = 1 .. n
  BY <1>1, <1>2, InstrType DEF TypeOK
<1>5. Window = ItemsOf(rob) /\ Window' = ItemsOf(R2)
  BY <1>2, WindowIsItems
<1>6. /\ c <= d /\ d <= Len(ItemsOf(rob))
      /\ Len(ItemsOf(R2)) = d - c + (IF last THEN 1 ELSE 0)
      /\ ItemsOf(R2) \in Seq(Items)
      /\ Entries(rob, R2, c, d, r, h)
      /\ last => ItemsOf(R2)[d - c + 1] = WindowItem(R2[h - r + 1])
  BY <1>2, <1>3, <1>4, ItemsShift
<1>7. /\ Len(R2) = n - r + (IF RenameFires(go) THEN 1 ELSE 0)
      /\ \A i \in 1 .. n - r : R2[i] = UpdatedEntry(i + r, ex, rp)
      /\ RenameFires(go) => R2[Len(R2)] = RobEntry(instr_tag_buf[1], RollbackTag(ex) # NoTag)
  BY <1>1, <1>2, RobStep
<1>8. ASSUME NEW k \in 1 .. d - c
      PROVE  /\ ~Faults(ex, Nth(PathOf(rob), k + c)) => ItemsOf(R2)[k] = Window[k + c]
             /\ Faults(ex, Nth(PathOf(rob), k + c)) => ItemsOf(R2)[k] = [Window[k + c] EXCEPT !.exc = TRUE]
  <2>1. PICK x : x = Nth(PathOf(rob), k + c)
    OBVIOUS
  <2>2. x \in r + 1 .. h /\ ItemsOf(R2)[k] = WindowItem(R2[x - r])
    BY <1>6, <2>1 DEF Entries
  <2>3. x - r \in 1 .. n - r /\ (x - r) + r = x /\ x \in DOMAIN rob
    BY <1>2, <1>3, <1>4, <2>2
  <2>4. R2[x - r] = UpdatedEntry(x, ex, rp)
    BY <1>7, <2>3
  <2>5. k + c \in DOMAIN Window
    <3>1. PICK m \in Nat : m = Len(Window) /\ DOMAIN Window = 1 .. m
      BY <1>1, WindowEntries
    <3>2. c <= d /\ d <= m
      BY <1>5, <1>6, <3>1
    <3>3. k + c \in 1 .. m
      BY <3>1, <3>2
    <3> QED BY <3>1, <3>3
  <2>6. Window[k + c] = WindowItem(rob[x])
    BY <1>1, <2>1, <2>5, WindowEntries
  <2>7. /\ ~Faults(ex, x) => WindowItem(UpdatedEntry(x, ex, rp)) = WindowItem(rob[x])
        /\ Faults(ex, x) => WindowItem(UpdatedEntry(x, ex, rp)) = [WindowItem(rob[x]) EXCEPT !.exc = TRUE]
    BY <1>1, <2>3, UpdatedItem
  <2> QED BY <2>1, <2>2, <2>4, <2>6, <2>7
<1>9. last => ItemsOf(R2)[d - c + 1] = WindowItem(RobEntry(instr_tag_buf[1], FALSE))
  <2> SUFFICES ASSUME last PROVE ItemsOf(R2)[d - c + 1] = WindowItem(RobEntry(instr_tag_buf[1], FALSE))
    OBVIOUS
  <2>1. RenameFires(go) /\ RollbackTag(ex) = NoTag
    BY <1>2 DEF Grows
  <2>2. h = n
    BY <1>2, <2>1 DEF PathEnd
  <2>3. Len(R2) = h - r + 1
    BY <1>7, <2>1, <2>2
  <2>4. (RollbackTag(ex) # NoTag) = FALSE
    BY <2>1
  <2>5. R2[h - r + 1] = RobEntry(instr_tag_buf[1], FALSE)
    BY <1>7, <2>1, <2>3, <2>4
  <2> QED BY <1>6, <2>5
<1>10. ItemsKept(ex, c, d)
  BY <1>5, <1>8 DEF ItemsKept
<1> QED BY <1>2, <1>5, <1>6, <1>9, <1>10

(***************************************************************************)
(* A cycle that takes no trap commits the items that leave, none of which  *)
(* faulted.                                                                *)
(***************************************************************************)
LEMMA CommitsWindow ==
    ASSUME NEW push, NEW go, NEW ex, NEW rp, NEW async, PathStep(push, go, ex, rp, async),
           fsm = "NORMAL", fsm' = "NORMAL"
    PROVE  /\ rrat' = Precise!After(Rank(rob, Retired))
           /\ Rank(rob, Retired) \in 0 .. RetireWidth /\ Rank(rob, Retired) <= Len(Window)
           /\ \A x \in Precise!Faulty : Rank(rob, Retired) < x
<1>1. /\ TypeOK /\ TagInv /\ PathInv
      /\ \/ RetireNormal(CommitSet(async))
         \/ RetireFlush
         \/ RetireResume
         \/ RetireNothing
  BY CycleParts DEF PathStep, TypeInv
<1>2. /\ rob \in Seq(Entry) /\ Retired \in Nat /\ RetireCount \in 0 .. RetireWidth /\ RetireWidth \in Nat
      /\ DOMAIN rob = 1 .. Len(rob) /\ Len(rob) \in Nat /\ Retired <= Len(rob)
  BY <1>1, RetiringInRob, InstrType, SizesAssumption DEF TypeOK
<1>3. PICK c \in Nat : c = Rank(rob, Retired) /\ c <= Retired /\ c <= Len(Window)
  <2>1. Rank(rob, Retired) <= Retired /\ Rank(rob, Retired) \in Nat
    BY <1>2, RankBound
  <2>2. Rank(rob, Retired) <= Cardinality(PathOf(rob))
    BY <1>2, RankType
  <2>3. Len(Window) = Cardinality(PathOf(rob))
    BY <1>1, WindowEntries
  <2> QED BY <2>1, <2>2, <2>3
<1>4. ~Flushing /\ CommitSet(async) = Committing(async)
  BY DEF Flushing, CommitSet
<1>5. CASE RetireReady
  <2>1. RetireNormal(CommitSet(async))
    BY <1>1, <1>5 DEF RetireFlush, RetireResume, Resuming, RetireNothing
  <2>2. Trapping = {} /\ rrat' = Committed(CommitSet(async))
    BY <2>1 DEF RetireNormal, RetireEntries, TrapState
  <2>3. Retired = RetireCount /\ Retiring = 1 .. Retired
    BY <1>5 DEF Retired, Retiring
  <2>4. CommitSet(async) = {i \in Retiring : TagActive(i)}
    BY <1>4, <2>2 DEF Committing
  <2>5. CommitSet(async) \subseteq Retiring
    BY <2>4
  <2>6. \A i : i \in CommitSet(async) <=> i \in DOMAIN rob /\ ~rob[i].wrong /\ i <= Retired
    <3>1. \A i \in CommitSet(async) : i \in DOMAIN rob /\ ~rob[i].wrong /\ i <= Retired
      BY <1>1, <2>3, <2>4, RetiringPath
    <3>2. \A i \in DOMAIN rob : i <= Retired => i \in Retiring
      BY <1>2, <2>3
    <3>3. \A i \in DOMAIN rob : ~rob[i].wrong /\ i <= Retired => i \in CommitSet(async)
      BY <1>1, <2>4, <3>2, RetiringPath
    <3> QED BY <3>1, <3>3
  <2>7. rrat' = Precise!After(Rank(rob, Retired))
    BY <1>1, <1>2, <2>2, <2>5, <2>6, CommitsPrefix
  <2>8. ASSUME NEW x \in Precise!Faulty PROVE c < x
    <3>1. x \in DOMAIN Window /\ Window[x].exc /\ x \in Nat
      <4>1. x \in DOMAIN Window /\ Window[x].exc
        BY <2>8 DEF Precise!Faulty
      <4> QED BY <1>1, <4>1, WindowEntries
    <3>2. PICK y : y = Nth(PathOf(rob), x)
      OBVIOUS
    <3>3. y \in DOMAIN rob /\ ~rob[y].wrong /\ Window[x] = WindowItem(rob[y])
      BY <1>1, <3>1, <3>2, WindowEntries
    <3>4. rob[y].exc
      BY <3>1, <3>3 DEF WindowItem
    <3>5. ~(y <= Retired)
      <4> SUFFICES ASSUME y <= Retired PROVE FALSE
        OBVIOUS
      <4>1. y \in Retiring
        BY <1>2, <2>3, <3>3
      <4>2. y \in Trapping
        BY <1>1, <3>3, <3>4, <4>1, RetiringPath DEF Trapping
      <4> QED BY <2>2, <4>2
    <3>6. ~(x <= Rank(rob, Retired))
      BY <1>1, <1>2, <3>1, <3>2, <3>5, ItemRank
    <3> QED BY <1>3, <3>1, <3>6
  <2>9. c <= RetireWidth
    BY <1>2, <1>3, <2>3
  <2> QED BY <1>2, <1>3, <2>7, <2>8, <2>9
<1>6. CASE ~RetireReady
  <2>1. Retired = 0 /\ rrat' = rrat
    BY <1>1, <1>6 DEF Retired, RetireNormal, RetireFlush, RetireResume, RetireNothing
  <2>2. {} \subseteq Retiring /\ \A i : i \in {} <=> i \in DOMAIN rob /\ ~rob[i].wrong /\ i <= 0
    BY <1>2
  <2>3. Committed({}) = Precise!After(Rank(rob, 0))
    BY <1>1, <2>2, CommitsPrefix
  <2>4. Committed({}) = rrat
    BY <1>1 DEF Committed, TypeOK, RAT
  <2>5. \A x \in Precise!Faulty : c < x
    <3> SUFFICES ASSUME NEW x \in Precise!Faulty PROVE c < x
      OBVIOUS
    <3>1. x \in DOMAIN Window
      BY DEF Precise!Faulty
    <3>2. x \in 1 .. Len(Window) /\ Len(Window) \in Nat
      BY <1>1, <3>1, WindowEntries
    <3>3. c = 0
      BY <1>3, <2>1
    <3> QED BY <3>2, <3>3
  <2>6. c <= RetireWidth
    BY <1>2, <1>3, <2>1
  <2> QED BY <1>2, <1>3, <2>1, <2>3, <2>4, <2>5, <2>6
<1> QED BY <1>5, <1>6

\* A branch on the valid path that mispredicts cuts the window right after it.
LEMMA MispredictsWindow ==
    ASSUME NEW push, NEW go, NEW ex, NEW rp, NEW async, PathStep(push, go, ex, rp, async),
           fsm = "NORMAL", fsm' = "NORMAL", RollbackTag(ex) # NoTag
    PROVE  \E at \in DOMAIN Window : Precise!Mispredict(Rank(rob, Retired), at)
<1>1. /\ TypeOK /\ PathInv /\ ex \in Executions
  BY DEF PathStep, TypeInv
<1>2. /\ rob \in Seq(Entry) /\ Retired \in Nat /\ DOMAIN rob = 1 .. Len(rob) /\ Len(rob) \in Nat
  BY <1>1, RetiringInRob, InstrType DEF TypeOK
<1>3. PICK b : b = ex[1].at
  OBVIOUS
<1>4. /\ ex # <<>> /\ b \in DOMAIN rob /\ b \in 1 .. InFlight /\ Instr(b) = rob[b]
      /\ rob[b].tag \in active_tags /\ rob[b].br /\ b > Retired
  BY <1>1, <1>3, RollbackFacts
<1>5. ~rob[b].wrong
  BY <1>1, <1>4 DEF PathInv, PathTags, WrongInactive
<1>6. PICK c \in Nat, d \in Nat : c = Rank(rob, Retired) /\ d = Rank(rob, b)
  <2>1. b \in Nat
    BY <1>2, <1>4
  <2> QED BY <1>2, <2>1, RankType
<1>7. d \in DOMAIN Window /\ Nth(PathOf(rob), d) = b /\ Window[d].br
  <2>1. d \in DOMAIN Window /\ Nth(PathOf(rob), d) = b
    BY <1>1, <1>4, <1>5, <1>6, EntryRank
  <2>2. Window[d] = WindowItem(rob[b])
    BY <1>1, <2>1, WindowEntries
  <2> QED BY <1>4, <2>1, <2>2 DEF WindowItem
<1>8. c < d
  <2>1. ~(b <= Retired)
    BY <1>2, <1>4
  <2>2. ~(d <= Rank(rob, Retired))
    BY <1>1, <1>2, <1>7, <2>1, ItemRank
  <2> QED BY <1>6, <2>2
<1>9. PathEnd(ex) = b /\ ~Grows(go, ex)
  BY <1>3 DEF PathEnd, Grows
<1>10. ~ex[1].exc
  <2>1. PICK e \in Execution : CanExecute(e) /\ ex = <<e>>
    BY <1>1, <1>4 DEF Executions
  <2>2. ex[1] = e /\ e.mis
    BY <2>1 DEF RollbackTag
  <2> QED BY <2>1, <2>2 DEF CanExecute
<1>11. /\ d <= Len(Window) /\ Window' \in Seq(Items) /\ Len(Window') = d - c
       /\ \A k \in 1 .. d - c : Window'[k] = Window[k + c]
  <2>1. /\ c <= d /\ d <= Len(Window)
        /\ Window' \in Seq(Items) /\ Len(Window') = d - c + (IF Grows(go, ex) THEN 1 ELSE 0)
        /\ ItemsKept(ex, c, d)
    <3>1. c = Rank(rob, Retired) /\ d = Rank(rob, PathEnd(ex)) /\ c \in Nat /\ d \in Nat
      BY <1>6, <1>9
    <3> QED BY <3>1, WindowAfterStep
  <2>2. \A i : ~Faults(ex, i)
    BY <1>10 DEF Faults
  <2>3. Len(Window') = d - c
    BY <1>9, <2>1
  <2> QED BY <2>1, <2>2, <2>3 DEF ItemsKept
<1>12. Window' = SubSeq(Window, c + 1, d)
  <2>1. PICK W, W2 : W = Window /\ W2 = Window'
    OBVIOUS
  <2>2. W \in Seq(Items) /\ W2 \in Seq(Items)
    BY <1>1, <1>11, <2>1, WindowEntries
  <2>3. d <= Len(W) /\ Len(W2) = d - c /\ \A k \in 1 .. d - c : W2[k] = W[k + c]
    BY <1>11, <2>1
  <2>4. PICK s : s = SubSeq(W, c + 1, d)
    OBVIOUS
  <2>5. s \in Seq(Items) /\ Len(s) = d - c /\ \A k \in 1 .. d - c : s[k] = W[k + c]
    BY <1>6, <1>8, <2>2, <2>3, <2>4
  <2>6. s = W2
    BY <2>2, <2>3, <2>5, SeqEqual
  <2> QED BY <2>1, <2>4, <2>6
<1>13. Precise!Mispredict(c, d)
  <2>1. rrat' = Precise!After(c) /\ c <= Len(Window) /\ \A x \in Precise!Faulty : c < x
    BY <1>6, CommitsWindow
  <2> QED BY <1>7, <1>8, <1>12, <2>1 DEF Precise!Mispredict, Precise!Commit
<1> QED BY <1>6, <1>7, <1>13

LEMMA RankOfItem ==
    ASSUME TypeOK, fsm = "NORMAL", NEW k \in DOMAIN Window
    PROVE  Rank(rob, Nth(PathOf(rob), k)) = k
<1>1. rob \in Seq(Entry)
  BY DEF TypeOK
<1>2. PICK n, S : n \in Nat /\ n = Len(rob) /\ S = PathOf(rob) /\ S \in SUBSET (1 .. n)
  BY <1>1, PathBounds
<1>3. n \in Nat /\ S \in SUBSET (1 .. n) /\ k \in 1 .. Cardinality(S)
  BY <1>2, WindowEntries
<1>4. Cardinality(Upto(S, Nth(S, k))) = k
  BY <1>3, NthExists
<1> QED BY <1>2, <1>4 DEF Rank

\* A window without its first c items, one of which may have faulted.
OneFaults(s, W, c, q) ==
    \A k \in 1 .. Len(s) : /\ k # q => s[k] = W[k + c]
                           /\ k = q => s[k] = [W[k + c] EXCEPT !.exc = TRUE]
RestOf(w) == {w} \cup {[w EXCEPT ![i].exc = TRUE] : i \in DOMAIN w}
LEMMA RestItems ==
    ASSUME NEW W \in Seq(Items), NEW c \in Nat, c <= Len(W), NEW s \in Seq(Items), Len(s) = Len(W) - c,
           NEW q, OneFaults(s, W, c, q)
    PROVE  s \in RestOf(SubSeq(W, c + 1, Len(W)))
<1> USE DEF OneFaults
<1>1. PICK e \in Nat : e = Len(s) /\ e = Len(W) - c
  OBVIOUS
<1>2. PICK w : w = SubSeq(W, c + 1, Len(W))
  OBVIOUS
<1>3. w \in Seq(Items) /\ Len(w) = e /\ \A k \in 1 .. e : w[k] = W[k + c]
  BY <1>1, <1>2
<1>4. DOMAIN w = 1 .. e /\ \A k \in 1 .. e : w[k] \in Items
  BY <1>1, <1>3
<1>5. CASE q \notin 1 .. e
  <2>1. \A k \in 1 .. e : s[k] = w[k]
    BY <1>1, <1>3, <1>5
  <2>2. s = w
    BY <1>1, <1>3, <2>1, SeqEqual
  <2> QED BY <1>2, <2>2 DEF RestOf
<1>6. CASE q \in 1 .. e
  <2>1. PICK x : x = [w[q] EXCEPT !.exc = TRUE]
    OBVIOUS
  <2>2. x \in Items
    BY <1>4, <1>6, <2>1 DEF Items
  <2>3. PICK v : v = [w EXCEPT ![q] = x]
    OBVIOUS
  <2>4. v \in Seq(Items) /\ Len(v) = e /\ \A j \in 1 .. e : v[j] = IF j = q THEN x ELSE w[j]
    BY <1>3, <1>6, <2>2, <2>3, ExceptSeq
  <2>5. ASSUME NEW k \in 1 .. e PROVE s[k] = v[k]
    <3>1. CASE k = q
      BY <1>1, <1>3, <2>1, <2>4, <3>1
    <3>2. CASE k # q
      BY <1>1, <1>3, <2>4, <3>2
    <3> QED BY <3>1, <3>2
  <2>6. s = v
    BY <1>1, <2>4, <2>5, SeqEqual
  <2>7. v = [w EXCEPT ![q].exc = TRUE]
    BY <2>1, <2>3
  <2> QED BY <1>2, <1>4, <1>6, <2>6, <2>7 DEF RestOf
<1> QED BY <1>5, <1>6

LEMMA RestIsRest ==
    ASSUME NEW n
    PROVE  Precise!Rest(n) = RestOf(SubSeq(Window, n + 1, Len(Window)))
BY DEF Precise!Rest, RestOf

\* Without a rollback the window loses what is committed, may gain the
\* renamed instruction, and one of its items may fault.
LEMMA FlowsWindow ==
    ASSUME NEW push, NEW go, NEW ex, NEW rp, NEW async, PathStep(push, go, ex, rp, async),
           fsm = "NORMAL", fsm' = "NORMAL", RollbackTag(ex) = NoTag, NoRegisterShared
    PROVE  Precise!Flow(Rank(rob, Retired))
<1>1. /\ TypeOK /\ ex \in Executions
  BY DEF PathStep, TypeInv
<1>2. /\ rob \in Seq(Entry) /\ Retired \in Nat /\ DOMAIN rob = 1 .. Len(rob) /\ Len(rob) \in Nat
  BY <1>1, RetiringInRob, InstrType DEF TypeOK
<1>3. PathEnd(ex) = Len(rob)
  BY DEF PathEnd
<1>4. PICK c \in Nat, d \in Nat : c = Rank(rob, Retired) /\ d = Rank(rob, PathEnd(ex))
  BY <1>2, <1>3, RankType
<1>5. /\ c <= d /\ d <= Len(Window)
      /\ Window' \in Seq(Items) /\ Len(Window') = d - c + (IF Grows(go, ex) THEN 1 ELSE 0)
      /\ ItemsKept(ex, c, d)
      /\ Grows(go, ex) => Window'[d - c + 1] = WindowItem(RobEntry(instr_tag_buf[1], FALSE))
  BY <1>4, WindowAfterStep
<1>6. PICK W \in Seq(Items), W2 \in Seq(Items) : W = Window /\ W2 = Window'
  BY <1>1, <1>5, WindowEntries
<1>7. d = Len(W) /\ DOMAIN W = 1 .. d
  BY <1>1, <1>3, <1>4, <1>6, WindowEntries
<1>8. PICK e \in Nat : e = d - c
  BY <1>5
<1>9. Len(W2) = e + (IF Grows(go, ex) THEN 1 ELSE 0)
  BY <1>5, <1>6, <1>8
<1>10. PICK s : s = SubSeq(W2, 1, e)
  OBVIOUS
<1>11. s \in Seq(Items) /\ Len(s) = e /\ \A k \in 1 .. e : s[k] = W2[k]
  BY <1>6, <1>8, <1>9, <1>10
<1>12. s \in Precise!Rest(c)
  <2> DEFINE Only(q) == \A k \in 1 .. e : Faults(ex, Nth(PathOf(rob), k + c)) <=> k = q
  <2>1. \E q : Only(q)
    <3>1. CASE \E q \in 1 .. e : Faults(ex, Nth(PathOf(rob), q + c))
      <4>1. PICK q \in 1 .. e : Faults(ex, Nth(PathOf(rob), q + c))
        BY <3>1
      <4>2. ASSUME NEW k \in 1 .. e, Faults(ex, Nth(PathOf(rob), k + c)) PROVE k = q
        <5>1. Nth(PathOf(rob), k + c) = Nth(PathOf(rob), q + c)
          BY <4>1, <4>2 DEF Faults
        <5>2. k + c \in DOMAIN Window /\ q + c \in DOMAIN Window
          BY <1>5, <1>6, <1>7, <1>8, <4>1
        <5>3. k + c = q + c
          BY <1>1, <5>1, <5>2, RankOfItem
        <5> QED BY <1>4, <1>8, <4>1, <5>3
      <4>3. Only(q)
        BY <4>1, <4>2
      <4> HIDE DEF Only
      <4> QED BY <4>3
    <3>2. CASE ~\E q \in 1 .. e : Faults(ex, Nth(PathOf(rob), q + c))
      <4>1. 0 \notin 1 .. e
        BY <1>8
      <4>2. Only(0)
        BY <3>2, <4>1
      <4> HIDE DEF Only
      <4> QED BY <4>2
    <3> QED BY <3>1, <3>2
  <2>2. PICK q : Only(q)
    BY <2>1
  <2>3. ASSUME NEW k \in 1 .. Len(s)
        PROVE  /\ k # q => s[k] = W[k + c]
               /\ k = q => s[k] = [W[k + c] EXCEPT !.exc = TRUE]
    <3>1. k \in 1 .. e /\ k \in 1 .. d - c /\ s[k] = W2[k]
      BY <1>8, <1>11
    <3>2. /\ ~Faults(ex, Nth(PathOf(rob), k + c)) => W2[k] = W[k + c]
          /\ Faults(ex, Nth(PathOf(rob), k + c)) => W2[k] = [W[k + c] EXCEPT !.exc = TRUE]
      BY <1>5, <1>6, <3>1 DEF ItemsKept
    <3> QED BY <2>2, <3>1, <3>2
  <2>4. c <= Len(W) /\ Len(s) = Len(W) - c /\ OneFaults(s, W, c, q)
    BY <1>5, <1>7, <1>8, <1>11, <2>3 DEF OneFaults
  <2>5. s \in RestOf(SubSeq(W, c + 1, Len(W)))
    BY <1>4, <1>6, <1>11, <2>4, RestItems
  <2> QED BY <1>6, <2>5, RestIsRest
<1>13. rrat' = Precise!After(c) /\ c <= Len(Window) /\ \A x \in Precise!Faulty : c < x
  BY <1>4, CommitsWindow
<1>14. CASE ~Grows(go, ex)
  <2>1. Len(W2) = e
    BY <1>8, <1>9, <1>14
  <2>2. s = W2
    BY <1>6, <1>11, <2>1, SeqEqual
  <2>3. Window' \in Precise!Rest(c)
    BY <1>6, <1>12, <2>2
  <2>4. Precise!Flow(c)
    BY <1>13, <2>3 DEF Precise!Flow, Precise!Commit
  <2> QED BY <1>4, <2>4
<1>15. CASE Grows(go, ex)
  <2>1. PICK i : i = WindowItem(RobEntry(instr_tag_buf[1], FALSE))
    OBVIOUS
  <2>2. instr_tag_buf # <<>> /\ instr_tag_buf[1] \in Tagged
    BY <1>1, <1>15, PipeContents DEF Grows, RenameFires
  <2>3. i \in Precise!Item /\ i \in Items /\ i.rp = instr_tag_buf[1].rp
    BY <2>1, <2>2 DEF Precise!Item, Items, WindowItem, RobEntry, Tagged, Flag
  <2>4. Len(W2) = e + 1 /\ W2[e + 1] = i
    BY <1>5, <1>6, <1>8, <1>9, <1>15, <2>1
  <2>5. W2 = Append(s, i)
    <3>1. PICK a : a = Append(s, i)
      OBVIOUS
    <3>2. a \in Seq(Items) /\ Len(a) = e + 1 /\ (\A k \in 1 .. e : a[k] = s[k]) /\ a[e + 1] = i
      BY <1>11, <2>3, <3>1, AppendProperties
    <3>3. \A k \in 1 .. e + 1 : k \in 1 .. e \/ k = e + 1
      BY <1>8
    <3>4. \A k \in 1 .. e + 1 : a[k] = W2[k]
      BY <1>11, <2>4, <3>2, <3>3
    <3>5. a = W2
      BY <1>6, <2>4, <3>2, <3>4, SeqEqual
    <3> QED BY <3>1, <3>5
  <2>6. i.rp \notin Precise!Owned \/ i.rp = ZeroReg
    <3>1. 1 \in DOMAIN instr_tag_buf
      BY <1>1, <2>2, PipeElement DEF TypeOK
    <3>2. i.rp \in BufferRegs
      BY <2>3, <3>1 DEF BufferRegs
    <3>3. Precise!Owned \subseteq RobRegs \cup CommittedRegs
      <4>1. \A k \in DOMAIN Window : Window[k].rp \in RobRegs
        <5> SUFFICES ASSUME NEW k \in DOMAIN Window PROVE Window[k].rp \in RobRegs
          OBVIOUS
        <5>1. /\ Nth(PathOf(rob), k) \in DOMAIN rob
              /\ Window[k] = WindowItem(rob[Nth(PathOf(rob), k)])
          BY <1>1, WindowEntries
        <5> QED BY <5>1 DEF WindowItem, RobRegs
      <4> QED BY <4>1 DEF Precise!Owned, CommittedRegs
    <3> QED BY <3>2, <3>3 DEF NoRegisterShared
  <2>7. Window' = Append(s, i)
    BY <1>6, <2>5
  <2>8. Precise!Flow(c)
    BY <1>12, <1>13, <2>3, <2>6, <2>7 DEF Precise!Flow, Precise!Commit
  <2> QED BY <1>4, <2>8
<1> QED BY <1>14, <1>15

\* A trap commits what is older than the oldest item that faulted, or up to it
\* for an interrupt, and empties the window.
LEMMA TrapsWindow ==
    ASSUME NEW push, NEW go, NEW ex, NEW rp, NEW async \in BOOLEAN, PathStep(push, go, ex, rp, async),
           fsm = "NORMAL", fsm' # "NORMAL"
    PROVE  \E n \in 0 .. RetireWidth : Precise!Trap(n)
<1>1. /\ TypeOK /\ TagInv /\ PathInv
      /\ \/ RetireNormal(CommitSet(async))
         \/ RetireFlush
         \/ RetireResume
         \/ RetireNothing
  BY CycleParts DEF PathStep, TypeInv
<1>2. /\ rob \in Seq(Entry) /\ RetireCount \in 0 .. RetireWidth /\ RetireWidth \in Nat
      /\ Retiring = 1 .. RetireCount /\ DOMAIN rob = 1 .. Len(rob) /\ Len(rob) \in Nat /\ RetireCount <= Len(rob)
  BY <1>1, RetiringInRob, InstrType, SizesAssumption DEF TypeOK, Retiring
<1>3. RetireNormal(CommitSet(async)) /\ Trapping # {} /\ rrat' = Committed(CommitSet(async))
  <2>1. RetireNormal(CommitSet(async))
    BY <1>1 DEF RetireFlush, RetireResume, Resuming, RetireNothing
  <2> QED BY <2>1 DEF RetireNormal, RetireEntries
<1>4. CommitSet(async) = Committing(async)
  BY DEF Flushing, CommitSet
<1>5. PICK t : t = Min(Trapping)
  OBVIOUS
<1>6. t \in Trapping /\ \A y \in Trapping : t <= y
  BY <1>1, <1>3, <1>5, MinRetiring DEF Trapping
<1>7. /\ t \in Retiring /\ t \in DOMAIN rob /\ t \in Nat /\ t \in 1 .. RetireCount
      /\ ~rob[t].wrong /\ rob[t].exc
  <2>1. t \in Retiring /\ rob[t].exc /\ TagActive(t)
    BY <1>6 DEF Trapping
  <2> QED BY <1>1, <1>2, <2>1, RetiringPath
<1>8. PICK x \in Nat : x = IF async THEN t ELSE t - 1
  BY <1>7
<1>9. x <= t /\ t <= RetireCount /\ \A i \in Nat : i <= x <=> i < t \/ (async /\ i = t)
  BY <1>2, <1>7, <1>8
<1>10. PICK C : C = CommitSet(async)
  OBVIOUS
<1>11. C \subseteq Retiring
  BY <1>4, <1>10, CommittingRetires
<1>12. \A i : i \in C <=> i \in DOMAIN rob /\ ~rob[i].wrong /\ i <= x
  <2>1. ASSUME NEW i \in Retiring
        PROVE  (\A y \in Trapping : i < y \/ (async /\ i = t)) <=> i <= x
    <3>1. i \in Nat /\ \A y \in Trapping : y \in Nat
      BY <1>1, RetiringPath DEF Trapping
    <3>2. i < t => \A y \in Trapping : i < y
      <4> SUFFICES ASSUME i < t, NEW y \in Trapping PROVE i < y
        OBVIOUS
      <4>1. t <= y /\ y \in Nat
        BY <1>6, <3>1
      <4> QED BY <1>7, <3>1, <4>1
    <3>3. i <= x <=> i < t \/ (async /\ i = t)
      BY <1>9, <3>1
    <3> QED BY <1>6, <3>2, <3>3
  <2>2. C = {i \in Retiring : TagActive(i) /\ \A y \in Trapping : i < y \/ (async /\ i = t)}
    BY <1>4, <1>5, <1>10 DEF Committing
  <2>3. \A i \in Retiring : i \in C <=> ~rob[i].wrong /\ i <= x
    BY <1>1, <2>1, <2>2, RetiringPath
  <2>4. \A i \in DOMAIN rob : i <= x => i \in Retiring
    <3> SUFFICES ASSUME NEW i \in DOMAIN rob, i <= x PROVE i \in Retiring
      OBVIOUS
    <3>1. i \in 1 .. Len(rob)
      BY <1>2
    <3> QED BY <1>2, <1>7, <1>8, <1>9, <3>1
  <2>5. \A i \in Retiring : i \in DOMAIN rob
    BY <1>1, RetiringPath
  <2> QED BY <1>11, <2>3, <2>4, <2>5
<1>13. rrat' = Precise!After(Rank(rob, x))
  <2>1. Committed(C) = Precise!After(Rank(rob, x))
    BY <1>1, <1>8, <1>11, <1>12, CommitsPrefix
  <2> QED BY <1>3, <1>10, <2>1
<1>14. PICK q : q = Rank(rob, t)
  OBVIOUS
<1>15. /\ q \in DOMAIN Window /\ Nth(PathOf(rob), q) = t /\ Rank(rob, t - 1) = q - 1
       /\ DOMAIN Window = 1 .. Len(Window) /\ Len(Window) \in Nat
  BY <1>1, <1>7, <1>14, EntryRank, WindowEntries
<1>16. q \in Precise!Faulty
  <2>1. Window[q] = WindowItem(rob[t])
    BY <1>1, <1>15, WindowEntries
  <2>2. Window[q].exc
    BY <1>7, <2>1 DEF WindowItem
  <2> QED BY <1>15, <2>2 DEF Precise!Faulty
<1>17. ASSUME NEW k \in Precise!Faulty PROVE q <= k
  <2>1. k \in DOMAIN Window /\ Window[k].exc
    BY <1>17 DEF Precise!Faulty
  <2>2. PICK y : y = Nth(PathOf(rob), k)
    OBVIOUS
  <2>3. y \in DOMAIN rob /\ ~rob[y].wrong /\ Window[k] = WindowItem(rob[y])
    BY <1>1, <2>1, <2>2, WindowEntries
  <2>4. rob[y].exc /\ y \in Nat
    BY <1>2, <2>1, <2>3 DEF WindowItem
  <2>5. ~(y <= t - 1)
    <3> SUFFICES ASSUME y <= t - 1 PROVE FALSE
      OBVIOUS
    <3>1. y \in Retiring
      BY <1>2, <1>7, <2>3
    <3>2. y \in Trapping
      BY <1>1, <2>3, <2>4, <3>1, RetiringPath DEF Trapping
    <3> QED BY <1>6, <1>7, <2>4, <3>2
  <2>6. t - 1 \in Nat
    BY <1>7
  <2>7. ~(k <= Rank(rob, t - 1))
    BY <1>1, <2>1, <2>2, <2>5, <2>6, ItemRank
  <2> QED BY <1>15, <2>1, <2>7
<1>18. Precise!Min(Precise!Faulty) = q
  <2>1. PICK F : F = Precise!Faulty
    OBVIOUS
  <2>2. F \in SUBSET Nat /\ F # {} /\ q \in F
    BY <1>15, <1>16, <2>1 DEF Precise!Faulty
  <2>3. Min(F) \in F /\ \A y \in F : Min(F) <= y
    BY <2>2, MinIsLeast
  <2>4. Min(F) = q
    <3>1. PICK y : y = Min(F)
      OBVIOUS
    <3>2. y \in F /\ y \in Nat /\ q \in Nat /\ y <= q
      BY <2>2, <2>3, <3>1
    <3>3. q <= y
      BY <1>17, <2>1, <3>2
    <3>4. y = q
      BY <3>2, <3>3
    <3> QED BY <3>1, <3>4
  <2>5. Precise!Min(F) = Min(F)
    BY DEF Precise!Min, Min
  <2> QED BY <2>1, <2>4, <2>5
<1>19. PICK n : n = Rank(rob, x)
  OBVIOUS
<1>20. n \in 0 .. RetireWidth /\ n <= Len(Window) /\ n \in {q - 1, q}
  <2>1. n \in Nat /\ n <= x
    BY <1>2, <1>8, <1>19, RankBound
  <2>2. n \in {q - 1, q}
    BY <1>8, <1>14, <1>15, <1>19
  <2>3. n <= RetireWidth
    BY <1>2, <1>7, <1>8, <1>9, <2>1
  <2>4. n <= Len(Window)
    BY <1>15, <2>2
  <2> QED BY <1>2, <2>1, <2>2, <2>3, <2>4
<1>21. Window' = <<>>
  BY WindowIsItems
<1>22. Precise!Trap(n)
  BY <1>13, <1>16, <1>18, <1>19, <1>20, <1>21 DEF Precise!Trap, Precise!Commit
<1> QED BY <1>20, <1>22

\* While a trap drains the core and when it resumes, nothing is committed and
\* nothing is in the window.
LEMMA TrapKeepsWindow ==
    ASSUME NEW push, NEW go, NEW ex, NEW rp, NEW async, PathStep(push, go, ex, rp, async),
           fsm # "NORMAL"
    PROVE  rrat' = rrat /\ Window' = Window
<1>1. /\ TypeOK /\ TypeOK' /\ ex \in Executions /\ rp \in Reports /\ CounterExact /\ TrapInv
      /\ RobCycle(go, ex, rp)
      /\ \/ RetireNormal(CommitSet(async))
         \/ RetireFlush
         \/ RetireResume
         \/ RetireNothing
  BY CycleParts DEF PathStep, TypeInv
<1>2. rrat' = rrat
  <2>1. Committed({}) = rrat
    BY <1>1 DEF Committed, TypeOK, RAT
  <2> QED BY <1>1, <2>1 DEF RetireNormal, RetireFlush, RetireEntries, RetireResume, RetireNothing
<1>3. Window = <<>>
  BY DEF Window
<1>4. CASE fsm' # "NORMAL"
  BY <1>2, <1>3, <1>4, WindowIsItems
<1>5. CASE fsm' = "NORMAL"
  <2>1. Resuming
    BY <1>1, <1>5 DEF RetireNormal, RetireFlush, RetireResume, RetireNothing, TrapState
  <2>2. fsm = "TRAP_RESUME"
    BY <2>1 DEF Resuming
  <2>3. Len(rob) = 0 /\ instr_tag_buf = <<>>
    <3>1. core_counter = 0
      BY <1>1, <2>2 DEF TrapInv, ResumeEmpty
    <3>2. /\ rob \in Seq(Entry) /\ instr_tag_buf \in Seq(Tagged) /\ alloc_rename_buf \in Seq(Allocated)
      BY <1>1 DEF TypeOK, AtMostOne
    <3>3. Len(alloc_rename_buf) + Len(instr_tag_buf) + Len(rob) = 0
      BY <1>1, <3>1 DEF CounterExact
    <3>4. Len(rob) \in Nat /\ Len(instr_tag_buf) \in Nat /\ Len(alloc_rename_buf) \in Nat
      BY <3>2
    <3>5. Len(rob) = 0 /\ Len(instr_tag_buf) = 0
      BY <3>3, <3>4
    <3> QED BY <3>2, <3>5
  <2>4. ~RenameFires(go) /\ Retired = 0
    BY <2>2, <2>3 DEF RenameFires, RetireReady, Flushing, Retired
  <2>5. PICK R2 \in Seq(Entry) : R2 = rob' /\ Len(R2) = 0
    <3>1. Len(rob') = Len(rob) - Retired + (IF RenameFires(go) THEN 1 ELSE 0)
      BY <1>1, RobStep
    <3>2. rob' \in Seq(Entry)
      BY <1>1 DEF TypeOK
    <3>3. Len(rob') = 0
      BY <2>3, <2>4, <3>1
    <3> QED BY <3>2, <3>3
  <2>6. PathOf(R2) = {}
    BY <2>5 DEF PathOf
  <2>7. Cardinality(PathOf(R2)) = 0
    BY <2>6, FS_EmptySet
  <2>8. ItemsOf(R2) = [k \in 1 .. 0 |-> WindowItem(R2[Nth(PathOf(R2), k)])]
    BY <2>7 DEF ItemsOf
  <2>9. ItemsOf(R2) = <<>>
    BY <2>8
  <2> QED BY <1>2, <1>3, <1>5, <2>5, <2>9, WindowIsItems
<1> QED BY <1>4, <1>5

LEMMA WindowStep ==
    ASSUME NEW push, NEW go, NEW ex, NEW rp, NEW async \in BOOLEAN, PathStep(push, go, ex, rp, async),
           NoRegisterShared
    PROVE  Precise!WindowNext \/ UNCHANGED Precise!winVars
<1>1. CASE fsm # "NORMAL"
  <2>1. rrat' = rrat /\ Window' = Window
    BY <1>1, TrapKeepsWindow
  <2> QED BY <2>1 DEF Precise!winVars
<1>2. CASE fsm = "NORMAL" /\ fsm' # "NORMAL"
  <2>1. \E n \in 0 .. RetireWidth : Precise!Trap(n)
    BY <1>2, TrapsWindow
  <2> QED BY <2>1 DEF Precise!WindowNext
<1>3. CASE fsm = "NORMAL" /\ fsm' = "NORMAL"
  <2>1. PICK n \in 0 .. RetireWidth : n = Rank(rob, Retired)
    BY <1>3, CommitsWindow
  <2>2. CASE RollbackTag(ex) = NoTag
    <3>1. Precise!Flow(n)
      BY <1>3, <2>1, <2>2, FlowsWindow
    <3> QED BY <2>1, <3>1 DEF Precise!WindowNext
  <2>3. CASE RollbackTag(ex) # NoTag
    <3>1. \E at \in DOMAIN Window : Precise!Mispredict(n, at)
      BY <1>3, <2>1, <2>3, MispredictsWindow
    <3> QED BY <2>1, <3>1 DEF Precise!WindowNext
  <2> QED BY <2>2, <2>3
<1> QED BY <1>1, <1>2, <1>3

LEMMA WindowNextStep ==
    ASSUME ~MarkerRace
    PROVE  TypeInv /\ NoRegisterShared /\ TagInv /\ TrapInv /\ PathInv /\ [Next]_vars
              => [Precise!WindowNext]_(Precise!winVars)
<1> SUFFICES ASSUME TypeInv, NoRegisterShared, TagInv, TrapInv, PathInv, [Next]_vars
             PROVE  Precise!WindowNext \/ UNCHANGED Precise!winVars
  OBVIOUS
<1>1. TypeOK' /\ TrapInv'
  BY TypeInvNext, TrapInvNext DEF TypeInv
<1>2. CASE Next
  <2>1. PICK push \in Deliveries, go \in BOOLEAN, ex \in Executions, rp \in Reports, async \in BOOLEAN :
            Cycle(push, go, ex, rp, async)
    BY <1>2, NextIsCycle
  <2>2. PathStep(push, go, ex, rp, async)
    BY <1>1, <2>1 DEF PathStep
  <2> QED BY <2>1, <2>2, WindowStep
<1>3. CASE UNCHANGED vars
  BY <1>3 DEF vars, backVars, Precise!winVars, Window, ValidPath
<1> QED BY <1>2, <1>3

LEMMA WindowStart == Init => Precise!WindowInit
<1> SUFFICES ASSUME Init PROVE Precise!WindowInit
  OBVIOUS
<1>1. rob = <<>> /\ rrat = ZeroRAT /\ fsm = "NORMAL"
  BY DEF Init
<1>2. ValidPath = {}
  BY <1>1 DEF ValidPath
<1>3. Cardinality(ValidPath) = 0
  BY <1>2, FS_EmptySet
<1>4. Window = [k \in 1 .. 0 |-> WindowItem(rob[Nth(ValidPath, k)])]
  BY <1>1, <1>3 DEF Window
<1>5. Window = <<>>
  BY <1>4
<1> QED BY <1>1, <1>5 DEF Precise!WindowInit, ZeroRAT

(***************************************************************************)
(* The core is precise for every number of registers, tags, checkpoints    *)
(* and ROB entries and every retirement width: whatever is speculated,     *)
(* rolled back, trapped and retired in one cycle, the RRAT and the valid   *)
(* path behave as a window of instructions in program order that commits   *)
(* from its old end and is cut by mispredictions and traps.                *)
(***************************************************************************)
THEOREM CoreIsPrecise ==
    ASSUME ~MarkerRace
    PROVE  Spec => PreciseExecution
<1>1. TypeInv /\ TagInv /\ TrapInv /\ PathInv /\ [Next]_vars => PathInv'
  BY PathInvNext
<1>2. TypeInv /\ NoRegisterShared /\ TagInv /\ TrapInv /\ PathInv /\ [Next]_vars
         => [Precise!WindowNext]_(Precise!winVars)
  BY WindowNextStep
<1>3. Spec => [](NoRegisterShared /\ NoRegisterLost)
  BY RegistersConserved
<1> QED BY <1>1, <1>2, <1>3, WindowStart, PathInvInit, TypeInvInit, TypeInvNext, TagInvInit, TagInvNext,
           TrapInvInit, TrapInvNext, PTL DEF Spec, PreciseExecution, Precise!WindowSpec
=============================================================================
