------------------------------ MODULE FeedProofs ------------------------------
(***************************************************************************)
(* Proofs about the event feed, for any number of subscriptions, channels  *)
(* and calls of Send: every subscription stays listed, and the feed keeps  *)
(* the promise of FeedPromise.                                             *)
(***************************************************************************)
EXTENDS Feed, FiniteSetTheorems, TLAPS

(* What joining and slicing lists give. *)
LEMMA Joined ==
    ASSUME NEW C, NEW s \in Seq(C), NEW t \in Seq(C)
    PROVE  /\ s \o t \in Seq(C) /\ Len(s \o t) = Len(s) + Len(t)
           /\ \A i \in 1 .. Len(s) + Len(t) :
                 (s \o t)[i] = IF i <= Len(s) THEN s[i] ELSE t[i - Len(s)]
OBVIOUS

LEMMA Sliced ==
    ASSUME NEW C, NEW s, NEW m \in Int, NEW n \in Int, \A i \in m .. n : s[i] \in C
    PROVE  /\ SubSeq(s, m, n) \in Seq(C)
           /\ Len(SubSeq(s, m, n)) = IF m <= n THEN n - m + 1 ELSE 0
           /\ \A i \in 1 .. n - m + 1 : SubSeq(s, m, n)[i] = s[m + i - 1]
OBVIOUS

(* A set that another is indexed by, one to one, has as many elements. *)
LEMMA SameSize ==
    ASSUME NEW S, NEW T, IsFiniteSet(S), NEW f \in [S -> T],
           \A x, y \in S : f[x] = f[y] => x = y,
           \A t \in T : \E x \in S : f[x] = t
    PROVE  IsFiniteSet(T) /\ Cardinality(T) = Cardinality(S)
<1>1. ExistsBijection(S, T)
  BY DEF ExistsBijection, Bijection, Injection, Surjection, IsInjective
<1> QED BY <1>1, FS_Bijection

-------------------------------------------------------------------------------
(* Counting the cases of a channel. *)

LEMMA CountType ==
    ASSUME NEW s, NEW n \in Nat, NEW c
    PROVE  IsFiniteSet({i \in 1 .. n : s[i] = c}) /\ Count(s, n, c) \in Nat
<1>1. IsFiniteSet(1 .. n)
  BY FS_Interval
<1>2. {i \in 1 .. n : s[i] = c} \in SUBSET (1 .. n)
  OBVIOUS
<1>3. IsFiniteSet({i \in 1 .. n : s[i] = c})
  BY <1>1, <1>2, FS_Subset
<1> QED BY <1>3, FS_CardinalityType DEF Count

LEMMA CountNone ==
    ASSUME NEW s, NEW c
    PROVE  Count(s, 0, c) = 0
<1>1. {i \in 1 .. 0 : s[i] = c} = {}
  OBVIOUS
<1> QED BY <1>1, FS_EmptySet DEF Count

LEMMA CountSame ==
    ASSUME NEW s, NEW t, NEW n \in Nat, NEW c, \A i \in 1 .. n : s[i] = t[i]
    PROVE  Count(s, n, c) = Count(t, n, c)
<1>1. {i \in 1 .. n : s[i] = c} = {i \in 1 .. n : t[i] = c}
  OBVIOUS
<1> QED BY <1>1 DEF Count

LEMMA CountLast ==
    ASSUME NEW s, NEW n \in Nat, n > 0, NEW c
    PROVE  Count(s, n, c) = Count(s, n - 1, c) + (IF s[n] = c THEN 1 ELSE 0)
<1> DEFINE S == {i \in 1 .. n - 1 : s[i] = c}
           T == {i \in 1 .. n : s[i] = c}
<1>1. IsFiniteSet(S) /\ Cardinality(S) \in Nat
  <2>1. n - 1 \in Nat
    OBVIOUS
  <2>2. S \in SUBSET (1 .. n - 1) /\ IsFiniteSet(1 .. n - 1)
    BY <2>1, FS_Interval
  <2> QED BY <2>2, FS_Subset, FS_CardinalityType
<1>2. n \notin S /\ T = IF s[n] = c THEN S \cup {n} ELSE S
  OBVIOUS
<1> HIDE DEF S, T
<1>3. Cardinality(T) = Cardinality(S) + (IF s[n] = c THEN 1 ELSE 0)
  BY <1>1, <1>2, FS_AddElement
<1> QED BY <1>3 DEF S, T, Count

(* A longer prefix has no fewer cases of c, and one more if there is one between. *)
LEMMA CountMore ==
    ASSUME NEW s, NEW k \in Nat, NEW n \in Nat, k <= n, NEW c
    PROVE  /\ Count(s, k, c) <= Count(s, n, c)
           /\ \A i \in k + 1 .. n : s[i] = c => Count(s, k, c) < Count(s, n, c)
<1> DEFINE S == {i \in 1 .. k : s[i] = c}
           T == {i \in 1 .. n : s[i] = c}
<1>1. IsFiniteSet(T) /\ Cardinality(S) \in Nat /\ Cardinality(T) \in Nat
  BY CountType DEF Count
<1>2. S \in SUBSET T /\ \A i \in k + 1 .. n : s[i] = c => i \in T /\ i \notin S
  OBVIOUS
<1> HIDE DEF S, T
<1>3. Cardinality(S) <= Cardinality(T) /\ (Cardinality(T) = Cardinality(S) => T = S)
  BY <1>1, <1>2, FS_Subset
<1>4. /\ Cardinality(S) <= Cardinality(T)
      /\ \A i \in k + 1 .. n : s[i] = c => Cardinality(S) < Cardinality(T)
  BY <1>1, <1>2, <1>3
<1> QED BY <1>4 DEF S, T, Count

LEMMA CountPositive ==
    ASSUME NEW s, NEW n \in Nat, NEW c
    PROVE  Count(s, n, c) > 0 <=> \E i \in 1 .. n : s[i] = c
<1> DEFINE S == {i \in 1 .. n : s[i] = c}
<1>1. IsFiniteSet(S) /\ Cardinality(S) \in Nat
  BY CountType DEF Count
<1>2. Cardinality(S) = 0 <=> S = {}
  BY <1>1, FS_EmptySet
<1>3. S # {} <=> \E i \in 1 .. n : s[i] = c
  OBVIOUS
<1> HIDE DEF S
<1>4. Cardinality(S) > 0 <=> S # {}
  BY <1>1, <1>2
<1> QED BY <1>3, <1>4 DEF S, Count

LEMMA CountAppend ==
    ASSUME NEW C, NEW s \in Seq(C), NEW x \in C, NEW c
    PROVE  Count(Append(s, x), Len(s) + 1, c)
               = Count(s, Len(s), c) + (IF x = c THEN 1 ELSE 0)
<1> DEFINE t == Append(s, x)
           n == Len(s) + 1
<1>1. Len(s) \in Nat /\ n \in Nat /\ n > 0 /\ n - 1 = Len(s) /\ t[n] = x
      /\ \A i \in 1 .. Len(s) : s[i] = t[i]
  OBVIOUS
<1> HIDE DEF t, n
<1>2. Count(t, n, c) = Count(t, n - 1, c) + (IF t[n] = c THEN 1 ELSE 0)
  BY <1>1, CountLast
<1>3. Count(t, Len(s), c) = Count(s, Len(s), c)
  BY <1>1, CountSame
<1>4. Count(t, n, c) = Count(s, Len(s), c) + (IF x = c THEN 1 ELSE 0)
  BY <1>1, <1>2, <1>3
<1> QED BY <1>4 DEF t, n

LEMMA CountConcat ==
    ASSUME NEW C, NEW s \in Seq(C), NEW t \in Seq(C), NEW c
    PROVE  Count(s \o t, Len(s \o t), c) = Count(s, Len(s), c) + Count(t, Len(t), c)
<1> DEFINE m == Len(s)
           n == Len(t)
           u == s \o t
           S == {i \in 1 .. m : s[i] = c}
           T == {i \in 1 .. n : t[i] = c}
           M == {i \in m + 1 .. m + n : u[i] = c}
           f == [i \in T |-> i + m]
<1>1. /\ m \in Nat /\ n \in Nat /\ Len(u) = m + n
      /\ \A i \in 1 .. m : u[i] = s[i]
      /\ \A i \in 1 .. n : u[i + m] = t[i]
  <2>1. m \in Nat /\ n \in Nat /\ Len(u) = m + n
    OBVIOUS
  <2>2. \A i \in 1 .. m + n : u[i] = IF i <= m THEN s[i] ELSE t[i - m]
    BY Joined
  <2> HIDE DEF m, n, u
  <2>3. ASSUME NEW i \in 1 .. n PROVE u[i + m] = t[i]
    <3>1. PICK j \in 1 .. m + n : j = i + m
      BY <2>1
    <3>2. ~(j <= m) /\ j - m = i
      BY <2>1, <3>1
    <3> QED BY <2>2, <3>1, <3>2
  <2>4. \A i \in 1 .. n : u[i + m] = t[i]
    BY <2>3
  <2> QED BY <2>1, <2>2, <2>4
<1>2. IsFiniteSet(S) /\ IsFiniteSet(T) /\ Cardinality(S) \in Nat /\ Cardinality(T) \in Nat
  <2>1. m \in Nat /\ n \in Nat
    BY <1>1
  <2> HIDE DEF m, n
  <2>2. S \in SUBSET (1 .. m) /\ T \in SUBSET (1 .. n)
    OBVIOUS
  <2>3. IsFiniteSet(1 .. m) /\ IsFiniteSet(1 .. n)
    BY <2>1, FS_Interval
  <2> HIDE DEF S, T
  <2> QED BY <2>2, <2>3, FS_Subset, FS_CardinalityType, Zenon
<1> HIDE DEF m, n, u
<1>3. \A i \in T : i + m \in M
  BY <1>1
<1>4. \A j \in M : j - m \in T /\ (j - m) + m = j
  <2> SUFFICES ASSUME NEW j \in M PROVE j - m \in T /\ (j - m) + m = j
    OBVIOUS
  <2>1. j - m \in 1 .. n /\ (j - m) + m = j
    BY <1>1
  <2>2. u[(j - m) + m] = t[j - m]
    BY <1>1, <2>1
  <2> QED BY <2>1, <2>2
<1>5. \A x, y \in T : x + m = y + m => x = y
  BY <1>1
<1>6. {i \in 1 .. m + n : u[i] = c} = S \cup M /\ S \cap M = {}
  BY <1>1
<1> HIDE DEF S, T, M
<1>7. IsFiniteSet(M) /\ Cardinality(M) = Cardinality(T)
  <2>1. /\ f \in [T -> M] /\ \A x, y \in T : f[x] = f[y] => x = y
        /\ \A j \in M : \E i \in T : f[i] = j
    BY <1>3, <1>4, <1>5
  <2> HIDE DEF f
  <2> QED BY <1>2, <2>1, SameSize, Zenon
<1>8. Cardinality(S \cup M) = Cardinality(S) + Cardinality(M)
  <2>1. Cardinality(S \cup M) = Cardinality(S) + Cardinality(M) - 0
    BY <1>2, <1>6, <1>7, FS_Union, FS_EmptySet
  <2> QED BY <1>2, <1>7, <2>1
<1> QED BY <1>1, <1>6, <1>7, <1>8, Zenon DEF S, T, m, n, u, Count

-------------------------------------------------------------------------------
(* find, delete and deactivate. *)

LEMMA FindFacts ==
    ASSUME NEW C, NEW s \in Seq(C), NEW c
    PROVE  /\ find(s, c) # 0 <=> \E i \in 1 .. Len(s) : s[i] = c
           /\ find(s, c) # 0 => find(s, c) \in 1 .. Len(s) /\ s[find(s, c)] = c
<1> DEFINE I == {i \in 1 .. Len(s) : s[i] = c}
<1>1. I \subseteq Nat /\ 0 \notin I
  OBVIOUS
<1>2. CASE I = {}
  BY <1>2 DEF find
<1>3. CASE I # {}
  <2>1. find(s, c) = CHOOSE i \in I : \A j \in I : i <= j
    BY <1>3 DEF find
  <2> HIDE DEF I
  <2>2. PICK x \in I : \A y \in I : ~(<<y, x>> \in OpToRel(<, Nat))
    BY <1>1, <1>3, NatLessThanWellFounded, WFMin, Zenon
  <2>3. \A y \in I : x <= y
    <3> SUFFICES ASSUME NEW y \in I PROVE x <= y
      OBVIOUS
    <3>1. x \in Nat /\ y \in Nat
      BY <1>1
    <3>2. <<y, x>> \in Nat \X Nat /\ <<y, x>>[1] = y /\ <<y, x>>[2] = x
      BY <3>1
    <3>3. ~(y < x)
      BY <2>2, <3>2 DEF OpToRel
    <3> QED BY <3>1, <3>3
  <2>4. find(s, c) \in I
    BY <2>1, <2>3
  <2> QED BY <1>1, <2>4 DEF I
<1> QED BY <1>2, <1>3

LEMMA DeleteFacts ==
    ASSUME NEW C, NEW s \in Seq(C), NEW i \in 1 .. Len(s)
    PROVE  /\ delete(s, i) \in Seq(C) /\ Len(delete(s, i)) = Len(s) - 1
           /\ \A j \in 1 .. i - 1 : delete(s, i)[j] = s[j]
           /\ \A j \in i .. Len(s) - 1 : delete(s, i)[j] = s[j + 1]
<1> DEFINE n == Len(s)
           a == SubSeq(s, 1, i - 1)
           b == SubSeq(s, i + 1, n)
<1>1. delete(s, i) = a \o b
  BY DEF delete
<1>2. n \in Nat /\ \A j \in 1 .. n : s[j] \in C
  OBVIOUS
<1>3. /\ a \in Seq(C) /\ Len(a) = i - 1
      /\ \A j \in 1 .. i - 1 : a[j] = s[j]
  BY <1>2, Sliced
<1>4. /\ b \in Seq(C) /\ Len(b) = n - i
      /\ \A j \in 1 .. n - i : b[j] = s[i + j]
  <2>1. i + 1 \in Int /\ n \in Int /\ \A j \in i + 1 .. n : s[j] \in C
    BY <1>2
  <2>2. /\ b \in Seq(C) /\ Len(b) = IF i + 1 <= n THEN n - (i + 1) + 1 ELSE 0
        /\ \A j \in 1 .. n - (i + 1) + 1 : b[j] = s[(i + 1) + j - 1]
    BY <2>1, Sliced
  <2>3. n - (i + 1) + 1 = n - i /\ \A j \in Nat : (i + 1) + j - 1 = i + j
    BY <1>2
  <2>4. i <= n /\ i \in Nat
    OBVIOUS
  <2> HIDE DEF b, n
  <2>5. Len(b) = n - i
    BY <1>2, <2>2, <2>3, <2>4
  <2>6. ASSUME NEW j \in 1 .. n - i PROVE b[j] = s[i + j]
    <3>1. j \in 1 .. n - (i + 1) + 1 /\ (i + 1) + j - 1 = i + j
      BY <2>3
    <3> QED BY <2>2, <3>1
  <2> QED BY <2>2, <2>5, <2>6
<1> HIDE DEF a, b
<1>5. /\ a \o b \in Seq(C) /\ Len(a \o b) = (i - 1) + (n - i)
      /\ \A j \in 1 .. (i - 1) + (n - i) : (a \o b)[j] = IF j <= i - 1 THEN a[j] ELSE b[j - (i - 1)]
  <2>1. /\ a \o b \in Seq(C) /\ Len(a \o b) = Len(a) + Len(b)
        /\ \A j \in 1 .. Len(a) + Len(b) : (a \o b)[j] = IF j <= Len(a) THEN a[j] ELSE b[j - Len(a)]
    <3>1. a \in Seq(C) /\ b \in Seq(C)
      BY <1>3, <1>4
    <3> QED BY <3>1, Joined, Zenon
  <2> QED BY <1>3, <1>4, <2>1
<1>6. (i - 1) + (n - i) = n - 1
  BY <1>2
<1> HIDE DEF n
<1>7. ASSUME NEW j \in 1 .. i - 1 PROVE (a \o b)[j] = s[j]
  <2>1. j \in 1 .. n - 1 /\ j <= i - 1
    BY <1>2 DEF n
  <2> QED BY <1>3, <1>5, <1>6, <2>1
<1>8. ASSUME NEW j \in i .. n - 1 PROVE (a \o b)[j] = s[j + 1]
  <2>1. j \in 1 .. n - 1 /\ ~(j <= i - 1) /\ j - (i - 1) \in 1 .. n - i
    BY <1>2 DEF n
  <2>2. i + (j - (i - 1)) = j + 1
    BY <1>2
  <2> QED BY <1>4, <1>5, <1>6, <2>1, <2>2
<1> QED BY <1>1, <1>5, <1>6, <1>7, <1>8 DEF n

(* Deleting a case beyond a prefix keeps what the prefix counts. *)
LEMMA CountDeleteBehind ==
    ASSUME NEW C, NEW s \in Seq(C), NEW i \in 1 .. Len(s), NEW k \in Nat, k < i, NEW c
    PROVE  Count(delete(s, i), k, c) = Count(s, k, c)
<1>1. \A j \in 1 .. k : delete(s, i)[j] = s[j]
  BY DeleteFacts
<1> QED BY <1>1, CountSame

(* Deleting a case of a prefix takes it out of the count. *)
LEMMA CountDelete ==
    ASSUME NEW C, NEW s \in Seq(C), NEW k \in 1 .. Len(s), NEW i \in 1 .. k, NEW c
    PROVE  Count(delete(s, i), k - 1, c) = Count(s, k, c) - (IF s[i] = c THEN 1 ELSE 0)
<1> DEFINE d == delete(s, i)
           S == {j \in 1 .. k - 1 : d[j] = c}
           T == {j \in 1 .. k : s[j] = c}
           f == [j \in S |-> IF j < i THEN j ELSE j + 1]
<1>1. /\ Len(s) \in Nat /\ i \in 1 .. Len(s)
      /\ \A j \in 1 .. i - 1 : d[j] = s[j]
      /\ \A j \in i .. Len(s) - 1 : d[j] = s[j + 1]
  <2>1. Len(s) \in Nat /\ i \in 1 .. Len(s)
    OBVIOUS
  <2> QED BY <2>1, DeleteFacts, Zenon
<1> HIDE DEF d
<1>2. IsFiniteSet(S) /\ IsFiniteSet(T) /\ Cardinality(S) \in Nat /\ Cardinality(T) \in Nat
  <2>1. S \in SUBSET (1 .. k - 1) /\ T \in SUBSET (1 .. k)
    OBVIOUS
  <2>2. IsFiniteSet(1 .. k - 1) /\ IsFiniteSet(1 .. k)
    BY FS_Interval
  <2> HIDE DEF S, T
  <2>3. IsFiniteSet(S) /\ IsFiniteSet(T)
    BY <2>1, <2>2, FS_Subset, Zenon
  <2> QED BY <2>3, FS_CardinalityType
<1>3. ASSUME NEW j \in S PROVE (IF j < i THEN j ELSE j + 1) \in T \ {i}
  <2>1. CASE j < i
    BY <1>1, <2>1
  <2>2. CASE ~(j < i)
    <3>1. j \in i .. Len(s) - 1 /\ j + 1 \in 1 .. k /\ j + 1 # i
      BY <1>1, <2>2
    <3> QED BY <1>1, <2>2, <3>1
  <2> QED BY <2>1, <2>2
<1>4. ASSUME NEW j \in T \ {i} PROVE \E x \in S : (IF x < i THEN x ELSE x + 1) = j
  <2>1. CASE j < i
    <3>1. j \in S
      BY <1>1, <2>1
    <3> QED BY <2>1, <3>1
  <2>2. CASE ~(j < i)
    <3>1. j - 1 \in i .. Len(s) - 1 /\ (j - 1) + 1 = j /\ j - 1 \in 1 .. k - 1 /\ ~(j - 1 < i)
      BY <1>1, <2>2
    <3>2. d[j - 1] = s[(j - 1) + 1]
      BY <1>1, <3>1
    <3>3. j - 1 \in S
      BY <3>1, <3>2
    <3> QED BY <3>1, <3>3
  <2> QED BY <2>1, <2>2
<1>5. \A x, y \in S : (IF x < i THEN x ELSE x + 1) = (IF y < i THEN y ELSE y + 1) => x = y
  OBVIOUS
<1>6. i \in T <=> s[i] = c
  OBVIOUS
<1> HIDE DEF S, T
<1>7. IsFiniteSet(T \ {i}) /\ Cardinality(T \ {i}) = Cardinality(S)
  <2>1. /\ f \in [S -> T \ {i}] /\ \A x, y \in S : f[x] = f[y] => x = y
        /\ \A j \in T \ {i} : \E x \in S : f[x] = j
    BY <1>3, <1>4, <1>5
  <2> HIDE DEF f
  <2> QED BY <1>2, <2>1, SameSize
<1>8. Cardinality(T \ {i}) = IF i \in T THEN Cardinality(T) - 1 ELSE Cardinality(T)
  BY <1>2, FS_RemoveElement, Zenon
<1>9. Cardinality(S) = Cardinality(T) - (IF s[i] = c THEN 1 ELSE 0)
  BY <1>2, <1>6, <1>7, <1>8
<1> QED BY <1>9 DEF S, T, d, Count

LEMMA DeactivateFacts ==
    ASSUME NEW C, NEW s \in Seq(C), NEW i \in 1 .. Len(s), NEW last \in 1 .. Len(s)
    PROVE  /\ deactivate(s, i, last) \in Seq(C) /\ Len(deactivate(s, i, last)) = Len(s)
           /\ deactivate(s, i, last)[i] = s[last] /\ deactivate(s, i, last)[last] = s[i]
           /\ \A j \in 1 .. Len(s) :
                  j # i /\ j # last => deactivate(s, i, last)[j] = s[j]
BY DEF deactivate

(* Deactivating a case only moves it. *)
LEMMA CountDeactivate ==
    ASSUME NEW C, NEW s \in Seq(C), NEW n \in 1 .. Len(s), NEW i \in 1 .. n, NEW last \in 1 .. n,
           NEW c
    PROVE  Count(deactivate(s, i, last), n, c) = Count(s, n, c)
<1> DEFINE d == deactivate(s, i, last)
           S == {j \in 1 .. n : d[j] = c}
           T == {j \in 1 .. n : s[j] = c}
           g(j) == IF j = i THEN last ELSE IF j = last THEN i ELSE j
           f == [j \in S |-> g(j)]
<1>1. n \in Nat /\ n <= Len(s) /\ i \in 1 .. Len(s) /\ last \in 1 .. Len(s) /\ Len(s) \in Nat
  OBVIOUS
<1>2. \A j \in 1 .. n : g(j) \in 1 .. n /\ s[g(j)] = d[j] /\ g(g(j)) = j
  <2>1. /\ d[i] = s[last] /\ d[last] = s[i]
        /\ \A j \in 1 .. Len(s) : j # i /\ j # last => d[j] = s[j]
    BY <1>1 DEF deactivate
  <2> HIDE DEF d
  <2> QED BY <1>1, <2>1
<1> HIDE DEF g, d
<1>3. IsFiniteSet(S)
  <2>1. S \in SUBSET (1 .. n) /\ IsFiniteSet(1 .. n)
    BY <1>1, FS_Interval
  <2> QED BY <2>1, FS_Subset
<1>4. /\ f \in [S -> T] /\ \A x, y \in S : f[x] = f[y] => x = y
      /\ \A j \in T : \E x \in S : f[x] = j
  <2>1. \A j \in S : g(j) \in T
    BY <1>2
  <2>2. ASSUME NEW x \in S, NEW y \in S, g(x) = g(y) PROVE x = y
    <3>1. g(g(x)) = x /\ g(g(y)) = y
      BY <1>2
    <3> QED BY <2>2, <3>1
  <2>3. ASSUME NEW j \in T PROVE g(j) \in S /\ g(g(j)) = j
    <3>1. j \in 1 .. n /\ g(j) \in 1 .. n /\ g(g(j)) = j
      BY <1>2
    <3>2. s[g(g(j))] = d[g(j)]
      BY <1>2, <3>1
    <3> QED BY <3>1, <3>2
  <2> HIDE DEF S, T
  <2> QED BY <2>1, <2>2, <2>3
<1> HIDE DEF f, S, T
<1>5. Cardinality(T) = Cardinality(S)
  BY <1>3, <1>4, SameSize, Zenon
<1> QED BY <1>5 DEF S, T, d, Count

(* A case that is served leaves the prefix of those still to be served. *)
LEMMA CountServed ==
    ASSUME NEW C, NEW s \in Seq(C), NEW n \in 1 .. Len(s), NEW i \in 1 .. n, NEW c
    PROVE  /\ Count(deactivate(s, i, n), Len(s), c) = Count(s, Len(s), c)
           /\ Count(deactivate(s, i, n), n - 1, c) = Count(s, n, c) - (IF s[i] = c THEN 1 ELSE 0)
<1> DEFINE d == deactivate(s, i, n)
<1>1. n \in Nat /\ n > 0 /\ n \in 1 .. n /\ n - 1 \in Nat
      /\ Len(s) \in 1 .. Len(s) /\ i \in 1 .. Len(s)
  OBVIOUS
<1>2. Count(d, Len(s), c) = Count(s, Len(s), c)
  BY <1>1, CountDeactivate
<1>3. Count(d, n, c) = Count(s, n, c)
  BY <1>1, CountDeactivate
<1>4. d[n] = s[i]
  BY <1>1, DeactivateFacts
<1> HIDE DEF d
<1>5. Count(d, n, c) = Count(d, n - 1, c) + (IF d[n] = c THEN 1 ELSE 0)
  BY <1>1, CountLast
<1>6. Count(d, n - 1, c) \in Nat /\ Count(s, n, c) \in Nat
  BY <1>1, CountType, Zenon
<1>7. Count(d, n - 1, c) = Count(s, n, c) - (IF s[i] = c THEN 1 ELSE 0)
  BY <1>3, <1>4, <1>5, <1>6
<1> QED BY <1>2, <1>7 DEF d

-------------------------------------------------------------------------------
(***************************************************************************)
(* The inductive invariant.  The goroutine that is inside Send is the one  *)
(* that took the token; the prefix it serves is one of sendCases; and a    *)
(* channel is in sendCases once for every Unsubscribe that waits for its   *)
(* removal, so that looking it up cannot fail.                             *)
(***************************************************************************)
SendPcs == {"idle", "lock", "merge", "try", "select", "unlock", "returned"}
Holding == {"merge", "try", "select", "unlock"}

Live(c) == {s \in Subs : ChanOf[s] = c /\ subPc[s] \in {"subscribed", "removing"}}
Removing(c) == {s \in Subs : ChanOf[s] = c /\ subPc[s] = "removing"}

FTypes ==
    /\ inbox \in Seq(Channels) /\ sendCases \in Seq(Channels)
    /\ cases \in Nat /\ index \in Nat /\ index > 0 /\ nsent \in Nat
    /\ sendPc \in [Senders -> SendPcs]
    /\ subPc \in [Subs -> {"new", "subscribed", "removing", "ended"}]
    /\ sendLock \in Senders \cup {None}

LockHeld == \A p \in Senders : sendPc[p] \in Holding <=> sendLock = p

PrefixServed ==
    \A p \in Senders :
        /\ sendPc[p] \in {"try", "select", "unlock"} => cases <= Len(sendCases)
        /\ sendPc[p] = "unlock" => cases = 0

RemovingListed ==
    \A c \in Channels : Cardinality(Removing(c)) <= Count(sendCases, Len(sendCases), c)

FInv == FTypes /\ LockHeld /\ PrefixServed /\ EverySubListed /\ RemovingListed

InCases(c) == Count(sendCases, Len(sendCases), c)
InInbox(c) == Count(inbox, Len(inbox), c)
Due(c) == Count(sendCases, cases, c)

LEMMA SubSets ==
    ASSUME NEW c
    PROVE  /\ IsFiniteSet(Live(c)) /\ Cardinality(Live(c)) \in Nat
           /\ IsFiniteSet(Removing(c)) /\ Cardinality(Removing(c)) \in Nat
           /\ Removing(c) \in SUBSET Live(c) /\ Cardinality(Removing(c)) <= Cardinality(Live(c))
<1>1. Live(c) \in SUBSET Subs /\ Removing(c) \in SUBSET Subs /\ Removing(c) \in SUBSET Live(c)
  BY DEF Live, Removing
<1>2. IsFiniteSet(Subs)
  BY FeedAssumption
<1> QED BY <1>1, <1>2, FS_Subset, FS_CardinalityType

(* A subscription that changes its state joins or leaves these sets. *)
LEMMA SubElsewhere ==
    ASSUME FTypes, NEW s \in Subs, NEW x, subPc' = [subPc EXCEPT ![s] = x], NEW c, c # ChanOf[s]
    PROVE  Live(c)' = Live(c) /\ Removing(c)' = Removing(c)
<1>1. \A r \in Subs : subPc'[r] = IF r = s THEN x ELSE subPc[r]
  BY DEF FTypes
<1> QED BY <1>1 DEF Live, Removing

LEMMA SubSubscribes ==
    ASSUME FTypes, NEW s \in Subs, subPc' = [subPc EXCEPT ![s] = "subscribed"], NEW c, c = ChanOf[s]
    PROVE  Live(c)' = Live(c) \cup {s} /\ Removing(c)' = Removing(c) \ {s}
<1>1. \A r \in Subs : subPc'[r] = IF r = s THEN "subscribed" ELSE subPc[r]
  BY DEF FTypes
<1> QED BY <1>1 DEF Live, Removing

LEMMA SubRemoves ==
    ASSUME FTypes, NEW s \in Subs, subPc' = [subPc EXCEPT ![s] = "removing"], NEW c, c = ChanOf[s]
    PROVE  Live(c)' = Live(c) \cup {s} /\ Removing(c)' = Removing(c) \cup {s}
<1>1. \A r \in Subs : subPc'[r] = IF r = s THEN "removing" ELSE subPc[r]
  BY DEF FTypes
<1> QED BY <1>1 DEF Live, Removing

LEMMA SubEnds ==
    ASSUME FTypes, NEW s \in Subs, subPc' = [subPc EXCEPT ![s] = "ended"], NEW c, c = ChanOf[s]
    PROVE  Live(c)' = Live(c) \ {s} /\ Removing(c)' = Removing(c) \ {s}
<1>1. \A r \in Subs : subPc'[r] = IF r = s THEN "ended" ELSE subPc[r]
  BY DEF FTypes
<1> QED BY <1>1 DEF Live, Removing

(* Where the channels are listed. *)
LEMMA ListTypes ==
    ASSUME FTypes, NEW c
    PROVE  /\ InCases(c) \in Nat /\ InInbox(c) \in Nat /\ Due(c) \in Nat
           /\ Listed(c) = InCases(c) + InInbox(c)
           /\ cases <= Len(sendCases) => Due(c) <= InCases(c)
<1>1. Len(sendCases) \in Nat /\ Len(inbox) \in Nat /\ cases \in Nat
  BY DEF FTypes
<1>2. InCases(c) \in Nat /\ InInbox(c) \in Nat /\ Due(c) \in Nat
  BY <1>1, CountType, Zenon DEF InCases, InInbox, Due
<1>3. Listed(c) = InCases(c) + InInbox(c)
  BY DEF Listed, InCases, InInbox
<1>4. cases <= Len(sendCases) => Due(c) <= InCases(c)
  BY <1>1, CountMore DEF InCases, Due
<1> QED BY <1>2, <1>3, <1>4

LEMMA SubscribeLists ==
    ASSUME FTypes, NEW s \in Subs, Subscribe(s)
    PROVE  /\ inbox' \in Seq(Channels)
           /\ \A c : /\ InInbox(c)' = InInbox(c) + (IF ChanOf[s] = c THEN 1 ELSE 0)
                     /\ InCases(c)' = InCases(c) /\ Due(c)' = Due(c)
<1>1. ChanOf[s] \in Channels /\ inbox \in Seq(Channels)
  BY FeedAssumption DEF FTypes
<1>2. inbox' = Append(inbox, ChanOf[s]) /\ sendCases' = sendCases /\ cases' = cases
  BY DEF Subscribe
<1>3. inbox' \in Seq(Channels) /\ Len(inbox') = Len(inbox) + 1
  BY <1>1, <1>2
<1>4. ASSUME NEW c PROVE InInbox(c)' = InInbox(c) + (IF ChanOf[s] = c THEN 1 ELSE 0)
  BY <1>1, <1>2, <1>3, CountAppend DEF InInbox
<1>5. \A c : InCases(c)' = InCases(c) /\ Due(c)' = Due(c)
  BY <1>2 DEF InCases, Due
<1> QED BY <1>3, <1>4, <1>5

(* Unsubscribe takes the channel out of the inbox. *)
LEMMA UnsubscribeLists ==
    ASSUME FTypes, NEW s \in Subs, Unsubscribe(s), RemoveFromInbox(s)
    PROVE  /\ inbox' \in Seq(Channels) /\ InInbox(ChanOf[s]) > 0
           /\ \A c : /\ InInbox(c)' = InInbox(c) - (IF ChanOf[s] = c THEN 1 ELSE 0)
                     /\ InCases(c)' = InCases(c) /\ Due(c)' = Due(c)
<1> DEFINE a == ChanOf[s]
           i == find(inbox, a)
<1>1. inbox \in Seq(Channels) /\ Len(inbox) \in Nat
  BY DEF FTypes
<1>2. inbox' = delete(inbox, i) /\ sendCases' = sendCases /\ cases' = cases
  BY DEF Unsubscribe
<1>3. \E j \in 1 .. Len(inbox) : inbox[j] = a
  BY <1>1, FindFacts DEF RemoveFromInbox
<1>4. i \in 1 .. Len(inbox) /\ inbox[i] = a
  BY <1>1, <1>3, FindFacts
<1>5. InInbox(a) > 0
  BY <1>1, <1>3, CountPositive, Zenon DEF InInbox
<1> HIDE DEF a, i
<1>6. inbox' \in Seq(Channels) /\ Len(inbox') = Len(inbox) - 1
  BY <1>1, <1>2, <1>4, DeleteFacts
<1>7. ASSUME NEW c PROVE InInbox(c)' = InInbox(c) - (IF a = c THEN 1 ELSE 0)
  <2>1. Len(inbox) \in 1 .. Len(inbox)
    BY <1>1, <1>4
  <2>2. Count(delete(inbox, i), Len(inbox) - 1, c)
            = Count(inbox, Len(inbox), c) - (IF inbox[i] = c THEN 1 ELSE 0)
    BY <1>1, <1>4, <2>1, CountDelete
  <2> QED BY <1>2, <1>4, <1>6, <2>2 DEF InInbox
<1>8. \A c : InCases(c)' = InCases(c) /\ Due(c)' = Due(c)
  BY <1>2 DEF InCases, Due
<1> QED BY <1>5, <1>6, <1>7, <1>8 DEF a

(* An Unsubscribe that waits finds its channel in sendCases. *)
LEMMA RemovalFinds ==
    ASSUME FInv, NEW s \in Subs, subPc[s] = "removing"
    PROVE  /\ find(sendCases, ChanOf[s]) \in 1 .. Len(sendCases)
           /\ sendCases[find(sendCases, ChanOf[s])] = ChanOf[s]
           /\ InCases(ChanOf[s]) > 0
<1> DEFINE a == ChanOf[s]
<1>1. a \in Channels /\ sendCases \in Seq(Channels) /\ Len(sendCases) \in Nat
  BY FeedAssumption DEF FInv, FTypes
<1>2. s \in Removing(a)
  BY DEF Removing
<1>3. Cardinality(Removing(a)) > 0
  BY <1>2, SubSets, FS_EmptySet
<1>4. InCases(a) > 0
  <2>1. Cardinality(Removing(a)) <= InCases(a)
    BY <1>1 DEF FInv, RemovingListed, InCases
  <2>2. InCases(a) \in Nat /\ Cardinality(Removing(a)) \in Nat
    BY ListTypes, SubSets DEF FInv
  <2> HIDE DEF a
  <2> QED BY <1>3, <2>1, <2>2
<1> HIDE DEF a
<1>5. \E i \in 1 .. Len(sendCases) : sendCases[i] = a
  BY <1>1, <1>4, CountPositive DEF InCases
<1> QED BY <1>1, <1>4, <1>5, FindFacts DEF a

(* The removal of a channel from sendCases. *)
LEMMA RemoveLists ==
    ASSUME FInv, NEW s \in Subs, subPc[s] = "removing",
           sendCases' = delete(sendCases, find(sendCases, ChanOf[s])), inbox' = inbox
    PROVE  /\ sendCases' \in Seq(Channels) /\ Len(sendCases') = Len(sendCases) - 1
           /\ \A c : /\ InCases(c)' = InCases(c) - (IF ChanOf[s] = c THEN 1 ELSE 0)
                     /\ InInbox(c)' = InInbox(c)
<1> DEFINE a == ChanOf[s]
           i == find(sendCases, a)
<1>1. sendCases \in Seq(Channels) /\ Len(sendCases) \in Nat
  BY DEF FInv, FTypes
<1>2. i \in 1 .. Len(sendCases) /\ sendCases[i] = a
  BY RemovalFinds
<1> HIDE DEF a, i
<1>3. sendCases' = delete(sendCases, i)
  BY DEF a, i
<1>4. sendCases' \in Seq(Channels) /\ Len(sendCases') = Len(sendCases) - 1
  BY <1>1, <1>2, <1>3, DeleteFacts
<1>5. ASSUME NEW c PROVE InCases(c)' = InCases(c) - (IF a = c THEN 1 ELSE 0)
  <2>1. Len(sendCases) \in 1 .. Len(sendCases)
    BY <1>1, <1>2
  <2>2. Count(delete(sendCases, i), Len(sendCases) - 1, c)
            = Count(sendCases, Len(sendCases), c) - (IF sendCases[i] = c THEN 1 ELSE 0)
    BY <1>1, <1>2, <2>1, CountDelete
  <2> QED BY <1>2, <1>3, <1>4, <2>2 DEF InCases
<1>6. \A c : InInbox(c)' = InInbox(c)
  BY DEF InInbox
<1> QED BY <1>4, <1>5, <1>6 DEF a

(* What is still due when a blocked Send removes a channel. *)
LEMMA InterruptLists ==
    ASSUME FInv, NEW p \in Senders, NEW s \in Subs, SelectRemove(p, s)
    PROVE  /\ cases' \in Nat /\ cases' <= Len(sendCases')
           /\ \A c : c # ChanOf[s] => Due(c)' = Due(c)
           /\ \/ Due(ChanOf[s])' = Due(ChanOf[s]) - 1
              \/ Due(ChanOf[s])' = Due(ChanOf[s])
<1> DEFINE a == ChanOf[s]
           i == find(sendCases, a)
<1>1. sendCases \in Seq(Channels) /\ Len(sendCases) \in Nat /\ cases \in Nat
  BY DEF FInv, FTypes
<1>2. /\ sendPc[p] = "select" /\ subPc[s] = "removing"
      /\ sendCases' = delete(sendCases, i) /\ cases' = IF i <= cases THEN cases - 1 ELSE cases
  BY DEF SelectRemove, Interrupts, Shrunk
<1>3. i \in 1 .. Len(sendCases) /\ sendCases[i] = a
  BY <1>2, RemovalFinds
<1>4. cases <= Len(sendCases)
  BY <1>2 DEF FInv, PrefixServed
<1> HIDE DEF a, i
<1>5. Len(sendCases') = Len(sendCases) - 1
  BY <1>1, <1>2, <1>3, DeleteFacts
<1>6. CASE i <= cases
  <2>1. cases \in 1 .. Len(sendCases) /\ i \in 1 .. cases /\ cases' = cases - 1
    BY <1>1, <1>2, <1>3, <1>4, <1>6
  <2>2. ASSUME NEW c PROVE Due(c)' = Due(c) - (IF a = c THEN 1 ELSE 0)
    <3>1. Count(delete(sendCases, i), cases - 1, c)
              = Count(sendCases, cases, c) - (IF sendCases[i] = c THEN 1 ELSE 0)
      BY <1>1, <2>1, CountDelete
    <3> QED BY <1>2, <1>3, <2>1, <3>1 DEF Due
  <2>3. \A c : Due(c) \in Nat
    BY ListTypes DEF FInv
  <2>4. cases' \in Nat /\ cases' <= Len(sendCases')
    BY <1>1, <1>4, <1>5, <2>1
  <2> QED BY <2>2, <2>3, <2>4 DEF a
<1>7. CASE ~(i <= cases)
  <2>1. cases' = cases /\ cases < i
    BY <1>1, <1>2, <1>3, <1>7
  <2>2. ASSUME NEW c PROVE Due(c)' = Due(c)
    BY <1>1, <1>2, <1>3, <2>1, CountDeleteBehind DEF Due
  <2>3. cases' \in Nat /\ cases' <= Len(sendCases')
    BY <1>1, <1>3, <1>5, <2>1
  <2> QED BY <2>2, <2>3
<1> QED BY <1>6, <1>7

LEMMA MergeLists ==
    ASSUME FTypes, NEW p \in Senders, Merge(p)
    PROVE  /\ inbox' \in Seq(Channels) /\ sendCases' \in Seq(Channels)
           /\ cases' \in Nat /\ cases' = Len(sendCases')
           /\ \A c : /\ InInbox(c)' = 0 /\ InCases(c)' = InCases(c) + InInbox(c)
                     /\ Due(c)' = InCases(c) + InInbox(c)
<1>1. inbox \in Seq(Channels) /\ sendCases \in Seq(Channels)
  BY DEF FTypes
<1>2. sendCases' = sendCases \o inbox /\ inbox' = <<>> /\ cases' = Len(sendCases')
  BY DEF Merge
<1>3. inbox' \in Seq(Channels) /\ Len(inbox') = 0 /\ sendCases' \in Seq(Channels)
      /\ Len(sendCases') \in Nat
  BY <1>1, <1>2
<1>4. ASSUME NEW c PROVE InCases(c)' = InCases(c) + InInbox(c)
  BY <1>1, <1>2, CountConcat DEF InCases, InInbox
<1>5. ASSUME NEW c PROVE InInbox(c)' = 0
  BY <1>3, CountNone DEF InInbox
<1>6. \A c : Due(c)' = InCases(c)'
  BY <1>2 DEF Due, InCases
<1> QED BY <1>2, <1>3, <1>4, <1>5, <1>6

(* A delivery serves one case of the prefix. *)
LEMMA DeliverLists ==
    ASSUME FTypes, cases <= Len(sendCases), NEW p \in Senders, NEW i \in 1 .. cases, Deliver(p, i),
           inbox' = inbox
    PROVE  /\ sendCases' \in Seq(Channels) /\ Len(sendCases') = Len(sendCases)
           /\ sendCases[i] \in Channels /\ cases' \in Nat /\ cases' <= Len(sendCases')
           /\ \A c : /\ InInbox(c)' = InInbox(c) /\ InCases(c)' = InCases(c)
                     /\ Due(c)' = Due(c) - (IF sendCases[i] = c THEN 1 ELSE 0)
<1>1. /\ sendCases \in Seq(Channels) /\ Len(sendCases) \in Nat /\ cases \in Nat
      /\ cases \in 1 .. Len(sendCases) /\ i \in 1 .. Len(sendCases)
  BY DEF FTypes
<1>2. sendCases' = deactivate(sendCases, i, cases) /\ cases' = cases - 1
  BY DEF Deliver
<1>3. sendCases' \in Seq(Channels) /\ Len(sendCases') = Len(sendCases)
  BY <1>1, <1>2, DeactivateFacts
<1>4. ASSUME NEW c
      PROVE  /\ InCases(c)' = InCases(c)
             /\ Due(c)' = Due(c) - (IF sendCases[i] = c THEN 1 ELSE 0)
  <2>1. /\ Count(deactivate(sendCases, i, cases), Len(sendCases), c)
               = Count(sendCases, Len(sendCases), c)
        /\ Count(deactivate(sendCases, i, cases), cases - 1, c)
               = Count(sendCases, cases, c) - (IF sendCases[i] = c THEN 1 ELSE 0)
    BY <1>1, CountServed
  <2> QED BY <1>2, <1>3, <2>1 DEF InCases, Due
<1>5. \A c : InInbox(c)' = InInbox(c)
  BY DEF InInbox
<1>6. sendCases[i] \in Channels /\ cases' \in Nat /\ cases' <= Len(sendCases')
  BY <1>1, <1>2, <1>3
<1> QED BY <1>3, <1>4, <1>5, <1>6

-------------------------------------------------------------------------------
(* The two invariants about the lists, in terms of the sets of subscriptions. *)
Balanced ==
    \A c \in Channels : /\ InCases(c) + InInbox(c) = Cardinality(Live(c))
                        /\ Cardinality(Removing(c)) <= InCases(c)

LEMMA BalancedLists == (EverySubListed /\ RemovingListed) <=> Balanced
BY Zenon DEF EverySubListed, RemovingListed, Balanced, Listed, InCases, InInbox, Live

(* A step that changes no subscription and loses no case keeps them. *)
LEMMA BalanceKept ==
    ASSUME FInv, subPc' = subPc,
           \A c \in Channels : /\ InCases(c)' + InInbox(c)' = InCases(c) + InInbox(c)
                               /\ InCases(c)' \in Nat /\ InCases(c)' >= InCases(c)
    PROVE  Balanced'
<1> SUFFICES ASSUME NEW c \in Channels
             PROVE  /\ InCases(c)' + InInbox(c)' = Cardinality(Live(c)')
                    /\ Cardinality(Removing(c)') <= InCases(c)'
  BY DEF Balanced
<1>1. Live(c)' = Live(c) /\ Removing(c)' = Removing(c)
  BY DEF Live, Removing
<1>2. InCases(c) + InInbox(c) = Cardinality(Live(c)) /\ Cardinality(Removing(c)) <= InCases(c)
  BY BalancedLists DEF FInv, Balanced
<1>3. InCases(c) \in Nat /\ Cardinality(Removing(c)) \in Nat
  BY ListTypes, SubSets DEF FInv
<1> QED BY <1>1, <1>2, <1>3

LEMMA SubscribeBalance ==
    ASSUME FInv, NEW s \in Subs, Subscribe(s)
    PROVE  Balanced'
<1> SUFFICES ASSUME NEW c \in Channels
             PROVE  /\ InCases(c)' + InInbox(c)' = Cardinality(Live(c)')
                    /\ Cardinality(Removing(c)') <= InCases(c)'
  BY DEF Balanced
<1>1. /\ InInbox(c)' = InInbox(c) + (IF ChanOf[s] = c THEN 1 ELSE 0)
      /\ InCases(c)' = InCases(c)
  BY SubscribeLists DEF FInv
<1>2. InCases(c) + InInbox(c) = Cardinality(Live(c)) /\ Cardinality(Removing(c)) <= InCases(c)
  BY BalancedLists DEF FInv, Balanced
<1>3. /\ InCases(c) \in Nat /\ InInbox(c) \in Nat /\ Cardinality(Removing(c)) \in Nat
      /\ IsFiniteSet(Live(c)) /\ Cardinality(Live(c)) \in Nat
  BY ListTypes, SubSets DEF FInv
<1>4. /\ subPc[s] = "new" /\ subPc' = [subPc EXCEPT ![s] = "subscribed"] /\ FTypes
  BY DEF Subscribe, FInv
<1>5. s \notin Live(c) /\ s \notin Removing(c)
  BY <1>4 DEF Live, Removing
<1>6. CASE c = ChanOf[s]
  <2>1. Live(c)' = Live(c) \cup {s} /\ Removing(c)' = Removing(c) \ {s}
    BY <1>4, <1>6, SubSubscribes, Zenon
  <2>2. Removing(c)' = Removing(c)
    BY <1>5, <2>1
  <2>3. Cardinality(Live(c)') = Cardinality(Live(c)) + 1
    BY <1>3, <1>5, <2>1, FS_AddElement, Zenon
  <2> QED BY <1>1, <1>2, <1>3, <1>6, <2>2, <2>3
<1>7. CASE c # ChanOf[s]
  <2>1. Live(c)' = Live(c) /\ Removing(c)' = Removing(c)
    BY <1>4, <1>7, SubElsewhere, Zenon
  <2> QED BY <1>1, <1>2, <1>3, <1>7, <2>1
<1> QED BY <1>6, <1>7

LEMMA UnsubscribeBalance ==
    ASSUME FInv, NEW s \in Subs, Unsubscribe(s)
    PROVE  Balanced'
<1> SUFFICES ASSUME NEW c \in Channels
             PROVE  /\ InCases(c)' + InInbox(c)' = Cardinality(Live(c)')
                    /\ Cardinality(Removing(c)') <= InCases(c)'
  BY DEF Balanced
<1>1. InCases(c) + InInbox(c) = Cardinality(Live(c)) /\ Cardinality(Removing(c)) <= InCases(c)
  BY BalancedLists DEF FInv, Balanced
<1>2. /\ InCases(c) \in Nat /\ InInbox(c) \in Nat
      /\ IsFiniteSet(Removing(c)) /\ Cardinality(Removing(c)) \in Nat
      /\ IsFiniteSet(Live(c)) /\ Cardinality(Live(c)) \in Nat /\ Removing(c) \in SUBSET Live(c)
  BY ListTypes, SubSets DEF FInv
<1>3. FTypes /\ subPc[s] = "subscribed"
  BY DEF Unsubscribe, FInv
<1>4. s \notin Removing(c) /\ (c = ChanOf[s] => s \in Live(c))
  BY <1>3 DEF Live, Removing
<1>5. CASE RemoveFromInbox(s)
  <2>1. subPc' = [subPc EXCEPT ![s] = "ended"]
    BY <1>5 DEF Unsubscribe
  <2>2. InInbox(c)' = InInbox(c) - (IF ChanOf[s] = c THEN 1 ELSE 0) /\ InCases(c)' = InCases(c)
    BY <1>3, <1>5, UnsubscribeLists
  <2>3. CASE c = ChanOf[s]
    <3>1. Live(c)' = Live(c) \ {s} /\ Removing(c)' = Removing(c) \ {s}
      BY <1>3, <2>1, <2>3, SubEnds, Zenon
    <3>2. Removing(c)' = Removing(c) /\ Cardinality(Live(c)') = Cardinality(Live(c)) - 1
      <4>1. Removing(c)' = Removing(c)
        BY <1>4, <3>1
      <4>2. Cardinality(Live(c) \ {s}) = Cardinality(Live(c)) - 1
        BY <1>2, <1>4, <2>3, FS_RemoveElement, Zenon
      <4> QED BY <3>1, <4>1, <4>2
    <3> QED BY <1>1, <1>2, <2>2, <2>3, <3>2
  <2>4. CASE c # ChanOf[s]
    <3>1. Live(c)' = Live(c) /\ Removing(c)' = Removing(c)
      BY <1>3, <2>1, <2>4, SubElsewhere, Zenon
    <3> QED BY <1>1, <1>2, <2>2, <2>4, <3>1
  <2> QED BY <2>3, <2>4
<1>6. CASE ~RemoveFromInbox(s)
  <2>1. subPc' = [subPc EXCEPT ![s] = "removing"] /\ inbox' = inbox /\ sendCases' = sendCases
    BY <1>6 DEF Unsubscribe
  <2>2. InInbox(c)' = InInbox(c) /\ InCases(c)' = InCases(c)
    BY <2>1 DEF InInbox, InCases
  <2>3. CASE c = ChanOf[s]
    <3>1. Live(c)' = Live(c) \cup {s} /\ Removing(c)' = Removing(c) \cup {s}
      BY <1>3, <2>1, <2>3, SubRemoves, Zenon
    <3>2. Live(c)' = Live(c) /\ Removing(c)' \in SUBSET Live(c)
      BY <1>2, <1>4, <2>3, <3>1
    <3>3. Cardinality(Removing(c)') <= Cardinality(Live(c))
      BY <1>2, <3>2, FS_Subset
    <3>4. InInbox(c) = 0
      <4>1. ~\E i \in 1 .. Len(inbox) : inbox[i] = c
        BY <1>3, <1>6, <2>3, FindFacts DEF RemoveFromInbox, FTypes
      <4>2. Len(inbox) \in Nat
        BY <1>3 DEF FTypes
      <4>3. ~(InInbox(c) > 0)
        BY <4>1, <4>2, CountPositive DEF InInbox
      <4> QED BY <1>2, <4>3
    <3> QED BY <1>1, <1>2, <2>2, <3>2, <3>3, <3>4
  <2>4. CASE c # ChanOf[s]
    <3>1. Live(c)' = Live(c) /\ Removing(c)' = Removing(c)
      BY <1>3, <2>1, <2>4, SubElsewhere, Zenon
    <3> QED BY <1>1, <1>2, <2>2, <3>1
  <2> QED BY <2>3, <2>4
<1> QED BY <1>5, <1>6

LEMMA RemoveBalance ==
    ASSUME FInv, NEW s \in Subs, subPc[s] = "removing", subPc' = [subPc EXCEPT ![s] = "ended"],
           sendCases' = delete(sendCases, find(sendCases, ChanOf[s])), inbox' = inbox
    PROVE  Balanced'
<1> SUFFICES ASSUME NEW c \in Channels
             PROVE  /\ InCases(c)' + InInbox(c)' = Cardinality(Live(c)')
                    /\ Cardinality(Removing(c)') <= InCases(c)'
  BY DEF Balanced
<1>1. InCases(c) + InInbox(c) = Cardinality(Live(c)) /\ Cardinality(Removing(c)) <= InCases(c)
  BY BalancedLists DEF FInv, Balanced
<1>2. /\ InCases(c) \in Nat /\ InInbox(c) \in Nat
      /\ IsFiniteSet(Removing(c)) /\ Cardinality(Removing(c)) \in Nat
      /\ IsFiniteSet(Live(c)) /\ Cardinality(Live(c)) \in Nat /\ FTypes
  BY ListTypes, SubSets DEF FInv
<1>3. InCases(c)' = InCases(c) - (IF ChanOf[s] = c THEN 1 ELSE 0) /\ InInbox(c)' = InInbox(c)
  BY RemoveLists
<1>4. CASE c = ChanOf[s]
  <2>1. Live(c)' = Live(c) \ {s} /\ Removing(c)' = Removing(c) \ {s}
    BY <1>2, <1>4, SubEnds, Zenon
  <2>2. s \in Live(c) /\ s \in Removing(c)
    BY <1>4 DEF Live, Removing
  <2>3. /\ Cardinality(Live(c)') = Cardinality(Live(c)) - 1
        /\ Cardinality(Removing(c)') = Cardinality(Removing(c)) - 1
    BY <1>2, <2>1, <2>2, FS_RemoveElement, Zenon
  <2> QED BY <1>1, <1>2, <1>3, <1>4, <2>3
<1>5. CASE c # ChanOf[s]
  <2>1. Live(c)' = Live(c) /\ Removing(c)' = Removing(c)
    BY <1>2, <1>5, SubElsewhere, Zenon
  <2> QED BY <1>1, <1>2, <1>3, <1>5, <2>1
<1> QED BY <1>4, <1>5

-------------------------------------------------------------------------------
(* FInv holds at first and is kept by every step.  The parts that speak of *)
(* the calls of Send come apart from Balanced.                             *)
Calls == FTypes /\ LockHeld /\ PrefixServed

LEMMA SplitFInv == FInv <=> Calls /\ Balanced
BY BalancedLists DEF FInv, Calls

LEMMA SplitFInvNext == FInv' <=> Calls' /\ Balanced'
BY Zenon DEF FInv, Calls, EverySubListed, RemovingListed, Balanced, Listed, InCases, InInbox, Live

LEMMA InitFInv == Init => FInv
<1> SUFFICES ASSUME Init PROVE FInv
  OBVIOUS
<1>1. Calls
  <2>1. FTypes
    BY DEF Init, FTypes, SendPcs
  <2>2. LockHeld
    BY FeedAssumption DEF Init, LockHeld, Holding
  <2>3. PrefixServed
    BY DEF Init, PrefixServed
  <2> QED BY <2>1, <2>2, <2>3 DEF Calls
<1>2. Balanced
  <2> SUFFICES ASSUME NEW c \in Channels
               PROVE  /\ InCases(c) + InInbox(c) = Cardinality(Live(c))
                      /\ Cardinality(Removing(c)) <= InCases(c)
    BY DEF Balanced
  <2>1. Live(c) = {} /\ Removing(c) = {}
    BY DEF Init, Live, Removing
  <2>2. Cardinality(Live(c)) = 0 /\ Cardinality(Removing(c)) = 0
    BY <2>1, FS_EmptySet
  <2>3. Len(inbox) = 0 /\ Len(sendCases) = 0
    BY DEF Init
  <2>4. InCases(c) = 0 /\ InInbox(c) = 0
    BY <2>3, CountNone DEF InCases, InInbox
  <2> QED BY <2>2, <2>4
<1> QED BY <1>1, <1>2, SplitFInv

(* A step of a subscription leaves the running Send its prefix. *)
LEMMA SubscriberCalls ==
    ASSUME FInv, NEW s \in Subs, Subscribe(s) \/ Unsubscribe(s)
    PROVE  Calls'
<1>1. /\ sendCases' = sendCases /\ cases' = cases /\ index' = index /\ sendLock' = sendLock
      /\ sendPc' = sendPc /\ nsent' = nsent
  BY DEF Subscribe, Unsubscribe
<1>2. inbox' \in Seq(Channels)
  BY SubscribeLists, UnsubscribeLists DEF FInv, FTypes, Unsubscribe
<1>3. subPc' \in [Subs -> {"new", "subscribed", "removing", "ended"}]
  BY DEF Subscribe, Unsubscribe, FInv, FTypes
<1> QED BY <1>1, <1>2, <1>3 DEF FInv, Calls, FTypes, LockHeld, PrefixServed

LEMMA RemoveIdleCalls ==
    ASSUME FInv, NEW s \in Subs, RemoveIdle(s)
    PROVE  Calls'
<1>1. /\ cases' = cases /\ index' = 1 /\ sendLock' = sendLock /\ sendLock = None
      /\ sendPc' = sendPc /\ nsent' = nsent /\ inbox' = inbox
      /\ sendCases' = delete(sendCases, find(sendCases, ChanOf[s]))
      /\ subPc[s] = "removing" /\ subPc' = [subPc EXCEPT ![s] = "ended"]
  BY Zenon DEF RemoveIdle
<1>2. sendCases' \in Seq(Channels)
  BY <1>1, RemoveLists
<1>3. subPc' \in [Subs -> {"new", "subscribed", "removing", "ended"}]
  BY <1>1 DEF FInv, FTypes
<1>4. FTypes' /\ LockHeld'
  BY <1>1, <1>2, <1>3 DEF FInv, FTypes, LockHeld
<1>5. \A p \in Senders : sendPc[p] \notin Holding
  BY <1>1, FeedAssumption DEF FInv, LockHeld
<1>6. PrefixServed'
  BY <1>1, <1>5 DEF PrefixServed, Holding
<1> QED BY <1>4, <1>6 DEF Calls

LEMMA InterruptCalls ==
    ASSUME FInv, NEW p \in Senders, NEW s \in Subs, SelectRemove(p, s)
    PROVE  Calls' /\ Balanced'
<1>1. /\ index' = index /\ sendLock' = sendLock /\ nsent' = nsent /\ inbox' = inbox
      /\ sendPc[p] = "select" /\ sendPc' = [sendPc EXCEPT ![p] = "try"]
      /\ sendCases' = delete(sendCases, find(sendCases, ChanOf[s]))
      /\ subPc[s] = "removing" /\ subPc' = [subPc EXCEPT ![s] = "ended"]
  BY DEF SelectRemove, Interrupts
<1>2. sendCases' \in Seq(Channels)
  BY <1>1, RemoveLists
<1>3. subPc' \in [Subs -> {"new", "subscribed", "removing", "ended"}]
  BY <1>1 DEF FInv, FTypes
<1>4. cases' \in Nat /\ cases' <= Len(sendCases')
  BY InterruptLists
<1>5. \A q \in Senders : sendPc'[q] = IF q = p THEN "try" ELSE sendPc[q]
  BY <1>1 DEF FInv, FTypes
<1>6. sendPc' \in [Senders -> SendPcs]
  BY <1>1, SMTT(30) DEF FInv, FTypes, SendPcs
<1>7. FTypes'
  BY <1>1, <1>2, <1>3, <1>4, <1>6 DEF FInv, FTypes
<1>8. LockHeld'
  BY <1>1, <1>5 DEF FInv, LockHeld, Holding
<1>9. PrefixServed'
  <2>1. \A q \in Senders : q # p => sendPc[q] \notin Holding
    BY <1>1 DEF FInv, LockHeld, Holding
  <2> QED BY <1>4, <1>5, <2>1 DEF PrefixServed, Holding
<1>10. Balanced'
  BY <1>1, RemoveBalance, Zenon
<1> QED BY <1>7, <1>8, <1>9, <1>10 DEF Calls

(* A step of a call of Send that leaves the lists alone. *)
LEMMA QuietCalls ==
    ASSUME FInv, NEW p \in Senders,
           \/ CallSend(p) \/ TakeLock(p) \/ TriedAll(p) \/ Return(p)
    PROVE  Calls'
<1>1. /\ inbox' = inbox /\ sendCases' = sendCases /\ cases' = cases /\ subPc' = subPc
      /\ index' \in {index, 1} /\ nsent' \in {nsent, 0}
  BY DEF CallSend, TakeLock, TriedAll, Return, lists
<1>2. PICK x \in SendPcs : sendPc' = [sendPc EXCEPT ![p] = x]
  BY DEF CallSend, TakeLock, TriedAll, Return, SendPcs
<1>3. \A q \in Senders : sendPc'[q] = IF q = p THEN x ELSE sendPc[q]
  BY <1>2 DEF FInv, FTypes
<1>4. sendPc' \in [Senders -> SendPcs]
  BY <1>2 DEF FInv, FTypes
<1>5. sendLock' \in Senders \cup {None}
  BY DEF CallSend, TakeLock, TriedAll, Return, FInv, FTypes
<1>6. FTypes'
  BY <1>1, <1>4, <1>5 DEF FInv, FTypes
<1>7. x = sendPc'[p]
  BY <1>3
<1>8. CASE CallSend(p)
  <2>1. x = "lock" /\ sendPc[p] = "idle" /\ sendLock' = sendLock
    BY <1>7, <1>8 DEF CallSend, FInv, FTypes
  <2>2. LockHeld'
    BY <1>3, <2>1, SMTT(30) DEF FInv, LockHeld, Holding
  <2>3. PrefixServed'
    BY <1>1, <1>3, <2>1, SMTT(30) DEF FInv, PrefixServed
  <2> QED BY <1>6, <2>2, <2>3 DEF Calls
<1>9. CASE TakeLock(p)
  <2>1. x = "merge" /\ sendPc[p] = "lock" /\ sendLock' = p /\ sendLock = None
    BY <1>7, <1>9, SMTT(30) DEF TakeLock, FInv, FTypes
  <2>2. LockHeld'
    BY <1>3, <2>1, FeedAssumption DEF FInv, LockHeld, Holding
  <2>3. PrefixServed'
    BY <1>1, <1>3, <2>1 DEF FInv, PrefixServed
  <2> QED BY <1>6, <2>2, <2>3 DEF Calls
<1>10. CASE TriedAll(p)
  <2>1. /\ x = IF cases = 0 THEN "unlock" ELSE "select"
        /\ sendPc[p] = "try" /\ sendLock' = sendLock
    BY <1>7, <1>10 DEF TriedAll, FInv, FTypes
  <2>2. LockHeld'
    BY <1>3, <2>1 DEF FInv, LockHeld, Holding
  <2>3. PrefixServed'
    BY <1>1, <1>3, <2>1 DEF FInv, PrefixServed
  <2> QED BY <1>6, <2>2, <2>3 DEF Calls
<1>11. CASE Return(p)
  <2>1. x = "returned" /\ sendPc[p] = "unlock" /\ sendLock' = None
    BY <1>7, <1>11 DEF Return, FInv, FTypes
  <2>2. LockHeld'
    BY <1>3, <2>1, FeedAssumption, SMTT(30) DEF FInv, LockHeld, Holding
  <2>3. PrefixServed'
    BY <1>1, <1>3, <2>1 DEF FInv, PrefixServed
  <2> QED BY <1>6, <2>2, <2>3 DEF Calls
<1> QED BY <1>8, <1>9, <1>10, <1>11

(* A step that leaves the lists and the subscriptions alone. *)
LEMMA QuietBalance ==
    ASSUME FInv, subPc' = subPc, inbox' = inbox, sendCases' = sendCases
    PROVE  Balanced'
<1>1. \A c \in Channels : InCases(c)' = InCases(c) /\ InInbox(c)' = InInbox(c)
  BY DEF InCases, InInbox
<1>2. \A c \in Channels : InCases(c) \in Nat
  BY ListTypes DEF FInv
<1> QED BY <1>1, <1>2, BalanceKept

LEMMA MergeKeeps ==
    ASSUME FInv, NEW p \in Senders, Merge(p)
    PROVE  Calls' /\ Balanced'
<1>1. /\ sendPc[p] = "merge" /\ sendPc' = [sendPc EXCEPT ![p] = "try"] /\ index' = 1 /\ nsent' = 0
      /\ sendLock' = sendLock /\ subPc' = subPc
  BY DEF Merge
<1>2. /\ inbox' \in Seq(Channels) /\ sendCases' \in Seq(Channels)
      /\ cases' \in Nat /\ cases' = Len(sendCases')
      /\ \A c : InInbox(c)' = 0 /\ InCases(c)' = InCases(c) + InInbox(c)
  BY MergeLists DEF FInv
<1>3. \A q \in Senders : sendPc'[q] = IF q = p THEN "try" ELSE sendPc[q]
  BY <1>1 DEF FInv, FTypes
<1>4. sendPc' \in [Senders -> SendPcs]
  BY <1>1 DEF FInv, FTypes, SendPcs
<1>5. FTypes'
  BY <1>1, <1>2, <1>4 DEF FInv, FTypes
<1>6. LockHeld'
  BY <1>1, <1>3, SMTT(30) DEF FInv, LockHeld, Holding
<1>7. PrefixServed'
  <2>1. \A q \in Senders : q # p => sendPc[q] \notin Holding
    BY <1>1 DEF FInv, LockHeld, Holding
  <2> QED BY <1>2, <1>3, <2>1 DEF PrefixServed, Holding
<1>8. \A c \in Channels : InCases(c) \in Nat /\ InInbox(c) \in Nat
  BY ListTypes DEF FInv
<1>9. \A c \in Channels : /\ InCases(c)' + InInbox(c)' = InCases(c) + InInbox(c)
                          /\ InCases(c)' \in Nat /\ InCases(c)' >= InCases(c)
  BY <1>2, <1>8
<1> QED BY <1>1, <1>5, <1>6, <1>7, <1>9, BalanceKept DEF Calls

LEMMA DeliverKeeps ==
    ASSUME FInv, NEW p \in Senders, sendPc[p] \in {"try", "select"}, NEW i \in 1 .. cases, Deliver(p, i),
           sendPc' \in {sendPc, [sendPc EXCEPT ![p] = "try"]},
           UNCHANGED <<inbox, index, sendLock, subPc, returned>>
    PROVE  Calls' /\ Balanced'
<1>1. cases <= Len(sendCases)
  BY DEF FInv, PrefixServed
<1>2. /\ sendCases' \in Seq(Channels) /\ cases' \in Nat /\ cases' <= Len(sendCases')
      /\ \A c : InInbox(c)' = InInbox(c) /\ InCases(c)' = InCases(c)
  BY <1>1, DeliverLists DEF FInv
<1>3. PICK x \in {"try", "select"} :
        \A q \in Senders : sendPc'[q] = IF q = p THEN x ELSE sendPc[q]
  <2>1. CASE sendPc' = sendPc
    BY <2>1
  <2>2. CASE sendPc' = [sendPc EXCEPT ![p] = "try"]
    <3>1. \A q \in Senders : sendPc'[q] = IF q = p THEN "try" ELSE sendPc[q]
      BY <2>2 DEF FInv, FTypes
    <3> QED BY <3>1
  <2> QED BY <2>1, <2>2
<1>4. sendPc' \in [Senders -> SendPcs]
  BY DEF FInv, FTypes, SendPcs
<1>5. nsent' \in Nat
  BY DEF Deliver, FInv, FTypes
<1>6. FTypes'
  BY <1>2, <1>4, <1>5 DEF FInv, FTypes
<1>7. LockHeld'
  BY <1>3 DEF FInv, LockHeld, Holding
<1>8. PrefixServed'
  <2>1. \A q \in Senders : q # p => sendPc[q] \notin Holding
    BY DEF FInv, LockHeld, Holding
  <2> QED BY <1>2, <1>3, <2>1 DEF PrefixServed, Holding
<1>9. \A c \in Channels : InCases(c) \in Nat
  BY ListTypes DEF FInv
<1> QED BY <1>2, <1>6, <1>7, <1>8, <1>9, BalanceKept DEF Calls
LEMMA NextFInv == FInv /\ [Next]_vars => FInv'
<1> SUFFICES ASSUME FInv, [Next]_vars PROVE Calls' /\ Balanced'
  BY SplitFInvNext
<1>1. ASSUME NEW s \in Subs, Subscribe(s) PROVE Calls' /\ Balanced'
  BY <1>1, SubscriberCalls, SubscribeBalance
<1>2. ASSUME NEW s \in Subs, Unsubscribe(s) PROVE Calls' /\ Balanced'
  BY <1>2, SubscriberCalls, UnsubscribeBalance
<1>3. ASSUME NEW s \in Subs, RemoveIdle(s) PROVE Calls' /\ Balanced'
  <2>1. /\ subPc[s] = "removing" /\ subPc' = [subPc EXCEPT ![s] = "ended"]
        /\ sendCases' = delete(sendCases, find(sendCases, ChanOf[s])) /\ inbox' = inbox
    BY <1>3 DEF RemoveIdle
  <2>2. Balanced'
    BY <2>1, RemoveBalance, Zenon
  <2> QED BY <1>3, <2>2, RemoveIdleCalls, SMTT(30)
<1>4. ASSUME NEW p \in Senders, CallSend(p) \/ TakeLock(p) \/ TriedAll(p) \/ Return(p)
      PROVE  Calls' /\ Balanced'
  <2>1. subPc' = subPc /\ inbox' = inbox /\ sendCases' = sendCases
    BY <1>4 DEF CallSend, TakeLock, TriedAll, Return, lists
  <2>2. Balanced'
    BY <2>1, QuietBalance
  <2> QED BY <1>4, <2>2, QuietCalls, SMTT(30)
<1>5. ASSUME NEW p \in Senders, Merge(p) PROVE Calls' /\ Balanced'
  BY <1>5, MergeKeeps
<1>6. ASSUME NEW p \in Senders, TrySend(p) PROVE Calls' /\ Balanced'
  <2>1. CASE Deliver(p, index) /\ UNCHANGED index
    <3>1. /\ sendPc[p] \in {"try", "select"} /\ index \in 1 .. cases /\ Deliver(p, index)
          /\ sendPc' \in {sendPc, [sendPc EXCEPT ![p] = "try"]}
          /\ UNCHANGED <<inbox, index, sendLock, subPc, returned>>
      BY <1>6, <2>1 DEF TrySend, FInv, FTypes
    <3> QED BY <3>1, DeliverKeeps
  <2>2. CASE index' = index + 1 /\ UNCHANGED <<sendCases, cases, nsent, buffer, got>>
    <3>1. /\ UNCHANGED <<inbox, sendLock, sendPc, subPc>> /\ index' \in Nat /\ index' > 0
      BY <1>6, <2>2 DEF TrySend, FInv, FTypes
    <3>2. Calls'
      BY <2>2, <3>1 DEF FInv, Calls, FTypes, LockHeld, PrefixServed
    <3>3. Balanced'
      BY <2>2, <3>1, QuietBalance
    <3> QED BY <3>2, <3>3
  <2> QED BY <1>6, <2>1, <2>2 DEF TrySend
<1>7. ASSUME NEW p \in Senders, SelectSend(p) PROVE Calls' /\ Balanced'
  <2>1. PICK i \in 1 .. cases : Deliver(p, i)
    BY <1>7 DEF SelectSend
  <2>2. /\ sendPc[p] \in {"try", "select"}
        /\ sendPc' \in {sendPc, [sendPc EXCEPT ![p] = "try"]}
        /\ UNCHANGED <<inbox, index, sendLock, subPc, returned>>
    BY <1>7 DEF SelectSend
  <2> QED BY <2>1, <2>2, DeliverKeeps
<1>8. ASSUME NEW p \in Senders, NEW s \in Subs, SelectRemove(p, s) PROVE Calls' /\ Balanced'
  BY <1>8, InterruptCalls
<1>9. ASSUME UNCHANGED <<lists, sendLock, sendPc, subPc, nsent>> PROVE Calls' /\ Balanced'
  <2>1. Calls'
    BY <1>9 DEF FInv, Calls, FTypes, LockHeld, PrefixServed, lists
  <2>2. Balanced'
    BY <1>9, QuietBalance DEF lists
  <2> QED BY <2>1, <2>2
<1>10. ASSUME NEW c \in Channels, Receive(c) PROVE Calls' /\ Balanced'
  BY <1>9, <1>10 DEF Receive
<1>11. CASE UNCHANGED vars
  BY <1>9, <1>11 DEF vars
<1> QED BY <1>1, <1>2, <1>3, <1>4, <1>5, <1>6, <1>7, <1>8, <1>10, <1>11 DEF Next, SendStep

LEMMA AlwaysFInv == Spec => []FInv
BY InitFInv, NextFInv, PTL DEF Spec

(* Every subscription that has not ended is in exactly one of the lists,   *)
(* however Subscribe, Send and Unsubscribe interleave: neither remove nor  *)
(* the interrupted Send ever looks up a channel that is not there.         *)
THEOREM SubsStayListed == Spec => []EverySubListed
<1>1. FInv => EverySubListed
  BY DEF FInv
<1> QED BY AlwaysFInv, <1>1, PTL
-------------------------------------------------------------------------------
(* Refinement: what the variables of FeedPromise stand for. *)
bSubs == [c \in Channels |-> Listed(c)]
bCurrent == IF Sending THEN sendLock ELSE None
bOwed == [c \in Channels |-> IF Sending THEN Due(c) ELSE 0]
bNsent == IF Sending THEN nsent ELSE 0
bVars == <<bSubs, bCurrent, bOwed, bNsent, got, returned>>

LEMMA PromiseVars == Promise!vars = bVars /\ (UNCHANGED Promise!vars <=> UNCHANGED bVars)
BY DEF Promise!vars, bVars, bSubs, bCurrent, bOwed, bNsent, Due

LEMMA PromiseSubscribe ==
    ASSUME NEW c \in Channels,
           bSubs' = [bSubs EXCEPT ![c] = @ + 1],
           UNCHANGED <<bCurrent, bOwed, bNsent, got, returned>>
    PROVE  Promise!Subscribe(c)
BY DEF Promise!Subscribe, bSubs, bCurrent, bOwed, bNsent, Due

LEMMA PromiseUnsubscribe ==
    ASSUME NEW c \in Channels, NEW due \in {bOwed[c], bOwed[c] - 1},
           bSubs[c] > 0, due \in 0 .. bSubs'[c],
           bSubs' = [bSubs EXCEPT ![c] = @ - 1],
           bOwed' = [bOwed EXCEPT ![c] = due],
           UNCHANGED <<bCurrent, bNsent, got, returned>>
    PROVE  Promise!Unsubscribe(c)
<1>1. \E d \in {bOwed[c], bOwed[c] - 1} \cap 0 .. bSubs'[c] : bOwed' = [bOwed EXCEPT ![c] = d]
  <2>1. due \in {bOwed[c], bOwed[c] - 1} \cap 0 .. bSubs'[c]
    OBVIOUS
  <2> QED BY <2>1, Zenon
<1> QED BY <1>1, Zenon DEF Promise!Unsubscribe, bSubs, bCurrent, bOwed, bNsent, Due

LEMMA PromiseBegin ==
    ASSUME NEW v \in Senders, bCurrent = None, bCurrent' = v, bOwed' = bSubs, bNsent' = 0,
           UNCHANGED <<bSubs, got, returned>>
    PROVE  Promise!Begin(v)
BY DEF Promise!Begin, bSubs, bCurrent, bOwed, bNsent, Due

LEMMA PromiseDeliver ==
    ASSUME NEW c \in Channels, bOwed[c] > 0, bOwed' = [bOwed EXCEPT ![c] = @ - 1],
           bNsent' = bNsent + 1, got' = [got EXCEPT ![c] = Append(@, bCurrent)],
           UNCHANGED <<bSubs, bCurrent, returned>>
    PROVE  Promise!Deliver(c)
BY DEF Promise!Deliver, bSubs, bCurrent, bOwed, bNsent, Due

LEMMA PromiseEnd ==
    ASSUME bCurrent # None, bOwed = [c \in Channels |-> 0],
           returned' = [returned EXCEPT ![bCurrent] = bNsent],
           bCurrent' = None, bNsent' = 0, UNCHANGED <<bSubs, bOwed, got>>
    PROVE  Promise!End
BY DEF Promise!End, Promise!Nothing, bSubs, bCurrent, bOwed, bNsent, Due

(* A Send is under way exactly when the holder of the lock has merged. *)
LEMMA SendingIs ==
    ASSUME FInv
    PROVE  Sending <=> \E p \in Senders : sendLock = p /\ sendPc[p] # "merge"
BY DEF FInv, LockHeld, Holding, Sending

LEMMA SendingIsNext ==
    ASSUME FInv'
    PROVE  Sending' <=> \E p \in Senders : sendLock' = p /\ sendPc'[p] # "merge"
BY DEF FInv, LockHeld, Holding, Sending

LEMMA InitPromise == Init => Promise!Init
<1> SUFFICES ASSUME Init PROVE Promise!Init
  OBVIOUS
<1>1. ~Sending
  BY DEF Init, Sending
<1>2. Len(inbox) = 0 /\ Len(sendCases) = 0
  BY DEF Init
<1>3. \A c \in Channels : Listed(c) = 0
  BY <1>2, CountNone DEF Listed
<1> QED BY <1>1, <1>3 DEF Promise!Init, Promise!Nothing, Init
LEMMA ListedSplit ==
    \A c : Listed(c) = InCases(c) + InInbox(c) /\ Listed(c)' = InCases(c)' + InInbox(c)'
BY DEF Listed, InCases, InInbox

(* A step that Send's caller cannot tell from no step. *)
LEMMA PromiseStutter ==
    ASSUME \A c \in Channels : Listed(c)' = Listed(c) /\ (Sending => Due(c)' = Due(c)),
           Sending' <=> Sending, Sending => nsent' = nsent /\ sendLock' = sendLock,
           UNCHANGED <<got, returned>>
    PROVE  UNCHANGED Promise!vars
<1>1. UNCHANGED <<bSubs, bCurrent, bOwed, bNsent>>
  BY DEF bSubs, bCurrent, bOwed, bNsent
<1> QED BY <1>1, PromiseVars DEF bVars

LEMMA SubscribePromise ==
    ASSUME FInv, NEW s \in Subs, Subscribe(s)
    PROVE  \E c \in Channels : Promise!Subscribe(c)
<1> DEFINE a == ChanOf[s]
<1>1. a \in Channels
  BY FeedAssumption
<1>2. UNCHANGED <<sendPc, sendLock, nsent, got, returned>>
  BY DEF Subscribe
<1>3. Sending' <=> Sending
  BY <1>2 DEF Sending
<1>4. \A c \in Channels : /\ InInbox(c)' = InInbox(c) + (IF a = c THEN 1 ELSE 0)
                          /\ InCases(c)' = InCases(c) /\ Due(c)' = Due(c)
                          /\ InCases(c) \in Nat /\ InInbox(c) \in Nat
  BY SubscribeLists, ListTypes DEF FInv
<1>5. \A c \in Channels : Listed(c)' = IF c = a THEN Listed(c) + 1 ELSE Listed(c)
  BY <1>4, ListedSplit
<1> HIDE DEF a
<1>6. bSubs' = [bSubs EXCEPT ![a] = @ + 1]
  BY <1>5 DEF bSubs
<1>7. UNCHANGED <<bCurrent, bOwed, bNsent, got, returned>>
  BY <1>2, <1>3, <1>4 DEF bCurrent, bOwed, bNsent
<1>8. Promise!Subscribe(a)
  BY <1>1, <1>6, <1>7, PromiseSubscribe, Zenon
<1> QED BY <1>1, <1>8

(* The end of a subscription of channel a. *)
LEMMA EndPromise ==
    ASSUME NEW a \in Channels,
           \A c \in Channels :
               /\ Listed(c) \in Nat /\ Listed(c)' \in Nat
               /\ Listed(c)' = IF c = a THEN Listed(c) - 1 ELSE Listed(c)
               /\ Sending => /\ Due(c) \in Nat /\ Due(c)' \in Nat
                             /\ c # a => Due(c)' = Due(c)
                             /\ c = a => Due(c)' \in {Due(c), Due(c) - 1} /\ Due(c)' <= Listed(c)',
           Sending' <=> Sending, Sending => nsent' = nsent /\ sendLock' = sendLock,
           UNCHANGED <<got, returned>>
    PROVE  \E c \in Channels : Promise!Unsubscribe(c)
<1>1. bSubs' = [bSubs EXCEPT ![a] = @ - 1] /\ bSubs[a] > 0 /\ bSubs'[a] = Listed(a)'
  <2>1. bSubs = [c \in Channels |-> Listed(c)] /\ bSubs' = [c \in Channels |-> Listed(c)']
    BY DEF bSubs
  <2>2. \A c \in Channels : Listed(c)' = IF c = a THEN Listed(c) - 1 ELSE Listed(c)
    OBVIOUS
  <2>3. Listed(a) \in Nat /\ Listed(a)' \in Nat /\ Listed(a)' = Listed(a) - 1
    OBVIOUS
  <2> QED BY <2>1, <2>2, <2>3
<1>2. UNCHANGED <<bCurrent, bNsent, got, returned>>
  BY DEF bCurrent, bNsent
<1>3. PICK due : due = IF Sending THEN Due(a)' ELSE 0
  OBVIOUS
<1>4. due \in {bOwed[a], bOwed[a] - 1} /\ due \in 0 .. bSubs'[a]
  BY <1>1, <1>3 DEF bOwed
<1>5. bOwed' = [bOwed EXCEPT ![a] = due]
  <2>1. /\ bOwed = [c \in Channels |-> IF Sending THEN Due(c) ELSE 0]
        /\ bOwed' = [c \in Channels |-> IF Sending THEN Due(c)' ELSE 0]
    BY DEF bOwed
  <2>2. \A c \in Channels : Sending /\ c # a => Due(c)' = Due(c)
    OBVIOUS
  <2> QED BY <1>3, <2>1, <2>2
<1>6. Promise!Unsubscribe(a)
  BY <1>1, <1>2, <1>4, <1>5, PromiseUnsubscribe, Zenon
<1> QED BY <1>6

LEMMA UnsubscribePromise ==
    ASSUME FInv, FInv', NEW s \in Subs, Unsubscribe(s)
    PROVE  (\E c \in Channels : Promise!Unsubscribe(c)) \/ UNCHANGED Promise!vars
<1> DEFINE a == ChanOf[s]
<1>1. a \in Channels /\ FTypes
  BY FeedAssumption DEF FInv
<1>2. UNCHANGED <<sendPc, sendLock, nsent, got, returned, sendCases, cases>>
  BY DEF Unsubscribe
<1>3. Sending' <=> Sending
  BY <1>2, SMTT(30) DEF Sending
<1>4. CASE RemoveFromInbox(s)
  <2>1. \A c \in Channels : /\ InInbox(c)' = InInbox(c) - (IF a = c THEN 1 ELSE 0)
                            /\ InCases(c)' = InCases(c) /\ Due(c)' = Due(c)
                            /\ InCases(c) \in Nat /\ InInbox(c) \in Nat /\ Due(c) \in Nat
    BY <1>1, <1>4, UnsubscribeLists, ListTypes
  <2>2. InInbox(a) > 0
    BY <1>1, <1>4, UnsubscribeLists, SMTT(30)
  <2>3. Sending => \A c \in Channels : Due(c) <= InCases(c)
    BY <1>1, ListTypes, SMTT(30) DEF FInv, PrefixServed, Sending
  <2> HIDE DEF a
  <2>4. \A c \in Channels : /\ Listed(c) \in Nat /\ Listed(c)' \in Nat
                            /\ Listed(c)' = IF c = a THEN Listed(c) - 1 ELSE Listed(c)
                            /\ Sending => Due(c)' <= Listed(c)'
    BY <2>1, <2>2, <2>3, ListedSplit
  <2> QED BY <1>1, <1>2, <1>3, <2>1, <2>4, EndPromise
<1>5. CASE ~RemoveFromInbox(s)
  <2>1. inbox' = inbox
    BY <1>5 DEF Unsubscribe
  <2>2. \A c \in Channels : Listed(c)' = Listed(c) /\ Due(c)' = Due(c)
    BY <1>2, <2>1, SMTT(30) DEF Listed, Due
  <2> QED BY <1>2, <1>3, <2>2, PromiseStutter
<1> QED BY <1>4, <1>5
LEMMA RemoveIdlePromise ==
    ASSUME FInv, NEW s \in Subs, RemoveIdle(s)
    PROVE  \E c \in Channels : Promise!Unsubscribe(c)
<1> DEFINE a == ChanOf[s]
<1>1. a \in Channels /\ FTypes
  BY FeedAssumption, SMTT(30) DEF FInv
<1>2. /\ UNCHANGED <<sendPc, sendLock, nsent, got, returned, inbox, cases>> /\ sendLock = None
      /\ subPc[s] = "removing" /\ sendCases' = delete(sendCases, find(sendCases, a))
  BY DEF RemoveIdle
<1>3. ~Sending
  BY <1>2, SendingIs, FeedAssumption
<1>4. Sending' <=> Sending
  BY <1>2, SMTT(30) DEF Sending
<1>5. \A c \in Channels : /\ InCases(c)' = InCases(c) - (IF a = c THEN 1 ELSE 0)
                          /\ InInbox(c)' = InInbox(c)
                          /\ InCases(c) \in Nat /\ InInbox(c) \in Nat
  BY <1>1, <1>2, RemoveLists, ListTypes, SMTT(30)
<1>6. InCases(a) > 0
  BY <1>2, RemovalFinds
<1> HIDE DEF a
<1>7. \A c \in Channels : /\ Listed(c) \in Nat /\ Listed(c)' \in Nat
                          /\ Listed(c)' = IF c = a THEN Listed(c) - 1 ELSE Listed(c)
  BY <1>5, <1>6, ListedSplit, SMTT(30)
<1> QED BY <1>1, <1>2, <1>3, <1>4, <1>7, EndPromise

LEMMA InterruptPromise ==
    ASSUME FInv, NEW p \in Senders, NEW s \in Subs, SelectRemove(p, s)
    PROVE  \E c \in Channels : Promise!Unsubscribe(c)
<1> DEFINE a == ChanOf[s]
<1>1. a \in Channels /\ FTypes
  BY FeedAssumption DEF FInv
<1>2. /\ UNCHANGED <<sendLock, nsent, got, returned, inbox>>
      /\ sendPc[p] = "select" /\ sendPc' = [sendPc EXCEPT ![p] = "try"]
      /\ subPc[s] = "removing" /\ sendCases' = delete(sendCases, find(sendCases, a))
  BY Zenon DEF SelectRemove, Interrupts
<1>3. Sending /\ Sending'
  BY <1>1, <1>2 DEF Sending, FTypes
<1>4. \A c \in Channels : /\ InCases(c)' = InCases(c) - (IF a = c THEN 1 ELSE 0)
                          /\ InInbox(c)' = InInbox(c)
                          /\ InCases(c) \in Nat /\ InInbox(c) \in Nat /\ Due(c) \in Nat
  BY <1>1, <1>2, RemoveLists, ListTypes, Zenon
<1>5. InCases(a) > 0
  BY <1>2, RemovalFinds, Zenon
<1>6. /\ cases' \in Nat /\ cases' <= Len(sendCases')
      /\ \A c \in Channels : c # a => Due(c)' = Due(c)
      /\ Due(a)' \in {Due(a), Due(a) - 1}
  BY InterruptLists
<1>7. \A c \in Channels : Due(c)' \in Nat /\ Due(c)' <= InCases(c)'
  <2>1. sendCases' \in Seq(Channels) /\ Len(sendCases') \in Nat
    BY <1>2, RemoveLists
  <2>2. ASSUME NEW c \in Channels PROVE Count(sendCases', cases', c) \in Nat
    BY <1>6, CountType, Zenon
  <2>3. \A c \in Channels : Count(sendCases', cases', c) <= Count(sendCases', Len(sendCases'), c)
    BY <1>6, <2>1, CountMore, SMTT(30)
  <2> QED BY <2>2, <2>3, SMTT(30) DEF Due, InCases
<1> HIDE DEF a
<1>8. \A c \in Channels : /\ Listed(c) \in Nat /\ Listed(c)' \in Nat
                          /\ Listed(c)' = IF c = a THEN Listed(c) - 1 ELSE Listed(c)
                          /\ Due(c)' <= Listed(c)'
  BY <1>4, <1>5, <1>7, ListedSplit, SMTT(30)
<1>9. \A c \in Channels :
        /\ Listed(c) \in Nat /\ Listed(c)' \in Nat
        /\ Listed(c)' = IF c = a THEN Listed(c) - 1 ELSE Listed(c)
        /\ Sending => /\ Due(c) \in Nat /\ Due(c)' \in Nat
                      /\ c # a => Due(c)' = Due(c)
                      /\ c = a => Due(c)' \in {Due(c), Due(c) - 1} /\ Due(c)' <= Listed(c)'
  BY <1>4, <1>6, <1>7, <1>8
<1> QED BY <1>1, <1>2, <1>3, <1>9, EndPromise

LEMMA MergePromise ==
    ASSUME FInv, NEW p \in Senders, Merge(p)
    PROVE  Promise!Begin(p)
<1>1. /\ UNCHANGED <<sendLock, got, returned>> /\ nsent' = 0
      /\ sendPc[p] = "merge" /\ sendPc' = [sendPc EXCEPT ![p] = "try"]
  BY DEF Merge
<1>2. sendLock = p
  BY <1>1 DEF FInv, LockHeld, Holding
<1>3. ~Sending
  BY <1>1, <1>2, SendingIs
<1>4. Sending'
  BY <1>1 DEF Sending, FInv, FTypes
<1>5. \A c \in Channels : /\ InInbox(c)' = 0 /\ InCases(c)' = InCases(c) + InInbox(c)
                          /\ Due(c)' = InCases(c) + InInbox(c)
                          /\ InCases(c) \in Nat /\ InInbox(c) \in Nat
  BY MergeLists, ListTypes DEF FInv
<1>6. \A c \in Channels : Listed(c)' = Listed(c) /\ Due(c)' = Listed(c)
  BY <1>5, ListedSplit
<1>7. bCurrent = None /\ bCurrent' = p /\ bNsent' = 0
  BY <1>1, <1>2, <1>3, <1>4 DEF bCurrent, bNsent
<1>8. bOwed' = bSubs /\ bSubs' = bSubs
  BY <1>4, <1>6 DEF bOwed, bSubs
<1> QED BY <1>1, <1>7, <1>8, PromiseBegin, Zenon

LEMMA DeliverPromise ==
    ASSUME FInv, NEW p \in Senders, sendPc[p] \in {"try", "select"}, NEW i \in 1 .. cases, Deliver(p, i),
           sendPc' \in {sendPc, [sendPc EXCEPT ![p] = "try"]},
           UNCHANGED <<inbox, index, sendLock, subPc, returned>>
    PROVE  \E c \in Channels : Promise!Deliver(c)
<1> DEFINE a == sendCases[i]
<1>1. cases <= Len(sendCases) /\ FTypes
  BY DEF FInv, PrefixServed
<1>2. sendLock = p
  BY DEF FInv, LockHeld, Holding
<1>3. Sending /\ Sending'
  BY <1>1 DEF Sending, FTypes
<1>4. /\ a \in Channels
      /\ \A c \in Channels : /\ InInbox(c)' = InInbox(c) /\ InCases(c)' = InCases(c)
                             /\ Due(c)' = Due(c) - (IF a = c THEN 1 ELSE 0)
  BY <1>1, DeliverLists, SMTT(30)
<1>5. \A c \in Channels : Listed(c)' = Listed(c) /\ Due(c) \in Nat
  BY <1>1, <1>4, ListedSplit, ListTypes
<1>6. Due(a) > 0
  <2>1. cases \in Nat /\ \E j \in 1 .. cases : sendCases[j] = a
    BY <1>1, SMTT(30) DEF FTypes
  <2> QED BY <2>1, CountPositive DEF Due
<1>7. nsent' = nsent + 1 /\ got' = [got EXCEPT ![a] = Append(@, p)]
  BY DEF Deliver
<1> HIDE DEF a
<1>8. bOwed[a] > 0 /\ bOwed' = [bOwed EXCEPT ![a] = @ - 1]
  <2>1. /\ bOwed = [c \in Channels |-> Due(c)] /\ bOwed' = [c \in Channels |-> Due(c)']
    BY <1>3, SMTT(30) DEF bOwed
  <2>2. \A c \in Channels : Due(c)' = IF c = a THEN Due(c) - 1 ELSE Due(c)
    BY <1>4, <1>5
  <2> QED BY <1>4, <1>6, <2>1, <2>2
<1>9. bNsent' = bNsent + 1 /\ got' = [got EXCEPT ![a] = Append(@, bCurrent)]
  BY <1>2, <1>3, <1>7 DEF bNsent, bCurrent
<1>10. UNCHANGED <<bSubs, bCurrent, returned>>
  BY <1>3, <1>5 DEF bSubs, bCurrent
<1>11. Promise!Deliver(a)
  BY <1>4, <1>8, <1>9, <1>10, PromiseDeliver, Zenon
<1> QED BY <1>4, <1>11

LEMMA ReturnPromise ==
    ASSUME FInv, NEW p \in Senders, Return(p)
    PROVE  Promise!End
<1>1. /\ UNCHANGED <<inbox, sendCases, cases, got>> /\ nsent' = 0 /\ sendLock' = None
      /\ returned' = [returned EXCEPT ![p] = nsent]
      /\ sendPc[p] = "unlock" /\ sendPc' = [sendPc EXCEPT ![p] = "returned"]
  BY DEF Return, lists
<1>2. sendLock = p /\ cases = 0
  BY <1>1 DEF FInv, LockHeld, Holding, PrefixServed
<1>3. Sending
  BY <1>1 DEF Sending
<1>4. ~Sending'
  <2>1. \A q \in Senders : sendPc'[q] = IF q = p THEN "returned" ELSE sendPc[q]
    BY <1>1 DEF FInv, FTypes
  <2>2. \A q \in Senders : q # p => sendPc[q] \notin Holding
    BY <1>2 DEF FInv, LockHeld
  <2> QED BY <2>1, <2>2 DEF Sending, Holding
<1>5. \A c \in Channels : Due(c) = 0
  BY <1>2, CountNone DEF Due
<1>6. bCurrent = p /\ bCurrent # None /\ bNsent = nsent /\ bCurrent' = None /\ bNsent' = 0
  BY <1>2, <1>3, <1>4, FeedAssumption DEF bCurrent, bNsent
<1>7. bOwed = [c \in Channels |-> 0] /\ bOwed' = bOwed
  BY <1>3, <1>4, <1>5 DEF bOwed
<1>8. bSubs' = bSubs
  BY <1>1 DEF bSubs, Listed
<1>9. returned' = [returned EXCEPT ![bCurrent] = bNsent]
  BY <1>1, <1>6
<1> QED BY <1>1, <1>6, <1>7, <1>8, <1>9, PromiseEnd, Zenon
LEMMA QuietPromise ==
    ASSUME FInv, FInv', NEW p \in Senders, CallSend(p) \/ TakeLock(p) \/ TriedAll(p)
    PROVE  UNCHANGED Promise!vars
<1>1. /\ UNCHANGED <<inbox, sendCases, cases, nsent, got, returned>>
      /\ sendLock' = sendLock \/ sendLock = None
  BY DEF CallSend, TakeLock, TriedAll, lists
<1>2. \A c \in Channels : Listed(c)' = Listed(c) /\ Due(c)' = Due(c)
  BY <1>1 DEF Listed, Due
<1>3. PICK x \in SendPcs : /\ sendPc' = [sendPc EXCEPT ![p] = x]
                           /\ x \in {"try", "select", "unlock"}
                                <=> sendPc[p] \in {"try", "select", "unlock"}
  BY DEF CallSend, TakeLock, TriedAll, SendPcs
<1>4. \A q \in Senders : sendPc'[q] = IF q = p THEN x ELSE sendPc[q]
  BY <1>3 DEF FInv, FTypes
<1>5. Sending' <=> Sending
  BY <1>3, <1>4 DEF Sending
<1>6. Sending => sendLock # None
  BY SendingIs, FeedAssumption, SMTT(30)
<1> QED BY <1>1, <1>2, <1>5, <1>6, PromiseStutter

LEMMA NextPromise ==
    ASSUME FInv, FInv', [Next]_vars
    PROVE  [Promise!Next]_(Promise!vars)
<1>1. ASSUME NEW s \in Subs, Subscribe(s) PROVE Promise!Next
  <2>1. \E c \in Channels : Promise!Subscribe(c)
    BY <1>1, SubscribePromise
  <2> QED BY <2>1 DEF Promise!Next
<1>2. ASSUME NEW s \in Subs, Unsubscribe(s) PROVE [Promise!Next]_(Promise!vars)
  <2>1. (\E c \in Channels : Promise!Unsubscribe(c)) \/ UNCHANGED Promise!vars
    BY <1>2, UnsubscribePromise
  <2> QED BY <2>1 DEF Promise!Next
<1>3. ASSUME NEW s \in Subs, RemoveIdle(s) PROVE Promise!Next
  <2>1. \E c \in Channels : Promise!Unsubscribe(c)
    BY <1>3, RemoveIdlePromise
  <2> QED BY <2>1 DEF Promise!Next
<1>4. ASSUME NEW p \in Senders, NEW s \in Subs, SelectRemove(p, s) PROVE Promise!Next
  <2>1. \E c \in Channels : Promise!Unsubscribe(c)
    BY <1>4, InterruptPromise
  <2> QED BY <2>1 DEF Promise!Next
<1>5. ASSUME NEW p \in Senders, Merge(p) PROVE Promise!Next
  <2>1. Promise!Begin(p)
    BY <1>5, MergePromise
  <2> QED BY <2>1 DEF Promise!Next
<1>6. ASSUME NEW p \in Senders, TrySend(p) PROVE [Promise!Next]_(Promise!vars)
  <2>1. CASE Deliver(p, index) /\ UNCHANGED index
    <3>1. /\ sendPc[p] \in {"try", "select"} /\ index \in 1 .. cases /\ Deliver(p, index)
          /\ sendPc' \in {sendPc, [sendPc EXCEPT ![p] = "try"]}
          /\ UNCHANGED <<inbox, index, sendLock, subPc, returned>>
      BY <1>6, <2>1 DEF TrySend, FInv, FTypes
    <3>2. \E c \in Channels : Promise!Deliver(c)
      BY <3>1, DeliverPromise
    <3> QED BY <3>2, SMTT(30) DEF Promise!Next
  <2>2. CASE index' = index + 1 /\ UNCHANGED <<sendCases, cases, nsent, buffer, got>>
    <3>1. UNCHANGED <<inbox, sendLock, sendPc, returned>>
      BY <1>6 DEF TrySend
    <3>2. /\ \A c \in Channels : Listed(c)' = Listed(c) /\ Due(c)' = Due(c)
          /\ Sending' <=> Sending
      BY <2>2, <3>1, SMTT(30) DEF Listed, Due, Sending
    <3>3. UNCHANGED Promise!vars
      BY <2>2, <3>1, <3>2, PromiseStutter
    <3> QED BY <3>3
  <2> QED BY <1>6, <2>1, <2>2 DEF TrySend
<1>7. ASSUME NEW p \in Senders, SelectSend(p) PROVE Promise!Next
  <2>1. PICK i \in 1 .. cases : Deliver(p, i)
    BY <1>7 DEF SelectSend
  <2>2. /\ sendPc[p] \in {"try", "select"}
        /\ sendPc' \in {sendPc, [sendPc EXCEPT ![p] = "try"]}
        /\ UNCHANGED <<inbox, index, sendLock, subPc, returned>>
    BY <1>7, SMTT(30) DEF SelectSend
  <2>3. \E c \in Channels : Promise!Deliver(c)
    BY <2>1, <2>2, DeliverPromise
  <2> QED BY <2>3 DEF Promise!Next
<1>8. ASSUME NEW p \in Senders, Return(p) PROVE Promise!Next
  <2>1. Promise!End
    BY <1>8, ReturnPromise
  <2> QED BY <2>1 DEF Promise!Next
<1>9. ASSUME NEW p \in Senders, CallSend(p) \/ TakeLock(p) \/ TriedAll(p)
      PROVE  UNCHANGED Promise!vars
  BY <1>9, QuietPromise
<1>10. ASSUME UNCHANGED <<lists, sendLock, sendPc, nsent, got, returned>>
       PROVE  UNCHANGED Promise!vars
  <2>1. /\ \A c \in Channels : Listed(c)' = Listed(c) /\ Due(c)' = Due(c)
        /\ Sending' <=> Sending
    BY <1>10, SMTT(30) DEF Listed, Due, Sending, lists
  <2> QED BY <1>10, <2>1, PromiseStutter, SMTT(30)
<1>11. ASSUME NEW c \in Channels, Receive(c) PROVE UNCHANGED Promise!vars
  BY <1>10, <1>11 DEF Receive
<1>12. CASE UNCHANGED vars
  BY <1>10, <1>12 DEF vars
<1> QED BY <1>1, <1>2, <1>3, <1>4, <1>5, <1>6, <1>7, <1>8, <1>9, <1>11, <1>12 DEF Next, SendStep

(* The feed keeps its promise: locks, lists, active prefix and the         *)
(* interrupted select of Send implement one delivery per subscription that *)
(* a send finds, in the order of the sends, and the count Send returns.    *)
THEOREM FeedKeepsItsPromise == Spec => KeepsPromise
<1>1. Init => Promise!Init
  BY InitPromise
<1>2. FInv /\ FInv' /\ [Next]_vars => [Promise!Next]_(Promise!vars)
  BY NextPromise
<1> QED BY AlwaysFInv, <1>1, <1>2, PTL DEF Spec, KeepsPromise, Promise!Spec
===============================================================================
