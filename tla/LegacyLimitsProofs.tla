-------------------------- MODULE LegacyLimitsProofs --------------------------
(***************************************************************************)
(* Proofs about the limits of LegacyPool, for any configuration: the slots *)
(* in use never exceed GlobalSlots + GlobalQueue, and the executable       *)
(* transactions exceed GlobalSlots only while no account has more than the *)
(* AccountSlots it is guaranteed.                                          *)
(*                                                                         *)
(* Slots and TotalAt are sums over finite sets, which the model writes     *)
(* with MapThenSumSet.  The first part says what such a sum is: that it    *)
(* exists, and that adding an element adds its value.                      *)
(***************************************************************************)
EXTENDS LegacyPoolProofs

First(S) == CHOOSE x \in S : TRUE

(* f maps every subset of S to the sum of the values w[x] of its elements. *)
Adds(f, w, T) == f[T] = IF T = {} THEN 0 ELSE w[First(T)] + f[T \ {First(T)}]
IsSum(f, w, S) == \A T \in SUBSET S : Adds(f, w, T)

LEMMA FirstIn == ASSUME NEW S, S # {} PROVE First(S) \in S
BY DEF First

LEMMA OneLess ==
  ASSUME NEW S, IsFiniteSet(S), S # {}
  PROVE  /\ IsFiniteSet(S \ {First(S)})
         /\ Cardinality(S) \in Nat /\ Cardinality(S) >= 1
         /\ Cardinality(S \ {First(S)}) = Cardinality(S) - 1
<1>1. First(S) \in S
  BY FirstIn
<1>2. IsFiniteSet(S \ {First(S)}) /\ Cardinality(S \ {First(S)}) = Cardinality(S) - 1
  BY <1>1, FS_RemoveElement
<1>3. Cardinality(S) \in Nat /\ Cardinality(S) # 0
  BY FS_CardinalityType, FS_EmptySet
<1> QED BY <1>2, <1>3

(* A set of subsets of a finite set has a member no smaller set of it is in.  *)
LEMMA MinimalSubset ==
  ASSUME NEW S, IsFiniteSet(S), NEW F \in SUBSET (SUBSET S), F # {}
  PROVE  \E U \in F : IsFiniteSet(U) /\ \A x \in U : U \ {x} \notin F
<1> DEFINE N == {n \in Nat : \E U \in F : Cardinality(U) = n}
<1>1. \A U \in F : IsFiniteSet(U) /\ Cardinality(U) \in Nat
  BY FS_Subset, FS_CardinalityType
<1>2. N \in SUBSET Nat /\ N # {}
  BY <1>1
<1>3. PICK k \in N : \A j \in N : k <= j
  <2> HIDE DEF N
  <2> QED BY <1>2, LeastNat
<1>4. PICK U \in F : Cardinality(U) = k
  BY <1>3
<1>5. IsFiniteSet(U) /\ Cardinality(U) \in Nat
  BY <1>1, Zenon
<1>6. \A V \in F : Cardinality(V) \in N
  BY <1>1
<1> HIDE DEF N
<1>7. ASSUME NEW x \in U, U \ {x} \in F PROVE FALSE
  <2>1. Cardinality(U \ {x}) = Cardinality(U) - 1
    <3>1. Cardinality(U \ {x}) = IF x \in U THEN Cardinality(U) - 1 ELSE Cardinality(U)
      BY <1>5, FS_RemoveElement, Zenon
    <3> QED BY <3>1
  <2>2. k <= Cardinality(U \ {x})
    BY <1>3, <1>6, <1>7, Zenon
  <2> QED BY <1>4, <1>5, <2>1, <2>2
<1> QED BY <1>5, <1>7, Zenon

LEMMA SumExists ==
  ASSUME NEW S, IsFiniteSet(S), NEW w
  PROVE  \E f : IsSum(f, w, S)
<1> DEFINE Small(n) == {T \in SUBSET S : Cardinality(T) <= n}
           Bad == {n \in Nat : ~\E f : \A T \in Small(n) : Adds(f, w, T)}
<1>0. \A T \in SUBSET S : IsFiniteSet(T) /\ Cardinality(T) \in Nat /\ Cardinality(T) <= Cardinality(S)
  BY FS_Subset, FS_CardinalityType
<1>1. Bad = {}
  <2> SUFFICES ASSUME Bad # {} PROVE FALSE
    OBVIOUS
  <2>1. PICK k \in Bad : \A j \in Bad : k <= j
    BY LeastNat, Zenon
  <2>2. CASE k = 0
    <3> DEFINE f == [T \in SUBSET S |-> 0]
    <3>1. ASSUME NEW T \in Small(0) PROVE Adds(f, w, T)
      <4>1. T \in SUBSET S /\ IsFiniteSet(T) /\ Cardinality(T) = 0
        BY <1>0
      <4>2. T = {}
        BY <4>1, FS_EmptySet
      <4> QED BY <4>1, <4>2 DEF Adds
    <3> HIDE DEF f
    <3> QED BY <2>2, <3>1
  <2>3. CASE k # 0
    <3>1. k \in Nat /\ k - 1 \in Nat /\ k - 1 \notin Bad
      BY <2>1, <2>3
    <3>2. PICK f : \A T \in Small(k - 1) : Adds(f, w, T)
      BY <3>1
    <3> DEFINE g == [T \in SUBSET S |-> IF Cardinality(T) <= k - 1 THEN f[T]
                                        ELSE w[First(T)] + f[T \ {First(T)}]]
    <3>3. ASSUME NEW T \in Small(k) PROVE Adds(g, w, T)
      <4>1. T \in SUBSET S /\ IsFiniteSet(T) /\ Cardinality(T) \in Nat /\ Cardinality(T) <= k
        BY <1>0
      <4>2. CASE T = {}
        <5>1. Cardinality(T) = 0
          BY <4>2, FS_EmptySet
        <5>2. T \in Small(k - 1)
          BY <3>1, <4>1, <5>1
        <5>3. g[T] = f[T]
          BY <3>1, <4>1, <5>1
        <5>4. Adds(f, w, T)
          BY <3>2, <5>2
        <5>5. f[T] = 0
          BY <4>2, <5>4 DEF Adds
        <5> QED BY <4>2, <5>3, <5>5 DEF Adds
      <4>3. CASE T # {}
        <5> DEFINE R == T \ {First(T)}
        <5>1. R \in SUBSET S /\ Cardinality(R) = Cardinality(T) - 1
          BY <4>1, <4>3, OneLess
        <5>2. Cardinality(R) <= k - 1
          BY <3>1, <4>1, <5>1
        <5>3. g[R] = f[R]
          BY <5>1, <5>2
        <5>4. g[T] = w[First(T)] + f[R]
          <6>1. CASE Cardinality(T) <= k - 1
            <7>1. T \in Small(k - 1)
              BY <4>1, <6>1
            <7>2. Adds(f, w, T)
              BY <3>2, <7>1
            <7>3. f[T] = w[First(T)] + f[R]
              BY <4>3, <7>2 DEF Adds
            <7> QED BY <4>1, <6>1, <7>3
          <6>2. CASE ~(Cardinality(T) <= k - 1)
            BY <4>1, <6>2
          <6> QED BY <6>1, <6>2
        <5> HIDE DEF g
        <5> QED BY <4>3, <5>3, <5>4 DEF Adds
      <4> QED BY <4>2, <4>3
    <3> HIDE DEF g
    <3>4. k \notin Bad
      BY <3>1, <3>3
    <3> QED BY <2>1, <3>4
  <2> QED BY <2>2, <2>3
<1>2. Cardinality(S) \in Nat
  BY FS_CardinalityType
<1>3. PICK f : \A T \in Small(Cardinality(S)) : Adds(f, w, T)
  BY <1>1, <1>2
<1>4. \A T \in SUBSET S : T \in Small(Cardinality(S))
  BY <1>0
<1> QED BY <1>3, <1>4 DEF IsSum

LEMMA SumUnique ==
  ASSUME NEW f, NEW g, NEW v, NEW w, NEW R, NEW S, NEW T, IsFiniteSet(T), T \subseteq R, T \subseteq S,
         IsSum(f, v, R), IsSum(g, w, S), \A x \in T : v[x] = w[x]
  PROVE  f[T] = g[T]
<1> DEFINE Bad == {U \in SUBSET T : f[U] # g[U]}
<1> SUFFICES ASSUME Bad # {} PROVE FALSE
  OBVIOUS
<1>1. PICK U \in Bad : IsFiniteSet(U) /\ \A x \in U : U \ {x} \notin Bad
  <2>1. Bad \in SUBSET (SUBSET T)
    OBVIOUS
  <2> HIDE DEF Bad
  <2> QED BY <2>1, MinimalSubset
<1>2. U \in SUBSET T /\ f[U] # g[U] /\ \A x \in U : f[U \ {x}] = g[U \ {x}]
  BY <1>1
<1> HIDE DEF Bad
<1>3. Adds(f, v, U) /\ Adds(g, w, U)
  BY <1>2 DEF IsSum
<1>4. U # {}
  BY <1>2, <1>3 DEF Adds
<1> DEFINE c == First(U)
           Q == U \ {c}
<1>5. c \in U /\ c \in T
  BY <1>2, <1>4, FirstIn
<1>6. f[U] = v[c] + f[Q] /\ g[U] = w[c] + g[Q]
  BY <1>3, <1>4 DEF Adds
<1> HIDE DEF c
<1>7. f[Q] = g[Q]
  BY <1>2, <1>5
<1> HIDE DEF Q
<1>8. f[U] = g[U]
  BY <1>5, <1>6, <1>7
<1> QED BY <1>2, <1>8

LEMMA SumType ==
  ASSUME NEW f, NEW w, NEW S, IsSum(f, w, S), \A x \in S : w[x] \in Nat,
         NEW T \in SUBSET S, IsFiniteSet(T)
  PROVE  f[T] \in Nat
<1> DEFINE Bad == {U \in SUBSET T : f[U] \notin Nat}
<1> SUFFICES ASSUME Bad # {} PROVE FALSE
  OBVIOUS
<1>1. PICK U \in Bad : IsFiniteSet(U) /\ \A x \in U : U \ {x} \notin Bad
  <2>1. Bad \in SUBSET (SUBSET T)
    OBVIOUS
  <2> HIDE DEF Bad
  <2> QED BY <2>1, MinimalSubset
<1>2. U \in SUBSET S /\ f[U] \notin Nat /\ \A x \in U : f[U \ {x}] \in Nat
  BY <1>1
<1> HIDE DEF Bad
<1>3. Adds(f, w, U)
  BY <1>2 DEF IsSum
<1>4. U # {}
  BY <1>2, <1>3 DEF Adds
<1> DEFINE c == First(U)
           Q == U \ {c}
<1>5. c \in U /\ c \in S
  BY <1>2, <1>4, FirstIn
<1>6. f[U] = w[c] + f[Q]
  BY <1>3, <1>4 DEF Adds
<1> HIDE DEF c
<1>7. f[Q] \in Nat /\ w[c] \in Nat
  BY <1>2, <1>5
<1> HIDE DEF Q
<1>8. f[U] \in Nat
  BY <1>6, <1>7
<1> QED BY <1>2, <1>8

(* The sum does not depend on the element that First picks. *)
LEMMA SumAdd ==
  ASSUME NEW f, NEW w, NEW S, IsFiniteSet(S), IsSum(f, w, S), \A x \in S : w[x] \in Nat,
         NEW T \in SUBSET S, NEW x \in S, x \notin T
  PROVE  f[T \cup {x}] = f[T] + w[x]
<1> DEFINE Ok(U, y) == f[U \cup {y}] = f[U] + w[y]
           Bad == {U \in SUBSET S : \E y \in S \ U : ~Ok(U, y)}
<1>0. \A U \in SUBSET S : f[U] \in Nat
  BY FS_Subset, SumType
<1>1. Bad = {}
  <2> SUFFICES ASSUME Bad # {} PROVE FALSE
    OBVIOUS
  <2>1. PICK U \in Bad : IsFiniteSet(U) /\ \A z \in U : U \ {z} \notin Bad
    <3>1. Bad \in SUBSET (SUBSET S)
      OBVIOUS
    <3> HIDE DEF Bad
    <3> QED BY <3>1, MinimalSubset
  <2> HIDE DEF Ok
  <2>2. PICK y \in S \ U : ~Ok(U, y)
    BY <2>1
  <2>3. U \in SUBSET S /\ y \in S /\ y \notin U
    BY <2>1, <2>2
  <2>14. \A z \in U : \A v \in S \ (U \ {z}) : Ok(U \ {z}, v)
    BY <2>1, <2>3
  <2> HIDE DEF Bad
  <2> DEFINE V == U \cup {y}
             c == First(V)
  <2>4. V \in SUBSET S /\ V # {} /\ c \in V /\ c \in S
    BY <2>3, FirstIn
  <2>5. f[V] = w[c] + f[V \ {c}]
    <3>1. Adds(f, w, V)
      BY <2>4 DEF IsSum
    <3> QED BY <2>4, <3>1 DEF Adds
  <2> HIDE DEF c
  <2>6. f[U] \in Nat /\ w[y] \in Nat /\ w[c] \in Nat
    BY <1>0, <2>3, <2>4
  <2>7. c # y
    <3> SUFFICES ASSUME c = y PROVE FALSE
      OBVIOUS
    <3>1. V \ {c} = U
      BY <2>3
    <3> HIDE DEF V
    <3>2. f[V] = w[y] + f[U]
      BY <2>5, <3>1, Zenon
    <3>3. f[V] = f[U] + w[y]
      BY <2>6, <3>2
    <3> QED BY <2>2, <3>3 DEF Ok, V
  <2> DEFINE W == U \ {c}
  <2>8. c \in U /\ W \in SUBSET S /\ y \in S \ W /\ c \in S \ W
    BY <2>3, <2>4, <2>7
  <2>9. V \ {c} = W \cup {y} /\ U = W \cup {c}
    BY <2>3, <2>7, <2>8
  <2>10. Ok(W, y) /\ Ok(W, c)
    BY <2>8, <2>14
  <2> HIDE DEF V, W
  <2>11. f[V] = w[c] + (f[W] + w[y]) /\ f[U] = f[W] + w[c]
    <3>1. f[W \cup {y}] = f[W] + w[y] /\ f[W \cup {c}] = f[W] + w[c]
      BY <2>10 DEF Ok
    <3> QED BY <2>5, <2>9, <3>1, Zenon
  <2>12. f[W] \in Nat
    BY <1>0, <2>8
  <2>13. f[V] = f[U] + w[y]
    BY <2>6, <2>11, <2>12
  <2> QED BY <2>2, <2>13 DEF V, Ok
<1>2. Ok(T, x)
  <2> HIDE DEF Ok
  <2> QED BY <1>1
<1> QED BY <1>2

-------------------------------------------------------------------------------
(* Slots. *)

SlotOf == [t \in Tx |-> t.slots]

(* A sum written with MapThenSumSet is one. *)
LEMMA SlotsIsSum ==
  ASSUME NEW S \in SUBSET Tx, IsFiniteSet(S)
  PROVE  \E f : IsSum(f, SlotOf, S) /\ Slots(S) = f[S]
<1> DEFINE Rec(f) == f = [T \in SUBSET S |-> IF T = {} THEN 0
                                             ELSE First(T).slots + f[T \ {First(T)}]]
           iter == CHOOSE f : Rec(f)
<1>1. Slots(S) = iter[S]
  BY DEF Slots, MapThenSumSet, MapThenFoldSet, First
<1>2. PICK g : IsSum(g, SlotOf, S)
  BY SumExists
<1> DEFINE f == [T \in SUBSET S |-> g[T]]
           h == [T \in SUBSET S |-> IF T = {} THEN 0 ELSE First(T).slots + f[T \ {First(T)}]]
<1>3. ASSUME NEW T \in SUBSET S PROVE f[T] = h[T]
  <2>1. f[T] = g[T] /\ f[T \ {First(T)}] = g[T \ {First(T)}]
    OBVIOUS
  <2>2. T # {} => SlotOf[First(T)] = First(T).slots
    BY FirstIn DEF SlotOf
  <2>3. Adds(g, SlotOf, T)
    BY <1>2 DEF IsSum
  <2>4. h[T] = IF T = {} THEN 0 ELSE First(T).slots + f[T \ {First(T)}]
    OBVIOUS
  <2> HIDE DEF f, h
  <2> QED BY <2>1, <2>2, <2>3, <2>4 DEF Adds
<1>4. f = h
  BY <1>3, Zenon
<1>5. Rec(f)
  <2> HIDE DEF f
  <2> QED BY <1>4, Zenon
<1> HIDE DEF f
<1>6. Rec(iter)
  <2> HIDE DEF Rec
  <2> QED BY <1>5
<1> HIDE DEF iter
<1>7. ASSUME NEW T \in SUBSET S PROVE Adds(iter, SlotOf, T)
  <2>1. iter[T] = IF T = {} THEN 0 ELSE First(T).slots + iter[T \ {First(T)}]
    BY <1>6, Zenon
  <2>2. T # {} => SlotOf[First(T)] = First(T).slots
    BY FirstIn DEF SlotOf
  <2> QED BY <2>1, <2>2 DEF Adds
<1> QED BY <1>1, <1>7 DEF IsSum

LEMMA SlotType ==
  ASSUME NEW t \in Tx PROVE SlotOf[t] = t.slots /\ SlotOf[t] \in Nat
BY TxType DEF SlotOf

(* Within one set of transactions the sums of the subsets are one function. *)
LEMMA SlotsFunction ==
  ASSUME NEW S \in SUBSET Tx, IsFiniteSet(S)
  PROVE  \E f : /\ IsSum(f, SlotOf, S)
                /\ \A T \in SUBSET S : IsFiniteSet(T) /\ Slots(T) = f[T] /\ Slots(T) \in Nat
<1>1. PICK f : IsSum(f, SlotOf, S)
  BY SumExists
<1>2. ASSUME NEW T \in SUBSET S PROVE IsFiniteSet(T) /\ Slots(T) = f[T] /\ Slots(T) \in Nat
  <2>1. IsFiniteSet(T) /\ T \in SUBSET Tx
    BY FS_Subset
  <2>2. PICK g : IsSum(g, SlotOf, T) /\ Slots(T) = g[T]
    BY <2>1, SlotsIsSum
  <2>3. f[T] = g[T]
    BY <1>1, <2>1, <2>2, SumUnique
  <2>4. f[T] \in Nat
    BY <1>1, <2>1, SlotType, SumType
  <2> QED BY <2>1, <2>2, <2>3, <2>4
<1> QED BY <1>1, <1>2

LEMMA SlotsAdd ==
  ASSUME NEW S \in SUBSET Tx, IsFiniteSet(S), NEW t \in Tx, t \notin S
  PROVE  Slots(S) \in Nat /\ Slots(S \cup {t}) = Slots(S) + t.slots
<1> DEFINE U == S \cup {t}
<1>1. U \in SUBSET Tx /\ IsFiniteSet(U) /\ S \in SUBSET U /\ t \in U \ S
  BY FS_AddElement
<1> HIDE DEF U
<1>2. PICK f : /\ IsSum(f, SlotOf, U)
               /\ \A T \in SUBSET U : IsFiniteSet(T) /\ Slots(T) = f[T] /\ Slots(T) \in Nat
  BY <1>1, SlotsFunction
<1>3. f[S \cup {t}] = f[S] + SlotOf[t]
  <2>1. \A u \in U : SlotOf[u] \in Nat
    BY <1>1, SlotType
  <2>2. IsFiniteSet(U) /\ IsSum(f, SlotOf, U) /\ S \in SUBSET U /\ t \in U \ S
    BY <1>1, <1>2
  <2>3. t \in U
    BY <2>2
  <2> QED BY <2>1, <2>2, <2>3, SumAdd
<1>4. Slots(U) = f[U] /\ Slots(S) = f[S] /\ Slots(S) \in Nat
  BY <1>1, <1>2
<1> QED BY <1>3, <1>4, SlotType DEF U

(* The slots of a set are those of a part and those of the rest. *)
SplitBy(S, D) ==
    /\ Slots(S) \in Nat /\ Slots(D) \in Nat /\ Slots(S \ D) \in Nat
    /\ Slots(S) = Slots(S \ D) + Slots(D)

LEMMA SlotsSplit ==
  ASSUME NEW S \in SUBSET Tx, IsFiniteSet(S), NEW D \in SUBSET S
  PROVE  SplitBy(S, D)
<1>1. PICK f : /\ IsSum(f, SlotOf, S)
               /\ \A T \in SUBSET S : IsFiniteSet(T) /\ Slots(T) = f[T] /\ Slots(T) \in Nat
  BY SlotsFunction
<1> DEFINE Ok(U) == Slots(S) = Slots(S \ U) + Slots(U)
           Bad == {U \in SUBSET S : ~Ok(U)}
<1>2. Bad = {}
  <2> SUFFICES ASSUME Bad # {} PROVE FALSE
    OBVIOUS
  <2>1. PICK U \in Bad : IsFiniteSet(U) /\ \A z \in U : U \ {z} \notin Bad
    <3>1. Bad \in SUBSET (SUBSET S)
      OBVIOUS
    <3> HIDE DEF Bad
    <3> QED BY <3>1, MinimalSubset, Zenon
  <2> HIDE DEF Ok
  <2>2. U \in SUBSET S /\ ~Ok(U) /\ \A z \in U : Ok(U \ {z})
    BY <2>1
  <2> HIDE DEF Bad
  <2>3. U # {}
    <3> SUFFICES ASSUME U = {} PROVE FALSE
      OBVIOUS
    <3>1. {} \in SUBSET S
      OBVIOUS
    <3>2. Adds(f, SlotOf, {}) /\ Slots({}) = f[{}]
      BY <1>1, <3>1, Zenon DEF IsSum
    <3>3. Slots({}) = 0
      BY <3>2 DEF Adds
    <3>4. S \ U = S /\ Slots(S) \in Nat
      BY <1>1
    <3>5. Slots(S) = Slots(S) + Slots({})
      BY <3>3, <3>4
    <3> QED BY <2>2, <3>4, <3>5, Zenon DEF Ok
  <2>4. PICK x \in U : TRUE
    BY <2>3
  <2> DEFINE Q == U \ {x}
             L == S \ U
  <2>5. Q \in SUBSET S /\ x \in Tx /\ x \notin Q /\ U = Q \cup {x} /\ Ok(Q)
    BY <2>2, <2>4
  <2>6. L \in SUBSET S /\ x \notin L /\ S \ Q = L \cup {x}
    BY <2>2, <2>4
  <2> HIDE DEF Q, L
  <2>7. Slots(S) = Slots(S \ Q) + Slots(Q)
    BY <2>5 DEF Ok
  <2>8. Q \in SUBSET Tx /\ IsFiniteSet(Q) /\ L \in SUBSET Tx /\ IsFiniteSet(L)
    BY <1>1, <2>5, <2>6
  <2>9. Slots(Q) \in Nat /\ Slots(Q \cup {x}) = Slots(Q) + x.slots
    BY <2>5, <2>8, SlotsAdd
  <2>10. Slots(L) \in Nat /\ Slots(L \cup {x}) = Slots(L) + x.slots
    BY <2>5, <2>6, <2>8, SlotsAdd
  <2>11. x.slots \in Nat
    BY <2>5, TxType
  <2>12. Slots(S) = (Slots(L) + x.slots) + Slots(Q) /\ Slots(U) = Slots(Q) + x.slots
    BY <2>5, <2>6, <2>7, <2>9, <2>10, Zenon
  <2>13. Slots(S) = Slots(L) + Slots(U)
    BY <2>9, <2>10, <2>11, <2>12
  <2> QED BY <2>2, <2>13 DEF L, Ok
<1>3. S \ D \in SUBSET S /\ S \in SUBSET S
  OBVIOUS
<1>4. Ok(D)
  <2> HIDE DEF Ok
  <2> QED BY <1>2
<1> QED BY <1>1, <1>3, <1>4 DEF SplitBy

LEMMA SlotsOfPart ==
  ASSUME NEW S \in SUBSET Tx, IsFiniteSet(S), NEW D \in SUBSET S
  PROVE  Slots(D) \in Nat /\ Slots(S) \in Nat /\ Slots(D) <= Slots(S)
<1>1. SplitBy(S, D)
  BY SlotsSplit
<1> QED BY <1>1 DEF SplitBy

-------------------------------------------------------------------------------
(* TotalAt. *)

LEMMA OfFinite ==
  ASSUME NEW P, IsFiniteSet(P), NEW a
  PROVE  Of(P, a) \subseteq P /\ IsFiniteSet(Of(P, a)) /\ Cardinality(Of(P, a)) \in Nat
<1>1. Of(P, a) \subseteq P
  BY DEF Of
<1>2. IsFiniteSet(Of(P, a))
  BY <1>1, FS_Subset
<1> QED BY <1>1, <1>2, FS_CardinalityType

LEMMA TotalAtIsSum ==
  ASSUME NEW len, NEW level
  PROVE  \E f : /\ IsSum(f, [a \in Addr |-> CutLen(len, level, a)], Addr)
                /\ TotalAt(len, level) = f[Addr]
<1> DEFINE w == [a \in Addr |-> CutLen(len, level, a)]
           Rec(f) == f = [T \in SUBSET Addr |-> IF T = {} THEN 0
                            ELSE CutLen(len, level, First(T)) + f[T \ {First(T)}]]
           iter == CHOOSE f : Rec(f)
<1>1. TotalAt(len, level) = iter[Addr]
  BY DEF TotalAt, MapThenSumSet, MapThenFoldSet, First
<1>2. \A T \in SUBSET Addr : T # {} => w[First(T)] = CutLen(len, level, First(T))
  BY FirstIn
<1> HIDE DEF w
<1>3. PICK g : IsSum(g, w, Addr)
  BY ConfigAssumption, SumExists
<1> DEFINE f == [T \in SUBSET Addr |-> g[T]]
           h == [T \in SUBSET Addr |-> IF T = {} THEN 0
                    ELSE CutLen(len, level, First(T)) + f[T \ {First(T)}]]
<1>4. ASSUME NEW T \in SUBSET Addr PROVE f[T] = h[T]
  <2>1. f[T] = g[T] /\ f[T \ {First(T)}] = g[T \ {First(T)}]
    OBVIOUS
  <2>2. Adds(g, w, T)
    BY <1>3 DEF IsSum
  <2>3. h[T] = IF T = {} THEN 0 ELSE CutLen(len, level, First(T)) + f[T \ {First(T)}]
    OBVIOUS
  <2> HIDE DEF f, h
  <2> QED BY <1>2, <2>1, <2>2, <2>3 DEF Adds
<1>5. f = h
  BY <1>4, Zenon
<1>6. Rec(f)
  <2> HIDE DEF f
  <2> QED BY <1>5, Zenon
<1> HIDE DEF f
<1>7. Rec(iter)
  <2> HIDE DEF Rec
  <2> QED BY <1>6
<1> HIDE DEF iter
<1>8. ASSUME NEW T \in SUBSET Addr PROVE Adds(iter, w, T)
  <2>1. iter[T] = IF T = {} THEN 0 ELSE CutLen(len, level, First(T)) + iter[T \ {First(T)}]
    BY <1>7, Zenon
  <2> QED BY <1>2, <2>1 DEF Adds
<1>9. IsSum(iter, w, Addr)
  BY <1>8 DEF IsSum
<1> QED BY <1>1, <1>9 DEF w

(* A set has at most as many transactions as its accounts are allowed. *)
LEMMA AtMostSum ==
  ASSUME NEW Q \in SUBSET Tx, IsFiniteSet(Q), NEW w, NEW f, IsSum(f, w, Addr),
         \A a \in Addr : w[a] \in Nat /\ Cardinality(Of(Q, a)) <= w[a]
  PROVE  Cardinality(Q) <= f[Addr]
<1> DEFINE R(B) == {t \in Q : t.from \in B}
           Ok(B) == Cardinality(R(B)) <= f[B]
           Bad == {B \in SUBSET Addr : ~Ok(B)}
<1>0. IsFiniteSet(Addr)
  BY ConfigAssumption
<1>1. ASSUME NEW B \in SUBSET Addr
      PROVE  f[B] \in Nat /\ IsFiniteSet(R(B)) /\ Cardinality(R(B)) \in Nat
  <2>1. IsFiniteSet(B)
    BY <1>0, FS_Subset
  <2>2. R(B) \subseteq Q
    OBVIOUS
  <2> HIDE DEF R
  <2>3. IsFiniteSet(R(B))
    BY <2>2, FS_Subset
  <2>4. f[B] \in Nat
    BY <2>1, SumType
  <2> QED BY <2>3, <2>4, FS_CardinalityType
<1>2. Bad = {}
  <2> SUFFICES ASSUME Bad # {} PROVE FALSE
    BY Zenon
  <2>1. PICK B \in Bad : IsFiniteSet(B) /\ \A z \in B : B \ {z} \notin Bad
    <3>1. Bad \in SUBSET (SUBSET Addr)
      OBVIOUS
    <3> HIDE DEF Bad
    <3> QED BY <1>0, <3>1, MinimalSubset, Zenon
  <2> HIDE DEF Ok
  <2>2. B \in SUBSET Addr /\ ~Ok(B) /\ \A z \in B : Ok(B \ {z})
    BY <2>1
  <2> HIDE DEF Bad
  <2>3. Adds(f, w, B) /\ f[B] \in Nat
    BY <1>1, <2>2, Zenon DEF IsSum
  <2>4. B # {}
    <3> SUFFICES ASSUME B = {} PROVE FALSE
      OBVIOUS
    <3>1. R(B) = {}
      OBVIOUS
    <3> HIDE DEF R
    <3>2. Cardinality(R(B)) = 0
      BY <3>1, FS_EmptySet
    <3> QED BY <2>2, <2>3, <3>2 DEF Ok
  <2> DEFINE c == First(B)
             E == B \ {c}
             O == Of(Q, c)
  <2>5. c \in B /\ c \in Addr /\ E \in SUBSET Addr
    BY <2>2, <2>4, FirstIn
  <2>6. f[B] = w[c] + f[E]
    BY <2>3, <2>4 DEF Adds
  <2> HIDE DEF c
  <2>7. R(B) = R(E) \cup O /\ R(E) \cap O = {}
    BY <2>5 DEF Of
  <2>8. IsFiniteSet(O) /\ Cardinality(O) \in Nat
    BY OfFinite
  <2>9. Ok(E)
    BY <2>2, <2>5
  <2> HIDE DEF E, O, R
  <2>10. Cardinality(R(E)) <= f[E]
    BY <2>5, <2>9 DEF Ok
  <2>11. f[E] \in Nat /\ IsFiniteSet(R(E)) /\ Cardinality(R(E)) \in Nat
    BY <1>1, <2>5, Zenon
  <2>12. Cardinality(R(B)) = Cardinality(R(E)) + Cardinality(O)
    <3>1. Cardinality({}) = 0
      BY FS_EmptySet
    <3>2. Cardinality(R(E) \cup O) = Cardinality(R(E)) + Cardinality(O) - Cardinality(R(E) \cap O)
      BY <2>8, <2>11, FS_Union
    <3>3. Cardinality(R(B)) = Cardinality(R(E)) + Cardinality(O) - 0
      BY <2>7, <3>1, <3>2, Zenon
    <3> QED BY <2>8, <2>11, <3>3
  <2>13. w[c] \in Nat /\ Cardinality(O) <= w[c]
    BY <2>5 DEF O
  <2>14. Cardinality(R(B)) <= f[B]
    BY <2>6, <2>8, <2>10, <2>11, <2>12, <2>13
  <2> QED BY <2>2, <2>14 DEF Ok
<1>3. R(Addr) = Q
  BY TxType
<1>4. Ok(Addr)
  <2>1. Addr \in SUBSET Addr
    OBVIOUS
  <2> HIDE DEF Ok
  <2> QED BY <1>2, <2>1
<1> QED BY <1>3, <1>4

-------------------------------------------------------------------------------
(* The bounds, of a pool and of its pending transactions. *)

Bounded(P) ==
    \/ Cardinality(P) <= GlobalSlots
    \/ \A a \in Addr : Cardinality(Of(P, a)) <= AccountSlots

Within(p) == Slots(p.all) <= GlobalSlots + GlobalQueue /\ Bounded(p.pending)

LEMMA BoundedPart ==
  ASSUME NEW P, IsFiniteSet(P), NEW Q \in SUBSET P, Bounded(P)
  PROVE  Bounded(Q)
<1>1. GlobalSlots \in Nat /\ AccountSlots \in Nat
  BY ConfigAssumption
<1>2. /\ Cardinality(Q) <= Cardinality(P) /\ Cardinality(P) \in Nat /\ Cardinality(Q) \in Nat
  BY FS_Subset, FS_CardinalityType
<1>3. ASSUME NEW a \in Addr
      PROVE  /\ Cardinality(Of(Q, a)) <= Cardinality(Of(P, a))
             /\ Cardinality(Of(P, a)) \in Nat /\ Cardinality(Of(Q, a)) \in Nat
  <2>1. Of(Q, a) \subseteq Of(P, a)
    BY DEF Of
  <2>2. IsFiniteSet(Of(P, a))
    BY OfFinite
  <2> QED BY <2>1, <2>2, FS_Subset, FS_CardinalityType
<1>4. CASE Cardinality(P) <= GlobalSlots
  BY <1>1, <1>2, <1>4 DEF Bounded
<1>5. CASE \A a \in Addr : Cardinality(Of(P, a)) <= AccountSlots
  BY <1>1, <1>3, <1>5 DEF Bounded
<1> QED BY <1>4, <1>5 DEF Bounded

(* Cap keeps at most k transactions: those before the last of them are fewer. *)
LEMMA CapToSize ==
  ASSUME NEW S \in SUBSET Tx, IsFiniteSet(S), NEW k \in Nat,
         \A t, u \in S : t.nonce = u.nonce => t = u
  PROVE  Cardinality(CapTo(S, k)) <= k
<1> DEFINE C == CapTo(S, k)
           N == {t.nonce : t \in C}
<1>1. C \subseteq S
  BY DEF CapTo
<1>2. IsFiniteSet(C) /\ Cardinality(C) \in Nat
  BY <1>1, FS_Subset, FS_CardinalityType
<1>3. CASE C = {}
  <2>1. Cardinality(C) = 0
    BY <1>3, FS_EmptySet
  <2> QED BY <2>1
<1>4. CASE C # {}
  <2>1. N \in SUBSET Nat /\ N # {}
    <3> HIDE DEF C
    <3> QED BY <1>1, <1>4, TxType
  <2>2. IsFiniteSet(N)
    <3> HIDE DEF C
    <3> DEFINE f == [t \in C |-> t.nonce]
    <3>1. f \in Surjection(C, N)
      BY DEF Surjection
    <3> HIDE DEF f, N
    <3> QED BY <1>2, <3>1, FS_Surjection
  <2>3. PICK m \in N : \A n \in N : n <= m
    <3> HIDE DEF N
    <3> QED BY <2>1, <2>2, GreatestNat
  <2>4. PICK t \in C : t.nonce = m
    OBVIOUS
  <2> DEFINE B == {u \in S : u.nonce < t.nonce}
  <2>5. Cardinality(B) < k
    BY DEF CapTo
  <2>6. C \ {t} \subseteq B
    <3> SUFFICES ASSUME NEW u \in C, u # t PROVE u.nonce < t.nonce
      BY <1>1
    <3>1. u \in S /\ t \in S /\ u.nonce \in Nat /\ t.nonce \in Nat
      BY <1>1, TxType
    <3>2. u.nonce <= t.nonce
      BY <2>3, <2>4
    <3> QED BY <3>1, <3>2
  <2>7. IsFiniteSet(B) /\ Cardinality(B) \in Nat
    <3>1. B \subseteq S
      OBVIOUS
    <3> HIDE DEF B
    <3> QED BY <3>1, FS_Subset, FS_CardinalityType
  <2> HIDE DEF B, C
  <2>8. Cardinality(C \ {t}) <= Cardinality(B)
    BY <2>6, <2>7, FS_Subset
  <2>9. Cardinality(C \ {t}) = Cardinality(C) - 1
    <3>1. t \in C
      BY <2>4
    <3> HIDE DEF N
    <3>2. Cardinality(C \ {t}) = IF t \in C THEN Cardinality(C) - 1 ELSE Cardinality(C)
      BY <1>2, FS_RemoveElement, Zenon
    <3> QED BY <3>1, <3>2
  <2> QED BY <1>2, <2>5, <2>7, <2>8, <2>9 DEF C
<1> QED BY <1>3, <1>4

(* truncatePending establishes the bound on the pending transactions. *)
LEMMA TruncateBounds ==
  ASSUME NEW p \in Pool, Lists(p), IsFiniteSet(p.all)
  PROVE  Bounded(truncatePending(p).pending)
<1> DEFINE P == p.pending
           len == [a \in Addr |-> Cardinality(Of(P, a))]
           lv == Level(len)
           cap(a) == CutLen(len, lv, a)
           top(a) == CapTo(Of(P, a), cap(a))
           cut == UNION {Of(P, a) \ top(a) : a \in Addr}
           Q == truncatePending(p).pending
<1>1. Q = P \ cut
  <2>1. truncatePending(p) = [p EXCEPT !.pending = P \ cut, !.all = p.all \ cut,
                                       !.nonces = LoweredNonces(p, cut)]
    BY DEF truncatePending
  <2> HIDE DEF cut
  <2> QED BY <2>1 DEF Pool
<1>2. P \in SUBSET Tx /\ IsFiniteSet(P) /\ \A t, u \in P : SameSlot(t, u) => t = u
  <2>1. P \subseteq p.all
    BY DEF Lists
  <2>2. IsFiniteSet(P)
    BY <2>1, FS_Subset
  <2> QED BY <2>1, <2>2 DEF Lists, Pool
<1>3. Q \in SUBSET Tx /\ IsFiniteSet(Q)
  <2>1. Q \subseteq P
    BY <1>1
  <2> HIDE DEF Q, P
  <2> QED BY <1>2, <2>1, FS_Subset
<1>4. CASE Addr = {}
  BY <1>4 DEF Bounded
<1>5. CASE Addr # {}
  <2>1. /\ lv \in Nat /\ lv >= AccountSlots
        /\ lv = AccountSlots \/ TotalAt(len, lv) <= GlobalSlots
    <3>1. PICK a \in Addr : TRUE
      BY <1>5
    <3> HIDE DEF P
    <3> QED BY <1>2, <3>1, LevelChosen
  <2>2. AccountSlots \in Nat
    BY ConfigAssumption
  <2> HIDE DEF lv
  <2>3. ASSUME NEW a \in Addr
        PROVE  cap(a) \in Nat /\ (lv = AccountSlots => cap(a) <= AccountSlots)
    <3>1. len[a] \in Nat
      BY <1>2, OfFinite
    <3> HIDE DEF len
    <3>2. CASE len[a] > AccountSlots
      <4> DEFINE M == {len[a], lv}
      <4>1. Min(M) \in M /\ \A n \in M : Min(M) <= n
        <5>1. M \in SUBSET Nat /\ M # {}
          BY <2>1, <3>1
        <5> HIDE DEF M
        <5> QED BY <5>1, MinIsLeast
      <4>2. cap(a) = Min(M)
        BY <3>2 DEF CutLen
      <4>3. cap(a) \in M /\ cap(a) <= lv
        BY <4>1, <4>2
      <4> HIDE DEF cap
      <4> QED BY <2>1, <3>1, <4>3
    <3>3. CASE ~(len[a] > AccountSlots)
      <4>1. cap(a) = len[a]
        BY <3>3 DEF CutLen
      <4> HIDE DEF cap
      <4> QED BY <2>2, <3>1, <3>3, <4>1
    <3> QED BY <3>2, <3>3
  <2>4. ASSUME NEW a \in Addr
        PROVE  Cardinality(Of(Q, a)) \in Nat /\ Cardinality(Of(Q, a)) <= cap(a)
    <3> DEFINE S == Of(P, a)
               k == cap(a)
    <3>1. S \in SUBSET Tx /\ IsFiniteSet(S) /\ \A t, u \in S : t.nonce = u.nonce => t = u
      <4>1. S \subseteq P /\ IsFiniteSet(S)
        BY <1>2, OfFinite
      <4>2. \A t, u \in S : t.from = u.from
        BY DEF Of
      <4> HIDE DEF S, P
      <4> QED BY <1>2, <4>1, <4>2, Zenon DEF SameSlot
    <3>2. Of(Q, a) \subseteq top(a)
      <4> HIDE DEF top
      <4> QED BY <1>1 DEF Of
    <3>3. k \in Nat
      BY <2>3
    <3>4. top(a) = CapTo(S, k)
      OBVIOUS
    <3> HIDE DEF S, k, Q, top
    <3>5. Cardinality(CapTo(S, k)) <= k
      BY <3>1, <3>3, CapToSize
    <3>6. IsFiniteSet(CapTo(S, k)) /\ Cardinality(CapTo(S, k)) \in Nat
      <4>1. CapTo(S, k) \subseteq S
        BY DEF CapTo
      <4> QED BY <3>1, <4>1, FS_Subset, FS_CardinalityType
    <3>7. Cardinality(Of(Q, a)) <= Cardinality(CapTo(S, k)) /\ Cardinality(Of(Q, a)) \in Nat
      BY <3>2, <3>4, <3>6, FS_Subset, FS_CardinalityType
    <3> QED BY <3>3, <3>5, <3>6, <3>7 DEF k
  <2>5. CASE lv = AccountSlots
    <3>1. \A a \in Addr : Cardinality(Of(Q, a)) <= AccountSlots
      <4> HIDE DEF cap, Q
      <4> QED BY <2>2, <2>3, <2>4, <2>5
    <3> QED BY <3>1 DEF Bounded
  <2>6. CASE TotalAt(len, lv) <= GlobalSlots
    <3> HIDE DEF len, Q
    <3> DEFINE w == [a \in Addr |-> cap(a)]
    <3>1. PICK f : IsSum(f, w, Addr) /\ TotalAt(len, lv) = f[Addr]
      BY TotalAtIsSum
    <3>2. \A a \in Addr : w[a] \in Nat /\ Cardinality(Of(Q, a)) <= w[a]
      BY <2>3, <2>4
    <3> HIDE DEF w
    <3>3. Cardinality(Q) <= f[Addr]
      BY <1>3, <3>1, <3>2, AtMostSum, Zenon
    <3>4. f[Addr] \in Nat
      BY <3>1, <3>2, ConfigAssumption, SumType
    <3>5. Cardinality(Q) \in Nat /\ GlobalSlots \in Nat
      BY <1>3, ConfigAssumption, FS_CardinalityType
    <3>6. f[Addr] <= GlobalSlots
      BY <2>6, <3>1, Zenon
    <3>7. Cardinality(Q) <= GlobalSlots
      BY <3>3, <3>4, <3>5, <3>6, SMTT(30)
    <3> QED BY <3>7 DEF Bounded, Q
  <2> QED BY <2>1, <2>5, <2>6
<1> QED BY <1>4, <1>5

-------------------------------------------------------------------------------
(* What the operations add to and take from a pool. *)

LEMMA WithinPart ==
  ASSUME NEW p, Good(p, {}), Within(p), NEW q, q.all \subseteq p.all, q.pending \subseteq p.pending
  PROVE  Within(q)
<1>1. p.all \in SUBSET Tx /\ IsFiniteSet(p.all) /\ p.pending \subseteq p.all
  BY DEF Good, Pool, Lists
<1>2. IsFiniteSet(p.pending)
  BY <1>1, FS_Subset
<1>3. Bounded(q.pending)
  BY <1>2, BoundedPart DEF Within
<1>4. Slots(q.all) \in Nat /\ Slots(p.all) \in Nat /\ Slots(q.all) <= Slots(p.all)
  BY <1>1, SlotsOfPart
<1>5. GlobalSlots \in Nat /\ GlobalQueue \in Nat
  BY ConfigAssumption
<1>6. Slots(p.all) <= GlobalSlots + GlobalQueue
  BY DEF Within
<1> QED BY <1>3, <1>4, <1>5, <1>6 DEF Within

LEMMA RemoveWithin ==
  ASSUME NEW p, Good(p, {}), Within(p), NEW D \in SUBSET p.all
  PROVE  Within(removeTx(p, D, {}))
<1> DEFINE q == removeTx(p, D, {})
<1>1. p \in Pool /\ Lists(p)
  BY DEF Good
<1>2. Removed(q, p, D, {})
  BY <1>1, RemoveFields
<1> HIDE DEF q
<1>3. q.all \subseteq p.all /\ q.pending \subseteq p.pending
  BY <1>2 DEF Removed
<1>4. Within(q)
  BY <1>3, WithinPart
<1> QED BY <1>4 DEF q

LEMMA PromoteTakes ==
  ASSUME NEW p, Good(p, {}), NEW s, NEW A \in SUBSET Addr
  PROVE  promoteExecutables(p, s, A).all \subseteq p.all
<1>1. p \in Pool /\ Lists(p) /\ IsFiniteSet(p.all) /\ Holds(p, {})
  BY DEF Good
<1>2. PICK q, wins, rest, O :
         /\ O = {a \in A : Of(p.queue, a) # {}}
         /\ PromotedOf(q, p, s, O, wins, rest)
         /\ promoteExecutables(p, s, A) = Relinquish(q, O)
  BY <1>1, PromoteFields, SMTT(30)
<1>3. q \in Pool /\ q.all \subseteq p.all
  BY <1>2 DEF PromotedOf
<1>4. Relinquish(q, O).all = q.all
  BY <1>3, RelinquishFields
<1> QED BY <1>2, <1>3, <1>4

LEMMA DemoteTakes ==
  ASSUME NEW p, Good(p, {}), NEW s
  PROVE  demoteUnexecutables(p, s).all \subseteq p.all
<1>1. p \in Pool /\ Lists(p)
  BY DEF Good
<1>2. PICK q, kept, demoted :
         /\ kept = UNION {Executable(p, s, a) : a \in Addr}
         /\ kept \subseteq p.pending /\ demoted \subseteq p.pending \ kept
         /\ DemotedTo(q, p, kept, demoted)
         /\ demoteUnexecutables(p, s) = Relinquish(q, {t.from : t \in p.pending})
  BY <1>1, DemoteFields, Zenon
<1>3. q \in Pool /\ q.all \subseteq p.all
  BY <1>2 DEF DemotedTo
<1> DEFINE O == {t.from : t \in p.pending}
<1> HIDE DEF O
<1>4. Relinquish(q, O).all = q.all
  BY <1>3, RelinquishFields
<1>5. demoteUnexecutables(p, s) = Relinquish(q, O)
  BY <1>2 DEF O
<1> QED BY <1>3, <1>4, <1>5

(* A run of the reorg goroutine takes nothing in, and truncates. *)
LEMMA RunReorgWithin ==
  ASSUME NEW p, Good(p, {}), Within(p), NEW s \in Heads, NEW A \in SUBSET Addr,
         NEW resetting \in BOOLEAN, NEW q \in runReorg(p, s, A, resetting)
  PROVE  Within(q)
<1> DEFINE promoted == promoteExecutables(p, s, A)
           demoted == demoteUnexecutables(promoted, s)
           settled == IF resetting THEN setAll(demoted, s) ELSE promoted
           cut == truncatePending(settled)
<1>1. PICK r \in truncateQueue(cut) : q = [r EXCEPT !.changes = 0]
  BY DEF runReorg
<1>2. Good(promoted, {}) /\ promoted.all \subseteq p.all
  BY PromoteGood, PromoteTakes, Zenon
<1> HIDE DEF promoted
<1>3. Good(demoted, {}) /\ Front(demoted, s) /\ demoted.all \subseteq promoted.all
  <2>1. promoted \in Pool /\ Lists(promoted)
    BY <1>2, Zenon DEF Good
  <2> QED BY <1>2, <2>1, DemoteGood, DemoteFront, DemoteTakes, Zenon
<1> HIDE DEF demoted
<1>4. Good(settled, {}) /\ settled.all \subseteq p.all
  <2>1. CASE resetting
    <3>1. Good(setAll(demoted, s), {})
      BY <1>3, SetAllKeeps
    <3>2. setAll(demoted, s).all = demoted.all
      BY <1>3, Zenon DEF setAll, Good, Pool
    <3> QED BY <1>2, <1>3, <2>1, <3>1, <3>2, Zenon
  <2>2. CASE ~resetting
    BY <1>2, <2>2, Zenon
  <2> QED BY <2>1, <2>2, Zenon
<1> HIDE DEF settled
<1>5. settled \in Pool /\ Lists(settled) /\ IsFiniteSet(settled.all)
  BY <1>4, Zenon DEF Good
<1>6. Good(cut, {}) /\ Bounded(cut.pending)
  BY <1>4, <1>5, TruncatePendingGood, TruncateBounds, Zenon
<1>7. PICK gone : TruncatedOf(cut, settled, gone)
  BY <1>5, TruncateFields, Zenon
<1> HIDE DEF cut
<1>8. cut.all \subseteq p.all
  BY <1>4, <1>7 DEF TruncatedOf
<1>9. Within(cut)
  <2>1. p.all \in SUBSET Tx /\ IsFiniteSet(p.all)
    BY DEF Good, Pool
  <2>2. Slots(cut.all) \in Nat /\ Slots(p.all) \in Nat /\ Slots(cut.all) <= Slots(p.all)
    BY <1>8, <2>1, SlotsOfPart
  <2>3. GlobalSlots \in Nat /\ GlobalQueue \in Nat /\ Slots(p.all) <= GlobalSlots + GlobalQueue
    BY ConfigAssumption DEF Within
  <2> QED BY <1>6, <2>2, <2>3 DEF Within
<1>10. PICK order : r = removeTx(cut, LastDropped(cut, order), {})
  BY Zenon DEF truncateQueue
<1> DEFINE D == LastDropped(cut, order)
<1>11. D \in SUBSET cut.all
  BY <1>6, Zenon DEF LastDropped, Good, Lists
<1> HIDE DEF D
<1>12. Within(removeTx(cut, D, {})) /\ Good(removeTx(cut, D, {}), {})
  BY <1>6, <1>9, <1>11, RemoveWithin, RemoveGood
<1>13. Within(r) /\ r \in Pool
  BY <1>10, <1>12 DEF D, Good
<1>14. q.all = r.all /\ q.pending = r.pending
  BY <1>1, <1>13 DEF Pool
<1> QED BY <1>13, <1>14 DEF Within

-------------------------------------------------------------------------------
(* add. *)

LEMMA SwapSize ==
  ASSUME NEW P, IsFiniteSet(P), NEW o \in P, NEW x
  PROVE  /\ IsFiniteSet((P \ {o}) \cup {x}) /\ Cardinality(P) \in Nat
         /\ Cardinality((P \ {o}) \cup {x}) \in Nat
         /\ Cardinality((P \ {o}) \cup {x}) <= Cardinality(P)
<1> DEFINE E == P \ {o}
<1>1. IsFiniteSet(E) /\ Cardinality(E) = Cardinality(P) - 1
  BY FS_RemoveElement
<1>2. Cardinality(P) \in Nat /\ Cardinality(E) \in Nat
  BY <1>1, FS_CardinalityType
<1> HIDE DEF E
<1>3. /\ IsFiniteSet(E \cup {x})
      /\ Cardinality(E \cup {x}) = Cardinality(E) \/ Cardinality(E \cup {x}) = Cardinality(E) + 1
  BY <1>1, FS_AddElement
<1> QED BY <1>1, <1>2, <1>3 DEF E

(* A replacement leaves the lengths of the lists alone. *)
LEMMA SwapBounded ==
  ASSUME NEW P, IsFiniteSet(P), NEW o \in P, NEW tx, SameSlot(o, tx), Bounded(P)
  PROVE  Bounded((P \ {o}) \cup {tx})
<1> DEFINE Q == (P \ {o}) \cup {tx}
<1>1. GlobalSlots \in Nat /\ AccountSlots \in Nat
  BY ConfigAssumption
<1>2. CASE Cardinality(P) <= GlobalSlots
  <2>1. Cardinality(P) \in Nat /\ Cardinality(Q) \in Nat /\ Cardinality(Q) <= Cardinality(P)
    BY SwapSize, Zenon
  <2> HIDE DEF Q
  <2>2. Bounded(Q)
    BY <1>1, <1>2, <2>1 DEF Bounded
  <2> QED BY <2>2 DEF Q
<1>3. CASE \A a \in Addr : Cardinality(Of(P, a)) <= AccountSlots
  <2>1. ASSUME NEW a \in Addr PROVE Cardinality(Of(Q, a)) <= AccountSlots
    <3> DEFINE S == Of(P, a)
    <3>1. IsFiniteSet(S) /\ Cardinality(S) \in Nat /\ Cardinality(S) <= AccountSlots
      BY <1>3, OfFinite
    <3>2. CASE a = tx.from
      <4>1. o \in S /\ Of(Q, a) = (S \ {o}) \cup {tx}
        BY <3>2 DEF Of, SameSlot
      <4> HIDE DEF S, Q
      <4>2. /\ Cardinality((S \ {o}) \cup {tx}) \in Nat
            /\ Cardinality((S \ {o}) \cup {tx}) <= Cardinality(S)
        BY <3>1, <4>1, SwapSize, Zenon
      <4> QED BY <1>1, <3>1, <4>1, <4>2
    <3>3. CASE a # tx.from
      <4>1. Of(Q, a) = S
        BY <3>3 DEF Of, SameSlot
      <4> QED BY <3>1, <4>1
    <3> QED BY <3>2, <3>3
  <2> HIDE DEF Q
  <2>2. Bounded(Q)
    BY <2>1 DEF Bounded
  <2> QED BY <2>2 DEF Q
<1> QED BY <1>2, <1>3 DEF Bounded

(* The drops make room for tx. *)
Suffices(p, tx, D) ==
    /\ D \in SUBSET p.all
    /\ Slots(p.all \ D) \in Nat
    /\ Slots(p.all \ D) + tx.slots <= GlobalSlots + GlobalQueue

LEMMA VictimsSuffice ==
  ASSUME NEW p, Good(p, {}), NEW tx \in Tx, NEW D \in Victims(p, tx)
  PROVE  Suffices(p, tx, D)
<1> DEFINE limit == GlobalSlots + GlobalQueue
<1>1. p.all \in SUBSET Tx /\ IsFiniteSet(p.all) /\ tx.slots \in Nat /\ limit \in Nat
  BY TxType, ConfigAssumption DEF Good, Pool
<1>2. D \in SUBSET p.all
  BY DEF Victims, Discards
<1>3. /\ Slots(p.all) \in Nat /\ Slots(D) \in Nat /\ Slots(p.all \ D) \in Nat
      /\ Slots(p.all) = Slots(p.all \ D) + Slots(D)
  <2>1. SplitBy(p.all, D)
    BY <1>1, <1>2, SlotsSplit
  <2> QED BY <2>1, Zenon DEF SplitBy
<1>4. CASE ~Full(p, tx)
  <2>1. p.all \ D = p.all
    BY <1>4 DEF Victims
  <2>2. ~(Slots(p.all) + tx.slots > limit)
    BY <1>4, Zenon DEF Full
  <2> HIDE DEF limit
  <2>3. Slots(p.all) + tx.slots <= limit
    BY <1>1, <1>3, <2>2
  <2>4. Slots(p.all \ D) + tx.slots <= limit
    BY <2>1, <2>3, Zenon
  <2> QED BY <1>2, <1>3, <2>4, Zenon DEF Suffices, limit
<1>5. CASE Full(p, tx)
  <2>1. D \in Discards(p, tx)
    BY <1>5 DEF Victims
  <2>2. Slots(D) >= Slots(p.all) - limit + tx.slots
    BY <2>1, Zenon DEF Discards
  <2> HIDE DEF limit
  <2>3. Slots(p.all \ D) + tx.slots <= limit
    BY <1>1, <1>3, <2>2
  <2> QED BY <1>2, <1>3, <2>3, Zenon DEF Suffices, limit
<1> QED BY <1>4, <1>5

(* What add may have put into the pool m that it made room in. *)
Taken(q, m, tx) ==
    /\ q.all \subseteq m.all \cup {tx} /\ q.nonces = m.nonces
    /\ \/ q.pending = m.pending
       \/ \E o \in m.pending : SameSlot(o, tx) /\ q.pending = (m.pending \ {o}) \cup {tx}

LEMMA AdmittedTakes ==
  ASSUME NEW p, Good(p, {}), NEW tx \in Tx, tx \notin p.all, NEW D \in SUBSET p.all
  PROVE  Taken(Admitted(p, tx, D).pool, MakeRoom(p, tx, D), tx)
<1> DEFINE m == MakeRoom(p, tx, D)
           r == Insert(m, tx)
           q == Admitted(p, tx, D).pool
<1>1. RoomFor(m, p, tx, D)
  BY MakeRoomKeeps
<1>2. Admitted(p, tx, D) = IF r.ok THEN r ELSE [r EXCEPT !.pool = Relinquish(@, {tx.from})]
  BY DEF Admitted
<1> HIDE DEF m
<1>3. m \in Pool /\ Lists(m)
  BY <1>1, Zenon DEF RoomFor, Good
<1>4. PICK pend, queued :
        /\ pend = {o \in m.pending : SameSlot(o, tx)}
        /\ queued = {o \in m.queue : SameSlot(o, tx)}
        /\ Refused(r, m) \/ TookOver(r, m, tx, pend) \/ Enqueued(r, m, tx, pend, queued)
  BY InsertCases, Zenon
<1>5. CASE Refused(r, m)
  <2>1. q = Relinquish(m, {tx.from})
    <3>1. \E old : r = [pool |-> m, ok |-> FALSE, replaced |-> old]
      <4>1. r.ok = FALSE
        BY <1>5, Zenon DEF Refused
      <4> QED BY <4>1, Zenon DEF Insert
    <3> HIDE DEF r
    <3> QED BY <1>2, <3>1
  <2> DEFINE K == {tx.from}
  <2> HIDE DEF K
  <2>2. /\ Relinquish(m, K).all = m.all /\ Relinquish(m, K).pending = m.pending
        /\ Relinquish(m, K).nonces = m.nonces
    BY <1>3, RelinquishFields
  <2> HIDE DEF q
  <2>3. q.all = m.all /\ q.pending = m.pending /\ q.nonces = m.nonces
    BY <2>1, <2>2 DEF K
  <2>4. Taken(q, m, tx)
    BY <2>3, Zenon DEF Taken
  <2> QED BY <2>4 DEF q, m
<1>6. CASE TookOver(r, m, tx, pend)
  <2>1. /\ pend # {}
        /\ q = [m EXCEPT !.pending = (m.pending \ pend) \cup {tx},
                         !.all     = (m.all \ pend) \cup {tx}]
    <3> HIDE DEF r
    <3> QED BY <1>2, <1>6, Zenon DEF TookOver
  <2> HIDE DEF q
  <2>2. /\ q.pending = (m.pending \ pend) \cup {tx} /\ q.all = (m.all \ pend) \cup {tx}
        /\ q.nonces = m.nonces
    BY <1>3, <2>1 DEF Pool
  <2>3. PICK o \in m.pending : o \in pend /\ SameSlot(o, tx)
    BY <1>4, <2>1
  <2>4. pend = {o}
    <3> SUFFICES ASSUME NEW u \in pend PROVE u = o
      BY <2>3, Zenon
    <3>1. u \in m.pending /\ SameSlot(u, tx)
      BY <1>4
    <3>2. SameSlot(u, o) /\ u \in m.all /\ o \in m.all
      BY <1>3, <2>3, <3>1 DEF SameSlot, Lists
    <3> QED BY <1>3, <3>2 DEF Lists
  <2>5. Taken(q, m, tx)
    BY <2>2, <2>3, <2>4 DEF Taken
  <2> QED BY <2>5 DEF q, m
<1>7. CASE Enqueued(r, m, tx, pend, queued)
  <2>1. q = enqueueTx(m, {tx}, TRUE)
    <3> HIDE DEF r
    <3> QED BY <1>2, <1>7, Zenon DEF Enqueued
  <2> HIDE DEF q
  <2> DEFINE won == {t \in {tx} : \A o \in m.queue : SameSlot(o, t) => Replaces(t, o)}
             olds == {o \in m.queue : \E t \in won : SameSlot(o, t)}
  <2>2. q = [m EXCEPT !.queue = (m.queue \ olds) \cup won, !.all = (m.all \ olds) \cup won]
    BY <2>1 DEF enqueueTx
  <2>3. won \subseteq {tx}
    OBVIOUS
  <2> HIDE DEF won, olds
  <2>4. q.all = (m.all \ olds) \cup won /\ q.pending = m.pending /\ q.nonces = m.nonces
    BY <1>3, <2>2, Zenon DEF Pool
  <2>5. Taken(q, m, tx)
    BY <2>3, <2>4 DEF Taken
  <2> QED BY <2>5 DEF q, m
<1> QED BY <1>4, <1>5, <1>6, <1>7, Zenon

LEMMA AddWithin ==
  ASSUME NEW p, Good(p, {}), Within(p), NEW s, NEW tx \in Tx, NEW r \in add(p, s, tx)
  PROVE  Within(r.pool)
<1>1. CASE r = Rejected(p)
  BY <1>1, Zenon DEF Rejected
<1>2. CASE r # Rejected(p)
  <2>1. tx \notin p.all
    BY <1>2 DEF add
  <2>2. PICK D \in Victims(p, tx) : r = Admitted(p, tx, D)
    BY <1>2, Zenon DEF add
  <2>3. /\ D \in SUBSET p.all /\ Slots(p.all \ D) \in Nat
        /\ Slots(p.all \ D) + tx.slots <= GlobalSlots + GlobalQueue
    <3>1. Suffices(p, tx, D)
      BY VictimsSuffice, Zenon
    <3> QED BY <3>1 DEF Suffices
  <2> DEFINE m == MakeRoom(p, tx, D)
             q == r.pool
             limit == GlobalSlots + GlobalQueue
  <2>4. RoomFor(m, p, tx, D)
    BY <2>3, MakeRoomKeeps, Zenon
  <2>5. Taken(q, m, tx)
    BY <2>1, <2>2, <2>3, AdmittedTakes, Zenon
  <2> HIDE DEF m, q
  <2>6. m.all = p.all \ D /\ m.pending \subseteq p.pending
    BY <2>4, Zenon DEF RoomFor
  <2>7. Slots(q.all) <= limit
    <3> DEFINE B == p.all \ D
               U == B \cup {tx}
    <3>1. B \in SUBSET Tx /\ IsFiniteSet(B) /\ tx \notin B /\ q.all \in SUBSET U
      <4>1. B \subseteq p.all /\ p.all \subseteq Tx /\ IsFiniteSet(p.all)
        BY DEF Good, Pool
      <4>2. IsFiniteSet(B)
        BY <4>1, FS_Subset
      <4> QED BY <2>1, <2>5, <2>6, <4>1, <4>2, Zenon DEF Taken
    <3>2. Slots(B) \in Nat /\ Slots(B) + tx.slots <= limit
      BY <2>3, Zenon
    <3> HIDE DEF B, limit
    <3>3. Slots(U) = Slots(B) + tx.slots
      BY <3>1, SlotsAdd, Zenon
    <3>4. U \in SUBSET Tx /\ IsFiniteSet(U)
      BY <3>1, FS_AddElement, Zenon
    <3> HIDE DEF U
    <3>5. Slots(q.all) \in Nat /\ Slots(U) \in Nat /\ Slots(q.all) <= Slots(U)
      BY <3>1, <3>4, SlotsOfPart
    <3>6. limit \in Nat
      BY ConfigAssumption, SMTT(30) DEF limit
    <3> QED BY <3>2, <3>3, <3>5, <3>6, SMTT(30)
  <2>8. Bounded(q.pending)
    <3>1. IsFiniteSet(p.pending) /\ Bounded(p.pending)
      <4>1. p.pending \subseteq p.all /\ IsFiniteSet(p.all)
        BY Zenon DEF Good, Lists
      <4> QED BY <4>1, FS_Subset, Zenon DEF Within
    <3>2. IsFiniteSet(m.pending) /\ Bounded(m.pending)
      BY <2>6, <3>1, BoundedPart, FS_Subset, Zenon
    <3>3. CASE q.pending = m.pending
      BY <3>2, <3>3, Zenon
    <3>4. ASSUME NEW o \in m.pending, SameSlot(o, tx), q.pending = (m.pending \ {o}) \cup {tx}
          PROVE  Bounded(q.pending)
      BY <3>2, <3>4, SwapBounded, SMTT(30)
    <3> QED BY <2>5, <3>3, <3>4 DEF Taken
  <2>9. Within(q)
    BY <2>7, <2>8 DEF Within
  <2> QED BY <2>9 DEF q
<1> QED BY <1>1, <1>2

-------------------------------------------------------------------------------
(* The actions. *)

(* The inductive invariant. *)
BInv == LInv /\ Within(pool)

LEMMA InitBInv == Init => BInv
<1> SUFFICES ASSUME Init PROVE BInv
  OBVIOUS
<1>1. LInv
  BY InitLInv
<1>2. pool.all = {} /\ pool.pending = {}
  BY DEF Init
<1>3. Slots({}) = 0
  <2>1. {} \in SUBSET Tx /\ IsFiniteSet({})
    BY FS_EmptySet
  <2>2. PICK f : IsSum(f, SlotOf, {}) /\ Slots({}) = f[{}]
    BY <2>1, SlotsIsSum
  <2> QED BY <2>2 DEF IsSum, Adds
<1>4. Cardinality({}) = 0
  BY FS_EmptySet
<1>5. GlobalSlots \in Nat /\ GlobalQueue \in Nat
  BY ConfigAssumption
<1>6. Slots(pool.all) <= GlobalSlots + GlobalQueue
  BY <1>2, <1>3, <1>5
<1>7. Bounded(pool.pending)
  BY <1>2, <1>4, <1>5 DEF Bounded
<1> QED BY <1>1, <1>6, <1>7 DEF BInv, Within

LEMMA ResetWithin ==
  ASSUME BInv, NEW s \in Heads, NEW R \in Lost(s), NEW d \in SUBSET dirty, Reset(s, R, d)
  PROVE  Within(pool')
<1> DEFINE n == Cardinality(R)
           b == [pool EXCEPT !.nonces = s.nonce]
           G == {q \in Pool : Good(q, {}) /\ Within(q)}
<1>1. n \in Nat /\ R \subseteq Tx
  <2>1. PICK k \in 0..MaxReinject :
          R \in kSubset(k, {t \in Tx : t.nonce \in s.nonce[t.from]..(state.nonce[t.from] - 1)})
    BY Zenon DEF Lost
  <2> QED BY <2>1, ConfigAssumption DEF kSubset
<1>2. PICK txs \in Orders(R) : \E p \in Reinject(b, s, txs) : pool' \in runReorg(p, s, Queued(p), TRUE)
  BY Zenon DEF Reset
<1>3. PICK p \in Reinject(b, s, txs) : pool' \in runReorg(p, s, Queued(p), TRUE)
  BY <1>2, Zenon
<1>4. txs \in [1..n -> Tx] /\ Len(txs) = n
  <2>1. txs \in [1..n -> R]
    BY Zenon DEF Orders, Bijection, Injection
  <2> HIDE DEF n
  <2> QED BY <1>1, <2>1
<1>5. b \in G
  <2>0. Good(pool, {}) /\ Within(pool)
    BY DEF BInv, LInv
  <2>1. /\ b \in Pool /\ b.all = pool.all /\ b.pending = pool.pending /\ b.queue = pool.queue
        /\ b.owner = pool.owner
    BY <2>0, HeadType DEF Good, Pool
  <2> HIDE DEF b
  <2>2. Good(b, {})
    BY <2>0, <2>1, Zenon DEF Good, Lists, Holds, Tracked
  <2>3. Within(b)
    BY <2>0, <2>1, Zenon DEF Within
  <2> QED BY <2>1, <2>2, <2>3
<1> HIDE DEF b, n
<1>6. ASSUME NEW q \in G, NEW tx \in Tx, NEW r \in add(q, s, tx) PROVE r.pool \in G
  <2>1. Good(r.pool, {}) /\ Within(r.pool)
    BY AddKeeps, AddWithin
  <2> QED BY <2>1 DEF Good
<1> HIDE DEF G
<1>7. p \in G
  BY <1>1, <1>3, <1>4, <1>5, <1>6, ReinjectStays, Zenon
<1>8. Good(p, {}) /\ Within(p)
  BY <1>7 DEF G
<1>9. Queued(p) \in SUBSET Addr /\ TRUE \in BOOLEAN
  BY <1>8, QueuedType
<1> QED BY <1>3, <1>8, <1>9, RunReorgWithin, Zenon

LEMMA NextBInv == BInv /\ [Next]_vars => BInv'
<1> SUFFICES ASSUME BInv, [Next]_vars PROVE BInv'
  BY Zenon
<1>0. /\ LInv /\ Within(pool) /\ Good(pool, {}) /\ state \in Heads /\ dirty \subseteq Addr
      /\ pool.queue \subseteq pool.all
  BY DEF BInv, LInv, Good, Lists
<1>1. LInv'
  BY <1>0, NextLInv
<1> SUFFICES Within(pool')
  BY <1>1 DEF BInv
<1>2. ASSUME NEW tx \in Tx, Add(tx) PROVE Within(pool')
  <2>1. PICK r \in add(pool, state, tx) : pool' = r.pool
    BY <1>2 DEF Add
  <2> QED BY <1>0, <2>1, AddWithin
<1>3. ASSUME NEW d \in SUBSET dirty, Promote(d) \/ ResetSkipped(d) PROVE Within(pool')
  <2>1. d \in SUBSET Addr /\ Queued(pool) \in SUBSET Addr
    BY <1>0, QueuedType
  <2>2. CASE pool' \in runReorg(pool, state, d, FALSE)
    <3>1. FALSE \in BOOLEAN
      OBVIOUS
    <3> QED BY <1>0, <2>1, <2>2, <3>1, RunReorgWithin, Zenon
  <2>3. CASE pool' \in runReorg(pool, state, Queued(pool), TRUE)
    <3>1. TRUE \in BOOLEAN
      OBVIOUS
    <3> QED BY <1>0, <2>1, <2>3, <3>1, RunReorgWithin, Zenon
  <2> QED BY <1>3, <2>2, <2>3, Zenon DEF Promote, ResetSkipped
<1>4. ASSUME NEW D \in SUBSET pool.all, pool' = removeTx(pool, D, {}) PROVE Within(pool')
  <2>1. Within(removeTx(pool, D, {}))
    BY <1>0, RemoveWithin
  <2> QED BY <1>4, <2>1, Zenon
<1>5. ASSUME NEW tip \in Tips, SetGasTip(tip) PROVE Within(pool')
  <2> DEFINE D == {t \in pool.all : t.price < tip}
  <2>1. D \in SUBSET pool.all
    OBVIOUS
  <2>2. pool' = removeTx(pool, D, {}) \/ pool' = pool
    BY <1>5 DEF SetGasTip
  <2> HIDE DEF D
  <2>3. CASE pool' = pool
    BY <1>0, <2>3, Zenon
  <2> QED BY <1>4, <2>1, <2>2, <2>3, Zenon
<1>6. ASSUME NEW A \in SUBSET Addr, Evict(A) PROVE Within(pool')
  <2> DEFINE D == {t \in pool.queue : t.from \in A}
  <2>1. D \in SUBSET pool.all
    BY <1>0
  <2>2. pool' = removeTx(pool, D, {})
    BY <1>6 DEF Evict
  <2> HIDE DEF D
  <2> QED BY <1>4, <2>1, <2>2, Zenon
<1>7. ASSUME pool'.all \subseteq pool.all, pool'.pending \subseteq pool.pending PROVE Within(pool')
  BY <1>0, <1>7, WithinPart, Zenon
<1>8. CASE Clear
  <2>1. pool \in Pool
    BY <1>0 DEF Good
  <2> DEFINE o == [a \in Addr |-> IF Tracked(pool, a) THEN "free" ELSE pool.owner[a]]
  <2>2. pool' = [pool EXCEPT !.all = {}, !.pending = {}, !.queue = {}, !.nonces = state.nonce,
                             !.owner = o]
    BY <1>8, Zenon DEF Clear
  <2> HIDE DEF o
  <2>3. pool'.all = {} /\ pool'.pending = {}
    BY <2>1, <2>2 DEF Pool
  <2> QED BY <1>7, <2>3
<1>9. ASSUME NEW a \in Addr, OtherHold(a) \/ OtherRelease(a) PROVE Within(pool')
  <2>1. pool \in Pool
    BY <1>0 DEF Good
  <2>2. pool' = [pool EXCEPT !.owner[a] = "other"] \/ pool' = [pool EXCEPT !.owner[a] = "free"]
    BY <1>9 DEF OtherHold, OtherRelease
  <2>3. pool'.all = pool.all /\ pool'.pending = pool.pending
    BY <2>1, <2>2 DEF Pool
  <2> QED BY <1>7, <2>3
<1>10. ASSUME NEW s \in Heads, NEW d \in SUBSET dirty, NEW R \in Lost(s), Reset(s, R, d)
       PROVE  Within(pool')
  BY <1>10, ResetWithin
<1>11. ASSUME pool' = pool PROVE Within(pool')
  BY <1>0, <1>11, Zenon
<1>12. \A tx \in Tx : ValidateTxBasics(tx) => pool' = pool
  BY DEF ValidateTxBasics
<1>13. UNCHANGED vars => pool' = pool
  BY DEF vars
<1> QED
  BY <1>2, <1>3, <1>5, <1>6, <1>8, <1>9, <1>10, <1>11, <1>12, <1>13, Zenon DEF Next, Local

LEMMA BInvLimits == BInv => LimitsHold
BY DEF BInv, Within, Bounded, LimitsHold, SlotsBounded, PendingBounded

(* The limits of the legacy pool hold after every operation, for any          *)
(* configuration: add never admits a transaction that the slots in use leave  *)
(* no room for, whichever transactions it discards, also when a reset         *)
(* reinjects several in one run, and whatever moves transactions into the     *)
(* pending lists is followed by the truncation that brings them within        *)
(* GlobalSlots or every account within AccountSlots.                          *)
THEOREM LimitsAlwaysHold == Spec => []LimitsHold
<1>1. BInv /\ [Next]_vars => BInv'
  BY NextBInv
<1>2. Spec => []BInv
  BY <1>1, InitBInv, PTL DEF Spec
<1> QED BY <1>2, BInvLimits, PTL
===============================================================================
