--------------------------- MODULE LegacyPoolProofs ---------------------------
(***************************************************************************)
(* Proofs about LegacyPool, for any accounts, transactions, heads and      *)
(* limits: the lookup, the lists and the reservations of                   *)
(* core/txpool/legacypool agree after every operation, and the front of    *)
(* every pending list is executable.                                       *)
(*                                                                         *)
(* Good(p, K) is what the operations of the pool keep on their own; it     *)
(* also holds between the steps of a reorg.  K holds the accounts that are *)
(* reserved ahead of their first transaction, as add does.  Front and Low  *)
(* relate a pool to the state of the head; a reset gives them up and       *)
(* demoteUnexecutables with setAll restores them.                          *)
(***************************************************************************)
EXTENDS LegacyPool, FiniteSetTheorems, WellFoundedInduction, TLAPS

(* A nonce of an account is taken once, and the lookup knows both lists. *)
Lists(p) ==
    /\ p.all = p.pending \cup p.queue
    /\ p.pending \cap p.queue = {}
    /\ \A t, u \in p.all : SameSlot(t, u) => t = u

Holds(p, K) ==
    \A a \in Addr : /\ Tracked(p, a) => p.owner[a] = "legacy"
                    /\ p.owner[a] = "legacy" => Tracked(p, a) \/ a \in K

Good(p, K) == p \in Pool /\ IsFiniteSet(p.all) /\ Lists(p) /\ Holds(p, K)

Front(p, s) ==
    \A t \in p.pending : /\ t.nonce >= s.nonce[t.from]
                         /\ \E u \in p.pending : u.from = t.from /\ u.nonce = s.nonce[t.from]
                         /\ t.cost <= s.balance[t.from]

(* Without pending transactions the virtual nonce is not above the state's, *)
(* so that what promoteExecutables takes for the next one is.               *)
Low(p, s) ==
    \A a \in Addr : Of(p.pending, a) = {} => p.nonces[a] <= s.nonce[a]

Fits(p, s) == Front(p, s) /\ Low(p, s)

(* The inductive invariant. *)
LInv ==
    /\ Good(pool, {}) /\ Fits(pool, state)
    /\ state \in Heads /\ inflight \subseteq Tx /\ dirty \subseteq Addr

-------------------------------------------------------------------------------
(* Numbers. *)

LEMMA TxType ==
  ASSUME NEW t \in Tx
  PROVE  t.from \in Addr /\ t.nonce \in Nat /\ t.cost \in Nat /\ t.price \in Nat /\ t.slots \in Nat
BY TxAssumption

LEMMA HeadType ==
  ASSUME NEW s \in Heads
  PROVE  s.nonce \in [Addr -> Nat] /\ s.balance \in [Addr -> Nat]
BY HeadAssumption

LEMMA LeastNat ==
  ASSUME NEW S \in SUBSET Nat, S # {}
  PROVE  \E m \in S : \A n \in S : m <= n
<1>1. PICK m \in S : \A n \in S : <<n, m>> \notin OpToRel(<, Nat)
  BY NatLessThanWellFounded, WFMin, Zenon
<1>2. \A n \in S : ~(n < m)
  BY <1>1, Zenon DEF OpToRel
<1> QED BY <1>2

LEMMA MinIsLeast ==
  ASSUME NEW S \in SUBSET Nat, S # {}
  PROVE  Min(S) \in S /\ \A n \in S : Min(S) <= n
BY LeastNat, Zenon DEF Min

(* A finite set has a greatest element: none is the smallest that has not. *)
LEMMA GreatestNat ==
  ASSUME NEW S \in SUBSET Nat, S # {}, IsFiniteSet(S)
  PROVE  \E m \in S : \A n \in S : n <= m
<1> DEFINE P(T) == T # {} /\ IsFiniteSet(T) /\ ~\E m \in T : \A n \in T : n <= m
           Sizes == {k \in Nat : \E T \in SUBSET Nat : P(T) /\ Cardinality(T) = k}
<1> SUFFICES ASSUME P(S) PROVE FALSE
  OBVIOUS
<1>1. Cardinality(S) \in Sizes
  BY FS_CardinalityType
<1>2. PICK k \in Sizes : \A j \in Sizes : k <= j
  BY <1>1, LeastNat, Zenon
<1>3. PICK T \in SUBSET Nat : P(T) /\ Cardinality(T) = k
  OBVIOUS
<1>4. PICK x \in T : TRUE
  BY <1>3, Zenon
<1>5. IsFiniteSet(T \ {x}) /\ Cardinality(T \ {x}) = k - 1 /\ k - 1 \in Nat
  <2>1. IsFiniteSet(T) /\ Cardinality(T) = k
    BY <1>3
  <2>2. IsFiniteSet(T \ {x}) /\ Cardinality(T \ {x}) = Cardinality(T) - 1
    BY <1>4, <2>1, FS_RemoveElement
  <2>3. Cardinality(T \ {x}) \in Nat
    BY <2>2, FS_CardinalityType
  <2> QED BY <2>1, <2>2, <2>3
<1>6. k - 1 \notin Sizes
  BY <1>2
<1>7. ~P(T \ {x})
  BY <1>5, <1>6, Zenon
<1>8. CASE T \ {x} = {}
  BY <1>3, <1>4, <1>8
<1>9. CASE T \ {x} # {}
  <2>1. PICK m \in T \ {x} : \A n \in T \ {x} : n <= m
    BY <1>5, <1>7, <1>9
  <2>2. CASE x <= m
    BY <1>3, <2>1, <2>2
  <2>3. CASE ~(x <= m)
    BY <1>3, <1>4, <2>1, <2>3
  <2> QED BY <2>2, <2>3
<1> QED BY <1>8, <1>9

LEMMA MaxIsGreatest ==
  ASSUME NEW S \in SUBSET Nat, S # {}, IsFiniteSet(S)
  PROVE  Max(S) \in S /\ \A n \in S : n <= Max(S)
<1>1. \E m \in S : \A n \in S : m >= n
  BY GreatestNat
<1>2. Max(S) \in S /\ \A n \in S : Max(S) >= n
  BY <1>1, Zenon DEF Max
<1> QED BY <1>2

-------------------------------------------------------------------------------
(* Release and enqueueTx. *)

LEMMA RelinquishFields ==
  ASSUME NEW p \in Pool, NEW A
  PROVE  /\ Relinquish(p, A) \in Pool
         /\ Relinquish(p, A).all = p.all /\ Relinquish(p, A).pending = p.pending
         /\ Relinquish(p, A).queue = p.queue /\ Relinquish(p, A).nonces = p.nonces
         /\ \A a \in Addr : Relinquish(p, A).owner[a] =
                IF a \in A /\ ~Tracked(p, a) THEN "free" ELSE p.owner[a]
BY DEF Relinquish, Pool, Owners

(* The reservations are exact again, but for the accounts that A leaves out. *)
LEMMA RelinquishHolds ==
  ASSUME NEW p \in Pool, NEW A, NEW K, NEW L, Holds(p, K), K \subseteq A \cup L
  PROVE  Holds(Relinquish(p, A), L)
<1> DEFINE q == Relinquish(p, A)
<1>1. /\ q.pending = p.pending /\ q.queue = p.queue
      /\ \A a \in Addr : q.owner[a] = IF a \in A /\ ~Tracked(p, a) THEN "free" ELSE p.owner[a]
  BY RelinquishFields
<1> HIDE DEF q
<1>2. \A a \in Addr : Tracked(q, a) <=> Tracked(p, a)
  BY <1>1 DEF Tracked
<1>3. Holds(q, L)
  BY <1>1, <1>2 DEF Holds
<1> QED BY <1>3 DEF q

LEMMA RelinquishGood ==
  ASSUME NEW p, NEW A, NEW K, NEW L, Good(p, K), K \subseteq A \cup L
  PROVE  Good(Relinquish(p, A), L)
<1> DEFINE q == Relinquish(p, A)
<1>1. /\ q \in Pool /\ q.all = p.all /\ q.pending = p.pending /\ q.queue = p.queue
  BY RelinquishFields DEF Good
<1>2. Holds(q, L)
  BY RelinquishHolds DEF Good
<1> HIDE DEF q
<1>3. IsFiniteSet(q.all) /\ Lists(q)
  BY <1>1 DEF Good, Lists
<1>4. Good(q, L)
  BY <1>1, <1>2, <1>3 DEF Good
<1> QED BY <1>4 DEF q

(* Front and Low say nothing of the owners. *)
LEMMA RelinquishFits ==
  ASSUME NEW p \in Pool, NEW A, NEW s, Fits(p, s)
  PROVE  Fits(Relinquish(p, A), s)
<1> DEFINE q == Relinquish(p, A)
<1>1. q.pending = p.pending /\ q.nonces = p.nonces
  BY RelinquishFields
<1> HIDE DEF q
<1>2. Fits(q, s)
  BY <1>1 DEF Fits, Front, Low
<1> QED BY <1>2 DEF q

(* What shares no nonce with the queue is added to it as it is. *)
LEMMA EnqueueDisjoint ==
  ASSUME NEW p \in Pool, NEW T \in SUBSET Tx,
         \A t \in T, o \in p.queue : ~SameSlot(o, t)
  PROVE  /\ enqueueTx(p, T, FALSE) \in Pool
         /\ enqueueTx(p, T, FALSE).all = p.all
         /\ enqueueTx(p, T, FALSE).pending = p.pending
         /\ enqueueTx(p, T, FALSE).queue = p.queue \cup T
         /\ enqueueTx(p, T, FALSE).nonces = p.nonces
         /\ enqueueTx(p, T, FALSE).owner = p.owner
<1> DEFINE won == {t \in T : \A o \in p.queue : SameSlot(o, t) => Replaces(t, o)}
           olds == {o \in p.queue : \E t \in won : SameSlot(o, t)}
<1>1. won = T /\ olds = {}
  OBVIOUS
<1>2. enqueueTx(p, T, FALSE) = [p EXCEPT !.queue = (@ \ olds) \cup won, !.all = (@ \ olds) \cup {}]
  BY DEF enqueueTx
<1>3. (p.queue \ olds) \cup won = p.queue \cup T /\ (p.all \ olds) \cup {} = p.all
  BY <1>1
<1> HIDE DEF won, olds
<1>4. enqueueTx(p, T, FALSE) = [p EXCEPT !.queue = p.queue \cup T, !.all = p.all]
  BY <1>2, <1>3, Zenon
<1> QED BY <1>4, Zenon DEF Pool

-------------------------------------------------------------------------------
(* removeTx. *)

(* What is postponed shares no nonce with the queue, so removing D leaves     *)
(* just the rest, with the transactions behind D in the queue.                *)
Removed(q, p, D, kept) ==
    /\ q \in Pool
    /\ q.all = p.all \ D
    /\ q.pending = p.pending \ (D \cup Invalidated(p, D))
    /\ q.queue = (p.queue \ D) \cup Invalidated(p, D)
    /\ q.nonces = LoweredNonces(p, D)
    /\ \A a \in Addr : q.owner[a] = IF a \in {d.from : d \in D} \ kept /\ ~Tracked(q, a)
                                    THEN "free" ELSE p.owner[a]

LEMMA RemoveFields ==
  ASSUME NEW p \in Pool, Lists(p), NEW D \in SUBSET p.all, NEW kept
  PROVE  Removed(removeTx(p, D, kept), p, D, kept)
<1> DEFINE back == Invalidated(p, D)
           r == [p EXCEPT !.all = @ \ D, !.pending = @ \ (D \cup back),
                          !.queue = @ \ D, !.nonces = LoweredNonces(p, D)]
           e == enqueueTx(r, back, FALSE)
           A == {d.from : d \in D} \ kept
<1>1. removeTx(p, D, kept) = Relinquish(e, A)
  BY DEF removeTx
<1>2. back \subseteq p.pending /\ p.all \subseteq Tx /\ p.pending \subseteq Tx /\ p.queue \subseteq Tx
  BY DEF Invalidated, Pool
<1>3. LoweredNonces(p, D) \in [Addr -> Nat]
  <2> SUFFICES ASSUME NEW a \in Addr
               PROVE  Min({p.nonces[a]} \cup Nonces(D \cap p.pending, a)) \in Nat
    BY Zenon DEF LoweredNonces
  <2> DEFINE S == {p.nonces[a]} \cup Nonces(D \cap p.pending, a)
  <2>1. S \in SUBSET Nat /\ S # {}
    BY <1>2, TxType DEF Nonces, Of, Pool
  <2> QED BY <2>1, MinIsLeast, Zenon
<1>4. r \in Pool /\ r.all = p.all \ D /\ r.pending = p.pending \ (D \cup back)
      /\ r.queue = p.queue \ D /\ r.nonces = LoweredNonces(p, D) /\ r.owner = p.owner
  <2> HIDE DEF back
  <2> QED BY <1>2, <1>3, Zenon DEF Pool
<1> HIDE DEF r
<1>5. \A t \in back, o \in r.queue : ~SameSlot(o, t)
  <2> SUFFICES ASSUME NEW t \in back, NEW o \in r.queue, SameSlot(o, t) PROVE FALSE
    OBVIOUS
  <2>1. t \in p.pending /\ o \in p.queue
    BY <1>2, <1>4
  <2> QED BY <2>1 DEF Lists
<1>6. back \in SUBSET Tx
  BY <1>2
<1> HIDE DEF back
<1>7. /\ e \in Pool /\ e.all = r.all /\ e.pending = r.pending /\ e.queue = r.queue \cup back
      /\ e.nonces = r.nonces /\ e.owner = r.owner
  BY <1>4, <1>5, <1>6, EnqueueDisjoint, Zenon
<1> HIDE DEF e, A
<1> DEFINE q == Relinquish(e, A)
<1>8. /\ q \in Pool /\ q.all = e.all /\ q.pending = e.pending /\ q.queue = e.queue
      /\ q.nonces = e.nonces
      /\ \A a \in Addr : q.owner[a] = IF a \in A /\ ~Tracked(e, a) THEN "free" ELSE e.owner[a]
  BY <1>7, RelinquishFields
<1> HIDE DEF q
<1>9. \A a \in Addr : Tracked(q, a) <=> Tracked(e, a)
  BY <1>8 DEF Tracked
<1>10. /\ q.all = p.all \ D /\ q.pending = p.pending \ (D \cup back)
       /\ q.queue = (p.queue \ D) \cup back /\ q.nonces = LoweredNonces(p, D)
       /\ \A a \in Addr : q.owner[a] = IF a \in A /\ ~Tracked(q, a) THEN "free" ELSE p.owner[a]
  BY <1>4, <1>7, <1>8, <1>9
<1>11. Removed(q, p, D, kept)
  BY <1>8, <1>10 DEF Removed, back, A
<1> QED BY <1>1, <1>11 DEF q

LEMMA RemoveGood ==
  ASSUME NEW p, NEW K, Good(p, K), NEW D \in SUBSET p.all
  PROVE  Good(removeTx(p, D, K), K)
<1> DEFINE q == removeTx(p, D, K)
           back == Invalidated(p, D)
           from == {d.from : d \in D}
<1>0. p \in Pool /\ Lists(p) /\ IsFiniteSet(p.all) /\ Holds(p, K)
  BY DEF Good
<1>1. /\ q \in Pool
      /\ q.all = p.all \ D
      /\ q.pending = p.pending \ (D \cup back)
      /\ q.queue = (p.queue \ D) \cup back
      /\ \A a \in Addr : q.owner[a] = IF a \in from \ K /\ ~Tracked(q, a) THEN "free" ELSE p.owner[a]
  <2>1. Removed(q, p, D, K)
    BY <1>0, RemoveFields
  <2> HIDE DEF q
  <2> QED BY <2>1 DEF Removed
<1>2. back \subseteq p.pending \ D
  BY DEF Invalidated
<1> HIDE DEF q, back
<1>3. IsFiniteSet(q.all)
  <2>1. q.all \subseteq p.all
    BY <1>1
  <2> QED BY <1>0, <2>1, FS_Subset
<1>4. Lists(q)
  BY <1>0, <1>1, <1>2 DEF Lists
<1>5. ASSUME NEW a \in Addr
      PROVE  /\ Tracked(q, a) => Tracked(p, a)
             /\ Tracked(p, a) => Tracked(q, a) \/ a \in from
  <2>1. q.pending \subseteq p.pending /\ q.queue \subseteq p.queue \cup p.pending
    BY <1>1, <1>2
  <2>2. \A t \in p.pending \cup p.queue : t \in q.pending \cup q.queue \/ t.from \in from
    BY <1>1
  <2> HIDE DEF from
  <2> QED BY <2>1, <2>2 DEF Tracked, Of
<1> HIDE DEF from
<1>6. Holds(q, K)
  <2> SUFFICES ASSUME NEW a \in Addr
               PROVE  /\ Tracked(q, a) => q.owner[a] = "legacy"
                      /\ q.owner[a] = "legacy" => Tracked(q, a) \/ a \in K
    BY DEF Holds
  <2>1. /\ Tracked(p, a) => p.owner[a] = "legacy"
        /\ p.owner[a] = "legacy" => Tracked(p, a) \/ a \in K
    BY <1>0 DEF Holds
  <2>2. q.owner[a] = IF a \in from \ K /\ ~Tracked(q, a) THEN "free" ELSE p.owner[a]
    BY <1>1
  <2> QED BY <1>5, <2>1, <2>2
<1>7. Good(q, K)
  BY <1>1, <1>3, <1>4, <1>6 DEF Good
<1> QED BY <1>7 DEF q

(* The front of a list goes last: whoever is behind a removed transaction is *)
(* postponed, and with the front the virtual nonce falls to the state's.     *)
LEMMA RemoveFits ==
  ASSUME NEW p \in Pool, Lists(p), NEW D \in SUBSET p.all, NEW kept, NEW s \in Heads, Fits(p, s)
  PROVE  Fits(removeTx(p, D, kept), s)
<1> DEFINE q == removeTx(p, D, kept)
           back == Invalidated(p, D)
<1>1. q.pending = p.pending \ (D \cup back) /\ q.nonces = LoweredNonces(p, D)
  <2>1. Removed(q, p, D, kept)
    BY RemoveFields
  <2> HIDE DEF q
  <2> QED BY <2>1 DEF Removed
<1>2. back = {t \in p.pending \ D : \E d \in D \cap p.pending : d.from = t.from /\ d.nonce < t.nonce}
  BY DEF Invalidated
<1>3. p.pending \subseteq Tx /\ p.pending \subseteq p.all /\ p.nonces \in [Addr -> Nat]
  BY DEF Pool, Lists
<1>4. s.nonce \in [Addr -> Nat] /\ s.balance \in [Addr -> Nat]
  BY HeadType
<1> HIDE DEF q, back
<1>5. ASSUME NEW u \in p.pending, u.nonce = s.nonce[u.from]
      PROVE  /\ u \notin back
             /\ \A t \in q.pending : t.from = u.from => u \in q.pending
  <2>1. u \notin back
    <3> SUFFICES ASSUME NEW d \in p.pending, d.from = u.from, d.nonce < u.nonce PROVE FALSE
      BY <1>2
    <3>1. d.nonce >= s.nonce[u.from] /\ d.nonce \in Nat /\ u.nonce \in Nat
      BY <1>3, TxType DEF Fits, Front
    <3> QED BY <1>5, <3>1
  <2>2. ASSUME NEW t \in q.pending, t.from = u.from, u \in D PROVE FALSE
    <3>1. t \in p.pending /\ t # u /\ t \notin D
      BY <1>1, <2>2
    <3>2. t.nonce # u.nonce
      BY <1>3, <2>2, <3>1 DEF Lists, SameSlot
    <3>3. t.nonce >= s.nonce[u.from] /\ t.nonce \in Nat /\ u.nonce \in Nat
      BY <1>3, <2>2, <3>1, TxType DEF Fits, Front
    <3>4. u.nonce < t.nonce
      BY <1>5, <3>2, <3>3
    <3>5. t \in back
      BY <1>2, <2>2, <3>1, <3>4
    <3> QED BY <1>1, <3>5
  <2> QED BY <1>1, <2>1, <2>2
<1>6. Front(q, s)
  <2> SUFFICES ASSUME NEW t \in q.pending
               PROVE  /\ t.nonce >= s.nonce[t.from]
                      /\ \E u \in q.pending : u.from = t.from /\ u.nonce = s.nonce[t.from]
                      /\ t.cost <= s.balance[t.from]
    BY DEF Front
  <2>1. t \in p.pending
    BY <1>1
  <2>2. PICK u \in p.pending : u.from = t.from /\ u.nonce = s.nonce[t.from]
    BY <2>1 DEF Fits, Front
  <2>3. u \in q.pending
    BY <1>5, <2>2
  <2> QED BY <2>1, <2>2, <2>3 DEF Fits, Front
<1>7. Low(q, s)
  <2> SUFFICES ASSUME NEW a \in Addr, Of(q.pending, a) = {} PROVE q.nonces[a] <= s.nonce[a]
    BY DEF Low
  <2> DEFINE S == {p.nonces[a]} \cup Nonces(D \cap p.pending, a)
  <2>1. q.nonces[a] = Min(S)
    BY <1>1 DEF LoweredNonces
  <2>2. S \in SUBSET Nat /\ S # {}
    BY <1>3, TxType DEF Nonces, Of
  <2>3. Min(S) \in Nat /\ \A n \in S : Min(S) <= n
    BY <2>2, MinIsLeast, Zenon
  <2>4. \E n \in S : n <= s.nonce[a]
    <3>1. CASE Of(p.pending, a) = {}
      BY <3>1 DEF Fits, Low
    <3>2. CASE Of(p.pending, a) # {}
      <4>1. PICK u \in p.pending : u.from = a /\ u.nonce = s.nonce[a]
        BY <3>2 DEF Of, Fits, Front
      <4>2. u \in D
        BY <1>1, <1>5, <4>1 DEF Of
      <4>3. u.nonce \in S
        BY <4>1, <4>2 DEF Nonces, Of
      <4> QED BY <1>4, <4>1, <4>3
    <3> QED BY <3>1, <3>2
  <2> HIDE DEF S
  <2>5. s.nonce[a] \in Nat
    BY <1>4
  <2> QED BY <2>1, <2>2, <2>3, <2>4, <2>5
<1>8. Fits(q, s)
  BY <1>6, <1>7 DEF Fits
<1> QED BY <1>8 DEF q

-------------------------------------------------------------------------------
(* promoteExecutables. *)

LEMMA ReadiesInQueue ==
  ASSUME NEW p \in Pool, NEW s, NEW a
  PROVE  /\ Readies(p, s, a) \subseteq Live(p, s, a)
         /\ Live(p, s, a) = {t \in p.queue : t.from = a /\ t.nonce >= s.nonce[a] /\ t.cost <= s.balance[a]}
BY DEF Readies, Live, Ready, Payable, Forward, Of

LEMMA NoncesFinite ==
  ASSUME NEW S \in SUBSET Tx, IsFiniteSet(S), NEW a
  PROVE  Nonces(S, a) \in SUBSET Nat /\ IsFiniteSet(Nonces(S, a))
<1>1. Of(S, a) \subseteq S
  BY DEF Of
<1>2. IsFiniteSet(Of(S, a))
  BY <1>1, FS_Subset
<1> DEFINE f == [t \in Of(S, a) |-> t.nonce]
<1>3. f \in Surjection(Of(S, a), Nonces(S, a))
  BY DEF Surjection, Nonces
<1>4. IsFiniteSet(Nonces(S, a))
  BY <1>2, <1>3, FS_Surjection
<1>5. Nonces(S, a) \in SUBSET Nat
  BY <1>1, TxType DEF Nonces
<1> QED BY <1>4, <1>5

(* What is promoted leaves the queue and takes no nonce of a pending one; the *)
(* rest of the accounts' queues is kept or forgotten.                         *)
PromotedOf(q, p, s, A, wins, rest) ==
    LET seen == {t \in p.queue : t.from \in A} IN
    /\ wins \subseteq seen /\ rest \subseteq seen /\ wins \cap rest = {}
    /\ \A a \in Addr : Of(wins, a) = IF a \in A THEN Readies(p, s, a) ELSE {}
    /\ q \in Pool
    /\ q.pending = p.pending \cup wins
    /\ q.queue = (p.queue \ seen) \cup rest
    /\ q.all = p.all \ (seen \ (wins \cup rest))
    /\ q.owner = p.owner
    /\ \A a \in Addr : q.nonces[a] = IF Nonces(wins, a) = {} THEN p.nonces[a]
                                     ELSE Max(Nonces(wins, a)) + 1
    /\ \A t \in rest : t.nonce >= s.nonce[t.from]

LEMMA PromoteFields ==
  ASSUME NEW p \in Pool, Lists(p), IsFiniteSet(p.all), NEW s, NEW A \in SUBSET Addr
  PROVE  \E q, wins, rest, O :
            /\ O = {a \in A : Of(p.queue, a) # {}}
            /\ PromotedOf(q, p, s, O, wins, rest)
            /\ promoteExecutables(p, s, A) = Relinquish(q, O)
<1> DEFINE owners == {a \in A : Of(p.queue, a) # {}}
           wins == UNION {Promoted(p, s, a) : a \in owners}
           rest == UNION {CapTo(Live(p, s, a) \ Readies(p, s, a), AccountQueue) : a \in owners}
           seen == UNION {Of(p.queue, a) : a \in owners}
           olds == {o \in p.pending : \E t \in wins : SameSlot(o, t)}
           nn == [a \in Addr |-> IF Nonces(wins, a) = {} THEN p.nonces[a] ELSE Max(Nonces(wins, a)) + 1]
           r == [p EXCEPT !.pending = (@ \ olds) \cup wins,
                          !.queue   = (@ \ seen) \cup rest,
                          !.all     = @ \ (olds \cup (seen \ (wins \cup rest))),
                          !.nonces  = nn]
<1>1. promoteExecutables(p, s, A) = Relinquish(r, owners)
  BY DEF promoteExecutables
<1>2. p.pending \subseteq Tx /\ p.queue \subseteq Tx /\ p.all \subseteq Tx
  BY DEF Pool
<1>3. seen = {t \in p.queue : t.from \in owners}
  BY DEF Of
<1>4. \A a \in Addr : /\ Readies(p, s, a) \subseteq Live(p, s, a)
                      /\ \A t \in Live(p, s, a) : t \in p.queue /\ t.from = a
  BY ReadiesInQueue
<1>5. \A a \in owners : Promoted(p, s, a) = Readies(p, s, a)
  <2> SUFFICES ASSUME NEW a \in owners, NEW t \in Readies(p, s, a), NEW o \in p.pending, SameSlot(o, t)
               PROVE  FALSE
    BY DEF Promoted
  <2>1. t \in p.queue
    BY <1>4
  <2> QED BY <2>1 DEF Lists
<1>6. wins \subseteq seen
  <2> SUFFICES ASSUME NEW a \in owners, NEW t \in Promoted(p, s, a) PROVE t \in seen
    OBVIOUS
  <2>1. t \in p.queue /\ t.from = a
    BY <1>4, <1>5
  <2> QED BY <1>3, <2>1
<1>7. /\ rest \subseteq seen /\ wins \cap rest = {}
      /\ \A t \in rest : t.nonce >= s.nonce[t.from]
  <2> SUFFICES ASSUME NEW t \in rest PROVE t \in seen /\ t \notin wins /\ t.nonce >= s.nonce[t.from]
    <3> HIDE DEF rest, seen, wins
    <3> QED OBVIOUS
  <2>0. PICK a \in owners : t \in CapTo(Live(p, s, a) \ Readies(p, s, a), AccountQueue)
    BY Zenon
  <2>1. t \in Live(p, s, a) /\ t \notin Readies(p, s, a)
    BY <2>0 DEF CapTo
  <2>2. t \in p.queue /\ t.from = a
    BY <1>4, <2>1
  <2>3. \A b \in owners : t \in Promoted(p, s, b) => b = a
    BY <1>4, <1>5, <2>2
  <2>4. t.nonce >= s.nonce[t.from]
    BY <2>1, <2>2, ReadiesInQueue
  <2> QED BY <1>3, <1>5, <2>1, <2>2, <2>3, <2>4
<1>8. olds = {}
  BY <1>3, <1>6 DEF Lists
<1>9. \A a \in Addr : Of(wins, a) = IF a \in owners THEN Readies(p, s, a) ELSE {}
  <2> SUFFICES ASSUME NEW a \in Addr PROVE Of(wins, a) = IF a \in owners THEN Readies(p, s, a) ELSE {}
    OBVIOUS
  <2>1. \A t \in wins : t.from = a => a \in owners /\ t \in Readies(p, s, a)
    BY <1>4, <1>5
  <2>2. a \in owners => \A t \in Readies(p, s, a) : t \in wins /\ t.from = a
    BY <1>4, <1>5
  <2> HIDE DEF wins, owners
  <2> QED BY <2>1, <2>2 DEF Of
<1> HIDE DEF wins, rest, seen, olds
<1>10. /\ nn \in [Addr -> Nat]
       /\ \A a \in Addr : nn[a] = IF Nonces(wins, a) = {} THEN p.nonces[a]
                                   ELSE Max(Nonces(wins, a)) + 1
  <2>1. wins \in SUBSET Tx /\ wins \subseteq p.all
    BY <1>2, <1>3, <1>6 DEF Lists
  <2>2. IsFiniteSet(wins)
    BY <2>1, FS_Subset
  <2>3. ASSUME NEW a \in Addr, Nonces(wins, a) # {} PROVE Max(Nonces(wins, a)) + 1 \in Nat
    BY <2>1, <2>2, <2>3, NoncesFinite, MaxIsGreatest
  <2>4. nn \in [Addr -> Nat]
    BY <2>3 DEF Pool
  <2> QED BY <2>4
<1> HIDE DEF nn
<1>11. (p.pending \ olds) \cup wins = p.pending \cup wins
       /\ p.all \ (olds \cup (seen \ (wins \cup rest))) = p.all \ (seen \ (wins \cup rest))
  BY <1>8
<1>12. /\ r \in Pool /\ r.pending = p.pending \cup wins /\ r.queue = (p.queue \ seen) \cup rest
       /\ r.all = p.all \ (seen \ (wins \cup rest)) /\ r.owner = p.owner /\ r.nonces = nn
  <2>1. r = [p EXCEPT !.pending = p.pending \cup wins, !.queue = (p.queue \ seen) \cup rest,
                      !.all = p.all \ (seen \ (wins \cup rest)), !.nonces = nn]
    BY <1>11, Zenon
  <2>2. wins \subseteq Tx /\ rest \subseteq Tx
    BY <1>2, <1>3, <1>6, <1>7
  <2> QED BY <1>10, <2>1, <2>2, Zenon DEF Pool
<1> HIDE DEF r
<1>13. PromotedOf(r, p, s, owners, wins, rest)
  <2> HIDE DEF owners
  <2> QED BY <1>3, <1>6, <1>7, <1>9, <1>10, <1>12 DEF PromotedOf
<1> QED BY <1>1, <1>13, Zenon

(* Only the accounts it went through may be left without a transaction, and   *)
(* those are released.                                                        *)
LEMMA PromoteGood ==
  ASSUME NEW p, Good(p, {}), NEW s, NEW A \in SUBSET Addr
  PROVE  Good(promoteExecutables(p, s, A), {})
<1>0. p \in Pool /\ Lists(p) /\ IsFiniteSet(p.all) /\ Holds(p, {})
  BY DEF Good
<1>1. PICK q, wins, rest, O :
        /\ O = {a \in A : Of(p.queue, a) # {}}
        /\ PromotedOf(q, p, s, O, wins, rest)
        /\ promoteExecutables(p, s, A) = Relinquish(q, O)
  BY <1>0, PromoteFields
<1> DEFINE seen == {t \in p.queue : t.from \in O}
<1>2. /\ wins \subseteq seen /\ rest \subseteq seen /\ wins \cap rest = {}
      /\ q \in Pool /\ q.pending = p.pending \cup wins /\ q.queue = (p.queue \ seen) \cup rest
      /\ q.all = p.all \ (seen \ (wins \cup rest)) /\ q.owner = p.owner
  BY <1>1 DEF PromotedOf
<1>3. seen \subseteq p.queue /\ \A t \in p.queue : t \in seen <=> t.from \in O
  OBVIOUS
<1> HIDE DEF seen
<1>4. IsFiniteSet(q.all)
  <2>1. q.all \subseteq p.all
    BY <1>2
  <2> QED BY <1>0, <2>1, FS_Subset
<1>5. Lists(q)
  BY <1>0, <1>2, <1>3 DEF Lists
<1>6. Holds(q, O)
  <2> SUFFICES ASSUME NEW a \in Addr
               PROVE  /\ Tracked(q, a) => q.owner[a] = "legacy"
                      /\ q.owner[a] = "legacy" => Tracked(q, a) \/ a \in O
    BY DEF Holds
  <2>1. Tracked(q, a) => Tracked(p, a)
    BY <1>2, <1>3 DEF Tracked, Of
  <2>2. Tracked(p, a) => Tracked(q, a) \/ a \in O
    BY <1>2, <1>3 DEF Tracked, Of
  <2> QED BY <1>0, <1>2, <2>1, <2>2 DEF Holds
<1>7. Good(q, O)
  BY <1>2, <1>4, <1>5, <1>6 DEF Good
<1>8. Good(Relinquish(q, O), {})
  BY <1>7, RelinquishGood
<1> QED BY <1>1, <1>8

(* An account without pending transactions is promoted from the state's nonce *)
(* on: its virtual nonce is not above it, and its queue starts no lower.      *)
LEMMA PromoteFits ==
  ASSUME NEW p, Good(p, {}), NEW s \in Heads, NEW A \in SUBSET Addr, Fits(p, s)
  PROVE  Fits(promoteExecutables(p, s, A), s)
<1>0. p \in Pool /\ Lists(p) /\ IsFiniteSet(p.all)
  BY DEF Good
<1>1. PICK q, wins, rest, O :
        /\ O = {a \in A : Of(p.queue, a) # {}}
        /\ PromotedOf(q, p, s, O, wins, rest)
        /\ promoteExecutables(p, s, A) = Relinquish(q, O)
  BY <1>0, PromoteFields
<1>2. /\ q \in Pool /\ q.pending = p.pending \cup wins /\ wins \subseteq p.queue
      /\ \A a \in Addr : Of(wins, a) = IF a \in O THEN Readies(p, s, a) ELSE {}
      /\ \A a \in Addr : Of(wins, a) = {} => q.nonces[a] = p.nonces[a]
  <2>1. \A a \in Addr : Of(wins, a) = {} => Nonces(wins, a) = {}
    BY Zenon DEF Nonces
  <2> QED BY <1>1, <2>1 DEF PromotedOf
<1>3. p.queue \subseteq Tx /\ p.pending \subseteq Tx /\ p.nonces \in [Addr -> Nat]
  BY <1>0 DEF Pool
<1>4. s.nonce \in [Addr -> Nat]
  BY HeadType
<1>5. ASSUME NEW t \in wins
      PROVE  /\ t.nonce >= s.nonce[t.from] /\ t.cost <= s.balance[t.from]
             /\ \E u \in q.pending : u.from = t.from /\ u.nonce = s.nonce[t.from]
  <2> DEFINE a == t.from
             S == Live(p, s, a)
             S1 == {u.nonce : u \in S}
  <2>1. a \in Addr
    BY <1>2, <1>3, TxType
  <2>2. t \in Readies(p, s, a) /\ Of(wins, a) = Readies(p, s, a)
    BY <1>2, <2>1 DEF Of
  <2>3. /\ Readies(p, s, a) \subseteq S
        /\ S = {u \in p.queue : u.from = a /\ u.nonce >= s.nonce[a] /\ u.cost <= s.balance[a]}
    BY <1>0, ReadiesInQueue
  <2>4. t.nonce >= s.nonce[a] /\ t.cost <= s.balance[a]
    BY <2>2, <2>3
  <2>5. \E u \in q.pending : u.from = a /\ u.nonce = s.nonce[a]
    <3>1. CASE Of(p.pending, a) # {}
      <4>1. PICK u \in p.pending : u.from = a /\ u.nonce = s.nonce[a]
        BY <3>1 DEF Of, Fits, Front
      <4> QED BY <1>2, <4>1
    <3>2. CASE Of(p.pending, a) = {}
      <4>1. p.nonces[a] <= s.nonce[a] /\ p.nonces[a] \in Nat /\ s.nonce[a] \in Nat
        BY <1>3, <1>4, <2>1, <3>2 DEF Fits, Low
      <4>2. Readies(p, s, a) = {x \in S : /\ \E u \in S : u.nonce <= p.nonces[a]
                                          /\ \A n \in Min(S1)..x.nonce : \E u \in S : u.nonce = n}
        BY DEF Readies, Ready
      <4>3. \A u \in S : u.nonce \in Nat /\ u.nonce >= s.nonce[a] /\ u.from = a
        BY <1>3, <2>3, TxType
      <4> HIDE DEF S
      <4>4. PICK u \in S : u.nonce <= p.nonces[a]
        BY <2>2, <4>2
      <4>5. u.nonce = s.nonce[a]
        BY <4>1, <4>3, <4>4
      <4>6. S1 \in SUBSET Nat /\ S1 # {}
        BY <4>3, <4>4
      <4>7. Min(S1) \in S1 /\ \A n \in S1 : Min(S1) <= n
        BY <4>6, MinIsLeast, Zenon
      <4>8. Min(S1) = s.nonce[a]
        <5>1. Min(S1) <= u.nonce
          BY <4>4, <4>7
        <5>2. Min(S1) \in Nat /\ Min(S1) >= s.nonce[a]
          BY <4>3, <4>7
        <5> HIDE DEF S1
        <5> QED BY <4>1, <4>5, <5>1, <5>2
      <4> HIDE DEF S1
      <4>9. \A n \in Min(S1)..u.nonce : n = u.nonce
        BY <4>1, <4>5, <4>8
      <4>10. u \in Readies(p, s, a)
        BY <4>2, <4>4, <4>9
      <4>11. u \in wins /\ u.from = a
        BY <2>2, <4>10 DEF Of
      <4> QED BY <1>2, <4>5, <4>11
    <3> QED BY <3>1, <3>2
  <2> QED BY <2>4, <2>5
<1>6. Front(q, s)
  <2> SUFFICES ASSUME NEW t \in q.pending
               PROVE  /\ t.nonce >= s.nonce[t.from]
                      /\ \E u \in q.pending : u.from = t.from /\ u.nonce = s.nonce[t.from]
                      /\ t.cost <= s.balance[t.from]
    BY DEF Front
  <2>1. CASE t \in wins
    BY <1>5, <2>1
  <2>2. CASE t \in p.pending
    <3>1. PICK u \in p.pending : u.from = t.from /\ u.nonce = s.nonce[t.from]
      BY <2>2 DEF Fits, Front
    <3> QED BY <1>2, <2>2, <3>1 DEF Fits, Front
  <2> QED BY <1>2, <2>1, <2>2
<1>7. Low(q, s)
  <2> SUFFICES ASSUME NEW a \in Addr, Of(q.pending, a) = {} PROVE q.nonces[a] <= s.nonce[a]
    BY DEF Low
  <2>1. Of(p.pending, a) = {} /\ Of(wins, a) = {}
    BY <1>2 DEF Of
  <2> QED BY <1>2, <2>1 DEF Fits, Low
<1>8. Fits(Relinquish(q, O), s)
  BY <1>2, <1>6, <1>7, RelinquishFits DEF Fits
<1> QED BY <1>1, <1>8

-------------------------------------------------------------------------------
(* demoteUnexecutables and setAll. *)

(* What demoteUnexecutables keeps pending, what it moves to the queue and     *)
(* what it drops.                                                             *)
DemotedTo(q, p, kept, demoted) ==
    /\ q \in Pool
    /\ q.all = p.all \ (p.pending \ (kept \cup demoted))
    /\ q.pending = kept
    /\ q.queue = p.queue \cup demoted
    /\ q.owner = p.owner

LEMMA DemoteFields ==
  ASSUME NEW p \in Pool, Lists(p), NEW s
  PROVE  \E q, kept, demoted :
           /\ kept = UNION {Executable(p, s, a) : a \in Addr}
           /\ kept \subseteq p.pending /\ demoted \subseteq p.pending \ kept
           /\ \A t \in demoted : t.nonce >= s.nonce[t.from]
           /\ DemotedTo(q, p, kept, demoted)
           /\ demoteUnexecutables(p, s) = Relinquish(q, {t.from : t \in p.pending})
<1> DEFINE kept == UNION {Executable(p, s, a) : a \in Addr}
           demoted == {t \in p.pending \ kept : /\ t.nonce >= s.nonce[t.from]
                                                /\ t.cost <= s.balance[t.from]}
           r == [p EXCEPT !.pending = kept, !.all = @ \ (p.pending \ (kept \cup demoted))]
           q == enqueueTx(r, demoted, FALSE)
<1>1. demoteUnexecutables(p, s) = Relinquish(q, {t.from : t \in p.pending})
  BY DEF demoteUnexecutables
<1>2. kept \subseteq p.pending
  BY Zenon DEF Executable, Payable, Forward, Of
<1>3. demoted \subseteq p.pending \ kept /\ \A t \in demoted : t.nonce >= s.nonce[t.from]
  OBVIOUS
<1> HIDE DEF kept, demoted
<1>4. /\ r \in Pool /\ r.pending = kept /\ r.all = p.all \ (p.pending \ (kept \cup demoted))
      /\ r.queue = p.queue /\ r.owner = p.owner
  BY <1>2, Zenon DEF Pool
<1> HIDE DEF r
<1>5. demoted \in SUBSET Tx
  BY <1>3 DEF Pool
<1>6. \A t \in demoted, o \in r.queue : ~SameSlot(o, t)
  <2> SUFFICES ASSUME NEW t \in demoted, NEW o \in r.queue, SameSlot(o, t) PROVE FALSE
    OBVIOUS
  <2>1. t \in p.pending /\ o \in p.queue
    BY <1>3, <1>4
  <2> QED BY <2>1 DEF Lists
<1>7. /\ q \in Pool /\ q.all = r.all /\ q.pending = r.pending /\ q.queue = r.queue \cup demoted
      /\ q.owner = r.owner
  BY <1>4, <1>5, <1>6, EnqueueDisjoint, Zenon
<1> HIDE DEF q
<1>8. DemotedTo(q, p, kept, demoted)
  BY <1>4, <1>7 DEF DemotedTo
<1> QED BY <1>1, <1>2, <1>3, <1>8 DEF kept

LEMMA DemoteGood ==
  ASSUME NEW p, Good(p, {}), NEW s
  PROVE  Good(demoteUnexecutables(p, s), {})
<1>0. p \in Pool /\ Lists(p) /\ IsFiniteSet(p.all) /\ Holds(p, {})
  BY DEF Good
<1> DEFINE A == {t.from : t \in p.pending}
<1>1. PICK q, kept, demoted :
        /\ kept \subseteq p.pending /\ demoted \subseteq p.pending \ kept
        /\ DemotedTo(q, p, kept, demoted)
        /\ demoteUnexecutables(p, s) = Relinquish(q, A)
  BY <1>0, DemoteFields, Zenon
<1>2. /\ q \in Pool
      /\ q.all = p.all \ (p.pending \ (kept \cup demoted))
      /\ q.pending = kept
      /\ q.queue = p.queue \cup demoted
      /\ q.owner = p.owner
  BY <1>1 DEF DemotedTo
<1>3. IsFiniteSet(q.all)
  <2>1. q.all \subseteq p.all
    BY <1>2
  <2> QED BY <1>0, <2>1, FS_Subset
<1>4. Lists(q)
  BY <1>0, <1>1, <1>2 DEF Lists
<1>5. Holds(q, A)
  <2> SUFFICES ASSUME NEW a \in Addr
               PROVE  /\ Tracked(q, a) => q.owner[a] = "legacy"
                      /\ q.owner[a] = "legacy" => Tracked(q, a) \/ a \in A
    BY DEF Holds
  <2>1. Tracked(q, a) => Tracked(p, a)
    BY <1>1, <1>2 DEF Tracked, Of
  <2>2. Tracked(p, a) => Tracked(q, a) \/ a \in A
    BY <1>1, <1>2 DEF Tracked, Of
  <2> QED BY <1>0, <1>2, <2>1, <2>2 DEF Holds
<1> HIDE DEF A
<1>6. Good(q, A)
  BY <1>2, <1>3, <1>4, <1>5 DEF Good
<1>7. Good(Relinquish(q, A), {})
  BY <1>6, RelinquishGood
<1> QED BY <1>1, <1>7

LEMMA DemoteFront ==
  ASSUME NEW p \in Pool, Lists(p), NEW s
  PROVE  Front(demoteUnexecutables(p, s), s)
<1> DEFINE A == {t.from : t \in p.pending}
<1>1. PICK q, kept, demoted :
        /\ kept = UNION {Executable(p, s, a) : a \in Addr}
        /\ DemotedTo(q, p, kept, demoted)
        /\ demoteUnexecutables(p, s) = Relinquish(q, A)
  BY DemoteFields, Zenon
<1>2. q \in Pool /\ q.pending = kept
  BY <1>1 DEF DemotedTo
<1>3. ASSUME NEW t \in kept
      PROVE  /\ t.nonce >= s.nonce[t.from]
             /\ \E u \in kept : u.from = t.from /\ u.nonce = s.nonce[t.from]
             /\ t.cost <= s.balance[t.from]
  <2>1. PICK a \in Addr : t \in Executable(p, s, a)
    BY <1>1
  <2>2. Executable(p, s, a) \subseteq kept
    BY <1>1
  <2>3. \A u \in Executable(p, s, a) : /\ u.from = a /\ u.nonce >= s.nonce[a]
                                       /\ u.cost <= s.balance[a]
    BY Zenon DEF Executable, Payable, Forward, Of
  <2>4. \E u \in Executable(p, s, a) : u.nonce = s.nonce[a]
    BY <2>1 DEF Executable, Nonces, Of
  <2> QED BY <2>1, <2>2, <2>3, <2>4
<1>4. Front(q, s)
  BY <1>2, <1>3 DEF Front
<1> HIDE DEF A
<1>5. Relinquish(q, A).pending = q.pending
  BY <1>2, RelinquishFields
<1> DEFINE r == Relinquish(q, A)
<1> HIDE DEF r
<1>6. Front(r, s)
  BY <1>4, <1>5 DEF Front, r
<1> QED BY <1>1, <1>6 DEF r

LEMMA NextNonceType ==
  ASSUME NEW p, Good(p, {}), NEW s \in Heads, NEW a \in Addr
  PROVE  NextNonce(p, s, a) \in Nat
<1>1. p.pending \in SUBSET Tx /\ IsFiniteSet(p.pending)
  <2>1. p.pending \subseteq p.all /\ IsFiniteSet(p.all) /\ p \in Pool
    BY DEF Good, Lists
  <2> QED BY <2>1, FS_Subset DEF Pool
<1>2. CASE Of(p.pending, a) = {}
  BY <1>2, HeadType DEF NextNonce
<1>3. CASE Of(p.pending, a) # {}
  <2> DEFINE S == Nonces(p.pending, a)
  <2>1. S \in SUBSET Nat /\ IsFiniteSet(S)
    BY <1>1, NoncesFinite
  <2>2. S # {}
    BY <1>3, Zenon DEF Nonces
  <2>3. NextNonce(p, s, a) = Max(S) + 1
    BY <1>3 DEF NextNonce
  <2> HIDE DEF S
  <2>4. Max(S) \in Nat
    BY <2>1, <2>2, MaxIsGreatest, Zenon
  <2> QED BY <2>3, <2>4
<1> QED BY <1>2, <1>3

(* setAll makes the virtual nonces follow from the lists and the state. *)
LEMMA SetAllKeeps ==
  ASSUME NEW p, Good(p, {}), NEW s \in Heads, Front(p, s)
  PROVE  Good(setAll(p, s), {}) /\ Fits(setAll(p, s), s)
<1> DEFINE n == [a \in Addr |-> NextNonce(p, s, a)]
           q == setAll(p, s)
<1>1. n \in [Addr -> Nat]
  BY NextNonceType
<1>2. \A a \in Addr : Of(p.pending, a) = {} => n[a] = s.nonce[a]
  BY DEF NextNonce
<1>3. q = [p EXCEPT !.nonces = n]
  BY DEF setAll
<1> HIDE DEF q, n
<1>4. /\ q \in Pool /\ q.all = p.all /\ q.pending = p.pending /\ q.queue = p.queue
      /\ q.owner = p.owner /\ q.nonces = n
  BY <1>1, <1>3 DEF Good, Pool
<1>5. Good(q, {})
  BY <1>4 DEF Good, Lists, Holds, Tracked
<1>6. Front(q, s)
  BY <1>4 DEF Front
<1>7. Low(q, s)
  <2> SUFFICES ASSUME NEW a \in Addr, Of(q.pending, a) = {} PROVE q.nonces[a] <= s.nonce[a]
    BY DEF Low
  <2>1. q.nonces[a] = s.nonce[a] /\ s.nonce[a] \in Nat
    BY <1>2, <1>4, HeadType
  <2> QED BY <2>1
<1> QED BY <1>5, <1>6, <1>7 DEF Fits, q

-------------------------------------------------------------------------------
(* truncatePending and truncateQueue. *)

(* The level is AccountSlots or one that brings the total within GlobalSlots. *)
LEMMA LevelChosen ==
  ASSUME NEW P \in SUBSET Tx, IsFiniteSet(P), NEW a \in Addr
  PROVE  LET len == [b \in Addr |-> Cardinality(Of(P, b))]
         IN  /\ Level(len) \in Nat /\ Level(len) >= AccountSlots
             /\ Level(len) = AccountSlots \/ TotalAt(len, Level(len)) <= GlobalSlots
<1> DEFINE len == [b \in Addr |-> Cardinality(Of(P, b))]
           L == {len[b] : b \in Addr}
           C == {AccountSlots} \cup
                {l \in AccountSlots..Max(L) : TotalAt(len, l) <= GlobalSlots}
           lv == Level(len)
<1>1. ASSUME NEW b \in Addr
      PROVE  Cardinality(Of(P, b)) \in Nat /\ Cardinality(Of(P, b)) <= Cardinality(P)
  <2>1. Of(P, b) \subseteq P
    BY DEF Of
  <2>2. IsFiniteSet(Of(P, b)) /\ Cardinality(Of(P, b)) <= Cardinality(P)
    BY <2>1, FS_Subset
  <2> QED BY <2>2, FS_CardinalityType
<1>2. Cardinality(P) \in Nat
  BY FS_CardinalityType
<1>3. len \in [Addr -> 0..Cardinality(P)]
  BY <1>1, <1>2
<1>4. L \in SUBSET Nat /\ L # {} /\ IsFiniteSet(L)
  <2>1. L \subseteq 0..Cardinality(P) /\ L # {}
    BY <1>3
  <2>2. IsFiniteSet(0..Cardinality(P))
    BY <1>2, FS_Interval
  <2> HIDE DEF L
  <2>3. IsFiniteSet(L)
    BY <2>1, <2>2, FS_Subset, Zenon
  <2>4. L \in SUBSET Nat
    BY <1>2, <2>1
  <2> QED BY <2>1, <2>3, <2>4
<1>5. AccountSlots \in Nat
  BY ConfigAssumption
<1>6. Max(L) \in Nat
  BY <1>4, MaxIsGreatest, Zenon
<1> HIDE DEF L, len
<1>7. C \in SUBSET Nat /\ C # {} /\ IsFiniteSet(C)
  <2> DEFINE R == {l \in AccountSlots..Max(L) : TotalAt(len, l) <= GlobalSlots}
  <2>1. R \subseteq AccountSlots..Max(L)
    OBVIOUS
  <2>2. IsFiniteSet(AccountSlots..Max(L))
    BY <1>5, <1>6, FS_Interval
  <2> HIDE DEF R
  <2>3. IsFiniteSet(R)
    BY <2>1, <2>2, FS_Subset, Zenon
  <2>4. R \subseteq Nat
    BY <1>5, <1>6, <2>1
  <2>5. IsFiniteSet({AccountSlots} \cup R)
    BY <2>3, FS_AddElement
  <2> QED BY <1>5, <2>4, <2>5 DEF R
<1>8. lv = Max(C)
  BY DEF Level, L
<1>9. AccountSlots \in C /\ \A l \in C : l = AccountSlots \/ TotalAt(len, l) <= GlobalSlots
  OBVIOUS
<1> HIDE DEF C
<1>10. Max(C) \in C /\ \A n \in C : n <= Max(C)
  BY <1>7, MaxIsGreatest
<1>11. AccountSlots <= Max(C) /\ Max(C) \in Nat
  BY <1>7, <1>9, <1>10, Zenon
<1>12. lv = AccountSlots \/ TotalAt(len, lv) <= GlobalSlots
  BY <1>8, <1>9, <1>10, Zenon
<1> HIDE DEF lv
<1>13. lv \in Nat /\ lv >= AccountSlots
  BY <1>5, <1>8, <1>11
<1> QED BY <1>12, <1>13 DEF lv, len

(* No list is cut below AccountSlots, which is positive: the first of its     *)
(* transactions stays.                                                        *)
LEMMA CutKeepsFirst ==
  ASSUME NEW P \in SUBSET Tx, IsFiniteSet(P), NEW u \in P,
         \A v \in P : v.from = u.from => u.nonce <= v.nonce
  PROVE  LET len == [a \in Addr |-> Cardinality(Of(P, a))]
         IN  u \in CapTo(Of(P, u.from), CutLen(len, Level(len), u.from))
<1> DEFINE a == u.from
           len == [b \in Addr |-> Cardinality(Of(P, b))]
           lv == Level(len)
<1>1. a \in Addr /\ u \in Of(P, a)
  BY TxType DEF Of
<1>2. Of(P, a) \subseteq P
  BY DEF Of
<1>3. IsFiniteSet(Of(P, a))
  BY <1>2, FS_Subset
<1>4. Cardinality(Of(P, a)) # 0 /\ Cardinality(Of(P, a)) \in Nat
  BY <1>1, <1>3, FS_EmptySet, FS_CardinalityType
<1>5. len[a] >= 1 /\ len[a] \in Nat
  BY <1>1, <1>4
<1>6. lv \in Nat /\ lv >= 1
  <2>1. lv \in Nat /\ lv >= AccountSlots
    BY <1>1, LevelChosen
  <2>2. AccountSlots \in Nat /\ AccountSlots >= 1
    BY ConfigAssumption
  <2> HIDE DEF lv
  <2> QED BY <2>1, <2>2
<1> HIDE DEF lv, len
<1>7. CutLen(len, lv, a) >= 1 /\ CutLen(len, lv, a) \in Nat
  <2>1. CASE len[a] > AccountSlots
    <3> DEFINE M == {len[a], lv}
    <3>1. M \in SUBSET Nat /\ M # {}
      BY <1>5, <1>6
    <3>2. Min(M) \in M
      BY <3>1, MinIsLeast
    <3> QED BY <1>5, <1>6, <2>1, <3>2 DEF CutLen
  <2>2. CASE ~(len[a] > AccountSlots)
    BY <1>5, <2>2 DEF CutLen
  <2> QED BY <2>1, <2>2
<1>8. {v \in Of(P, a) : v.nonce < u.nonce} = {}
  <2> SUFFICES ASSUME NEW v \in P, v.from = u.from, v.nonce < u.nonce PROVE FALSE
    BY DEF Of
  <2>1. v.nonce \in Nat /\ u.nonce \in Nat /\ u.nonce <= v.nonce
    BY TxType
  <2> QED BY <2>1
<1>9. Cardinality({v \in Of(P, a) : v.nonce < u.nonce}) = 0
  BY <1>8, FS_EmptySet
<1> DEFINE k == CutLen(len, lv, a)
<1> HIDE DEF k
<1>10. 0 < k
  BY <1>7 DEF k
<1>11. u \in CapTo(Of(P, a), k)
  BY <1>1, <1>9, <1>10 DEF CapTo
<1> QED BY <1>11 DEF k, lv, len

(* With a transaction everything behind it in its list is cut. *)
LEMMA CutsTail ==
  ASSUME NEW P \in SUBSET Tx, IsFiniteSet(P), NEW a \in Addr,
         NEW t \in Of(P, a), NEW u \in Of(P, a), t.nonce < u.nonce
  PROVE  LET len == [b \in Addr |-> Cardinality(Of(P, b))]
         IN  u \in CapTo(Of(P, a), CutLen(len, Level(len), a))
               => t \in CapTo(Of(P, a), CutLen(len, Level(len), a))
<1> DEFINE len == [b \in Addr |-> Cardinality(Of(P, b))]
           k == CutLen(len, Level(len), a)
           Before(v) == {w \in Of(P, a) : w.nonce < v.nonce}
<1>1. Of(P, a) \subseteq P /\ Of(P, a) \subseteq Tx
  BY DEF Of
<1>2. IsFiniteSet(Of(P, a))
  BY <1>1, FS_Subset
<1>3. Level(len) \in Nat /\ len[a] \in Nat
  BY <1>2, LevelChosen, FS_CardinalityType
<1> HIDE DEF len
<1>4. k \in Nat
  <2> DEFINE M == {len[a], Level(len)}
  <2>1. M \in SUBSET Nat /\ M # {}
    BY <1>3
  <2>2. Min(M) \in M
    BY <2>1, MinIsLeast
  <2> QED BY <1>3, <2>1, <2>2 DEF CutLen
<1> HIDE DEF k
<1>5. Before(t) \subseteq Before(u) /\ Before(u) \subseteq Of(P, a)
  BY <1>1, TxType
<1> HIDE DEF Before
<1>6. IsFiniteSet(Before(u)) /\ IsFiniteSet(Before(t))
  BY <1>2, <1>5, FS_Subset
<1>7. /\ Cardinality(Before(t)) <= Cardinality(Before(u))
      /\ Cardinality(Before(t)) \in Nat /\ Cardinality(Before(u)) \in Nat
  BY <1>5, <1>6, FS_Subset, FS_CardinalityType
<1>8. /\ u \in CapTo(Of(P, a), k) <=> Cardinality(Before(u)) < k
      /\ t \in CapTo(Of(P, a), k) <=> Cardinality(Before(t)) < k
  BY DEF CapTo, Before
<1>9. u \in CapTo(Of(P, a), k) => t \in CapTo(Of(P, a), k)
  BY <1>4, <1>7, <1>8
<1> QED BY <1>9 DEF k, len

TruncatedOf(q, p, cut) ==
    /\ q \in Pool
    /\ cut \subseteq p.pending
    /\ q.all = p.all \ cut /\ q.pending = p.pending \ cut /\ q.queue = p.queue
    /\ q.owner = p.owner /\ q.nonces = LoweredNonces(p, cut)
    /\ \A a \in Addr : q.nonces[a] <= p.nonces[a]
    /\ \A t \in cut, u \in p.pending : u.from = t.from /\ t.nonce < u.nonce => u \in cut
    /\ \A u \in p.pending : (\A v \in p.pending : v.from = u.from => u.nonce <= v.nonce)
                              => u \notin cut

LEMMA TruncateFields ==
  ASSUME NEW p \in Pool, Lists(p), IsFiniteSet(p.all)
  PROVE  \E cut : TruncatedOf(truncatePending(p), p, cut)
<1> DEFINE P == p.pending
           len == [a \in Addr |-> Cardinality(Of(P, a))]
           top(a) == CapTo(Of(P, a), CutLen(len, Level(len), a))
           cut == UNION {Of(P, a) \ top(a) : a \in Addr}
           q == truncatePending(p)
<1>1. q = [p EXCEPT !.pending = @ \ cut, !.all = @ \ cut, !.nonces = LoweredNonces(p, cut)]
  BY DEF truncatePending
<1>2. P \in SUBSET Tx /\ p.nonces \in [Addr -> Nat]
  BY DEF Pool
<1>3. IsFiniteSet(P)
  <2>1. P \subseteq p.all
    BY DEF Lists
  <2> QED BY <2>1, FS_Subset
<1>4. ASSUME NEW u \in P, \A v \in P : v.from = u.from => u.nonce <= v.nonce
      PROVE  u \notin cut
  <2>1. u \in top(u.from)
    BY <1>2, <1>3, <1>4, CutKeepsFirst
  <2> HIDE DEF top
  <2>2. \A a \in Addr : u \in Of(P, a) => a = u.from
    BY DEF Of
  <2> QED BY <2>1, <2>2, Zenon
<1>5. cut \subseteq P
  <2> HIDE DEF top
  <2> QED BY DEF Of
<1>6. ASSUME NEW t \in cut, NEW u \in P, u.from = t.from, t.nonce < u.nonce PROVE u \in cut
  <2>1. PICK a \in Addr : t \in Of(P, a) /\ t \notin top(a)
    BY Zenon
  <2>2. u \in Of(P, a)
    BY <1>6, <2>1 DEF Of
  <2>3. u \in top(a) => t \in top(a)
    BY <1>2, <1>3, <1>6, <2>1, <2>2, CutsTail, Zenon
  <2> HIDE DEF top
  <2> QED BY <2>1, <2>2, <2>3
<1> HIDE DEF cut, top
<1>7. ASSUME NEW a \in Addr
      PROVE  LoweredNonces(p, cut)[a] \in Nat /\ LoweredNonces(p, cut)[a] <= p.nonces[a]
  <2> DEFINE S == {p.nonces[a]} \cup Nonces(cut \cap p.pending, a)
  <2>1. S \in SUBSET Nat /\ S # {} /\ p.nonces[a] \in S
    BY <1>2, TxType DEF Nonces, Of
  <2>2. LoweredNonces(p, cut)[a] = Min(S)
    BY DEF LoweredNonces
  <2> HIDE DEF S
  <2>3. Min(S) \in S /\ Min(S) <= p.nonces[a]
    BY <2>1, MinIsLeast, Zenon
  <2> QED BY <2>1, <2>2, <2>3, Zenon
<1>8. LoweredNonces(p, cut) \in [Addr -> Nat]
  BY <1>7, Zenon DEF LoweredNonces
<1> DEFINE n == LoweredNonces(p, cut)
<1> HIDE DEF n, q
<1>9. /\ q \in Pool /\ q.all = p.all \ cut /\ q.pending = p.pending \ cut /\ q.queue = p.queue
      /\ q.owner = p.owner /\ q.nonces = n
  <2>1. n \in [Addr -> Nat]
    BY <1>8 DEF n
  <2>2. q = [p EXCEPT !.pending = p.pending \ cut, !.all = p.all \ cut, !.nonces = n]
    BY <1>1 DEF n
  <2> QED BY <2>1, <2>2, Zenon DEF Pool
<1>10. TruncatedOf(q, p, cut)
  BY <1>4, <1>5, <1>7, <1>9, <1>6 DEF TruncatedOf, n
<1> QED BY <1>10 DEF q

LEMMA TruncatePendingGood ==
  ASSUME NEW p, Good(p, {})
  PROVE  Good(truncatePending(p), {})
<1>0. p \in Pool /\ Lists(p) /\ IsFiniteSet(p.all) /\ Holds(p, {})
  BY DEF Good
<1> DEFINE q == truncatePending(p)
<1>1. PICK cut : TruncatedOf(q, p, cut)
  BY <1>0, TruncateFields
<1> HIDE DEF q
<1>2. /\ q \in Pool /\ cut \subseteq p.pending
      /\ q.all = p.all \ cut /\ q.pending = p.pending \ cut /\ q.queue = p.queue
      /\ q.owner = p.owner
  BY <1>1 DEF TruncatedOf
<1>3. IsFiniteSet(q.all)
  <2>1. q.all \subseteq p.all
    BY <1>2
  <2> QED BY <1>0, <2>1, FS_Subset
<1>4. Lists(q)
  BY <1>0, <1>2 DEF Lists
<1>5. ASSUME NEW a \in Addr, Of(p.pending, a) # {} PROVE Of(q.pending, a) # {}
  <2> DEFINE S == {t.nonce : t \in Of(p.pending, a)}
  <2>1. p.pending \subseteq Tx
    BY <1>0 DEF Pool
  <2>2. S \in SUBSET Nat /\ S # {}
    BY <1>5, <2>1, TxType DEF Of
  <2>3. PICK m \in S : \A n \in S : m <= n
    BY <2>2, LeastNat, Zenon
  <2>4. PICK u \in p.pending : u.from = a /\ u.nonce = m
    BY DEF Of
  <2>5. \A v \in p.pending : v.from = u.from => u.nonce <= v.nonce
    BY <2>3, <2>4, Zenon DEF Of
  <2>6. u \notin cut
    BY <1>1, <2>5 DEF TruncatedOf
  <2> QED BY <1>2, <2>4, <2>6 DEF Of
<1>6. \A a \in Addr : Tracked(q, a) <=> Tracked(p, a)
  <2>1. q.pending \subseteq p.pending /\ q.queue = p.queue
    BY <1>2
  <2> QED BY <1>5, <2>1 DEF Tracked, Of
<1>7. Holds(q, {})
  BY <1>0, <1>2, <1>6 DEF Holds
<1>8. Good(q, {})
  BY <1>2, <1>3, <1>4, <1>7 DEF Good
<1> QED BY <1>8 DEF q

LEMMA TruncatePendingFits ==
  ASSUME NEW p, Good(p, {}), NEW s \in Heads, Fits(p, s)
  PROVE  Fits(truncatePending(p), s)
<1>0. p \in Pool /\ Lists(p) /\ IsFiniteSet(p.all)
  BY DEF Good
<1> DEFINE q == truncatePending(p)
<1>1. PICK cut : TruncatedOf(q, p, cut)
  BY <1>0, TruncateFields
<1> HIDE DEF q
<1>2. /\ q \in Pool /\ q.pending = p.pending \ cut
      /\ \A a \in Addr : q.nonces[a] <= p.nonces[a]
  BY <1>1 DEF TruncatedOf
<1>3. p.pending \subseteq Tx /\ p.nonces \in [Addr -> Nat] /\ q.nonces \in [Addr -> Nat]
      /\ s.nonce \in [Addr -> Nat]
  BY <1>0, <1>2, HeadType DEF Pool
<1>4. ASSUME NEW t \in p.pending
      PROVE  \E u \in q.pending : u.from = t.from /\ u.nonce = s.nonce[t.from]
  <2>1. PICK u \in p.pending : u.from = t.from /\ u.nonce = s.nonce[t.from]
    BY DEF Fits, Front
  <2>2. \A v \in p.pending : v.from = u.from => u.nonce <= v.nonce
    <3> SUFFICES ASSUME NEW v \in p.pending, v.from = u.from PROVE u.nonce <= v.nonce
      OBVIOUS
    <3>1. v.nonce >= s.nonce[v.from] /\ v.nonce \in Nat /\ u.nonce \in Nat
      BY <1>3, TxType DEF Fits, Front
    <3> QED BY <2>1, <3>1
  <2>3. u \notin cut
    BY <1>1, <2>2, Zenon DEF TruncatedOf
  <2> QED BY <1>2, <2>1, <2>3
<1>5. Front(q, s)
  <2> SUFFICES ASSUME NEW t \in q.pending
               PROVE  /\ t.nonce >= s.nonce[t.from]
                      /\ \E u \in q.pending : u.from = t.from /\ u.nonce = s.nonce[t.from]
                      /\ t.cost <= s.balance[t.from]
    BY DEF Front
  <2>1. t \in p.pending
    BY <1>2
  <2> QED BY <1>4, <2>1 DEF Fits, Front
<1>6. Low(q, s)
  <2> SUFFICES ASSUME NEW a \in Addr, Of(q.pending, a) = {} PROVE q.nonces[a] <= s.nonce[a]
    BY DEF Low
  <2>1. Of(p.pending, a) = {}
    BY <1>4 DEF Of
  <2>2. p.nonces[a] <= s.nonce[a]
    BY <2>1 DEF Fits, Low
  <2> QED BY <1>2, <1>3, <2>2
<1>7. Fits(q, s)
  BY <1>5, <1>6 DEF Fits
<1> QED BY <1>7 DEF q

LEMMA TruncateQueueKeeps ==
  ASSUME NEW p, Good(p, {}), NEW q \in truncateQueue(p)
  PROVE  Good(q, {}) /\ \A s \in Heads : Fits(p, s) => Fits(q, s)
<1>0. p \in Pool /\ Lists(p)
  BY DEF Good
<1>1. PICK order : q = removeTx(p, LastDropped(p, order), {})
  BY Zenon DEF truncateQueue
<1> DEFINE D == LastDropped(p, order)
<1>2. D \in SUBSET p.all
  BY <1>0 DEF LastDropped, Lists
<1> HIDE DEF D
<1>3. Good(removeTx(p, D, {}), {})
  BY <1>2, RemoveGood
<1>4. \A s \in Heads : Fits(p, s) => Fits(removeTx(p, D, {}), s)
  BY <1>0, <1>2, RemoveFits
<1> QED BY <1>1, <1>3, <1>4 DEF D

-------------------------------------------------------------------------------
(* runReorg: a run that resets needs nothing of the lists but that they are   *)
(* good, the others need them to fit the state they work on.                  *)
LEMMA RunReorgKeeps ==
  ASSUME NEW p, Good(p, {}), NEW s \in Heads, NEW A \in SUBSET Addr, NEW resetting \in BOOLEAN,
         NEW q \in runReorg(p, s, A, resetting), resetting \/ Fits(p, s)
  PROVE  Good(q, {}) /\ Fits(q, s)
<1> DEFINE promoted == promoteExecutables(p, s, A)
           demoted == demoteUnexecutables(promoted, s)
           settled == IF resetting THEN setAll(demoted, s) ELSE promoted
           cut == truncatePending(settled)
<1>1. PICK r \in truncateQueue(cut) : q = [r EXCEPT !.changes = 0]
  BY DEF runReorg
<1>2. Good(promoted, {}) /\ (Fits(p, s) => Fits(promoted, s))
  BY PromoteGood, PromoteFits
<1> HIDE DEF promoted
<1>3. Good(demoted, {}) /\ Front(demoted, s)
  <2>1. promoted \in Pool /\ Lists(promoted)
    BY <1>2 DEF Good
  <2> QED BY <1>2, <2>1, DemoteGood, DemoteFront
<1> HIDE DEF demoted
<1>4. Good(settled, {}) /\ Fits(settled, s)
  <2>1. CASE resetting
    BY <1>3, <2>1, SetAllKeeps
  <2>2. CASE ~resetting
    BY <1>2, <2>2
  <2> QED BY <2>1, <2>2
<1> HIDE DEF settled
<1>5. Good(cut, {}) /\ Fits(cut, s)
  BY <1>4, TruncatePendingGood, TruncatePendingFits
<1> HIDE DEF cut
<1>6. Good(r, {}) /\ Fits(r, s)
  BY <1>5, TruncateQueueKeeps
<1>7. /\ q \in Pool /\ q.all = r.all /\ q.pending = r.pending /\ q.queue = r.queue
      /\ q.owner = r.owner /\ q.nonces = r.nonces
  BY <1>1, <1>6 DEF Good, Pool
<1>8. Good(q, {})
  BY <1>6, <1>7, Zenon DEF Good, Lists, Holds, Tracked
<1>9. Fits(q, s)
  BY <1>6, <1>7 DEF Fits, Front, Low
<1> QED BY <1>8, <1>9

-------------------------------------------------------------------------------
(* add. *)

(* The account is reserved before the drops, and they leave it so. *)
RoomFor(m, p, tx, D) ==
    /\ Good(m, {tx.from}) /\ m.owner[tx.from] = "legacy"
    /\ m.all = p.all \ D /\ m.pending = p.pending \ (D \cup Invalidated(p, D))
    /\ m.queue = (p.queue \ D) \cup Invalidated(p, D) /\ m.nonces = LoweredNonces(p, D)
    /\ \A s \in Heads : Fits(p, s) => Fits(m, s)

LEMMA MakeRoomKeeps ==
  ASSUME NEW p, Good(p, {}), NEW tx \in Tx, NEW D \in SUBSET p.all
  PROVE  RoomFor(MakeRoom(p, tx, D), p, tx, D)
<1> DEFINE held == [p EXCEPT !.owner[tx.from] = "legacy"]
           K == {tx.from}
           gone == (D \cap p.pending) \cup Invalidated(p, D)
           cleared == removeTx(held, D, K)
           m == MakeRoom(p, tx, D)
<1>0. p \in Pool /\ Lists(p) /\ IsFiniteSet(p.all) /\ Holds(p, {})
  BY DEF Good
<1>1. m = [cleared EXCEPT !.changes = @ + Cardinality(gone)]
  BY DEF MakeRoom, KeptReserved
<1>2. tx.from \in Addr
  BY TxType
<1>3. /\ held \in Pool /\ held.all = p.all /\ held.pending = p.pending /\ held.queue = p.queue
      /\ held.nonces = p.nonces
      /\ \A a \in Addr : held.owner[a] = IF a = tx.from THEN "legacy" ELSE p.owner[a]
  BY <1>0, <1>2, Zenon DEF Pool, Owners
<1> HIDE DEF held
<1>4. Good(held, K)
  <2>1. Holds(held, K)
    BY <1>0, <1>3 DEF Holds, Tracked
  <2> QED BY <1>0, <1>3, <2>1, Zenon DEF Good, Lists
<1>5. \A s \in Heads : Fits(p, s) => Fits(held, s)
  BY <1>3 DEF Fits, Front, Low
<1>6. D \in SUBSET held.all /\ Lists(held)
  BY <1>3, <1>4 DEF Good
<1>7. Good(cleared, K)
  BY <1>4, <1>6, RemoveGood, Zenon
<1>8. \A s \in Heads : Fits(p, s) => Fits(cleared, s)
  BY <1>3, <1>5, <1>6, RemoveFits, Zenon
<1>9. Removed(cleared, held, D, K)
  BY <1>3, <1>6, RemoveFields, Zenon
<1> HIDE DEF cleared
<1>10. /\ cleared.owner[tx.from] = "legacy" /\ cleared.all = p.all \ D
       /\ cleared.pending = p.pending \ (D \cup Invalidated(p, D))
       /\ cleared.queue = (p.queue \ D) \cup Invalidated(p, D)
       /\ cleared.nonces = LoweredNonces(p, D)
  <2>1. Invalidated(held, D) = Invalidated(p, D)
    BY <1>3, Zenon DEF Invalidated
  <2>2. LoweredNonces(held, D) = LoweredNonces(p, D)
    BY <1>3, Zenon DEF LoweredNonces
  <2> QED BY <1>2, <1>3, <1>9, <2>1, <2>2 DEF Removed
<1>11. Cardinality(gone) \in Nat
  <2>1. gone \subseteq p.all
    BY <1>0 DEF Lists, Invalidated
  <2> HIDE DEF gone
  <2>2. IsFiniteSet(gone)
    BY <1>0, <2>1, FS_Subset
  <2> QED BY <2>2, FS_CardinalityType
<1> DEFINE n == Cardinality(gone)
<1> HIDE DEF n, gone
<1> HIDE DEF m
<1>12. /\ m \in Pool /\ m.all = cleared.all /\ m.pending = cleared.pending
       /\ m.queue = cleared.queue /\ m.nonces = cleared.nonces /\ m.owner = cleared.owner
  <2>1. n \in Nat /\ m = [cleared EXCEPT !.changes = @ + n]
    BY <1>1, <1>11 DEF n
  <2>2. cleared \in Pool
    BY <1>7, Zenon DEF Good
  <2> QED BY <2>1, <2>2 DEF Pool
<1>13. Good(m, K)
  BY <1>7, <1>12, Zenon DEF Good, Lists, Holds, Tracked
<1>14. \A s \in Heads : Fits(p, s) => Fits(m, s)
  <2> SUFFICES ASSUME NEW s \in Heads, Fits(cleared, s) PROVE Fits(m, s)
    BY <1>8, Zenon
  <2> QED BY <1>12 DEF Fits, Front, Low
<1>15. RoomFor(m, p, tx, D)
  BY <1>10, <1>12, <1>13, <1>14, Zenon DEF RoomFor
<1> QED BY <1>15 DEF m

(* The three outcomes of Insert: refused, over a pending transaction, and     *)
(* into the queue.                                                            *)
Refused(r, m) == r.ok = FALSE /\ r.pool = m
TookOver(r, m, tx, pend) ==
    /\ r.ok = TRUE /\ pend # {}
    /\ r.pool = [m EXCEPT !.pending = (m.pending \ pend) \cup {tx},
                          !.all     = (m.all \ pend) \cup {tx}]
Enqueued(r, m, tx, pend, queued) ==
    /\ r.ok = TRUE /\ pend = {} /\ \A o \in queued : Replaces(tx, o)
    /\ r.pool = enqueueTx(m, {tx}, TRUE)

LEMMA InsertCases ==
  ASSUME NEW m, NEW tx
  PROVE  \E pend, queued :
           /\ pend = {o \in m.pending : SameSlot(o, tx)}
           /\ queued = {o \in m.queue : SameSlot(o, tx)}
           /\ \/ Refused(Insert(m, tx), m)
              \/ TookOver(Insert(m, tx), m, tx, pend)
              \/ Enqueued(Insert(m, tx), m, tx, pend, queued)
<1> DEFINE pend == {o \in m.pending : SameSlot(o, tx)}
           queued == {o \in m.queue : SameSlot(o, tx)}
           old == pend \cup queued
           bad == \E o \in (IF pend # {} THEN pend ELSE old) : ~Replaces(tx, o)
           over == [m EXCEPT !.pending = (m.pending \ pend) \cup {tx},
                             !.all = (m.all \ pend) \cup {tx}]
           into == enqueueTx(m, {tx}, TRUE)
           new == IF pend # {} THEN over ELSE into
           r == Insert(m, tx)
<1>1. r = IF bad THEN [pool |-> m, ok |-> FALSE, replaced |-> FALSE]
          ELSE [pool |-> new, ok |-> TRUE, replaced |-> old # {}]
  BY DEF Insert
<1>2. pend = {} /\ ~bad => \A o \in queued : Replaces(tx, o)
  <2> HIDE DEF pend, queued
  <2> QED OBVIOUS
<1> HIDE DEF bad, r, pend, queued
<1>3. CASE bad
  <2>1. Refused(r, m)
    BY <1>1, <1>3 DEF Refused
  <2> QED BY <2>1, Zenon DEF r, pend, queued
<1>4. CASE ~bad /\ pend # {}
  <2>1. new = over
    BY <1>4
  <2> HIDE DEF new
  <2>2. r.ok = TRUE /\ r.pool = over
    BY <1>1, <1>4, <2>1
  <2>3. TookOver(r, m, tx, pend)
    BY <1>4, <2>2, Zenon DEF TookOver
  <2> QED BY <2>3, Zenon DEF r, pend, queued
<1>5. CASE ~bad /\ pend = {}
  <2>1. new = into
    BY <1>5
  <2> HIDE DEF new
  <2>2. r.ok = TRUE /\ r.pool = into
    BY <1>1, <1>5, <2>1
  <2>3. Enqueued(r, m, tx, pend, queued)
    BY <1>2, <1>5, <2>2 DEF Enqueued
  <2> QED BY <2>3 DEF r, pend, queued
<1> QED BY <1>3, <1>4, <1>5


(* tx is in, and the pool fits the states that allow tx as well as before. *)
Inserted(q, m, tx) ==
    /\ Good(q, {})
    /\ \A s \in Heads : /\ s.nonce[tx.from] <= tx.nonce /\ tx.cost <= s.balance[tx.from]
                        /\ Fits(m, s)
                        => Fits(q, s)

(* The insertion over a pending transaction leaves the front of the list at   *)
(* the same nonce.                                                            *)
LEMMA TakeOverKeeps ==
  ASSUME NEW m, NEW tx \in Tx, Good(m, {tx.from}), m.owner[tx.from] = "legacy", tx \notin m.all,
         NEW pend, pend = {o \in m.pending : SameSlot(o, tx)}, pend # {},
         NEW q, q = [m EXCEPT !.pending = (m.pending \ pend) \cup {tx},
                              !.all     = (m.all \ pend) \cup {tx}]
  PROVE  Inserted(q, m, tx)
<1>0. m \in Pool /\ Lists(m) /\ IsFiniteSet(m.all) /\ Holds(m, {tx.from})
  BY DEF Good
<1>1. pend \subseteq m.pending /\ m.pending \subseteq Tx /\ tx.from \in Addr
  BY <1>0, TxType DEF Pool
<1>2. /\ q \in Pool /\ q.all = (m.all \ pend) \cup {tx}
      /\ q.pending = (m.pending \ pend) \cup {tx}
      /\ q.queue = m.queue /\ q.owner = m.owner /\ q.nonces = m.nonces
  BY <1>0, Zenon DEF Pool
<1>3. \A o \in m.pending : o \in pend <=> (o.from = tx.from /\ o.nonce = tx.nonce)
  BY DEF SameSlot
<1>4. IsFiniteSet(q.all)
  <2>1. IsFiniteSet(m.all \ pend)
    BY <1>0, FS_Subset
  <2> QED BY <1>2, <2>1, FS_AddElement
<1>5. Lists(q)
  <2>1. q.all = q.pending \cup q.queue /\ q.pending \cap q.queue = {}
    BY <1>0, <1>1, <1>2 DEF Lists
  <2>2. PICK o \in pend : TRUE
    OBVIOUS
  <2>3. ASSUME NEW t \in m.all, SameSlot(t, tx) \/ SameSlot(tx, t) PROVE t \in pend
    <3>1. SameSlot(t, o) /\ o \in m.all
      BY <1>0, <1>1, <1>3, <2>2, <2>3 DEF SameSlot, Lists
    <3> QED BY <1>0, <2>2, <3>1 DEF Lists
  <2>4. \A t, u \in q.all : SameSlot(t, u) => t = u
    <3> SUFFICES ASSUME NEW t \in q.all, NEW u \in q.all, SameSlot(t, u) PROVE t = u
      OBVIOUS
    <3>1. CASE t \in m.all \ pend /\ u \in m.all \ pend
      BY <1>0, <3>1 DEF Lists
    <3>2. CASE t = tx /\ u \in m.all \ pend
      BY <2>3, <3>2
    <3>3. CASE t \in m.all \ pend /\ u = tx
      BY <2>3, <3>3
    <3> QED BY <1>2, <3>1, <3>2, <3>3
  <2> QED BY <2>1, <2>4 DEF Lists
<1>6. ASSUME NEW a \in Addr
      PROVE  /\ Of(q.pending, a) = {} <=> Of(m.pending, a) = {}
             /\ Tracked(q, a) <=> Tracked(m, a)
  <2>1. Of(q.pending, a) = {} <=> Of(m.pending, a) = {}
    BY <1>1, <1>2, <1>3 DEF Of
  <2> QED BY <1>2, <2>1, Zenon DEF Tracked
<1>7. Tracked(q, tx.from)
  BY <1>2 DEF Tracked, Of
<1>8. Holds(q, {})
  <2> SUFFICES ASSUME NEW a \in Addr
               PROVE  /\ Tracked(q, a) => q.owner[a] = "legacy"
                      /\ q.owner[a] = "legacy" => Tracked(q, a)
    BY Zenon DEF Holds
  <2> QED BY <1>0, <1>2, <1>6, <1>7, Zenon DEF Holds
<1>9. Good(q, {})
  BY <1>2, <1>4, <1>5, <1>8 DEF Good
<1>10. ASSUME NEW s \in Heads, s.nonce[tx.from] <= tx.nonce, tx.cost <= s.balance[tx.from],
              Fits(m, s)
       PROVE  Fits(q, s)
  <2>1. s.nonce \in [Addr -> Nat] /\ tx.nonce \in Nat
    BY HeadType, TxType
  <2>2. ASSUME NEW t \in m.pending
        PROVE  \E u \in q.pending : u.from = t.from /\ u.nonce = s.nonce[t.from]
    <3>1. PICK u \in m.pending : u.from = t.from /\ u.nonce = s.nonce[t.from]
      BY <1>10 DEF Fits, Front
    <3>2. CASE u \in pend
      <4>1. tx.from = t.from /\ tx.nonce = s.nonce[t.from]
        BY <1>3, <3>1, <3>2
      <4> QED BY <1>2, <4>1
    <3>3. CASE u \notin pend
      BY <1>2, <3>1, <3>3
    <3> QED BY <3>2, <3>3
  <2>3. Front(q, s)
    <3> SUFFICES ASSUME NEW t \in q.pending
                 PROVE  /\ t.nonce >= s.nonce[t.from]
                        /\ \E u \in q.pending : u.from = t.from /\ u.nonce = s.nonce[t.from]
                        /\ t.cost <= s.balance[t.from]
      BY DEF Front
    <3>1. CASE t \in m.pending
      BY <1>10, <2>2, <3>1 DEF Fits, Front
    <3>2. CASE t = tx
      <4>1. PICK o \in m.pending : o.from = tx.from
        BY <1>1, <1>3
      <4>2. \E u \in q.pending : u.from = tx.from /\ u.nonce = s.nonce[tx.from]
        BY <2>2, <4>1
      <4>3. tx.nonce >= s.nonce[tx.from]
        BY <1>1, <1>10, <2>1
      <4> QED BY <1>10, <3>2, <4>2, <4>3
    <3> QED BY <1>2, <3>1, <3>2
  <2>4. Low(q, s)
    BY <1>2, <1>6, <1>10, Zenon DEF Fits, Low
  <2> QED BY <2>3, <2>4 DEF Fits
<1> QED BY <1>9, <1>10, Zenon DEF Inserted

LEMMA EnqueueKeeps ==
  ASSUME NEW m, NEW tx \in Tx, Good(m, {tx.from}), m.owner[tx.from] = "legacy", tx \notin m.all,
         \A o \in m.pending : ~SameSlot(o, tx),
         \A o \in m.queue : SameSlot(o, tx) => Replaces(tx, o)
  PROVE  /\ Good(enqueueTx(m, {tx}, TRUE), {})
         /\ \A s \in Heads : Fits(m, s) => Fits(enqueueTx(m, {tx}, TRUE), s)
<1> DEFINE won == {t \in {tx} : \A o \in m.queue : SameSlot(o, t) => Replaces(t, o)}
           olds == {o \in m.queue : \E t \in won : SameSlot(o, t)}
           q == enqueueTx(m, {tx}, TRUE)
<1>0. m \in Pool /\ Lists(m) /\ IsFiniteSet(m.all) /\ Holds(m, {tx.from})
  BY DEF Good
<1>1. q = [m EXCEPT !.queue = (@ \ olds) \cup won, !.all = (@ \ olds) \cup won]
  BY DEF enqueueTx
<1>2. won = {tx} /\ olds = {o \in m.queue : SameSlot(o, tx)}
  OBVIOUS
<1> HIDE DEF won, olds, q
<1>3. q = [m EXCEPT !.queue = (m.queue \ olds) \cup {tx}, !.all = (m.all \ olds) \cup {tx}]
  BY <1>1, <1>2
<1>4. /\ q \in Pool /\ q.all = (m.all \ olds) \cup {tx} /\ q.queue = (m.queue \ olds) \cup {tx}
      /\ q.pending = m.pending /\ q.owner = m.owner /\ q.nonces = m.nonces
  BY <1>0, <1>3, Zenon DEF Pool
<1>5. /\ olds \subseteq m.queue
      /\ \A o \in m.all : o \notin olds => ~SameSlot(o, tx) /\ ~SameSlot(tx, o)
  BY <1>0, <1>2, Zenon DEF Lists, SameSlot
<1>6. IsFiniteSet(q.all)
  <2>1. IsFiniteSet(m.all \ olds)
    BY <1>0, FS_Subset
  <2> QED BY <1>4, <2>1, FS_AddElement, SMTT(30)
<1>7. Lists(q)
  <2>1. q.all = q.pending \cup q.queue /\ q.pending \cap q.queue = {}
    BY <1>0, <1>4, <1>5, Zenon DEF Lists
  <2>2. \A t, u \in q.all : SameSlot(t, u) => t = u
    BY <1>0, <1>4, <1>5, ZenonT(60) DEF Lists
  <2> QED BY <2>1, <2>2, Zenon DEF Lists
<1>8. Holds(q, {})
  <2> SUFFICES ASSUME NEW a \in Addr
               PROVE  /\ Tracked(q, a) => q.owner[a] = "legacy"
                      /\ q.owner[a] = "legacy" => Tracked(q, a)
    BY DEF Holds
  <2>1. Tracked(q, tx.from)
    BY <1>4, Zenon DEF Tracked, Of
  <2>2. a # tx.from => (Tracked(q, a) <=> Tracked(m, a))
    BY <1>2, <1>4, <1>5, Zenon DEF Tracked, Of, SameSlot
  <2> QED BY <1>0, <1>4, <2>1, <2>2, Zenon DEF Holds
<1>9. Good(q, {})
  BY <1>4, <1>6, <1>7, <1>8, Zenon DEF Good
<1>10. ASSUME NEW s \in Heads, Fits(m, s) PROVE Fits(q, s)
  BY <1>4, <1>10 DEF Fits, Front, Low
<1> QED BY <1>9, <1>10, Zenon DEF q

LEMMA AdmittedKeeps ==
  ASSUME NEW p, Good(p, {}), NEW tx \in Tx, tx \notin p.all, NEW D \in SUBSET p.all
  PROVE  /\ Good(Admitted(p, tx, D).pool, {})
         /\ \A s \in Heads : /\ s.nonce[tx.from] <= tx.nonce /\ tx.cost <= s.balance[tx.from]
                             /\ Fits(p, s)
                             => Fits(Admitted(p, tx, D).pool, s)
<1> DEFINE m == MakeRoom(p, tx, D)
           r == Insert(m, tx)
           q == Admitted(p, tx, D).pool
<1>1. RoomFor(m, p, tx, D)
  BY MakeRoomKeeps
<1>2. Admitted(p, tx, D) = IF r.ok THEN r ELSE [r EXCEPT !.pool = Relinquish(@, {tx.from})]
  BY DEF Admitted
<1> HIDE DEF m
<1>3. /\ Good(m, {tx.from}) /\ m.owner[tx.from] = "legacy" /\ tx \notin m.all
      /\ \A s \in Heads : Fits(p, s) => Fits(m, s)
  BY <1>1, Zenon DEF RoomFor
<1>4. PICK pend, queued :
        /\ pend = {o \in m.pending : SameSlot(o, tx)}
        /\ queued = {o \in m.queue : SameSlot(o, tx)}
        /\ Refused(r, m) \/ TookOver(r, m, tx, pend) \/ Enqueued(r, m, tx, pend, queued)
  BY InsertCases, Zenon
<1>5. CASE Refused(r, m)
  <2>1. q = Relinquish(m, {tx.from})
    <3>1. \E old : r = [pool |-> m, ok |-> FALSE, replaced |-> old]
      <4>1. r.ok = FALSE
        BY <1>5, Zenon DEF Refused
      <4> QED BY <4>1, Zenon DEF Insert
    <3> HIDE DEF r
    <3> QED BY <1>2, <3>1
  <2>2. Good(Relinquish(m, {tx.from}), {})
    BY <1>3, RelinquishGood
  <2>3. \A s \in Heads : Fits(m, s) => Fits(Relinquish(m, {tx.from}), s)
    <3>1. m \in Pool
      BY <1>3 DEF Good
    <3> QED BY <3>1, RelinquishFits, Zenon
  <2> HIDE DEF q
  <2>4. Good(q, {}) /\ \A s \in Heads : Fits(m, s) => Fits(q, s)
    BY <2>1, <2>2, <2>3, Zenon
  <2> QED BY <1>3, <2>4 DEF q
<1>6. CASE TookOver(r, m, tx, pend)
  <2>1. /\ pend # {}
        /\ q = [m EXCEPT !.pending = (m.pending \ pend) \cup {tx},
                         !.all     = (m.all \ pend) \cup {tx}]
    <3> HIDE DEF r
    <3> QED BY <1>2, <1>6, Zenon DEF TookOver
  <2> HIDE DEF q
  <2>2. pend = {o \in m.pending : SameSlot(o, tx)}
    BY <1>4
  <2>3. Inserted(q, m, tx)
    BY <1>3, <2>1, <2>2, TakeOverKeeps, Zenon
  <2> QED BY <1>3, <2>3 DEF q, Inserted
<1>7. CASE Enqueued(r, m, tx, pend, queued)
  <2>1. pend = {} /\ (\A o \in queued : Replaces(tx, o)) /\ q = enqueueTx(m, {tx}, TRUE)
    <3> HIDE DEF r
    <3> QED BY <1>2, <1>7, Zenon DEF Enqueued
  <2> HIDE DEF q
  <2>2. /\ \A o \in m.pending : ~SameSlot(o, tx)
        /\ \A o \in m.queue : SameSlot(o, tx) => Replaces(tx, o)
    BY <1>4, <2>1
  <2>3. Good(q, {}) /\ \A s \in Heads : Fits(m, s) => Fits(q, s)
    BY <1>3, <2>1, <2>2, EnqueueKeeps, Zenon
  <2> QED BY <1>3, <2>3 DEF q
<1> QED BY <1>4, <1>5, <1>6, <1>7, Zenon

LEMMA AddKeeps ==
  ASSUME NEW p, Good(p, {}), NEW s \in Heads, NEW tx \in Tx, NEW r \in add(p, s, tx)
  PROVE  Good(r.pool, {}) /\ (Fits(p, s) => Fits(r.pool, s))
<1>1. CASE r = Rejected(p)
  BY <1>1, Zenon DEF Rejected
<1>2. CASE r # Rejected(p)
  <2>1. tx \notin p.all /\ validateTx(p, s, tx)
    BY <1>2 DEF add
  <2>2. PICK D \in Victims(p, tx) : r = Admitted(p, tx, D)
    BY <1>2, Zenon DEF add
  <2>3. D \in SUBSET p.all
    BY Zenon DEF Victims, Discards
  <2>4. s.nonce[tx.from] <= tx.nonce /\ tx.cost <= s.balance[tx.from]
    BY <2>1 DEF validateTx
  <2> QED BY <2>1, <2>2, <2>3, <2>4, AdmittedKeeps
<1> QED BY <1>1, <1>2

-------------------------------------------------------------------------------
(* Reinject. *)

Stepped(S, s, tx) == UNION {{r.pool : r \in add(q, s, tx)} : q \in S}

(* f holds the outcomes after each of the first k transactions. *)
Outcomes(f, k, p, s, txs) ==
    f = [i \in 0..k |-> IF i = 0 THEN {p} ELSE Stepped(f[i - 1], s, txs[i])]

LEMMA OutcomesExist ==
  ASSUME NEW p, NEW s, NEW txs, NEW n \in Nat
  PROVE  \E f : Outcomes(f, n, p, s, txs)
<1> DEFINE Bad == {k \in Nat : ~\E f : Outcomes(f, k, p, s, txs)}
<1> SUFFICES ASSUME Bad # {} PROVE FALSE
  OBVIOUS
<1>1. PICK k \in Bad : \A j \in Bad : k <= j
  BY LeastNat, Zenon
<1>2. k # 0
  <2> DEFINE f == [i \in 0..0 |-> {p}]
  <2>1. f = [i \in 0..0 |-> IF i = 0 THEN {p} ELSE Stepped(f[i - 1], s, txs[i])]
    OBVIOUS
  <2>2. Outcomes(f, 0, p, s, txs)
    BY <2>1, Zenon DEF Outcomes
  <2> QED BY <2>2
<1>3. k \in Nat /\ k - 1 \in Nat /\ k - 1 \notin Bad
  BY <1>1, <1>2
<1>4. PICK f : Outcomes(f, k - 1, p, s, txs)
  BY <1>3
<1> DEFINE g == [i \in 0..k |-> IF i = k THEN Stepped(f[k - 1], s, txs[k]) ELSE f[i]]
           h == [i \in 0..k |-> IF i = 0 THEN {p} ELSE Stepped(g[i - 1], s, txs[i])]
<1>5. ASSUME NEW i \in 0..k PROVE g[i] = h[i]
  <2>1. i \in Nat /\ i <= k /\ (i # 0 => i - 1 \in 0..k /\ i - 1 # k)
    BY <1>3
  <2>2. i # 0 => g[i - 1] = f[i - 1]
    BY <2>1, Zenon
  <2>3. CASE i = k
    BY <1>2, <1>3, <2>1, <2>2, <2>3, Zenon
  <2>4. CASE i # k
    <3>1. i \in 0..(k - 1)
      BY <1>3, <2>1, <2>4
    <3>2. f[i] = IF i = 0 THEN {p} ELSE Stepped(f[i - 1], s, txs[i])
      BY <1>4, <3>1, Zenon DEF Outcomes
    <3>3. g[i] = f[i]
      BY <2>4, Zenon
    <3>4. h[i] = IF i = 0 THEN {p} ELSE Stepped(g[i - 1], s, txs[i])
      OBVIOUS
    <3> HIDE DEF g, h
    <3> QED BY <2>2, <3>2, <3>3, <3>4
  <2> QED BY <2>3, <2>4, Zenon
<1>6. g = h
  BY <1>5, Zenon
<1>7. Outcomes(g, k, p, s, txs)
  <2> HIDE DEF g
  <2> QED BY <1>6 DEF Outcomes
<1>8. k \notin Bad
  BY <1>7, Zenon
<1> QED BY <1>1, <1>8

(* Each transaction that a reorg gives back goes through add: the outcomes    *)
(* stay in any set of pools that add does not leave.                          *)
LEMMA ReinjectStays ==
  ASSUME NEW G, NEW p \in G, NEW s, NEW n \in Nat, NEW txs \in [1..n -> Tx],
         Len(txs) = n, NEW q \in Reinject(p, s, txs),
         \A b \in G, tx \in Tx : \A r \in add(b, s, tx) : r.pool \in G
  PROVE  q \in G
<1> DEFINE after == CHOOSE f : Outcomes(f, n, p, s, txs)
<1>1. Reinject(p, s, txs) = after[n]
  BY DEF Reinject, Outcomes, Stepped
<1>2. Outcomes(after, n, p, s, txs)
  BY OutcomesExist, Zenon
<1> HIDE DEF after
<1>3. /\ after[0] = {p}
      /\ \A i \in 1..n : after[i] = Stepped(after[i - 1], s, txs[i])
  <2>1. \A i \in 0..n : after[i] = IF i = 0 THEN {p} ELSE Stepped(after[i - 1], s, txs[i])
    BY <1>2, Zenon DEF Outcomes
  <2>2. 0 \in 0..n /\ \A i \in 1..n : i \in 0..n /\ i # 0
    BY SMTT(30)
  <2> QED BY <2>1, <2>2, Zenon
<1> DEFINE Bad == {i \in 0..n : \E r \in after[i] : r \notin G}
<1>4. Bad = {}
  <2> SUFFICES ASSUME Bad # {} PROVE FALSE
    OBVIOUS
  <2>1. Bad \in SUBSET Nat
    OBVIOUS
  <2>2. PICK i \in Bad : \A j \in Bad : i <= j
    BY <2>1, LeastNat, Zenon
  <2>3. i \in 1..n /\ i - 1 \in 0..n
    <3>1. i \in 0..n /\ i # 0
      BY <1>3
    <3> QED BY <3>1, SMTT(30)
  <2>4. i - 1 \notin Bad
    BY <2>2, <2>3
  <2>5. PICK r \in after[i] : r \notin G
    BY Zenon
  <2>6. r \in Stepped(after[i - 1], s, txs[i])
    BY <1>3, <2>3, <2>5
  <2>7. PICK b \in after[i - 1] : \E c \in add(b, s, txs[i]) : r = c.pool
    BY <2>6, Zenon DEF Stepped
  <2>8. b \in G
    BY <2>3, <2>4, <2>7, Zenon
  <2>9. txs[i] \in Tx
    BY <2>3
  <2> QED BY <2>5, <2>7, <2>8, <2>9, Zenon
<1>5. n \in 0..n
  BY SMTT(30)
<1> QED BY <1>1, <1>4, <1>5, Zenon

LEMMA ReinjectGood ==
  ASSUME NEW p, Good(p, {}), NEW s \in Heads, NEW n \in Nat, NEW txs \in [1..n -> Tx],
         Len(txs) = n, NEW q \in Reinject(p, s, txs)
  PROVE  Good(q, {})
<1> DEFINE G == {b \in Pool : Good(b, {})}
<1>1. p \in G
  BY Zenon DEF Good
<1>2. ASSUME NEW b \in G, NEW tx \in Tx, NEW r \in add(b, s, tx) PROVE r.pool \in G
  <2>1. Good(r.pool, {})
    BY AddKeeps
  <2> QED BY <2>1 DEF Good
<1> HIDE DEF G
<1>3. q \in G
  BY <1>1, <1>2, ReinjectStays, Zenon
<1> QED BY <1>3 DEF G

-------------------------------------------------------------------------------
(* The actions. *)

LEMMA InitLInv == Init => LInv
<1> SUFFICES ASSUME Init PROVE LInv
  BY Zenon
<1>1. state \in Heads /\ state.nonce \in [Addr -> Nat]
  BY HeadAssumption, HeadType, Zenon DEF Init
<1>2. /\ pool \in Pool /\ pool.all = {} /\ pool.pending = {} /\ pool.queue = {}
      /\ pool.nonces = state.nonce /\ pool.owner = [a \in Addr |-> "free"]
  BY <1>1, Zenon DEF Init, Pool, Owners
<1>3. Good(pool, {})
  BY <1>2, FS_EmptySet, Zenon DEF Good, Lists, Holds, Tracked, Of
<1>4. Fits(pool, state)
  <2>1. \A a \in Addr : pool.nonces[a] \in Nat /\ pool.nonces[a] = state.nonce[a]
    BY <1>1, <1>2
  <2> QED BY <1>2, <2>1 DEF Fits, Front, Low
<1> QED BY <1>1, <1>3, <1>4 DEF Init, LInv

LEMMA AddStep ==
  ASSUME LInv, NEW tx \in Tx, Add(tx) PROVE LInv'
<1>1. PICK r \in add(pool, state, tx) :
        /\ pool' = r.pool
        /\ dirty' = dirty \cup (IF r.ok /\ ~r.replaced THEN {tx.from} ELSE {})
  BY DEF Add
<1>2. Good(r.pool, {}) /\ Fits(r.pool, state)
  BY AddKeeps DEF LInv
<1>3. state' = state /\ inflight' \subseteq Tx
  BY DEF Add, LInv
<1>4. dirty' \subseteq Addr
  BY <1>1, TxType DEF LInv
<1>5. Good(pool', {}) /\ Fits(pool', state')
  BY <1>1, <1>2, <1>3, Zenon
<1> QED BY <1>3, <1>4, <1>5 DEF LInv

LEMMA ReorgStep ==
  ASSUME LInv, NEW A \in SUBSET Addr, NEW resetting \in BOOLEAN,
         pool' \in runReorg(pool, state, A, resetting),
         state' = state, inflight' = inflight, dirty' \subseteq dirty
  PROVE  LInv'
<1>1. Good(pool, {}) /\ Fits(pool, state) /\ state \in Heads
  BY DEF LInv
<1>2. Good(pool', {}) /\ Fits(pool', state)
  BY <1>1, RunReorgKeeps
<1>3. Fits(pool', state')
  BY <1>2, Zenon
<1> QED BY <1>2, <1>3 DEF LInv

LEMMA QueuedType ==
  ASSUME NEW p, Good(p, {})
  PROVE  Queued(p) \in SUBSET Addr
BY TxType DEF Queued, Good, Pool

LEMMA ResetStep ==
  ASSUME LInv, NEW s \in Heads, NEW R \in Lost(s), NEW d \in SUBSET dirty, Reset(s, R, d)
  PROVE  LInv'
<1> DEFINE n == Cardinality(R)
           b == [pool EXCEPT !.nonces = s.nonce]
<1>1. n \in Nat /\ R \subseteq Tx
  <2>1. PICK k \in 0..MaxReinject :
          R \in kSubset(k, {t \in Tx : t.nonce \in s.nonce[t.from]..(state.nonce[t.from] - 1)})
    BY Zenon DEF Lost
  <2> QED BY <2>1, ConfigAssumption DEF kSubset
<1>2. PICK txs \in Orders(R) : \E p \in Reinject(b, s, txs) : pool' \in runReorg(p, s, Queued(p), TRUE)
  BY Zenon DEF Reset
<1>3. PICK p \in Reinject(b, s, txs) : pool' \in runReorg(p, s, Queued(p), TRUE)
  BY <1>2, Zenon
<1>4. txs \in [1..n -> Tx] /\ Len(txs) = n
  <2>1. txs \in [1..n -> R]
    BY DEF Orders, Bijection, Injection
  <2> HIDE DEF n
  <2> QED BY <1>1, <2>1
<1>5. Good(b, {})
  <2>1. /\ b \in Pool /\ b.all = pool.all /\ b.pending = pool.pending /\ b.queue = pool.queue
        /\ b.owner = pool.owner
    BY HeadType DEF LInv, Good, Pool
  <2> HIDE DEF b
  <2> QED BY <2>1, Zenon DEF LInv, Good, Lists, Holds, Tracked
<1> HIDE DEF b, n
<1>6. Good(p, {})
  BY <1>1, <1>3, <1>4, <1>5, ReinjectGood
<1>7. Good(pool', {}) /\ Fits(pool', s)
  BY <1>3, <1>6, QueuedType, RunReorgKeeps, Zenon
<1>8. state' = s /\ inflight' = inflight /\ dirty' = dirty \ d
  BY DEF Reset
<1>9. Fits(pool', state')
  BY <1>7, <1>8, Zenon
<1> QED BY <1>7, <1>8, <1>9, Zenon DEF LInv

LEMMA RemoveStep ==
  ASSUME LInv, NEW D \in SUBSET pool.all, pool' = removeTx(pool, D, {}),
         state' = state, inflight' = inflight, dirty' = dirty
  PROVE  LInv'
<1>1. Good(pool, {}) /\ pool \in Pool /\ Lists(pool) /\ Fits(pool, state) /\ state \in Heads
  BY Zenon DEF LInv, Good
<1>2. Good(removeTx(pool, D, {}), {})
  BY <1>1, RemoveGood, Zenon
<1>3. Fits(removeTx(pool, D, {}), state)
  BY <1>1, RemoveFits
<1>4. Good(pool', {}) /\ Fits(pool', state')
  BY <1>2, <1>3, Zenon
<1> QED BY <1>4 DEF LInv

LEMMA ClearStep ==
  ASSUME LInv, Clear PROVE LInv'
<1> DEFINE o == [a \in Addr |-> IF Tracked(pool, a) THEN "free" ELSE pool.owner[a]]
<1>1. pool \in Pool /\ Holds(pool, {}) /\ state.nonce \in [Addr -> Nat] /\ state' = state
  BY HeadType, Zenon DEF LInv, Good, Clear
<1>2. o \in [Addr -> Owners]
  BY <1>1 DEF Pool, Owners
<1>3. pool' = [pool EXCEPT !.all = {}, !.pending = {}, !.queue = {}, !.nonces = state.nonce,
                           !.owner = o]
  BY Zenon DEF Clear
<1>4. \A a \in Addr : o[a] # "legacy"
  BY <1>1 DEF Holds
<1> HIDE DEF o
<1>5. /\ pool' \in Pool /\ pool'.all = {} /\ pool'.pending = {} /\ pool'.queue = {}
      /\ pool'.nonces = state.nonce /\ pool'.owner = o
  BY <1>1, <1>2, <1>3, Zenon DEF Pool
<1>6. Good(pool', {})
  BY <1>4, <1>5, FS_EmptySet DEF Good, Lists, Holds, Tracked, Of
<1>7. Fits(pool', state')
  <2>1. \A a \in Addr : pool'.nonces[a] \in Nat /\ pool'.nonces[a] = state'.nonce[a]
    BY <1>1, <1>5
  <2> QED BY <1>5, <2>1 DEF Fits, Front, Low
<1> QED BY <1>1, <1>6, <1>7 DEF LInv, Clear

(* The other subpools touch only accounts that the pool does not hold. *)
LEMMA OwnerStep ==
  ASSUME LInv, NEW a \in Addr, pool.owner[a] # "legacy", NEW o \in Owners \ {"legacy"},
         pool' = [pool EXCEPT !.owner[a] = o],
         state' = state, inflight' = inflight, dirty' = dirty
  PROVE  LInv'
<1>1. pool \in Pool /\ Good(pool, {}) /\ Fits(pool, state)
  BY DEF LInv, Good
<1>2. /\ pool' \in Pool /\ pool'.all = pool.all /\ pool'.pending = pool.pending
      /\ pool'.queue = pool.queue /\ pool'.nonces = pool.nonces
      /\ \A b \in Addr : pool'.owner[b] = IF b = a THEN o ELSE pool.owner[b]
  BY <1>1 DEF Pool
<1>3. Holds(pool', {})
  BY <1>1, <1>2 DEF Good, Holds, Tracked
<1>4. Good(pool', {})
  BY <1>1, <1>2, <1>3, Zenon DEF Good, Lists
<1>5. Fits(pool', state')
  BY <1>1, <1>2 DEF Fits, Front, Low
<1> QED BY <1>4, <1>5 DEF LInv

LEMMA NextLInv == LInv /\ [Next]_vars => LInv'
<1> SUFFICES ASSUME LInv, [Next]_vars PROVE LInv'
  BY Zenon
<1>0. pool.queue \subseteq pool.all
  BY DEF LInv, Good, Lists
<1>1. ASSUME NEW tx \in Tx, ValidateTxBasics(tx) PROVE LInv'
  <2>1. pool' = pool /\ state' = state /\ dirty' = dirty /\ inflight' \subseteq Tx
    BY <1>1 DEF ValidateTxBasics, LInv
  <2> QED BY <2>1 DEF LInv
<1>2. ASSUME NEW tx \in Tx, Add(tx) PROVE LInv'
  BY <1>2, AddStep
<1>3. ASSUME NEW d \in SUBSET dirty, Promote(d) PROVE LInv'
  <2>1. d \in SUBSET Addr /\ FALSE \in BOOLEAN
    BY DEF LInv
  <2>2. /\ pool' \in runReorg(pool, state, d, FALSE)
        /\ state' = state /\ inflight' = inflight /\ dirty' \subseteq dirty
    BY <1>3, Zenon DEF Promote
  <2> QED BY <2>1, <2>2, ReorgStep, Zenon
<1>4. ASSUME NEW d \in SUBSET dirty, ResetSkipped(d) PROVE LInv'
  <2>1. Queued(pool) \in SUBSET Addr /\ TRUE \in BOOLEAN
    BY QueuedType DEF LInv
  <2>2. /\ pool' \in runReorg(pool, state, Queued(pool), TRUE)
        /\ state' = state /\ inflight' = inflight /\ dirty' \subseteq dirty
    BY <1>4, Zenon DEF ResetSkipped
  <2> QED BY <2>1, <2>2, ReorgStep, Zenon
<1>5. ASSUME NEW tip \in Tips, SetGasTip(tip) PROVE LInv'
  <2> DEFINE D == {t \in pool.all : t.price < tip}
  <2>1. D \in SUBSET pool.all
    OBVIOUS
  <2>2. /\ state' = state /\ inflight' = inflight /\ dirty' = dirty
        /\ pool' = removeTx(pool, D, {}) \/ pool' = pool
    BY <1>5 DEF SetGasTip
  <2> HIDE DEF D
  <2>3. CASE pool' = removeTx(pool, D, {})
    BY <2>1, <2>2, <2>3, RemoveStep
  <2>4. CASE pool' = pool
    BY <2>2, <2>4, Zenon DEF LInv
  <2> QED BY <2>2, <2>3, <2>4
<1>6. ASSUME NEW A \in SUBSET Addr, Evict(A) PROVE LInv'
  <2> DEFINE D == {t \in pool.queue : t.from \in A}
  <2>1. D \in SUBSET pool.all
    BY <1>0
  <2>2. pool' = removeTx(pool, D, {}) /\ state' = state /\ inflight' = inflight /\ dirty' = dirty
    BY <1>6 DEF Evict
  <2> HIDE DEF D
  <2> QED BY <2>1, <2>2, RemoveStep
<1>7. CASE Clear
  BY <1>7, ClearStep
<1>8. ASSUME NEW a \in Addr, OtherHold(a) PROVE LInv'
  <2>1. /\ pool.owner[a] # "legacy" /\ "other" \in Owners \ {"legacy"}
        /\ pool' = [pool EXCEPT !.owner[a] = "other"]
        /\ state' = state /\ inflight' = inflight /\ dirty' = dirty
    BY <1>8 DEF OtherHold, Owners
  <2> QED BY <2>1, OwnerStep
<1>9. ASSUME NEW a \in Addr, OtherRelease(a) PROVE LInv'
  <2>1. /\ pool.owner[a] # "legacy" /\ "free" \in Owners \ {"legacy"}
        /\ pool' = [pool EXCEPT !.owner[a] = "free"]
        /\ state' = state /\ inflight' = inflight /\ dirty' = dirty
    BY <1>9 DEF OtherRelease, Owners
  <2> QED BY <2>1, OwnerStep
<1>10. ASSUME NEW s \in Heads, NEW d \in SUBSET dirty, NEW R \in Lost(s), Reset(s, R, d) PROVE LInv'
  BY <1>10, ResetStep
<1>11. CASE UNCHANGED vars
  BY <1>11 DEF vars, LInv
<1> QED
  BY <1>1, <1>2, <1>3, <1>4, <1>5, <1>6, <1>7, <1>8, <1>9, <1>10, <1>11, Zenon DEF Next, Local

-------------------------------------------------------------------------------
LEMMA LInvAgrees == LInv => ContentsAgree
<1> SUFFICES ASSUME LInv PROVE ContentsAgree
  OBVIOUS
<1>1. ListsAgree
  BY DEF LInv, Good, Lists, ListsAgree
<1>2. ReservedExactly
  BY Zenon DEF LInv, Good, Holds, ReservedExactly
<1>3. FrontExecutable
  <2> SUFFICES ASSUME NEW t \in pool.pending
               PROVE  /\ t.nonce >= state.nonce[t.from]
                      /\ state.nonce[t.from] \in Nonces(pool.pending, t.from)
                      /\ t.cost <= state.balance[t.from]
    BY Zenon DEF FrontExecutable
  <2>1. PICK u \in pool.pending : u.from = t.from /\ u.nonce = state.nonce[t.from]
    BY DEF LInv, Fits, Front
  <2>2. state.nonce[t.from] \in Nonces(pool.pending, t.from)
    BY <2>1 DEF Nonces, Of
  <2> QED BY <2>2 DEF LInv, Fits, Front
<1> QED BY <1>1, <1>2, <1>3 DEF ContentsAgree

(* The contents of the legacy pool agree, whatever the interleaving of        *)
(* additions, promotions, resets with reinjected transactions, tip changes,   *)
(* evictions and other subpools: the lookup holds exactly the two disjoint    *)
(* lists with every nonce of an account taken once, exactly the accounts with *)
(* a transaction are reserved, and the front of every pending list is the     *)
(* state's next nonce and payable.                                            *)
THEOREM ContentsAlwaysAgree == Spec => []ContentsAgree
<1>1. LInv /\ [Next]_vars => LInv'
  BY NextLInv
<1>2. Spec => []LInv
  BY <1>1, InitLInv, PTL DEF Spec
<1> QED BY <1>2, LInvAgrees, PTL
===============================================================================
