--------------------------- MODULE LegacyGapsProofs ---------------------------
(***************************************************************************)
(* Proofs about LegacyPool, for any accounts, transactions, heads and      *)
(* limits: only the reinjection of transactions of an abandoned block      *)
(* leaves holes in a pending list of core/txpool/legacypool.               *)
(*                                                                         *)
(* Exact says that an account's pending nonces are those from a given one  *)
(* up to the virtual nonce, and every operation keeps it as long as the    *)
(* head does.  A reset moves the given nonce and forgets the virtual ones: *)
(* what it leaves is Unbroken, which demoteUnexecutables and setAll turn   *)
(* into Exact again.  An account whose nonce the reset takes back ends up  *)
(* without pending transactions unless one of them came back (Floor).      *)
(***************************************************************************)
EXTENDS LegacyLimitsProofs

(* Account a has a pending transaction of nonce m. *)
At(p, a, m) == \E t \in p.pending : t.from = a /\ t.nonce = m

Exact(p, a, n) == \A m \in Nat : At(p, a, m) <=> n <= m /\ m < p.nonces[a]

Unbroken(p, a, n) ==
    \A k \in Nat : At(p, a, k) /\ n <= k => \A m \in n..k : At(p, a, m)

(* No transaction of the pool has a nonce that the head has used. *)
Floor(p, s) == \A t \in p.all : t.nonce >= s.nonce[t.from]

LEMMA ExactUnbroken ==
  ASSUME NEW p \in Pool, NEW a \in Addr, NEW n \in Nat, NEW k \in Nat, Exact(p, a, n), n <= k
  PROVE  Unbroken(p, a, k)
<1>1. p.nonces[a] \in Nat
  BY DEF Pool
<1> QED BY <1>1 DEF Exact, Unbroken

-------------------------------------------------------------------------------
(* What a removal leaves of an account's list ends before the first removed   *)
(* transaction, and so does the virtual nonce.                                *)
CutBack(q, p, a, D) ==
    /\ \A m \in Nat : At(q, a, m) <=> /\ At(p, a, m)
                                      /\ \A d \in D \cap p.pending : d.from = a => m < d.nonce
    /\ q.nonces[a] \in Nat /\ q.nonces[a] <= p.nonces[a]
    /\ \A d \in D \cap p.pending : d.from = a => q.nonces[a] <= d.nonce
    /\ \/ q.nonces[a] = p.nonces[a]
       \/ \E d \in D \cap p.pending : d.from = a /\ q.nonces[a] = d.nonce

LEMMA RemovalCutsBack ==
  ASSUME NEW p \in Pool, Lists(p), NEW D, NEW q, NEW a \in Addr,
         q.pending = p.pending \ (D \cup Invalidated(p, D)), q.nonces = LoweredNonces(p, D)
  PROVE  CutBack(q, p, a, D)
<1>1. p.pending \subseteq Tx /\ p.pending \subseteq p.all /\ p.nonces[a] \in Nat
  BY DEF Pool, Lists
<1>2. \A t \in p.pending : t.nonce \in Nat
  BY <1>1, TxType
<1> DEFINE C == D \cap p.pending
<1>3. Invalidated(p, D) = {t \in p.pending \ D : \E d \in C : d.from = t.from /\ d.nonce < t.nonce}
  BY DEF Invalidated
<1>4. ASSUME NEW m \in Nat
      PROVE  At(q, a, m) <=> At(p, a, m) /\ \A d \in C : d.from = a => m < d.nonce
  <2>1. ASSUME NEW t \in q.pending, t.from = a, t.nonce = m, NEW d \in C, d.from = a
        PROVE  t \in p.pending /\ m < d.nonce
    <3>1. t \in p.pending /\ t \notin D /\ t \notin Invalidated(p, D)
      OBVIOUS
    <3>2. ~(d.nonce < t.nonce)
      BY <1>3, <2>1, <3>1
    <3>3. d.nonce # t.nonce
      BY <1>1, <2>1, <3>1 DEF Lists, SameSlot
    <3>4. d.nonce \in Nat
      BY <1>2
    <3> QED BY <2>1, <3>1, <3>2, <3>3, <3>4
  <2>2. ASSUME NEW t \in p.pending, t.from = a, t.nonce = m,
               \A d \in C : d.from = a => m < d.nonce
        PROVE  t \in q.pending
    <3>1. t \notin D
      BY <2>2
    <3>2. t \notin Invalidated(p, D)
      <4> SUFFICES ASSUME NEW d \in C, d.from = t.from, d.nonce < t.nonce PROVE FALSE
        BY <1>3
      <4>1. m < d.nonce /\ d.nonce \in Nat
        BY <1>2, <2>2
      <4> QED BY <2>2, <4>1
    <3> QED BY <3>1, <3>2
  <2> HIDE DEF C
  <2> QED BY <2>1, <2>2 DEF At
<1> DEFINE S == {p.nonces[a]} \cup Nonces(C, a)
<1>5. S \in SUBSET Nat /\ S # {}
  BY <1>1, <1>2 DEF Nonces, Of
<1>6. q.nonces[a] = Min(S)
  BY DEF LoweredNonces
<1>7. /\ p.nonces[a] \in S /\ \A d \in C : d.from = a => d.nonce \in S
      /\ \A x \in S : x = p.nonces[a] \/ \E d \in C : d.from = a /\ x = d.nonce
  BY DEF Nonces, Of
<1> HIDE DEF S, C
<1>8. Min(S) \in S /\ \A x \in S : Min(S) <= x
  BY <1>5, MinIsLeast, Zenon
<1>9. /\ q.nonces[a] \in Nat /\ q.nonces[a] <= p.nonces[a]
      /\ \A d \in C : d.from = a => q.nonces[a] <= d.nonce
      /\ \/ q.nonces[a] = p.nonces[a]
         \/ \E d \in C : d.from = a /\ q.nonces[a] = d.nonce
  BY <1>5, <1>6, <1>7, <1>8, Zenon
<1> QED BY <1>4, <1>9 DEF CutBack, C

LEMMA CutBackKeeps ==
  ASSUME NEW p \in Pool, NEW q, NEW a \in Addr, NEW D, NEW n \in Nat, CutBack(q, p, a, D)
  PROVE  /\ Exact(p, a, n) => Exact(q, a, n)
         /\ Unbroken(p, a, n) => Unbroken(q, a, n)
         /\ q.nonces[a] <= p.nonces[a] /\ q.nonces[a] \in Nat
<1> DEFINE C == {d \in D \cap p.pending : d.from = a}
<1>1. p.nonces[a] \in Nat /\ q.nonces[a] \in Nat /\ q.nonces[a] <= p.nonces[a]
  BY DEF Pool, CutBack
<1>2. \A d \in C : d.nonce \in Nat
  BY TxType DEF Pool
<1>3. \A m \in Nat : At(q, a, m) <=> At(p, a, m) /\ \A d \in C : m < d.nonce
  BY DEF CutBack
<1>4. /\ \A d \in C : q.nonces[a] <= d.nonce
      /\ q.nonces[a] = p.nonces[a] \/ \E d \in C : q.nonces[a] = d.nonce
  BY DEF CutBack
<1> HIDE DEF C
<1>5. ASSUME Exact(p, a, n) PROVE Exact(q, a, n)
  <2> SUFFICES ASSUME NEW m \in Nat PROVE At(q, a, m) <=> n <= m /\ m < q.nonces[a]
    BY DEF Exact
  <2>1. At(p, a, m) <=> n <= m /\ m < p.nonces[a]
    BY <1>5 DEF Exact
  <2>2. m < q.nonces[a] => m < p.nonces[a] /\ \A d \in C : m < d.nonce
    BY <1>1, <1>2, <1>4
  <2>3. m < p.nonces[a] /\ (\A d \in C : m < d.nonce) => m < q.nonces[a]
    BY <1>1, <1>2, <1>4
  <2> QED BY <1>3, <2>1, <2>2, <2>3
<1>6. ASSUME Unbroken(p, a, n) PROVE Unbroken(q, a, n)
  <2> SUFFICES ASSUME NEW k \in Nat, At(q, a, k), n <= k, NEW m \in n..k PROVE At(q, a, m)
    BY DEF Unbroken
  <2>1. m \in Nat /\ m <= k
    OBVIOUS
  <2>2. At(p, a, k) /\ \A d \in C : k < d.nonce
    BY <1>3
  <2>3. At(p, a, m)
    BY <1>6, <2>2 DEF Unbroken
  <2>4. \A d \in C : m < d.nonce
    BY <1>2, <2>1, <2>2
  <2> QED BY <1>3, <2>1, <2>3, <2>4
<1> QED BY <1>1, <1>5, <1>6

-------------------------------------------------------------------------------
(* promoteExecutables. *)

(* The nonces that Ready returns form a run from lo on. *)
RunFrom(W, lo) ==
    /\ \A t \in W : t.nonce \in Nat /\ t.nonce >= lo
    /\ \A t \in W : \A m \in lo..t.nonce : \E u \in W : u.nonce = m

LEMMA ReadiesRun ==
  ASSUME NEW p \in Pool, NEW s \in Heads, NEW a \in Addr, Readies(p, s, a) # {}
  PROVE  \E lo \in Nat : /\ s.nonce[a] <= lo /\ lo <= p.nonces[a]
                         /\ RunFrom(Readies(p, s, a), lo)
<1> DEFINE S == Live(p, s, a)
           N == {u.nonce : u \in S}
           W == Readies(p, s, a)
<1>1. W = {x \in S : /\ \E u \in S : u.nonce <= p.nonces[a]
                     /\ \A n \in Min(N)..x.nonce : \E u \in S : u.nonce = n}
  BY DEF Readies, Ready
<1>2. S = {t \in p.queue : t.from = a /\ t.nonce >= s.nonce[a] /\ t.cost <= s.balance[a]}
  BY ReadiesInQueue
<1>3. s.nonce[a] \in Nat /\ p.nonces[a] \in Nat
  BY HeadType DEF Pool
<1>4. \A u \in S : u.nonce \in Nat /\ u.nonce >= s.nonce[a]
  BY <1>2, TxType DEF Pool
<1> HIDE DEF S, W
<1>5. PICK x \in S : \E u \in S : u.nonce <= p.nonces[a]
  BY <1>1 DEF W
<1>6. N \in SUBSET Nat /\ N # {}
  BY <1>4, <1>5
<1>7. Min(N) \in N /\ \A n \in N : Min(N) <= n
  BY <1>6, MinIsLeast, Zenon
<1> DEFINE lo == Min(N)
<1>8. /\ lo \in Nat /\ lo >= s.nonce[a]
      /\ \A u \in S : lo <= u.nonce
  BY <1>4, <1>7
<1> HIDE DEF lo, N
<1>9. s.nonce[a] <= lo /\ lo <= p.nonces[a]
  BY <1>3, <1>4, <1>5, <1>8
<1>10. W = {y \in S : \A n \in lo..y.nonce : \E u \in S : u.nonce = n}
  BY <1>1, <1>5 DEF lo
<1>11. ASSUME NEW t \in W, NEW m \in lo..t.nonce PROVE \E u \in W : u.nonce = m
  <2>1. t \in S /\ \A n \in lo..t.nonce : \E u \in S : u.nonce = n
    BY <1>10
  <2>2. PICK u \in S : u.nonce = m
    BY <2>1
  <2>3. \A n \in lo..u.nonce : n \in lo..t.nonce
    BY <1>4, <1>8, <2>1, <2>2
  <2>4. u \in W
    BY <1>10, <2>1, <2>2, <2>3
  <2> QED BY <2>2, <2>4
<1>12. \A t \in W : t.nonce \in Nat /\ t.nonce >= lo
  BY <1>4, <1>8, <1>10
<1>13. RunFrom(W, lo)
  BY <1>11, <1>12 DEF RunFrom
<1> QED BY <1>8, <1>9, <1>13 DEF W

(* What promoteExecutables adds to an account's list: nothing, or a run of    *)
(* nonces that no pending transaction takes, which sets the virtual nonce.    *)
Extended(q, p, s, a) ==
    \/ q.nonces[a] = p.nonces[a] /\ \A m \in Nat : At(q, a, m) <=> At(p, a, m)
    \/ \E lo, hi \in Nat : /\ s.nonce[a] <= lo /\ lo <= p.nonces[a] /\ lo <= hi
                           /\ q.nonces[a] = hi + 1
                           /\ \A m \in lo..hi : ~At(p, a, m)
                           /\ \A m \in Nat : At(q, a, m) <=> At(p, a, m) \/ m \in lo..hi

LEMMA PromoteExtends ==
  ASSUME NEW p, Good(p, {}), NEW s \in Heads, NEW A \in SUBSET Addr, NEW a \in Addr
  PROVE  Extended(promoteExecutables(p, s, A), p, s, a)
<1>0. p \in Pool /\ Lists(p) /\ IsFiniteSet(p.all) /\ Holds(p, {})
  BY DEF Good
<1>1. PICK r, wins, rest, O :
        /\ PromotedOf(r, p, s, O, wins, rest)
        /\ promoteExecutables(p, s, A) = Relinquish(r, O)
  BY <1>0, PromoteFields
<1> DEFINE q == promoteExecutables(p, s, A)
           W == Of(wins, a)
<1>2. /\ r \in Pool /\ r.pending = p.pending \cup wins /\ wins \subseteq p.queue
      /\ W = IF a \in O THEN Readies(p, s, a) ELSE {}
      /\ r.nonces[a] = IF Nonces(wins, a) = {} THEN p.nonces[a] ELSE Max(Nonces(wins, a)) + 1
  BY <1>1 DEF PromotedOf
<1>3. q.pending = p.pending \cup wins /\ q.nonces = r.nonces
  BY <1>1, <1>2, RelinquishFields
<1> HIDE DEF q
<1>4. Nonces(wins, a) = {t.nonce : t \in W} /\ W = {t \in wins : t.from = a}
  BY Zenon DEF Nonces, Of
<1> DEFINE N == Nonces(wins, a)
<1>5. \A m \in Nat : At(q, a, m) <=> At(p, a, m) \/ m \in N
  BY <1>3, <1>4 DEF At
<1>6. CASE W = {}
  <2>1. N = {}
    BY <1>4, <1>6
  <2> QED BY <1>2, <1>3, <1>5, <2>1 DEF Extended, q
<1>7. CASE W # {}
  <2>1. wins \in SUBSET Tx /\ IsFiniteSet(wins)
    <3>1. wins \subseteq p.all /\ wins \subseteq Tx
      BY <1>0, <1>2 DEF Lists, Pool
    <3> QED BY <1>0, <3>1, FS_Subset
  <2>2. N \in SUBSET Nat /\ IsFiniteSet(N) /\ N # {}
    <3>1. N \in SUBSET Nat /\ IsFiniteSet(N)
      BY <2>1, NoncesFinite, Zenon
    <3>2. N # {}
      BY <1>4, <1>7, Zenon
    <3> QED BY <3>1, <3>2
  <2> DEFINE hi == Max(N)
  <2>3. hi \in N /\ \A m \in N : m <= hi
    BY <2>2, MaxIsGreatest, Zenon
  <2>4. r.nonces[a] = hi + 1
    BY <1>2, <2>2
  <2>5. PICK lo \in Nat : s.nonce[a] <= lo /\ lo <= p.nonces[a] /\ RunFrom(W, lo)
    <3>1. W = Readies(p, s, a) /\ Readies(p, s, a) # {}
      BY <1>2, <1>7
    <3> QED BY <1>0, <3>1, ReadiesRun, Zenon
  <2> HIDE DEF hi
  <2>6. \A m \in N : m >= lo
    BY <1>4, <2>5 DEF RunFrom
  <2>7. \A m \in lo..hi : m \in N
    <3>1. PICK t \in W : t.nonce = hi
      BY <1>4, <2>3
    <3> QED BY <1>4, <2>5, <3>1 DEF RunFrom
  <2>8. \A m \in Nat : m \in N <=> m \in lo..hi
    BY <2>2, <2>3, <2>6, <2>7
  <2>9. \A m \in lo..hi : ~At(p, a, m)
    <3> SUFFICES ASSUME NEW m \in lo..hi, NEW t \in p.pending, t.from = a, t.nonce = m PROVE FALSE
      BY DEF At
    <3>1. PICK u \in W : u.nonce = m
      BY <1>4, <2>7
    <3>2. u \in p.queue /\ u.from = a
      BY <1>2, <1>4, <3>1
    <3> QED BY <1>0, <3>1, <3>2 DEF Lists, SameSlot
  <2>10. hi \in Nat /\ lo <= hi
    BY <2>2, <2>3, <2>6
  <2>11. \A m \in Nat : At(q, a, m) <=> At(p, a, m) \/ m \in lo..hi
    BY <1>5, <2>8
  <2>12. Extended(q, p, s, a)
    BY <1>3, <2>4, <2>5, <2>9, <2>10, <2>11, Zenon DEF Extended
  <2> QED BY <2>12 DEF q
<1> QED BY <1>6, <1>7

LEMMA PromoteKeepsExact ==
  ASSUME NEW p, Good(p, {}), NEW s \in Heads, NEW A \in SUBSET Addr, NEW a \in Addr,
         Exact(p, a, s.nonce[a])
  PROVE  Exact(promoteExecutables(p, s, A), a, s.nonce[a])
<1> DEFINE q == promoteExecutables(p, s, A)
           n == s.nonce[a]
<1>1. Extended(q, p, s, a)
  BY PromoteExtends
<1>2. n \in Nat /\ p.nonces[a] \in Nat
  BY HeadType DEF Good, Pool
<1> HIDE DEF q
<1>3. CASE q.nonces[a] = p.nonces[a] /\ \A m \in Nat : At(q, a, m) <=> At(p, a, m)
  BY <1>3 DEF Exact, q
<1>4. ASSUME NEW lo \in Nat, NEW hi \in Nat,
             n <= lo, lo <= p.nonces[a], lo <= hi, q.nonces[a] = hi + 1,
             \A m \in lo..hi : ~At(p, a, m),
             \A m \in Nat : At(q, a, m) <=> At(p, a, m) \/ m \in lo..hi
      PROVE  Exact(q, a, n)
  <2>1. \A m \in Nat : At(p, a, m) <=> n <= m /\ m < p.nonces[a]
    BY DEF Exact
  <2>2. lo = p.nonces[a]
    <3>1. ~At(p, a, lo)
      BY <1>4
    <3>2. ~(lo < p.nonces[a])
      BY <1>4, <2>1, <3>1
    <3> QED BY <1>2, <1>4, <3>2, SMTT(30)
  <2> HIDE DEF n
  <2>3. ASSUME NEW m \in Nat PROVE At(q, a, m) <=> n <= m /\ m < q.nonces[a]
    BY <1>2, <1>4, <2>1, <2>2, SMTT(30)
  <2> QED BY <2>3 DEF Exact
<1> QED BY <1>1, <1>3, <1>4 DEF Extended, q

(* With the virtual nonce not above the head's, only a list that has nothing  *)
(* executable yet can get something.                                          *)
LEMMA PromoteKeepsUnbroken ==
  ASSUME NEW p, Good(p, {}), NEW s \in Heads, NEW A \in SUBSET Addr, NEW a \in Addr,
         Unbroken(p, a, s.nonce[a]), p.nonces[a] <= s.nonce[a]
  PROVE  Unbroken(promoteExecutables(p, s, A), a, s.nonce[a])
<1> DEFINE q == promoteExecutables(p, s, A)
           n == s.nonce[a]
<1>1. Extended(q, p, s, a)
  BY PromoteExtends
<1>2. n \in Nat /\ p.nonces[a] \in Nat
  BY HeadType DEF Good, Pool
<1> HIDE DEF q
<1>3. CASE \A m \in Nat : At(q, a, m) <=> At(p, a, m)
  <2> SUFFICES ASSUME NEW k \in Nat, At(q, a, k), n <= k, NEW m \in n..k PROVE At(q, a, m)
    BY DEF Unbroken, q
  <2>1. At(p, a, k) /\ m \in Nat
    BY <1>2, <1>3
  <2> QED BY <1>3, <2>1 DEF Unbroken
<1>4. ASSUME NEW lo \in Nat, NEW hi \in Nat,
             n <= lo, lo <= p.nonces[a], lo <= hi,
             \A m \in lo..hi : ~At(p, a, m),
             \A m \in Nat : At(q, a, m) <=> At(p, a, m) \/ m \in lo..hi
      PROVE  Unbroken(q, a, n)
  <2>1. lo = n
    BY <1>2, <1>4
  <2>2. ASSUME NEW k \in Nat, At(p, a, k), n <= k PROVE FALSE
    <3>1. n \in n..k /\ n \in lo..hi
      BY <1>2, <1>4, <2>1, <2>2
    <3> QED BY <1>4, <2>2, <3>1 DEF Unbroken
  <2> SUFFICES ASSUME NEW k \in Nat, At(q, a, k), n <= k, NEW m \in n..k PROVE At(q, a, m)
    BY DEF Unbroken
  <2> HIDE DEF n
  <2>3. k \in lo..hi
    BY <1>4, <2>2
  <2>4. m \in lo..hi /\ m \in Nat
    BY <1>2, <1>4, <2>1, <2>3
  <2> QED BY <1>4, <2>4
<1> QED BY <1>1, <1>3, <1>4 DEF Extended, q

-------------------------------------------------------------------------------
(* demoteUnexecutables and setAll. *)

LEMMA DemoteKeepsUnbroken ==
  ASSUME NEW p, Good(p, {}), NEW s \in Heads, NEW a \in Addr, Unbroken(p, a, s.nonce[a])
  PROVE  Unbroken(demoteUnexecutables(p, s), a, s.nonce[a])
<1>0. p \in Pool /\ Lists(p)
  BY DEF Good
<1> DEFINE O == {t.from : t \in p.pending}
<1>1. PICK r, kept, demoted :
        /\ kept = UNION {Executable(p, s, b) : b \in Addr}
        /\ DemotedTo(r, p, kept, demoted)
        /\ demoteUnexecutables(p, s) = Relinquish(r, O)
  BY <1>0, DemoteFields, Zenon
<1> HIDE DEF O
<1> DEFINE q == demoteUnexecutables(p, s)
           n == s.nonce[a]
           E == Executable(p, s, a)
           live == Forward(Of(p.pending, a), n)
<1>2. r \in Pool /\ r.pending = kept
  BY <1>1 DEF DemotedTo
<1>3. q.pending = kept
  BY <1>1, <1>2, RelinquishFields
<1> HIDE DEF q
<1>4. \A b \in Addr : \A t \in Executable(p, s, b) : t.from = b
  BY DEF Executable, Payable, Forward, Of
<1>5. {t \in q.pending : t.from = a} = E
  BY <1>1, <1>3, <1>4
<1>6. live = {t \in p.pending : t.from = a /\ t.nonce >= n}
  BY DEF Forward, Of
<1> DEFINE K == {t \in live : t.cost <= s.balance[a] /\
                   \A d \in live : d.nonce < t.nonce => d.cost <= s.balance[a]}
<1>7. E = IF n \in Nonces(K, a) THEN K ELSE {}
  <2>1. K = {t \in Payable(live, s.balance[a]) :
               \A d \in live : d.nonce < t.nonce => d.cost <= s.balance[a]}
    BY Zenon DEF Payable
  <2> HIDE DEF K
  <2> QED BY <2>1, Zenon DEF Executable
<1>8. n \in Nat /\ p.pending \subseteq Tx /\ p.pending \subseteq p.all
  BY <1>0, HeadType DEF Pool, Lists
<1>9. \A t \in live : t.nonce \in Nat
  BY <1>6, <1>8, TxType
<1> HIDE DEF live, E
<1> SUFFICES ASSUME NEW k \in Nat, At(q, a, k), n <= k, NEW m \in n..k PROVE At(q, a, m)
  BY DEF Unbroken, q
<1>10. PICK t \in E : t.nonce = k
  BY <1>5 DEF At
<1>11. E = K /\ t \in K
  BY <1>7, <1>10
<1>12. At(p, a, m) /\ m \in Nat /\ m <= k /\ m >= n
  <2>1. At(p, a, k)
    BY <1>6, <1>10, <1>11 DEF At
  <2> QED BY <1>8, <2>1 DEF Unbroken
<1>13. PICK u \in p.pending : u.from = a /\ u.nonce = m
  BY <1>12 DEF At
<1>14. u \in live
  BY <1>6, <1>12, <1>13
<1>15. u \in K
  <2>1. CASE m = k
    <3>1. t \in p.pending /\ t.from = a
      BY <1>6, <1>11
    <3>2. t = u
      BY <1>0, <1>8, <1>10, <1>13, <2>1, <3>1, Zenon DEF Lists, SameSlot
    <3> QED BY <1>11, <3>2
  <2>2. CASE m < k
    BY <1>9, <1>10, <1>11, <1>13, <1>14, <2>2, SMTT(30)
  <2> QED BY <1>12, <2>1, <2>2, SMTT(30)
<1>16. u \in q.pending
  BY <1>5, <1>11, <1>15
<1> QED BY <1>13, <1>16 DEF At

LEMMA SetAllExact ==
  ASSUME NEW p, Good(p, {}), NEW s \in Heads, Front(p, s), NEW a \in Addr,
         Unbroken(p, a, s.nonce[a])
  PROVE  Exact(setAll(p, s), a, s.nonce[a])
<1> DEFINE q == setAll(p, s)
           n == s.nonce[a]
           N == Nonces(p.pending, a)
<1>1. q.pending = p.pending /\ q.nonces[a] = NextNonce(p, s, a)
  BY DEF setAll, Good, Pool
<1>2. p.pending \in SUBSET Tx /\ IsFiniteSet(p.pending)
  <2>1. p.pending \subseteq p.all /\ IsFiniteSet(p.all) /\ p \in Pool
    BY DEF Good, Lists
  <2> QED BY <2>1, FS_Subset DEF Pool
<1>3. N \in SUBSET Nat /\ IsFiniteSet(N)
  BY <1>2, NoncesFinite
<1>4. \A m \in Nat : At(p, a, m) <=> m \in N
  BY DEF At, Nonces, Of
<1>5. n \in Nat /\ \A m \in N : m >= n
  <2>1. ASSUME NEW m \in N PROVE m >= n
    <3>1. PICK t \in p.pending : t.from = a /\ t.nonce = m
      BY DEF Nonces, Of
    <3> QED BY <3>1 DEF Front
  <2> QED BY <2>1, HeadType
<1>6. Of(p.pending, a) = {} <=> N = {}
  BY Zenon DEF Nonces
<1> HIDE DEF q
<1>7. \A m \in Nat : At(q, a, m) <=> m \in N
  BY <1>1, <1>4 DEF At
<1>8. CASE N = {}
  <2>1. q.nonces[a] = n
    BY <1>1, <1>6, <1>8 DEF NextNonce
  <2> HIDE DEF n, N
  <2>2. \A m \in Nat : At(q, a, m) <=> n <= m /\ m < q.nonces[a]
    BY <1>5, <1>7, <1>8, <2>1
  <2> QED BY <2>2 DEF Exact, n, q
<1>9. CASE N # {}
  <2> DEFINE hi == Max(N)
  <2>1. hi \in N /\ \A m \in N : m <= hi
    BY <1>3, <1>9, MaxIsGreatest, Zenon
  <2>2. q.nonces[a] = hi + 1
    BY <1>1, <1>6, <1>9 DEF NextNonce
  <2> HIDE DEF hi, N
  <2>3. hi \in Nat /\ hi >= n
    BY <1>3, <1>5, <2>1
  <2>4. \A m \in n..hi : m \in N
    <3>1. At(p, a, hi)
      BY <1>4, <2>1, <2>3
    <3> QED BY <1>4, <1>5, <2>3, <3>1 DEF Unbroken
  <2> HIDE DEF n
  <2>5. \A m \in Nat : At(q, a, m) <=> n <= m /\ m < q.nonces[a]
    BY <1>5, <1>7, <2>1, <2>2, <2>3, <2>4, SMTT(30)
  <2> QED BY <2>5 DEF Exact, n, q
<1> QED BY <1>8, <1>9

-------------------------------------------------------------------------------
(* runReorg. *)

LEMMA TruncateCutsBack ==
  ASSUME NEW p, Good(p, {}), NEW a \in Addr
  PROVE  \E D : CutBack(truncatePending(p), p, a, D)
<1> DEFINE q == truncatePending(p)
<1>0. p \in Pool /\ Lists(p) /\ IsFiniteSet(p.all)
  BY DEF Good
<1>1. PICK cut : TruncatedOf(q, p, cut)
  BY <1>0, TruncateFields
<1> HIDE DEF q
<1>2. /\ cut \subseteq p.pending /\ q.pending = p.pending \ cut /\ q.nonces = LoweredNonces(p, cut)
      /\ \A t \in cut, u \in p.pending : u.from = t.from /\ t.nonce < u.nonce => u \in cut
  BY <1>1 DEF TruncatedOf
<1>3. Invalidated(p, cut) = {}
  BY <1>2 DEF Invalidated
<1>4. q.pending = p.pending \ (cut \cup Invalidated(p, cut))
  BY <1>2, <1>3
<1>5. CutBack(q, p, a, cut)
  BY <1>0, <1>2, <1>4, RemovalCutsBack
<1> QED BY <1>5 DEF q

(* How a run ends: whatever settled is truncated twice. *)
Truncated(q, settled) ==
    /\ q.all \subseteq settled.all
    /\ \A a \in Addr, n \in Nat : Exact(settled, a, n) => Exact(q, a, n)

LEMMA RunTruncates ==
  ASSUME NEW p, Good(p, {}), NEW r \in truncateQueue(truncatePending(p)),
         NEW q, q = [r EXCEPT !.changes = 0]
  PROVE  Truncated(q, p)
<1> DEFINE cut == truncatePending(p)
<1>0. p \in Pool /\ Lists(p) /\ IsFiniteSet(p.all)
  BY DEF Good
<1>1. Good(cut, {}) /\ \E gone : TruncatedOf(cut, p, gone)
  BY <1>0, TruncatePendingGood, TruncateFields
<1>2. \A a \in Addr : \E D : CutBack(cut, p, a, D)
  BY TruncateCutsBack, Zenon
<1> HIDE DEF cut
<1>3. cut \in Pool /\ Lists(cut) /\ cut.all \subseteq p.all
  BY <1>1 DEF Good, TruncatedOf
<1>4. PICK order : r = removeTx(cut, LastDropped(cut, order), {})
  BY Zenon DEF truncateQueue, cut
<1> DEFINE D == LastDropped(cut, order)
<1>5. D \in SUBSET cut.all
  BY <1>3 DEF LastDropped, Lists
<1> HIDE DEF D
<1>6. Removed(r, cut, D, {})
  BY <1>3, <1>4, <1>5, RemoveFields, Zenon DEF D
<1>7. /\ r.all = cut.all \ D /\ r.pending = cut.pending \ (D \cup Invalidated(cut, D))
      /\ r.nonces = LoweredNonces(cut, D) /\ r \in Pool
  BY <1>6 DEF Removed
<1>8. q.all = r.all /\ q.pending = r.pending /\ q.nonces = r.nonces
  BY <1>7 DEF Pool
<1>9. ASSUME NEW a \in Addr, NEW n \in Nat, Exact(p, a, n) PROVE Exact(q, a, n)
  <2>1. PICK C : CutBack(cut, p, a, C)
    BY <1>2
  <2>2. Exact(cut, a, n)
    BY <1>0, <1>9, <2>1, CutBackKeeps, Zenon
  <2>3. /\ q.pending = cut.pending \ (D \cup Invalidated(cut, D))
        /\ q.nonces = LoweredNonces(cut, D)
    BY <1>7, <1>8, Zenon
  <2>4. CutBack(q, cut, a, D)
    BY <1>3, <2>3, RemovalCutsBack, Zenon
  <2> QED BY <1>3, <2>2, <2>4, CutBackKeeps, Zenon
<1> QED BY <1>3, <1>7, <1>8, <1>9 DEF Truncated

(* A run leaves an account's list exact if it was, and one that resets also   *)
(* if it has no hole and the virtual nonce was taken back.                    *)
LEMMA RunReorgExact ==
  ASSUME NEW p, Good(p, {}), NEW s \in Heads, NEW A \in SUBSET Addr, NEW resetting \in BOOLEAN,
         NEW q \in runReorg(p, s, A, resetting), NEW a \in Addr,
         \/ Exact(p, a, s.nonce[a])
         \/ resetting /\ Unbroken(p, a, s.nonce[a]) /\ p.nonces[a] <= s.nonce[a]
  PROVE  Exact(q, a, s.nonce[a])
<1> DEFINE promoted == promoteExecutables(p, s, A)
           demoted == demoteUnexecutables(promoted, s)
           settled == IF resetting THEN setAll(demoted, s) ELSE promoted
           n == s.nonce[a]
<1>1. PICK r \in truncateQueue(truncatePending(settled)) : q = [r EXCEPT !.changes = 0]
  BY DEF runReorg
<1>2. Good(promoted, {}) /\ n \in Nat
  BY PromoteGood, HeadType, Zenon
<1>3. /\ Exact(p, a, n) => Exact(promoted, a, n)
      /\ Unbroken(p, a, n) /\ p.nonces[a] <= n => Unbroken(promoted, a, n)
  BY PromoteKeepsExact, PromoteKeepsUnbroken
<1> HIDE DEF promoted
<1>4. promoted \in Pool /\ Lists(promoted)
  BY <1>2 DEF Good
<1>5. Exact(promoted, a, n) => Unbroken(promoted, a, n)
  BY <1>2, <1>4, ExactUnbroken, SMTT(30)
<1>6. Good(settled, {}) /\ Exact(settled, a, n)
  <2>1. CASE resetting
    <3>1. Unbroken(promoted, a, n)
      BY <1>3, <1>5, Zenon
    <3>2. Good(demoted, {}) /\ Front(demoted, s) /\ Unbroken(demoted, a, n)
      BY <1>2, <1>4, <3>1, DemoteGood, DemoteFront, DemoteKeepsUnbroken, Zenon
    <3> HIDE DEF demoted
    <3>3. Good(setAll(demoted, s), {}) /\ Exact(setAll(demoted, s), a, n)
      BY <3>2, SetAllKeeps, SetAllExact, Zenon
    <3> QED BY <2>1, <3>3
  <2>2. CASE ~resetting
    BY <1>2, <1>3, <2>2
  <2> QED BY <2>1, <2>2
<1> HIDE DEF settled
<1>7. Truncated(q, settled)
  BY <1>1, <1>6, RunTruncates, Zenon
<1> QED BY <1>2, <1>6, <1>7 DEF Truncated

(* A run that resets goes through all of the queue, so nothing it leaves has  *)
(* a nonce the head has used.                                                 *)
LEMMA RunReorgFloor ==
  ASSUME NEW p, Good(p, {}), NEW s \in Heads, NEW A \in SUBSET Addr, NEW resetting \in BOOLEAN,
         NEW q \in runReorg(p, s, A, resetting),
         Floor(p, s) \/ (resetting /\ A = Queued(p))
  PROVE  Floor(q, s)
<1> DEFINE promoted == promoteExecutables(p, s, A)
           demoted == demoteUnexecutables(promoted, s)
           settled == IF resetting THEN setAll(demoted, s) ELSE promoted
<1>0. p \in Pool /\ Lists(p) /\ IsFiniteSet(p.all) /\ Holds(p, {})
  BY DEF Good
<1>1. PICK r \in truncateQueue(truncatePending(settled)) : q = [r EXCEPT !.changes = 0]
  BY DEF runReorg
<1>2. Good(promoted, {}) /\ promoted.all \subseteq p.all
  BY PromoteGood, PromoteTakes
<1>3. A = Queued(p) => \A t \in promoted.queue : t.nonce >= s.nonce[t.from]
  <2> SUFFICES ASSUME A = Queued(p), NEW t \in promoted.queue PROVE t.nonce >= s.nonce[t.from]
    BY Zenon
  <2>1. PICK b, wins, rest, O :
           /\ O = {a \in A : Of(p.queue, a) # {}}
           /\ PromotedOf(b, p, s, O, wins, rest)
           /\ promoteExecutables(p, s, A) = Relinquish(b, O)
    BY <1>0, PromoteFields, SMTT(30)
  <2>2. /\ b \in Pool /\ b.queue = (p.queue \ {u \in p.queue : u.from \in O}) \cup rest
        /\ \A u \in rest : u.nonce >= s.nonce[u.from]
    BY <2>1, Zenon DEF PromotedOf
  <2>3. \A u \in p.queue : u.from \in O
    BY <2>1, Zenon DEF Queued, Of
  <2>4. promoted.queue = b.queue
    <3>1. Relinquish(b, O).queue = b.queue
      BY <2>2, RelinquishFields, Zenon
    <3> QED BY <2>1, <3>1, ZenonT(30)
  <2> QED BY <2>2, <2>3, <2>4, Zenon
<1> HIDE DEF promoted
<1>4. promoted \in Pool /\ Lists(promoted)
  BY <1>2 DEF Good
<1>5. Good(settled, {}) /\ Floor(settled, s)
  <2>1. CASE ~resetting
    BY <1>2, <2>1 DEF Floor
  <2>2. CASE resetting
    <3>1. \A t \in promoted.queue : t.nonce >= s.nonce[t.from]
      <4>1. promoted.queue \subseteq p.all
        BY <1>2, <1>4 DEF Lists
      <4> QED BY <1>3, <4>1 DEF Floor
    <3>2. Good(demoted, {}) /\ Front(demoted, s)
      BY <1>2, <1>4, DemoteGood, DemoteFront, ZenonT(60)
    <3>3. \A t \in demoted.queue : t.nonce >= s.nonce[t.from]
      <4> DEFINE O == {t.from : t \in promoted.pending}
      <4>1. PICK b, kept, down :
              /\ kept = UNION {Executable(promoted, s, a) : a \in Addr}
              /\ kept \subseteq promoted.pending /\ down \subseteq promoted.pending \ kept
              /\ \A t \in down : t.nonce >= s.nonce[t.from]
              /\ DemotedTo(b, promoted, kept, down)
              /\ demoteUnexecutables(promoted, s) = Relinquish(b, O)
        BY <1>4, DemoteFields, Zenon
      <4> HIDE DEF O
      <4>2. b \in Pool /\ b.queue = promoted.queue \cup down
        BY <4>1, Zenon DEF DemotedTo
      <4>3. demoted.queue = b.queue
        <5>1. Relinquish(b, O).queue = b.queue
          BY <4>2, RelinquishFields, Zenon
        <5> QED BY <4>1, <5>1, ZenonT(30)
      <4> QED BY <3>1, <4>1, <4>2, <4>3
    <3> HIDE DEF demoted
    <3>4. demoted.all = demoted.pending \cup demoted.queue
      BY <3>2 DEF Good, Lists
    <3>5. Good(setAll(demoted, s), {})
      BY <3>2, SetAllKeeps
    <3>6. setAll(demoted, s).all = demoted.all
      BY <3>2 DEF setAll, Good, Pool
    <3>7. \A t \in demoted.all : t.nonce >= s.nonce[t.from]
      BY <3>2, <3>3, <3>4 DEF Front
    <3> QED BY <2>2, <3>5, <3>6, <3>7, Zenon DEF Floor
  <2> QED BY <2>1, <2>2
<1> HIDE DEF settled
<1>6. Truncated(q, settled)
  BY <1>1, <1>5, RunTruncates, Zenon
<1> QED BY <1>5, <1>6 DEF Truncated, Floor

-------------------------------------------------------------------------------
(* add. *)

(* A replacement takes the place of the one it replaces. *)
LEMMA TakenKeepsAt ==
  ASSUME NEW q, NEW m, NEW tx, NEW a, Taken(q, m, tx)
  PROVE  q.nonces = m.nonces /\ \A k : At(q, a, k) <=> At(m, a, k)
<1>1. CASE q.pending = m.pending
  BY <1>1, Zenon DEF At, Taken
<1>2. ASSUME NEW o \in m.pending, SameSlot(o, tx), q.pending = (m.pending \ {o}) \cup {tx}
      PROVE  \A k : At(q, a, k) <=> At(m, a, k)
  <2> SUFFICES ASSUME NEW k PROVE At(q, a, k) <=> At(m, a, k)
    OBVIOUS
  <2>1. tx.from = o.from /\ tx.nonce = o.nonce /\ tx \in q.pending
    BY <1>2 DEF SameSlot
  <2>2. At(q, a, k) => At(m, a, k)
    BY <1>2, <2>1 DEF At
  <2>3. At(m, a, k) => At(q, a, k)
    BY <1>2, <2>1 DEF At
  <2> QED BY <2>2, <2>3
<1> QED BY <1>1, <1>2, Zenon DEF Taken

Kept(q, p, s, a) ==
    /\ \A n \in Nat : /\ Exact(p, a, n) => Exact(q, a, n)
                      /\ Unbroken(p, a, n) => Unbroken(q, a, n)
    /\ q.nonces[a] <= p.nonces[a]
    /\ Floor(p, s) => Floor(q, s)

LEMMA AddKeepsGaps ==
  ASSUME NEW p, Good(p, {}), NEW s \in Heads, NEW tx \in Tx, NEW r \in add(p, s, tx), NEW a \in Addr
  PROVE  Kept(r.pool, p, s, a)
<1>0. p \in Pool /\ Lists(p) /\ p.nonces[a] \in Nat
  BY DEF Good, Pool
<1>1. CASE r = Rejected(p)
  <2>1. r.pool = p
    BY <1>1 DEF Rejected
  <2> QED BY <1>0, <2>1 DEF Kept
<1>2. CASE r # Rejected(p)
  <2>1. tx \notin p.all /\ validateTx(p, s, tx)
    BY <1>2 DEF add
  <2>2. PICK D \in Victims(p, tx) : r = Admitted(p, tx, D)
    BY <1>2, Zenon DEF add
  <2>3. D \in SUBSET p.all
    BY Zenon DEF Victims, Discards
  <2> DEFINE m == MakeRoom(p, tx, D)
             q == r.pool
  <2>4. RoomFor(m, p, tx, D)
    BY <2>3, MakeRoomKeeps, Zenon
  <2>5. Taken(q, m, tx)
    BY <2>1, <2>2, <2>3, AdmittedTakes, Zenon
  <2> HIDE DEF m, q
  <2>6. /\ m.pending = p.pending \ (D \cup Invalidated(p, D)) /\ m.nonces = LoweredNonces(p, D)
        /\ m.all = p.all \ D
    BY <2>4, Zenon DEF RoomFor
  <2>7. CutBack(m, p, a, D)
    BY <1>0, <2>6, RemovalCutsBack, Zenon
  <2>8. q.nonces = m.nonces /\ \A k : At(q, a, k) <=> At(m, a, k)
    BY <2>5, TakenKeepsAt, Zenon
  <2>9. ASSUME NEW n \in Nat
        PROVE  /\ Exact(p, a, n) => Exact(q, a, n)
               /\ Unbroken(p, a, n) => Unbroken(q, a, n)
    <3>1. /\ Exact(p, a, n) => Exact(m, a, n)
          /\ Unbroken(p, a, n) => Unbroken(m, a, n)
      BY <1>0, <2>7, CutBackKeeps, Zenon
    <3>2. Exact(m, a, n) => Exact(q, a, n)
      BY <2>8, Zenon DEF Exact
    <3>3. Unbroken(m, a, n) => Unbroken(q, a, n)
      BY <2>8, Zenon DEF Unbroken
    <3> QED BY <3>1, <3>2, <3>3, Zenon
  <2>10. q.nonces[a] <= p.nonces[a]
    BY <2>7, <2>8 DEF CutBack
  <2>11. Floor(p, s) => Floor(q, s)
    <3>1. q.all \subseteq p.all \cup {tx}
      BY <2>5, <2>6, Zenon DEF Taken
    <3>2. s.nonce[tx.from] <= tx.nonce
      BY <2>1 DEF validateTx
    <3>3. tx.nonce >= s.nonce[tx.from]
      BY <3>2, Zenon
    <3> QED BY <3>1, <3>3, Zenon DEF Floor
  <2>12. Kept(q, p, s, a)
    BY <2>9, <2>10, <2>11, Zenon DEF Kept
  <2> QED BY <2>12 DEF q
<1> QED BY <1>1, <1>2

LEMMA RemoveKeepsGaps ==
  ASSUME NEW p, Good(p, {}), NEW D \in SUBSET p.all, NEW s, NEW a \in Addr
  PROVE  Kept(removeTx(p, D, {}), p, s, a)
<1> DEFINE q == removeTx(p, D, {})
<1>0. p \in Pool /\ Lists(p)
  BY DEF Good
<1>1. Removed(q, p, D, {})
  BY <1>0, RemoveFields
<1> HIDE DEF q
<1>2. /\ q.pending = p.pending \ (D \cup Invalidated(p, D)) /\ q.nonces = LoweredNonces(p, D)
      /\ q.all = p.all \ D
  BY <1>1, Zenon DEF Removed
<1>3. CutBack(q, p, a, D)
  BY <1>0, <1>2, RemovalCutsBack, Zenon
<1>4. \A n \in Nat : /\ Exact(p, a, n) => Exact(q, a, n)
                     /\ Unbroken(p, a, n) => Unbroken(q, a, n)
  BY <1>0, <1>3, CutBackKeeps, Zenon
<1>5. q.nonces[a] <= p.nonces[a]
  BY <1>3, Zenon DEF CutBack
<1>6. Floor(p, s) => Floor(q, s)
  BY <1>2 DEF Floor
<1> QED BY <1>4, <1>5, <1>6, Zenon DEF Kept, q

-------------------------------------------------------------------------------
(* The actions. *)

(* The inductive invariant. *)
FInv == LInv /\ Floor(pool, state)

(* Ready for the run of a reset: what has no hole from the nonce of the new   *)
(* head on still has none, and the virtual nonces are taken back.             *)
Rewound(p, s) ==
    /\ Good(p, {})
    /\ \A a \in Addr : /\ Unbroken(pool, a, s.nonce[a]) => Unbroken(p, a, s.nonce[a])
                       /\ p.nonces[a] <= s.nonce[a]

LEMMA ResetRewinds ==
  ASSUME LInv, NEW s \in Heads, NEW R \in Lost(s), NEW d \in SUBSET dirty, Reset(s, R, d)
  PROVE  \E p : Rewound(p, s) /\ pool' \in runReorg(p, s, Queued(p), TRUE)
<1> DEFINE n == Cardinality(R)
           b == [pool EXCEPT !.nonces = s.nonce]
           G == {q \in Pool : Rewound(q, s)}
<1>1. n \in Nat /\ R \subseteq Tx
  <2>1. PICK k \in 0..MaxReinject :
          R \in kSubset(k, {t \in Tx : t.nonce \in s.nonce[t.from]..(state.nonce[t.from] - 1)})
    BY Zenon DEF Lost
  <2> QED BY <2>1, ConfigAssumption DEF kSubset
<1>2. PICK txs \in Orders(R) : \E p \in Reinject(b, s, txs) : pool' \in runReorg(p, s, Queued(p), TRUE)
  BY Zenon DEF Reset
<1>3. PICK p \in Reinject(b, s, txs) : pool' \in runReorg(p, s, Queued(p), TRUE)
  BY <1>2, Zenon
<1>4. txs \in [1..n -> Tx] /\ Len(txs) = n
  <2>1. txs \in [1..n -> R]
    BY Zenon DEF Orders, Bijection, Injection
  <2> HIDE DEF n
  <2> QED BY <1>1, <2>1
<1>5. b \in G
  <2>0. Good(pool, {}) /\ s.nonce \in [Addr -> Nat]
    BY HeadType DEF LInv
  <2>1. /\ b \in Pool /\ b.all = pool.all /\ b.pending = pool.pending /\ b.queue = pool.queue
        /\ b.owner = pool.owner /\ b.nonces = s.nonce
    BY <2>0 DEF Good, Pool
  <2> HIDE DEF b
  <2>2. Good(b, {})
    BY <2>0, <2>1, Zenon DEF Good, Lists, Holds, Tracked
  <2>3. ASSUME NEW a \in Addr
        PROVE  /\ Unbroken(pool, a, s.nonce[a]) => Unbroken(b, a, s.nonce[a])
               /\ b.nonces[a] <= s.nonce[a]
    <3>1. b.nonces[a] = s.nonce[a] /\ s.nonce[a] \in Nat
      BY <2>0, <2>1
    <3>2. Unbroken(pool, a, s.nonce[a]) => Unbroken(b, a, s.nonce[a])
      BY <2>1, Zenon DEF Unbroken, At
    <3> QED BY <3>1, <3>2, SMTT(30)
  <2>4. Rewound(b, s)
    BY <2>2, <2>3, Zenon DEF Rewound
  <2> QED BY <2>1, <2>4
<1> HIDE DEF b, n
<1>6. ASSUME NEW q \in G, NEW tx \in Tx, NEW r \in add(q, s, tx) PROVE r.pool \in G
  <2> DEFINE g == r.pool
  <2>1. Good(q, {}) /\ q \in Pool /\ Rewound(q, s)
    BY DEF Rewound
  <2>2. Good(g, {}) /\ \A a \in Addr : Kept(g, q, s, a)
    BY <2>1, AddKeeps, AddKeepsGaps, Zenon
  <2> HIDE DEF g
  <2>3. ASSUME NEW a \in Addr
        PROVE  /\ Unbroken(pool, a, s.nonce[a]) => Unbroken(g, a, s.nonce[a])
               /\ g.nonces[a] <= s.nonce[a]
    <3>1. s.nonce[a] \in Nat /\ g.nonces[a] \in Nat /\ q.nonces[a] \in Nat
      BY <2>1, <2>2, HeadType, Zenon DEF Good, Pool
    <3>2. q.nonces[a] <= s.nonce[a] /\ g.nonces[a] <= q.nonces[a]
      BY <2>1, <2>2, Zenon DEF Rewound, Kept
    <3>3. Unbroken(pool, a, s.nonce[a]) => Unbroken(g, a, s.nonce[a])
      BY <2>1, <2>2, <3>1, ZenonT(60) DEF Rewound, Kept
    <3> QED BY <3>1, <3>2, <3>3, SMTT(30)
  <2>4. Rewound(g, s) /\ g \in Pool
    BY <2>2, <2>3, Zenon DEF Rewound, Good
  <2> QED BY <2>4, Zenon DEF g
<1> HIDE DEF G
<1>7. p \in G
  BY <1>1, <1>3, <1>4, <1>5, <1>6, ReinjectStays, Zenon
<1>8. Rewound(p, s)
  BY <1>7 DEF G
<1> QED BY <1>3, <1>8, Zenon

LEMMA ResetLeaves ==
  ASSUME LInv, NEW s \in Heads, NEW R \in Lost(s), NEW d \in SUBSET dirty, Reset(s, R, d)
  PROVE  /\ Floor(pool', s)
         /\ \A a \in Addr : Unbroken(pool, a, s.nonce[a]) => Exact(pool', a, s.nonce[a])
<1>1. PICK p : Rewound(p, s) /\ pool' \in runReorg(p, s, Queued(p), TRUE)
  BY ResetRewinds, Zenon
<1> DEFINE A == Queued(p)
           q == pool'
<1>2. Good(p, {}) /\ A \in SUBSET Addr /\ TRUE \in BOOLEAN /\ q \in runReorg(p, s, A, TRUE)
  <2>1. Good(p, {}) /\ q \in runReorg(p, s, A, TRUE)
    BY <1>1, Zenon DEF Rewound
  <2>2. A \in SUBSET Addr
    BY <2>1, QueuedType
  <2> QED BY <2>1, <2>2, Zenon
<1>3. A = Queued(p)
  OBVIOUS
<1> HIDE DEF A, q
<1>4. Floor(q, s)
  BY <1>2, <1>3, RunReorgFloor, Zenon
<1>5. ASSUME NEW a \in Addr, Unbroken(pool, a, s.nonce[a]) PROVE Exact(q, a, s.nonce[a])
  <2>1. Unbroken(p, a, s.nonce[a]) /\ p.nonces[a] <= s.nonce[a]
    BY <1>1, <1>5 DEF Rewound
  <2> QED BY <1>2, <2>1, RunReorgExact, ZenonT(60)
<1> QED BY <1>4, <1>5 DEF q

LEMMA InitFInv == Init => FInv
<1> SUFFICES ASSUME Init PROVE FInv
  OBVIOUS
<1>1. LInv
  BY InitLInv
<1>2. pool.all = {}
  BY DEF Init
<1> QED BY <1>1, <1>2 DEF FInv, Floor

(* What a step that is not a reset to a new head does to the pool. *)
LEMMA LocalKeeps ==
  ASSUME LInv, Local \/ UNCHANGED vars
  PROVE  /\ state' = state
         /\ Floor(pool, state) => Floor(pool', state)
         /\ \A a \in Addr : Exact(pool, a, state.nonce[a]) => Exact(pool', a, state.nonce[a])
<1> DEFINE p == pool
           q == pool'
           s == state
           Goal == /\ state' = s
                   /\ Floor(p, s) => Floor(q, s)
                   /\ \A a \in Addr : Exact(p, a, s.nonce[a]) => Exact(q, a, s.nonce[a])
<1>0. /\ Good(p, {}) /\ p \in Pool /\ s \in Heads /\ dirty \subseteq Addr
      /\ p.queue \subseteq p.all
      /\ \A a \in Addr : s.nonce[a] \in Nat
  BY HeadType DEF LInv, Good, Lists
<1> SUFFICES Goal
  OBVIOUS
<1>1. ASSUME state' = state, \A a \in Addr : Kept(q, p, s, a), Floor(p, s) => Floor(q, s) PROVE Goal
  BY <1>0, <1>1, Zenon DEF Kept
<1>2. ASSUME state' = state, q.all = p.all, q.pending = p.pending, q.nonces = p.nonces PROVE Goal
  <2>1. \A a \in Addr : Exact(p, a, s.nonce[a]) => Exact(q, a, s.nonce[a])
    BY <1>2, Zenon DEF Exact, At
  <2>2. Floor(p, s) => Floor(q, s)
    BY <1>2, Zenon DEF Floor
  <2> QED BY <1>2, <2>1, <2>2, Zenon
<1>3. ASSUME NEW tx \in Tx, ValidateTxBasics(tx) PROVE Goal
  <2>1. pool' = pool /\ state' = state
    BY <1>3 DEF ValidateTxBasics
  <2> QED BY <1>2, <2>1, Zenon
<1>4. ASSUME NEW tx \in Tx, Add(tx) PROVE Goal
  <2>1. PICK r \in add(p, s, tx) : pool' = r.pool
    BY <1>4 DEF Add
  <2>2. \A a \in Addr : Kept(q, p, s, a)
    BY <1>0, <2>1, AddKeepsGaps, Zenon
  <2>3. state' = state
    BY <1>4 DEF Add
  <2>4. tx.from \in Addr
    BY TxType
  <2>5. Floor(p, s) => Floor(q, s)
    BY <2>2, <2>4, Zenon DEF Kept
  <2> QED BY <1>1, <2>2, <2>3, <2>5, Zenon
<1>5. ASSUME NEW A \in SUBSET Addr, NEW resetting \in BOOLEAN, q \in runReorg(p, s, A, resetting),
             state' = state
      PROVE  Goal
  <2>1. Floor(p, s) => Floor(q, s)
    BY <1>0, <1>5, RunReorgFloor, Zenon
  <2>2. \A a \in Addr : Exact(p, a, s.nonce[a]) => Exact(q, a, s.nonce[a])
    BY <1>0, <1>5, RunReorgExact, Zenon
  <2> QED BY <1>5, <2>1, <2>2, Zenon
<1>6. ASSUME NEW d \in SUBSET dirty, Promote(d) PROVE Goal
  <2>1. d \in SUBSET Addr /\ FALSE \in BOOLEAN
    BY <1>0
  <2>2. q \in runReorg(p, s, d, FALSE) /\ state' = state
    BY <1>6, Zenon DEF Promote
  <2> QED BY <1>5, <2>1, <2>2, Zenon
<1>7. ASSUME NEW d \in SUBSET dirty, ResetSkipped(d) PROVE Goal
  <2>1. Queued(p) \in SUBSET Addr /\ TRUE \in BOOLEAN
    BY <1>0, QueuedType
  <2>2. q \in runReorg(p, s, Queued(p), TRUE) /\ state' = state
    BY <1>7, Zenon DEF ResetSkipped
  <2> QED BY <1>5, <2>1, <2>2, Zenon
<1>8. ASSUME NEW D \in SUBSET pool.all, pool' = removeTx(pool, D, {}), state' = state PROVE Goal
  <2>1. \A a \in Addr : Kept(q, p, s, a)
    BY <1>0, <1>8, RemoveKeepsGaps, ZenonT(60)
  <2>2. q.all \subseteq p.all
    <3>1. Removed(removeTx(p, D, {}), p, D, {})
      BY <1>0, RemoveFields DEF Good
    <3> QED BY <1>8, <3>1, Zenon DEF Removed
  <2>3. Floor(p, s) => Floor(q, s)
    BY <2>2 DEF Floor
  <2> QED BY <1>1, <1>8, <2>1, <2>3, Zenon
<1>9. ASSUME NEW tip \in Tips, SetGasTip(tip) PROVE Goal
  <2> DEFINE D == {t \in pool.all : t.price < tip}
  <2>1. D \in SUBSET pool.all
    OBVIOUS
  <2>2. state' = state /\ (pool' = removeTx(pool, D, {}) \/ pool' = pool)
    BY <1>9 DEF SetGasTip
  <2> HIDE DEF D
  <2>3. CASE pool' = pool
    BY <1>2, <2>2, <2>3, Zenon
  <2> QED BY <1>8, <2>1, <2>2, <2>3, Zenon
<1>10. ASSUME NEW A \in SUBSET Addr, Evict(A) PROVE Goal
  <2> DEFINE D == {t \in pool.queue : t.from \in A}
  <2>1. D \in SUBSET pool.all
    BY <1>0
  <2>2. pool' = removeTx(pool, D, {}) /\ state' = state
    BY <1>10 DEF Evict
  <2> HIDE DEF D
  <2> QED BY <1>8, <2>1, <2>2, Zenon
<1>11. CASE Clear
  <2> DEFINE o == [a \in Addr |-> IF Tracked(pool, a) THEN "free" ELSE pool.owner[a]]
  <2>1. /\ state' = state
        /\ pool' = [pool EXCEPT !.all = {}, !.pending = {}, !.queue = {}, !.nonces = state.nonce,
                                !.owner = o]
    BY <1>11 DEF Clear
  <2> HIDE DEF o
  <2>2. q.all = {} /\ q.pending = {} /\ q.nonces = s.nonce
    BY <1>0, <2>1 DEF Pool
  <2>3. \A a \in Addr : Exact(q, a, s.nonce[a])
    BY <1>0, <2>2 DEF Exact, At
  <2> QED BY <2>1, <2>2, <2>3 DEF Floor
<1>12. ASSUME NEW a \in Addr, OtherHold(a) \/ OtherRelease(a) PROVE Goal
  <2>1. /\ state' = state
        /\ pool' = [pool EXCEPT !.owner[a] = "other"] \/ pool' = [pool EXCEPT !.owner[a] = "free"]
    BY <1>12 DEF OtherHold, OtherRelease
  <2>2. q.all = p.all /\ q.pending = p.pending /\ q.nonces = p.nonces
    BY <1>0, <2>1 DEF Pool
  <2> QED BY <1>2, <2>1, <2>2, Zenon
<1>13. CASE UNCHANGED vars
  BY <1>2, <1>13, Zenon DEF vars
<1> HIDE DEF Goal
<1> QED
  BY <1>3, <1>4, <1>6, <1>7, <1>9, <1>10, <1>11, <1>12, <1>13, Zenon DEF Local

LEMMA NextFInv == FInv /\ [Next]_vars => FInv'
<1> SUFFICES ASSUME FInv, [Next]_vars PROVE FInv'
  OBVIOUS
<1>1. LInv /\ LInv' /\ Floor(pool, state)
  BY NextLInv DEF FInv
<1>2. CASE Local \/ UNCHANGED vars
  <2>1. state' = state /\ Floor(pool', state)
    BY <1>1, <1>2, LocalKeeps
  <2>2. Floor(pool', state')
    BY <2>1, Zenon
  <2> QED BY <1>1, <2>2 DEF FInv
<1>3. ASSUME NEW s \in Heads, NEW d \in SUBSET dirty, NEW R \in Lost(s), Reset(s, R, d) PROVE FInv'
  <2>1. Floor(pool', s)
    BY <1>1, <1>3, ResetLeaves
  <2>2. state' = s
    BY <1>3 DEF Reset
  <2>3. Floor(pool', state')
    BY <2>1, <2>2, Zenon
  <2> QED BY <1>1, <2>3 DEF FInv
<1> QED BY <1>2, <1>3 DEF Next

(* PendingExecutable, account by account. *)
LEMMA ExactIsExecutable ==
  ASSUME NEW p \in Pool, NEW a \in Addr, NEW n \in Nat
  PROVE  Exact(p, a, n) <=> Nonces(p.pending, a) = n..(p.nonces[a] - 1)
<1> DEFINE N == Nonces(p.pending, a)
<1>1. \A m \in Nat : At(p, a, m) <=> m \in N
  BY DEF At, Nonces, Of
<1>2. N \subseteq Nat /\ p.nonces[a] \in Nat
  BY TxType DEF Nonces, Of, Pool
<1> HIDE DEF N
<1>3. ASSUME Exact(p, a, n) PROVE N = n..(p.nonces[a] - 1)
  <2>1. \A m \in Nat : m \in N <=> n <= m /\ m < p.nonces[a]
    BY <1>1, <1>3, Zenon DEF Exact
  <2>2. N \subseteq n..(p.nonces[a] - 1)
    BY <1>2, <2>1
  <2>3. n..(p.nonces[a] - 1) \subseteq N
    BY <1>2, <2>1, SMTT(30)
  <2> QED BY <2>2, <2>3, Zenon
<1>4. N = n..(p.nonces[a] - 1) => Exact(p, a, n)
  BY <1>1, <1>2 DEF Exact
<1> QED BY <1>3, <1>4, Zenon DEF N

(* A reset to a head that has taken back an account's nonces leaves it no     *)
(* pending transaction, unless the pool took one in: the front of its list    *)
(* would be one whose nonce the old head had used.                            *)
LEMMA ResetEmpties ==
  ASSUME FInv, LInv', NEW a \in Addr, state'.nonce[a] < state.nonce[a], pool'.all \subseteq pool.all
  PROVE  Exact(pool', a, state'.nonce[a])
<1> DEFINE q == pool'
           s == state'
<1>1. Good(q, {}) /\ Front(q, s) /\ Low(q, s) /\ s \in Heads
  BY Zenon DEF LInv, Fits
<1>2. /\ s.nonce[a] \in Nat /\ state.nonce[a] \in Nat /\ q.nonces[a] \in Nat
      /\ q.pending \subseteq q.all
  BY <1>1, HeadType, Zenon DEF FInv, LInv, Good, Pool, Lists
<1>3. ASSUME NEW t \in q.pending, t.from = a PROVE FALSE
  <2>1. PICK u \in q.pending : u.from = a /\ u.nonce = s.nonce[a]
    BY <1>1, <1>3, Zenon DEF Front
  <2>2. u.nonce >= state.nonce[a]
    BY <1>2, <2>1 DEF FInv, Floor
  <2> QED BY <1>2, <2>1, <2>2, SMTT(30)
<1>4. Of(q.pending, a) = {}
  BY <1>3 DEF Of
<1>5. q.nonces[a] <= s.nonce[a]
  BY <1>1, <1>4 DEF Low
<1> HIDE DEF q, s
<1>6. Exact(q, a, s.nonce[a])
  BY <1>2, <1>3, <1>5, SMTT(30) DEF Exact, At
<1> QED BY <1>6 DEF q, s

(* What OnlyReinjectionLeavesGaps says of one step. *)
KeepsExecutable ==
    PendingExecutable /\ pool'.all \ pool.all \subseteq inflight \ inflight' => PendingExecutable'

LEMMA NextExecutable == FInv /\ [Next]_vars => KeepsExecutable
<1> SUFFICES ASSUME FInv, [Next]_vars, PendingExecutable,
                    pool'.all \ pool.all \subseteq inflight \ inflight'
             PROVE  PendingExecutable'
  BY DEF KeepsExecutable
<1>1. LInv /\ LInv'
  BY NextLInv DEF FInv
<1>2. /\ pool \in Pool /\ state \in Heads /\ pool' \in Pool /\ state' \in Heads
      /\ Front(pool', state')
  BY <1>1 DEF LInv, Good, Fits
<1>3. \A a \in Addr : state.nonce[a] \in Nat /\ state'.nonce[a] \in Nat
  BY <1>2, HeadType
<1>4. \A a \in Addr : Exact(pool, a, state.nonce[a])
  BY <1>2, <1>3, ExactIsExecutable, Zenon DEF PendingExecutable
<1>5. \A a \in Addr : Exact(pool', a, state'.nonce[a])
  <2>1. CASE Local \/ UNCHANGED vars
    <3>1. /\ state' = state
          /\ \A a \in Addr : Exact(pool, a, state.nonce[a]) => Exact(pool', a, state.nonce[a])
      BY <1>1, <2>1, LocalKeeps, Zenon
    <3> QED BY <1>4, <3>1, Zenon
  <2>2. ASSUME NEW s \in Heads, NEW d \in SUBSET dirty, NEW R \in Lost(s), Reset(s, R, d),
               NEW a \in Addr
        PROVE  Exact(pool', a, state'.nonce[a])
    <3>1. state' = s /\ inflight' = inflight
      BY <2>2 DEF Reset
    <3>2. CASE state.nonce[a] <= s.nonce[a]
      <4>1. s.nonce[a] \in Nat
        BY HeadType
      <4>2. Unbroken(pool, a, s.nonce[a])
        BY <1>2, <1>3, <1>4, <3>2, <4>1, ExactUnbroken, Zenon
      <4>3. Exact(pool', a, s.nonce[a])
        BY <1>1, <2>2, <4>2, ResetLeaves, Zenon
      <4> QED BY <3>1, <4>3, Zenon
    <3>3. CASE s.nonce[a] < state.nonce[a]
      <4>1. pool'.all \subseteq pool.all
        BY <3>1
      <4>2. state'.nonce[a] < state.nonce[a]
        BY <3>1, <3>3
      <4> QED BY <1>1, <4>1, <4>2, ResetEmpties, Zenon
    <3>4. s.nonce[a] \in Nat /\ state.nonce[a] \in Nat
      BY <1>3, HeadType
    <3> QED BY <3>2, <3>3, <3>4
  <2> QED BY <2>1, <2>2 DEF Next
<1>6. \A a \in Addr : Nonces(pool'.pending, a) = state'.nonce[a]..(pool'.nonces[a] - 1)
  BY <1>2, <1>3, <1>5, ExactIsExecutable, Zenon
<1>7. \A t \in pool'.pending : t.cost <= state'.balance[t.from]
  BY <1>2 DEF Front
<1> QED BY <1>6, <1>7 DEF PendingExecutable

(* Only the reinjection of an abandoned block's transactions leaves holes in  *)
(* the pending lists: as long as the pool takes in nothing but what Add       *)
(* brings, an account's executable transactions take consecutive nonces from  *)
(* the state's nonce up to the virtual one after every step if they did       *)
(* before it, whatever add discards, promoteExecutables, demoteUnexecutables  *)
(* and the truncations move, also when a reset changes the account's nonce.   *)
THEOREM GapsOnlyByReinjection == Spec => OnlyReinjectionLeavesGaps
<1>1. FInv /\ [Next]_vars => FInv'
  BY NextFInv
<1>2. Spec => []FInv
  BY <1>1, InitFInv, PTL DEF Spec
<1>3. FInv /\ [Next]_vars => [KeepsExecutable]_vars
  BY NextExecutable
<1>4. Spec => [][KeepsExecutable]_vars
  BY <1>2, <1>3, PTL DEF Spec
<1> QED BY <1>4 DEF OnlyReinjectionLeavesGaps, KeepsExecutable
===============================================================================
