------------------------------ MODULE LegacyPool ------------------------------
(***************************************************************************)
(* The contents of the legacy transaction pool (core/txpool/legacypool):   *)
(* the executable list `pending', the non-executable list `queue', the     *)
(* lookup `all', the virtual nonces `pendingNonces', the reservations it   *)
(* shares with the other subpools and the state of the head it was last    *)
(* reset to.                                                               *)
(*                                                                         *)
(* Every action runs under pool.mu and is atomic.  What is not atomic is   *)
(* modelled: a transaction passes ValidateTxBasics before the lock is      *)
(* taken (`inflight'), and the promotion its account needs is requested    *)
(* after the lock is released and run later (`dirty'), possibly merged     *)
(* with a reset.                                                           *)
(*                                                                         *)
(* A list is the set of its transactions, an account's list is present in  *)
(* the Go map exactly when it is not empty.  Heartbeats are abstracted:    *)
(* any account may be the inactive one, and the queue is truncated in any  *)
(* order of accounts.  The two price heaps are abstracted: any set of      *)
(* transactions that makes just enough room may be the one discarded.      *)
(***************************************************************************)
EXTENDS PendingLevel, Sequences, Functions

CONSTANTS
    Tx,            \* transactions: [from, nonce, price, cost, slots]
    Heads,         \* states of the chain heads: [nonce, balance] of every account
    Genesis,       \* the one the pool is initialised with
    Tips,          \* values SetGasTip is called with
    AccountQueue, GlobalQueue,   \* Config, as AccountSlots and GlobalSlots
    PriceBump,     \* Config, in percent
    MaxInflight,   \* bound: transactions between ValidateTxBasics and the lock
    MaxReinject    \* bound: transactions a reorg gives back

ASSUME ConfigAssumption ==
    /\ IsFiniteSet(Addr)
    /\ AccountSlots \in Nat \ {0} /\ GlobalSlots \in Nat \ {0}
    /\ AccountQueue \in Nat \ {0} /\ GlobalQueue \in Nat \ {0}
    /\ PriceBump \in Nat \ {0}
    /\ MaxReinject \in Nat

ASSUME HeadAssumption ==
    /\ Heads \subseteq [nonce : [Addr -> Nat], balance : [Addr -> Nat]]
    /\ Genesis \in Heads

ASSUME TxAssumption ==
    Tx \subseteq [from : Addr, nonce : Nat, price : Nat, cost : Nat, slots : Nat \ {0}]

VARIABLES
    pool,          \* [all, pending, queue, nonces, owner, changes]
    state,         \* currentState: [nonce, balance] of every account
    gasTip,
    inflight,      \* passed ValidateTxBasics, waiting for pool.mu
    dirty          \* accounts whose promotion is requested and has not run

vars == <<pool, state, gasTip, inflight, dirty>>

Owners == {"free", "legacy", "other"}
Pool == [all : SUBSET Tx, pending : SUBSET Tx, queue : SUBSET Tx,
         nonces : [Addr -> Nat], owner : [Addr -> Owners], changes : Nat]

\* The sequences that list a set.
Orders(S) == Bijection(1..Cardinality(S), S)
-------------------------------------------------------------------------------
(* list and SortedMap *)

Of(S, a) == {t \in S : t.from = a}
Nonces(S, a) == {t.nonce : t \in Of(S, a)}
SameSlot(t, u) == t.from = u.from /\ t.nonce = u.nonce
Cost(S) == MapThenSumSet(LAMBDA t : t.cost, S)
Slots(S) == MapThenSumSet(LAMBDA t : t.slots, S)

\* The rule of list.Add: a transaction takes an occupied nonce only when it
\* pays more, by at least the price bump.
Replaces(tx, old) ==
    /\ tx.price > old.price
    /\ 100 * tx.price >= (100 + PriceBump) * old.price

Forward(S, n) == {t \in S : t.nonce >= n}
Payable(S, balance) == {t \in S : t.cost <= balance}
CapTo(S, k) == {t \in S : Cardinality({u \in S : u.nonce < t.nonce}) < k}

\* list.Ready: nothing when the first nonce is beyond start, else the run of
\* consecutive nonces from the first one on.
Ready(S, start) ==
    {t \in S : /\ \E u \in S : u.nonce <= start
               /\ \A n \in Min({u.nonce : u \in S})..t.nonce : \E u \in S : u.nonce = n}

Tracked(p, a) == Of(p.pending, a) # {} \/ Of(p.queue, a) # {}

\* Release, for those of the accounts A that the pool no longer tracks.
Relinquish(p, A) ==
    [p EXCEPT !.owner = [a \in Addr |-> IF a \in A /\ ~Tracked(p, a)
                                        THEN "free" ELSE p.owner[a]]]
-------------------------------------------------------------------------------

(* enqueueTx, for a set of transactions of distinct nonces.  The ones whose  *)
(* nonce is taken by a better one are not inserted.                          *)
enqueueTx(p, T, addAll) ==
    LET won  == {t \in T : \A o \in p.queue : SameSlot(o, t) => Replaces(t, o)}
        olds == {o \in p.queue : \E t \in won : SameSlot(o, t)}
    IN  [p EXCEPT !.queue = (@ \ olds) \cup won,
                  !.all   = (@ \ olds) \cup (IF addAll THEN won ELSE {})]

\* Mutant: the transactions behind the removed one stay pending.
Invalidated_None(p, D) == {}

\* What follows a removed pending transaction of the same account, and is
\* postponed with it.
Invalidated(p, D) ==
    {t \in p.pending \ D : \E d \in D \cap p.pending : d.from = t.from /\ d.nonce < t.nonce}

LoweredNonces(p, D) ==
    [a \in Addr |-> Min({p.nonces[a]} \cup Nonces(D \cap p.pending, a))]

\* removeTx, for every transaction of D in any order.  The accounts of
\* `kept' are those it is called for with unreserve = false.
removeTx(p, D, kept) ==
    LET removed == [p EXCEPT !.all     = @ \ D,
                             !.pending = @ \ (D \cup Invalidated(p, D)),
                             !.queue   = @ \ D,
                             !.nonces  = LoweredNonces(p, D)]
    IN  Relinquish(enqueueTx(removed, Invalidated(p, D), FALSE), {d.from : d \in D} \ kept)
-------------------------------------------------------------------------------
(* add *)

validateTx(p, s, tx) ==
    LET mine  == Of(p.pending, tx.from)
        prev  == {t \in mine : t.nonce = tx.nonce}
    IN  /\ s.nonce[tx.from] <= tx.nonce
        /\ tx.cost <= s.balance[tx.from]
        /\ Cost(mine) - Cost(prev) + tx.cost <= s.balance[tx.from]

Full(p, tx) == Slots(p.all) + tx.slots > GlobalSlots + GlobalQueue

Underpriced(p, tx) == p.all # {} /\ \A t \in p.all : tx.price <= t.price

isGapped(p, tx) ==
    \E n \in p.nonces[tx.from]..(tx.nonce - 1) : n \notin Nonces(p.queue, tx.from)

\* priced.Discard: transactions are taken until there is room, so none of
\* them could have been spared.
Discards(p, tx) ==
    LET excess == Slots(p.all) - (GlobalSlots + GlobalQueue) + tx.slots
    IN  {D \in SUBSET p.all : /\ Slots(D) >= excess
                              /\ \E d \in D : Slots(D \ {d}) < excess}

\* The sets of victims add may choose from; there is none when it gives up.
Victims(p, tx) ==
    IF ~Full(p, tx) THEN {{}}
    ELSE IF Underpriced(p, tx) \/ p.changes > GlobalSlots \div 4 THEN {}
    ELSE Discards(p, tx)

\* A future transaction never churns pending ones.
Churns(p, tx, D) == isGapped(p, tx) /\ D \cap p.pending # {}

\* Mutant: the drops release the account of tx with its last transaction.
KeptReserved_None(tx) == {}
\* Reservation of the account before anything is changed (Hold), and the
\* drops, which never release the account of tx itself.
KeptReserved(tx) == {tx.from}
MakeRoom(p, tx, D) ==
    LET held    == [p EXCEPT !.owner[tx.from] = "legacy"]
        dropped == D \cap p.pending
        cleared == removeTx(held, D, KeptReserved(tx))
    IN  [cleared EXCEPT !.changes = @ + Cardinality(dropped \cup Invalidated(p, D))]

\* The insertion itself: over a pending transaction of the same nonce, or
\* into the queue.
Insert(p, tx) ==
    LET pend == {o \in p.pending : SameSlot(o, tx)}
        old  == pend \cup {o \in p.queue : SameSlot(o, tx)}
    IN  IF \E o \in (IF pend # {} THEN pend ELSE old) : ~Replaces(tx, o)
        THEN [pool |-> p, ok |-> FALSE, replaced |-> FALSE]
        ELSE [pool |-> IF pend # {}
                       THEN [p EXCEPT !.pending = (@ \ pend) \cup {tx},
                                      !.all     = (@ \ pend) \cup {tx}]
                       ELSE enqueueTx(p, {tx}, TRUE),
              ok |-> TRUE, replaced |-> old # {}]

\* All outcomes of add.  A rejected transaction gives its reservation back.
Rejected(p) == [pool |-> p, ok |-> FALSE, replaced |-> FALSE]
Admitted(p, tx, D) ==
    LET r == Insert(MakeRoom(p, tx, D), tx)
    IN  IF r.ok THEN r ELSE [r EXCEPT !.pool = Relinquish(@, {tx.from})]
add(p, s, tx) ==
    IF \/ tx \in p.all \/ ~validateTx(p, s, tx)
       \/ ~Tracked(p, tx.from) /\ p.owner[tx.from] = "other"
       \/ Victims(p, tx) = {}
    THEN {Rejected(p)}
    ELSE {IF Churns(p, tx, D) THEN Rejected(p) ELSE Admitted(p, tx, D)
              : D \in Victims(p, tx)}
-------------------------------------------------------------------------------
(* runReorg *)

Live(p, s, a) == Payable(Forward(Of(p.queue, a), s.nonce[a]), s.balance[a])
Readies(p, s, a) == Ready(Live(p, s, a), p.nonces[a])
Promoted(p, s, a) ==
    {t \in Readies(p, s, a) : \A o \in p.pending : SameSlot(o, t) => Replaces(t, o)}

promoteExecutables(p, s, A) ==
    LET owners == {a \in A : Of(p.queue, a) # {}}
        wins   == UNION {Promoted(p, s, a) : a \in owners}
        rest   == UNION {CapTo(Live(p, s, a) \ Readies(p, s, a), AccountQueue) : a \in owners}
        seen   == UNION {Of(p.queue, a) : a \in owners}
        olds   == {o \in p.pending : \E t \in wins : SameSlot(o, t)}
    IN  Relinquish(
          [p EXCEPT !.pending = (@ \ olds) \cup wins,
                    !.queue   = (@ \ seen) \cup rest,
                    !.all     = @ \ (olds \cup (seen \ (wins \cup rest))),
                    !.nonces  = [a \in Addr |-> IF Nonces(wins, a) = {} THEN p.nonces[a]
                                                ELSE Max(Nonces(wins, a)) + 1]],
          owners)

\* The part of an account's pending list that stays executable: what follows
\* an unpayable transaction goes, and all of it does when the account's next
\* nonce is missing.
Executable(p, s, a) ==
    LET live == Forward(Of(p.pending, a), s.nonce[a])
        kept == {t \in Payable(live, s.balance[a]) :
                   \A d \in live : d.nonce < t.nonce => d.cost <= s.balance[a]}
    IN  IF s.nonce[a] \in Nonces(kept, a) THEN kept ELSE {}

demoteUnexecutables(p, s) ==
    LET kept    == UNION {Executable(p, s, a) : a \in Addr}
        demoted == {t \in p.pending \ kept : /\ t.nonce >= s.nonce[t.from]
                                             /\ t.cost <= s.balance[t.from]}
        settled == [p EXCEPT !.pending = kept,
                             !.all     = @ \ (p.pending \ (kept \cup demoted))]
    IN  Relinquish(enqueueTx(settled, demoted, FALSE), {t.from : t \in p.pending})

NextNonce(p, s, a) ==
    IF Of(p.pending, a) = {} THEN s.nonce[a] ELSE Max(Nonces(p.pending, a)) + 1
setAll(p, s) == [p EXCEPT !.nonces = [a \in Addr |-> NextNonce(p, s, a)]]

truncatePending(p) ==
    LET len == [a \in Addr |-> Cardinality(Of(p.pending, a))]
        cut == UNION {Of(p.pending, a) \ CapTo(Of(p.pending, a), CutLen(len, Level(len), a))
                        : a \in Addr}
    IN  [p EXCEPT !.pending = @ \ cut, !.all = @ \ cut, !.nonces = LoweredNonces(p, cut)]

\* truncateQueue goes through the accounts in some order (of their
\* heartbeats) and drops their last transactions until enough are gone.
Overflow(p) == Cardinality(p.queue) - GlobalQueue
LastDropped(p, order) ==
    {t \in p.queue :
        LET i == CHOOSE k \in DOMAIN order : order[k] = t.from
            earlier == {u \in p.queue : \/ \E j \in 1..(i - 1) : u.from = order[j]
                                        \/ u.from = t.from /\ u.nonce > t.nonce}
        IN  Cardinality(earlier) < Overflow(p)}
truncateQueue(p) ==
    {removeTx(p, LastDropped(p, order), {}) : order \in Orders({t.from : t \in p.queue})}

runReorg(p, s, A, resetting) ==
    LET promoted == promoteExecutables(p, s, A)
        settled  == IF resetting THEN setAll(demoteUnexecutables(promoted, s), s)
                                 ELSE promoted
    IN  {[q EXCEPT !.changes = 0] : q \in truncateQueue(truncatePending(settled))}

Queued(p) == {t.from : t \in p.queue}
-------------------------------------------------------------------------------
Init ==
    /\ state = Genesis
    /\ pool = [all |-> {}, pending |-> {}, queue |-> {}, nonces |-> state.nonce,
               owner |-> [a \in Addr |-> "free"], changes |-> 0]
    /\ gasTip = Min(Tips)
    /\ inflight = {} /\ dirty = {}

\* Add, up to the lock: the transaction is new and its tip high enough.
ValidateTxBasics(tx) ==
    /\ Cardinality(inflight) < MaxInflight
    /\ tx \notin pool.all /\ tx \notin inflight
    /\ tx.price >= gasTip
    /\ inflight' = inflight \cup {tx}
    /\ UNCHANGED <<pool, state, gasTip, dirty>>

\* Add, under the lock, and the promotion it then requests.
Add(tx) ==
    /\ tx \in inflight
    /\ inflight' = inflight \ {tx}
    /\ \E r \in add(pool, state, tx) :
         /\ pool' = r.pool
         /\ dirty' = dirty \cup (IF r.ok /\ ~r.replaced THEN {tx.from} ELSE {})
    /\ UNCHANGED <<state, gasTip>>

\* A run of the reorg goroutine for promotion requests only.
Promote(d) ==
    /\ pool' \in runReorg(pool, state, d, FALSE)
    /\ dirty' = dirty \ d
    /\ UNCHANGED <<state, gasTip, inflight>>

\* What reset gives back: transactions of the abandoned blocks, for nonces
\* that the new head has not used.
Lost(s) ==
    {R \in UNION {kSubset(k, {t \in Tx : t.nonce \in s.nonce[t.from]..(state.nonce[t.from] - 1)})
                    : k \in 0..MaxReinject} :
        \A t, u \in R : SameSlot(t, u) => t = u}

Reinject(p, s, txs) ==
    LET after[i \in 0..Len(txs)] ==
            IF i = 0 THEN {p}
            ELSE UNION {{r.pool : r \in add(q, s, txs[i])} : q \in after[i - 1]}
    IN  after[Len(txs)]

\* A run that resets to a new head and reinjects the transactions R; the
\* promotion requests of the accounts d are merged into it.
Reset(s, R, d) ==
    /\ state' = s
    /\ \E txs \in Orders(R) :
         \E p \in Reinject([pool EXCEPT !.nonces = s.nonce], s, txs) :
           pool' \in runReorg(p, s, Queued(p), TRUE)
    /\ dirty' = dirty \ d
    /\ UNCHANGED <<gasTip, inflight>>

\* A run whose reset returns early (a block or the state is missing): the old
\* state stays, everything else is done.
ResetSkipped(d) ==
    /\ pool' \in runReorg(pool, state, Queued(pool), TRUE)
    /\ dirty' = dirty \ d
    /\ UNCHANGED <<state, gasTip, inflight>>

SetGasTip(tip) ==
    /\ tip # gasTip
    /\ gasTip' = tip
    /\ pool' = IF tip > gasTip THEN removeTx(pool, {t \in pool.all : t.price < tip}, {})
                               ELSE pool
    /\ UNCHANGED <<state, inflight, dirty>>

\* The eviction tick of loop, for the accounts A found inactive.
Evict(A) ==
    /\ A \subseteq Queued(pool) /\ A # {}
    /\ pool' = removeTx(pool, {t \in pool.queue : t.from \in A}, {})
    /\ UNCHANGED <<state, gasTip, inflight, dirty>>

Clear ==
    /\ pool.all # {}
    /\ pool' = [pool EXCEPT !.all = {}, !.pending = {}, !.queue = {}, !.nonces = state.nonce,
                            !.owner = [a \in Addr |-> IF Tracked(pool, a) THEN "free" ELSE @[a]]]
    /\ UNCHANGED <<state, gasTip, inflight, dirty>>

\* Another subpool takes an account nobody holds, and gives it back.
OtherHold(a) ==
    /\ pool.owner[a] = "free"
    /\ pool' = [pool EXCEPT !.owner[a] = "other"]
    /\ UNCHANGED <<state, gasTip, inflight, dirty>>
OtherRelease(a) ==
    /\ pool.owner[a] = "other"
    /\ pool' = [pool EXCEPT !.owner[a] = "free"]
    /\ UNCHANGED <<state, gasTip, inflight, dirty>>

Local ==
    \/ \E tx \in Tx : ValidateTxBasics(tx) \/ Add(tx)
    \/ \E d \in SUBSET dirty : Promote(d) \/ ResetSkipped(d)
    \/ \E tip \in Tips : SetGasTip(tip)
    \/ \E A \in SUBSET Addr : Evict(A)
    \/ Clear
    \/ \E a \in Addr : OtherHold(a) \/ OtherRelease(a)

Next == Local \/ \E s \in Heads, d \in SUBSET dirty : \E R \in Lost(s) : Reset(s, R, d)

Spec == Init /\ [][Next]_vars

\* The pool of a chain on which no abandoned transaction comes back: heads
\* extend the previous one, or are too far from it for a reinjection.
PlainNext == Local \/ \E s \in Heads, d \in SUBSET dirty : Reset(s, {}, d)
PlainSpec == Init /\ [][PlainNext]_vars
-------------------------------------------------------------------------------
\* Every field has its type; the virtual nonces and the counter stay natural.
TypeOK ==
    /\ pool \in Pool
    /\ state \in Heads /\ gasTip \in Tips
    /\ inflight \subseteq Tx /\ dirty \subseteq Addr

\* The lookup, the pending lists and the queue agree: a known transaction is
\* in exactly one list, and an account's nonce is taken at most once in both.
\* removeTx finds a transaction in its lists by nonce alone and relies on it.
ListsAgree ==
    /\ pool.all = pool.pending \cup pool.queue
    /\ \A t, u \in pool.all : SameSlot(t, u) => t = u
    /\ pool.pending \cap pool.queue = {}

\* Whatever a reorg gives back or takes away, the front of an account's
\* pending list is executable: nothing is below the state's nonce, that nonce
\* is there, and the account can pay each transaction.
FrontExecutable ==
    \A t \in pool.pending : /\ t.nonce >= state.nonce[t.from]
                            /\ state.nonce[t.from] \in Nonces(pool.pending, t.from)
                            /\ t.cost <= state.balance[t.from]

\* What the pool offers as executable is: an account's pending transactions
\* take consecutive nonces from the state's nonce up to the pool's virtual
\* nonce, and the account can pay each of them.
PendingExecutable ==
    /\ \A a \in Addr : Nonces(pool.pending, a) = state.nonce[a]..(pool.nonces[a] - 1)
    /\ \A t \in pool.pending : t.cost <= state.balance[t.from]

\* Only transactions of an abandoned block that come back leave holes in a
\* pending list: every step, a reset included, that takes nothing into the
\* pool but what Add brings keeps the pending lists executable.
OnlyReinjectionLeavesGaps ==
    [][PendingExecutable /\ pool'.all \ pool.all \subseteq inflight \ inflight'
          => PendingExecutable']_vars

\* The pool holds the reservation of exactly the accounts it tracks, whatever
\* path the last transaction of an account left by.
ReservedExactly ==
    \A a \in Addr : pool.owner[a] = "legacy" <=> Tracked(pool, a)

\* The lookup, the lists and the reservations of the pool agree with each
\* other, and the front of the pending lists with the state.
ContentsAgree == ListsAgree /\ ReservedExactly /\ FrontExecutable

\* The slots in use never exceed the configured total.
SlotsBounded == Slots(pool.all) <= GlobalSlots + GlobalQueue

\* The executable transactions exceed GlobalSlots only while no account has
\* more than the AccountSlots it is guaranteed.
PendingBounded ==
    \/ Cardinality(pool.pending) <= GlobalSlots
    \/ \A a \in Addr : Cardinality(Of(pool.pending, a)) <= AccountSlots

\* The configured limits hold after every operation.
LimitsHold == SlotsBounded /\ PendingBounded

\* A transaction that ends up in the queue as a future one has not cost the
\* pool an executable one (the rule of add for a full pool).
FutureNeverChurns ==
    [][\A tx \in inflight \ inflight' :
          tx \in pool'.queue /\ isGapped(pool', tx) => pool.pending \subseteq pool'.all]_vars
===============================================================================
