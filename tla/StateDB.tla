-------------------------------- MODULE StateDB -------------------------------
(***************************************************************************)
(* core/state: the state a block's transactions work on.  Live objects are *)
(* loaded from the database on first use, every change is journalled with  *)
(* what it replaced, snapshots are positions in the journal.  At the end   *)
(* of a transaction the changes move into a pending area, and Commit       *)
(* writes the block's changes along two paths: into the tries, from        *)
(* uncommittedStorage, and into the flat state, from pendingStorage.       *)
(*                                                                         *)
(* `s' is the StateDB with its journal and the database under it; the      *)
(* operations are functions on it, and an action is one call.  An account  *)
(* has one storage slot, and a map from the slot is its value or Nil.      *)
(* Code is a number, 0 the empty one; hash is the code hash in the         *)
(* account, code the bytes once they are loaded.                           *)
(***************************************************************************)
EXTENDS Integers, FiniteSets, Sequences, SequencesExt

CONSTANTS
    Addr, Ripemd,
    Disk,               \* the database at the start: an account or Nil
    Scratched,          \* addresses whose transient storage and access list entries vary
    Warm,               \* what a transaction's Prepare puts into the access list
    Nil,
    MaxBalance, MaxNonce, MaxCalls, MaxTx, MaxRevisions   \* bounds

VARIABLES
    s, revisions, txs,
    saved,      \* history: what the reader saw when each revision was made
    calls

vars == <<s, revisions, txs, saved, calls>>

NewAccount == [nonce |-> 0, balance |-> 0, hash |-> 0, root |-> 0]

newObject(acct) ==
    [data |-> IF acct = Nil THEN NewAccount ELSE acct, code |-> 0,
     origin |-> Nil, dirty |-> Nil, pending |-> Nil, uncommitted |-> Nil,
     selfDestructed |-> FALSE, newContract |-> FALSE]

Empty(o) == o.data.nonce = 0 /\ o.data.balance = 0 /\ o.data.hash = 0

\* A StateDB on the given database; flat is the storage outside the tries.
New(trie, flat) ==
    [objects |-> [a \in Addr |-> Nil], destruct |-> {}, mutations |-> [a \in Addr |-> Nil],
     trie |-> trie, disk |-> trie, flat |-> flat,
     refund |-> 0, logs |-> <<>>, transient |-> [a \in Addr |-> 0],
     addresses |-> [a \in Addr |-> Nil], slots |-> <<>>,
     entries |-> <<>>, dirties |-> [a \in Addr |-> 0]]

Store(t, a, o) == [t EXCEPT !.objects[a] = o]

\* getStateObject: a live object, nothing if it was destructed in this block,
\* else what the database has.
Object(t, a) ==
    IF t.objects[a] # Nil THEN t.objects[a]
    ELSE IF a \in t.destruct \/ t.disk[a] = Nil THEN Nil ELSE newObject(t.disk[a])
-------------------------------------------------------------------------------
(* The journal. *)

Dirtied == {"create", "destruct", "touch", "balance", "nonce", "code", "storage"}

append(t, e) ==
    [t EXCEPT !.entries = Append(@, e),
              !.dirties = IF e.type \in Dirtied THEN [@ EXCEPT ![e.addr] = @ + 1] ELSE @]

setState(o, value, origin) == [o EXCEPT !.dirty = IF value = origin THEN Nil ELSE value]

DeleteSlot(t, a) == [t EXCEPT !.slots = SubSeq(@, 1, t.addresses[a] - 1), !.addresses[a] = -1]

\* revert of one entry.
Undo(t, e) ==
    LET o == Object(t, e.addr) IN
    CASE e.type = "create" -> Store(t, e.addr, Nil)
      [] e.type = "contract" -> Store(t, e.addr, [o EXCEPT !.newContract = FALSE])
      [] e.type = "destruct" -> IF o = Nil THEN t ELSE Store(t, e.addr, [o EXCEPT !.selfDestructed = FALSE])
      [] e.type = "balance" -> Store(t, e.addr, [o EXCEPT !.data.balance = e.prev])
      [] e.type = "nonce" -> Store(t, e.addr, [o EXCEPT !.data.nonce = e.prev])
      [] e.type = "code" -> Store(t, e.addr, [o EXCEPT !.data.hash = e.prev, !.code = e.prev])
      [] e.type = "storage" -> Store(t, e.addr, setState(o, e.prev, e.origin))
      [] e.type = "transient" -> [t EXCEPT !.transient[e.addr] = e.prev]
      [] e.type = "refund" -> [t EXCEPT !.refund = e.prev]
      [] e.type = "log" -> [t EXCEPT !.logs[Len(t.logs)] = @ - 1]
      [] e.type = "address" -> [t EXCEPT !.addresses[e.addr] = Nil]
      [] e.type = "slot" -> DeleteSlot(t, e.addr)
      [] e.type = "touch" -> t

\* One turn of revert: the last entry is undone and dropped.
\* Mutant: the dirty counter is left alone.
RevertLast_Dirty(t) == [Undo(t, Last(t.entries)) EXCEPT !.entries = Front(@)]
RevertLast(t) ==
    LET e == Last(t.entries)
        u == Undo(t, e)
    IN  [u EXCEPT !.entries = Front(@),
                  !.dirties = IF e.type \in Dirtied THEN [@ EXCEPT ![e.addr] = @ - 1] ELSE @]

RevertTo(t, index) ==
    FoldLeft(LAMBDA u, i : RevertLast(u), t, [i \in 1 .. Len(t.entries) - index |-> i])
-------------------------------------------------------------------------------
(* The operations of StateDB and stateObject. *)

createObject(t, a) == Store(append(t, [type |-> "create", addr |-> a]), a, newObject(Nil))

getOrNew(t, a) ==
    IF Object(t, a) = Nil THEN createObject(t, a) ELSE Store(t, a, Object(t, a))

touch(t, a) ==
    LET u == append(t, [type |-> "touch", addr |-> a]) IN
    IF a = Ripemd THEN [u EXCEPT !.dirties[a] = @ + 1] ELSE u

SetBalance(t, a, v) ==
    LET o == t.objects[a] IN
    Store(append(t, [type |-> "balance", addr |-> a, prev |-> o.data.balance]), a,
          [o EXCEPT !.data.balance = v])

AddBalance(t, a, v) ==
    LET u == getOrNew(t, a)
        o == u.objects[a]
    IN  IF v # 0 THEN SetBalance(u, a, o.data.balance + v)
        ELSE IF Empty(o) THEN touch(u, a) ELSE u

SubBalance(t, a, v) ==
    LET u == getOrNew(t, a) IN SetBalance(u, a, u.objects[a].data.balance - v)

SetNonce(t, a, n) ==
    LET u == getOrNew(t, a)
        o == u.objects[a]
    IN  Store(append(u, [type |-> "nonce", addr |-> a, prev |-> o.data.nonce]), a,
              [o EXCEPT !.data.nonce = n])

\* stateObject.Code: the bytes are fetched by hash and kept.
LoadCode(o) == IF o.code # 0 THEN o ELSE [o EXCEPT !.code = o.data.hash]

SetCode(t, a, c) ==
    LET u == getOrNew(t, a)
        o == u.objects[a]
    IN  Store(append(u, [type |-> "code", addr |-> a, prev |-> o.code]), a,
              [o EXCEPT !.data.hash = c, !.code = c])

FromDatabase(t, a) == IF a \in t.destruct THEN 0 ELSE t.flat[a]

\* GetCommittedState, without and with the value it caches.
CommittedValue(t, a, o) ==
    IF o.pending # Nil THEN o.pending
    ELSE IF o.origin # Nil THEN o.origin ELSE FromDatabase(t, a)

Cached(t, a, o) ==
    IF o.pending = Nil /\ o.origin = Nil THEN [o EXCEPT !.origin = FromDatabase(t, a)] ELSE o

Value(t, a, o) == IF o.dirty # Nil THEN o.dirty ELSE CommittedValue(t, a, o)

SetState(t, a, v) ==
    LET u == getOrNew(t, a)
        o == Cached(u, a, u.objects[a])
        prev == Value(u, a, o)
        origin == CommittedValue(u, a, o)
    IN  IF prev = v THEN Store(u, a, o)
        ELSE Store(append(u, [type |-> "storage", addr |-> a, prev |-> prev, origin |-> origin]), a,
                   setState(o, v, origin))

SelfDestruct(t, a) ==
    LET o == Object(t, a)
        u == IF o.data.balance # 0 THEN SetBalance(Store(t, a, o), a, 0) ELSE Store(t, a, o)
    IN  IF o.selfDestructed THEN u
        ELSE Store(append(u, [type |-> "destruct", addr |-> a]), a,
                   [u.objects[a] EXCEPT !.selfDestructed = TRUE])

CreateContract(t, a) ==
    LET o == Object(t, a) IN
    IF o.newContract THEN Store(t, a, o)
    ELSE append(Store(t, a, [o EXCEPT !.newContract = TRUE]), [type |-> "contract", addr |-> a])

AddAddress(t, a) ==
    IF t.addresses[a] # Nil THEN t
    ELSE append([t EXCEPT !.addresses[a] = -1], [type |-> "address", addr |-> a])

AddSlot(t, a) ==
    LET u == AddAddress(t, a) IN
    IF u.addresses[a] # -1 THEN u
    ELSE append([u EXCEPT !.addresses[a] = Len(u.slots) + 1, !.slots = Append(@, a)],
                [type |-> "slot", addr |-> a])
-------------------------------------------------------------------------------
(* The end of a transaction and of a block. *)

Unmarked(o, committed) ==
    IF o.uncommitted = Nil THEN committed
    ELSE IF o.uncommitted = o.dirty THEN Nil ELSE o.uncommitted

\* stateObject.finalise.
finalise(t, a, o) ==
    IF o.dirty = Nil THEN [o EXCEPT !.newContract = FALSE]
    ELSE [Cached(t, a, o) EXCEPT
            !.uncommitted = Unmarked(o, CommittedValue(t, a, o)),
            !.pending = o.dirty, !.dirty = Nil, !.newContract = FALSE]

Finalise(t) ==
    LET dirty == {a \in Addr : t.dirties[a] > 0 /\ t.objects[a] # Nil}
        dead == {a \in dirty : t.objects[a].selfDestructed \/ Empty(t.objects[a])}
    IN  [t EXCEPT
           !.objects = [a \in Addr |-> IF a \in dead THEN Nil
                                       ELSE IF a \in dirty THEN finalise(t, a, t.objects[a])
                                       ELSE t.objects[a]],
           !.destruct = @ \cup dead,
           !.mutations = [a \in Addr |-> IF a \in dead THEN [type |-> "delete", applied |-> FALSE]
                                         ELSE IF a \in dirty THEN [type |-> "update", applied |-> FALSE]
                                         ELSE t.mutations[a]],
           !.entries = <<>>, !.dirties = [a \in Addr |-> 0], !.refund = 0]

\* updateTrie and updateRoot: the storage trie takes the marked slot.
updateRoot(o) ==
    IF o.uncommitted = Nil THEN o
    ELSE [o EXCEPT !.data.root = IF o.pending = o.uncommitted THEN @ ELSE o.pending,
                   !.uncommitted = Nil]

IntermediateRoot(t) ==
    LET u == Finalise(t)
        open == {a \in Addr : u.mutations[a] # Nil /\ ~u.mutations[a].applied}
        updated == {a \in open : u.mutations[a].type = "update"}
        objects == [a \in Addr |-> IF a \in updated THEN updateRoot(u.objects[a]) ELSE u.objects[a]]
    IN  [u EXCEPT
           !.objects = objects,
           !.mutations = [a \in Addr |-> IF a \in open THEN [u.mutations[a] EXCEPT !.applied = TRUE]
                                         ELSE u.mutations[a]],
           !.trie = [a \in Addr |-> IF a \in updated THEN objects[a].data
                                    ELSE IF a \in open THEN Nil ELSE u.trie[a]]]

\* Mutant: a destructed account keeps its storage when it is written anew.
Wiped_Deleted(t) == {a \in t.destruct : t.disk[a] # Nil /\ t.objects[a] = Nil}
\* handleDestruction: the storage of what existed before the block is removed.
Wiped(t) == {a \in t.destruct : t.disk[a] # Nil}

\* commit: deletions first, then the changes of the live objects.
Flat(t) ==
    [a \in Addr |->
       LET old == IF a \in Wiped(t) THEN 0 ELSE t.flat[a]
           o == t.objects[a]
       IN  IF t.mutations[a] = Nil \/ t.mutations[a].type = "delete" THEN old
           ELSE IF o.pending = Nil \/ o.pending = (IF o.origin = Nil THEN 0 ELSE o.origin) THEN old
           ELSE o.pending]

Commit(t) == LET u == IntermediateRoot(t) IN [New(u.trie, Flat(u)) EXCEPT !.logs = <<>>]

\* SetTxContext and Prepare: a new list of logs, access list and transient storage.
Prepare(t, warm) ==
    [t EXCEPT !.logs = Append(@, 0), !.transient = [a \in Addr |-> 0], !.slots = <<>>,
              !.addresses = [a \in Addr |-> IF a \in warm THEN -1 ELSE Nil]]
-------------------------------------------------------------------------------
Init ==
    /\ s \in {Prepare(New(Disk, [a \in Addr |-> IF Disk[a] = Nil THEN 0 ELSE Disk[a].root]), w) : w \in Warm}
    /\ revisions = <<>> /\ txs = 1 /\ saved = <<>> /\ calls = 0

Called == calls < MaxCalls /\ calls' = calls + 1

Do(t) ==
    /\ Called /\ s' = t
    /\ UNCHANGED <<revisions, txs, saved>>

\* The account as a reader sees it.
Seen(t, a) ==
    LET o == Object(t, a) IN
    IF o = Nil THEN Nil
    ELSE [nonce |-> o.data.nonce, balance |-> o.data.balance, code |-> LoadCode(o).code,
          storage |-> Value(t, a, o), destructed |-> o.selfDestructed, created |-> o.newContract]

Scratch(t) ==
    <<t.refund, Last(t.logs), t.transient, [a \in Addr |-> <<t.addresses[a] # Nil, a \in ToSet(t.slots)>>]>>

\* What the EVM sees and what Finalise will look at; the touch of the RIPEMD
\* precompile outlives a revert on purpose.
AccountsOf(t) == [a \in Addr |-> Seen(t, a)]
TouchedIn(t) == {a \in Addr \ {Ripemd} : t.dirties[a] > 0}

Version == [accounts |-> AccountsOf(s), scratch |-> Scratch(s), touched |-> TouchedIn(s)]
-------------------------------------------------------------------------------
(* The calls. *)

CallAddBalance(a) == \E v \in {0, 1} :
    /\ Object(s, a) # Nil => Object(s, a).data.balance + v <= MaxBalance
    /\ Do(AddBalance(s, a, v))

\* A transfer is checked against the balance first.
CallSubBalance(a) ==
    /\ Object(s, a) # Nil /\ Object(s, a).data.balance > 0
    /\ Do(SubBalance(s, a, 1))

CallSetNonce(a) ==
    /\ Object(s, a) # Nil => Object(s, a).data.nonce < MaxNonce
    /\ Do(SetNonce(s, a, IF Object(s, a) = Nil THEN 1 ELSE Object(s, a).data.nonce + 1))

\* The callers set the code of an account without code, or look at the code first.
CallSetCode(a) == \E c \in {0, 1} :
    /\ Object(s, a) # Nil
    /\ Object(s, a).data.hash = 0 \/ Object(s, a).code # 0
    /\ Do(SetCode(s, a, c))

CallGetCode(a) ==
    /\ Object(s, a) # Nil
    /\ Do(Store(s, a, LoadCode(Object(s, a))))

CallSetState(a) == \E v \in {0, 1} : Object(s, a) # Nil /\ Do(SetState(s, a, v))

CallSelfDestruct(a) ==
    /\ Object(s, a) # Nil
    /\ Do(SelfDestruct(s, a))

\* evm.create: the address must be free; then account, contract, nonce.
CallCreate(a) ==
    /\ Object(s, a) # Nil => Object(s, a).data.nonce = 0 /\ Object(s, a).data.hash = 0
                               /\ Object(s, a).data.root = 0
    /\ LET t == IF Object(s, a) = Nil THEN createObject(s, a) ELSE s IN
       Do(SetNonce(CreateContract(t, a), a, 1))

CallSetTransient(a) == \E v \in {0, 1} :
    /\ s.transient[a] # v
    /\ Do([append(s, [type |-> "transient", addr |-> a, prev |-> s.transient[a]])
             EXCEPT !.transient[a] = v])

CallRefund ==
    \E v \in {0, 1} \ {s.refund} : Do([append(s, [type |-> "refund", prev |-> s.refund]) EXCEPT !.refund = v])

CallAddLog == Do([append(s, [type |-> "log"]) EXCEPT !.logs[Len(s.logs)] = @ + 1])

CallAddAddress(a) == Do(AddAddress(s, a))

CallAddSlot(a) == Do(AddSlot(s, a))

\* journal.snapshot.  The id of a revision is its place in the list.
Snapshot ==
    /\ Len(revisions) < MaxRevisions
    /\ Called
    /\ revisions' = Append(revisions, Len(s.entries))
    /\ saved' = Append(saved, Version)
    /\ UNCHANGED <<s, txs>>

Revisions(i) == SubSeq(revisions, 1, i - 1)

RevertToSnapshot(i) ==
    /\ s' = RevertTo(s, revisions[i])
    /\ revisions' = Revisions(i)
    /\ saved' = SubSeq(saved, 1, Len(revisions'))
    /\ UNCHANGED <<txs, calls>>

\* A transaction ends, with a root in its receipt or without, and another starts.
NextTx == \E root \in BOOLEAN, w \in Warm :
    /\ txs < MaxTx /\ txs' = txs + 1
    /\ s' = Prepare(IF root THEN IntermediateRoot(s) ELSE Finalise(s), w)
    /\ revisions' = <<>> /\ saved' = <<>> /\ UNCHANGED calls

\* The block is written and the next one starts on what was written.
NextBlock == \E w \in Warm :
    /\ txs < MaxTx /\ txs' = txs + 1
    /\ s' = Prepare(Commit(s), w)
    /\ revisions' = <<>> /\ saved' = <<>> /\ UNCHANGED calls

Next ==
    \/ \E a \in Addr :
         \/ CallAddBalance(a) \/ CallSubBalance(a) \/ CallSetNonce(a) \/ CallSetCode(a)
         \/ CallGetCode(a) \/ CallSetState(a) \/ CallSelfDestruct(a) \/ CallCreate(a)
    \/ \E a \in Scratched : CallSetTransient(a) \/ CallAddAddress(a) \/ CallAddSlot(a)
    \/ CallRefund \/ CallAddLog
    \/ Snapshot
    \/ \E i \in DOMAIN revisions : RevertToSnapshot(i)
    \/ NextTx \/ NextBlock

Spec == Init /\ [][Next]_vars
-------------------------------------------------------------------------------
(* Properties. *)

Stack == INSTANCE StateStack WITH
    Accounts <- Addr, Absent <- Nil,
    accounts <- AccountsOf(s), scratch <- Scratch(s), touched <- TouchedIn(s),
    stack <- saved

\* The journal implements a stack of saved versions: every operation leaves
\* what a revert would give as it was, a revert gives exactly that, and the
\* end of a transaction or block keeps every account that is neither
\* destructed nor touched and empty.
ImplementsStack == Stack!Spec

\* The two ways to the database agree: after a block is written, the flat
\* storage is what the storage tries hold.
DatabaseAgrees ==
    \A a \in Addr : s.flat[a] = IF s.disk[a] = Nil THEN 0 ELSE s.disk[a].root

\* Types, and that a revert never meets an entry it cannot undo: an account
\* with an entry other than its creation is there.
TypeOK ==
    /\ \A a \in Addr : s.objects[a] # Nil =>
         s.objects[a].data.balance \in 0 .. MaxBalance /\ s.objects[a].data.hash \in 0 .. 2
    /\ \A i \in DOMAIN s.entries :
         s.entries[i].type \in {"balance", "nonce", "code", "storage", "contract"}
           => s.objects[s.entries[i].addr] # Nil
    /\ \A i, j \in DOMAIN revisions : i <= j => revisions[i] <= revisions[j]
    /\ \A i \in DOMAIN revisions : revisions[i] <= Len(s.entries)
===============================================================================
