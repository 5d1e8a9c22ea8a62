------------------------------ MODULE BlockChain ------------------------------
(***************************************************************************)
(* The stored chain: core/blockchain.go and headerchain.go write blocks,   *)
(* canonical hashes and head markers into the key-value store,             *)
(* rawdb/chain_freezer.go moves old blocks into the freezer from a thread  *)
(* of its own, and NewDatabaseWithFreezer and NewBlockChain pick up what a *)
(* crash left.  The node is fully synced (no pivot) and path-based.        *)
(*                                                                         *)
(* A block is <<number, fork>>; fork 0 is the main one, the others leave   *)
(* it.  A block's header, body and receipts are written and deleted        *)
(* together.  The state store is reduced to the block of its disk layer,   *)
(* the block of what is persistent, and the blocks with a diff layer; all  *)
(* histories are kept, so every ancestor of the disk layer is recoverable. *)
(*                                                                         *)
(* A batch is atomic and not synced: a crash falls back to any store since *)
(* the last SyncKeyValue, and keeps of the freezer what SyncAncient        *)
(* covered.  A call that holds chainmu is the sequence of worlds (store    *)
(* and freezer) it passes through, and a crash may leave any one of them.  *)
(***************************************************************************)
EXTENDS Integers, Sequences, FiniteSets, SequencesExt

CONSTANTS
    MaxNumber,                  \* bound: the highest block
    ForkAt,                     \* ForkAt[f]: the first number of fork f
    FullImmutabilityThreshold,  \* blocks below the head that are not frozen
    freezerBatchLimit,          \* blocks that are frozen in one go
    maxDiffLayers,              \* diff layers above the disk layer
    MaxCrash, MaxRewind,        \* bounds: crashes, calls of SetHead
    TornReorg,                  \* whether a crash may separate a reorg from its new head
    Nil

VARIABLES
    world,    \* the store (and those a crash may fall back to), the freezer
    mem,      \* the process: head markers and state layers
    freezer,  \* the freezing thread
    fixed,    \* history: the last block that the network will not give up
    crossed,  \* history: a call has changed blocks while they were being frozen
    crashes, rewinds

bcvars == <<world, mem, freezer, fixed, crossed, crashes, rewinds>>

Genesis == <<0, 0>>
Num(b) == b[1]
On(f, n) == IF f # 0 /\ n < ForkAt[f] THEN <<n, 0>> ELSE <<n, f>>
Ancestor(b, n) == On(b[2], n)
Parent(b) == Ancestor(b, Num(b) - 1)
IsAncestor(a, b) == Num(a) <= Num(b) /\ Ancestor(b, Num(a)) = a
Block == {On(f, n) : f \in {0} \cup DOMAIN ForkAt, n \in 0 .. MaxNumber}

-------------------------------------------------------------------------------
(* The database. *)

FreshKV ==
    [blocks |-> {Genesis}, numbers |-> {Genesis},
     canon |-> [n \in 0 .. MaxNumber + 1 |-> IF n = 0 THEN Genesis ELSE Nil],
     headHeader |-> Genesis, headFast |-> Genesis, headBlock |-> Genesis,
     final |-> Nil, state |-> Genesis]

\* A call in flight: the memory and the worlds so far.
Call == [m |-> mem, ws |-> <<world>>]
World(s) == Last(s.ws)
KV(s) == World(s).kv
Put(s, kv) ==
    [s EXCEPT !.ws = Append(@, [Last(@) EXCEPT !.kv = kv, !.kvs = @ \cup {kv}])]
SyncKeyValue(s) == [s EXCEPT !.ws = Append(@, [Last(@) EXCEPT !.kvs = {KV(s)}])]

\* Reads ask the freezer first.
ReadCanonicalHash(w, n) == IF n < Len(w.ancients) THEN w.ancients[n + 1] ELSE w.kv.canon[n]
HasBlock(w, b) ==
    \/ Num(b) < Len(w.ancients) /\ w.ancients[Num(b) + 1] = b
    \/ b \in w.kv.blocks
ByHash(w, b) == b \in w.kv.numbers /\ HasBlock(w, b)

AllHashes(kv, n) == {b \in kv.blocks : Num(b) = n}
WriteBlock(kv, b) == [kv EXCEPT !.blocks = @ \cup {b}, !.numbers = @ \cup {b}]
DeleteBlocks(kv, bs) == [kv EXCEPT !.blocks = @ \ bs, !.numbers = @ \ bs]
DeleteCanonical(kv, ns) ==
    [kv EXCEPT !.canon = [n \in DOMAIN @ |-> IF n \in ns THEN Nil ELSE @[n]]]

HeadBatch(s, kv, b) ==
    Put(s, [kv EXCEPT !.headHeader = b, !.headFast = b, !.headBlock = b, !.canon[Num(b)] = b])

writeHeadBlock(s, kv, b) ==
    [HeadBatch(s, kv, b) EXCEPT !.m.header = b, !.m.snap = b, !.m.block = b]

-------------------------------------------------------------------------------
(* The state store, as far as the chain sees it. *)

HasState(m, b) == b = m.disk \/ b \in m.layers
stateRecoverable(m, b) == b # m.disk /\ IsAncestor(b, m.disk)

\* A new state: layers beyond the limit are merged into the disk layer, which
\* may or may not be flushed.
Committed(s, b, flush) ==
    LET d == Ancestor(b, Num(b) - maxDiffLayers)
        deep == Num(b) - Num(s.m.disk) > maxDiffLayers
        ls == s.m.layers \cup {b}
    IN  IF ~deep THEN [s EXCEPT !.m.layers = ls]
        ELSE [(IF flush THEN Put(s, [KV(s) EXCEPT !.state = d]) ELSE s)
              EXCEPT !.m.disk = d, !.m.layers = {x \in ls : x # d /\ IsAncestor(d, x)}]

\* triedb.Recover.
Recover(s, b) ==
    [SyncKeyValue(Put(s, [KV(s) EXCEPT !.state = IF IsAncestor(b, @) THEN b ELSE @]))
     EXCEPT !.m.disk = b, !.m.layers = {}]

-------------------------------------------------------------------------------
(* Importing. *)

\* processBlock with writeBlockWithState.
Processed(s, b, flush) == Committed(Put(s, WriteBlock(KV(s), b)), b, flush)

CommonNumber(a, b) ==
    CHOOSE n \in 0 .. MaxNumber :
        /\ n <= Num(a) /\ n <= Num(b) /\ Ancestor(a, n) = Ancestor(b, n)
        /\ \A k \in n + 1 .. MaxNumber :
               k <= Num(a) /\ k <= Num(b) => Ancestor(a, k) # Ancestor(b, k)

\* The numbers above n that have a canonical hash, up to the first that has not.
Above(w, n) ==
    {k \in n + 1 .. MaxNumber : \A j \in n + 1 .. k : ReadCanonicalHash(w, j) # Nil}

Useless(w, n) == Above(w, n)

\* Mutant: the loop over the new blocks starts one above the oldest.
reorg_SkipsOldest(s, old, new) ==
    LET c == CommonNumber(old, new)
        t == FoldLeft(LAMBDA u, n : writeHeadBlock(u, KV(u), Ancestor(new, n)), s,
                      [i \in 1 .. Num(new) - c - 2 |-> c + i + 1])
        top == IF Num(new) > c + 1 THEN Num(new) - 1 ELSE c
    IN  [s |-> t, kv |-> DeleteCanonical(KV(t), Useless(World(t), top))]
\* reorg: all new blocks but the last become heads in turn, then what is left
\* of the old index above them is deleted; kv is the store after that.
reorg(s, old, new) ==
    LET c == CommonNumber(old, new)
        t == FoldLeft(LAMBDA u, n : writeHeadBlock(u, KV(u), Ancestor(new, n)), s,
                      [i \in 1 .. Num(new) - c - 1 |-> c + i])
        top == IF Num(new) > c + 1 THEN Num(new) - 1 ELSE c
    IN  [s |-> t, kv |-> DeleteCanonical(KV(t), Useless(World(t), top))]

\* The last batch of a reorg and the new head are two batches.
SetHeadTo(s, b) ==
    LET r == IF Parent(b) = s.m.block THEN [s |-> s, kv |-> KV(s)] ELSE reorg(s, s.m.block, b)
    IN  writeHeadBlock(IF TornReorg THEN Put(r.s, r.kv) ELSE r.s, r.kv, b)

-------------------------------------------------------------------------------
(* Rewinding. *)

\* rewindPathHead: the first block from b down whose state is there or can be
\* brought back; genesis if the chain is broken.
RECURSIVE rewindHead(_, _)
rewindHead(s, b) ==
    IF HasState(s.m, b) \/ stateRecoverable(s.m, b) \/ b = Genesis THEN b
    ELSE IF HasBlock(World(s), Parent(b)) THEN rewindHead(s, Parent(b)) ELSE Genesis

\* updateFn, without the batch; the result is written with the header marker.
Degraded(s, h) ==
    LET b == rewindHead(s, h)
        lower == Num(h) <= Num(s.m.block)
        t == IF lower /\ ~HasState(s.m, b) /\ stateRecoverable(s.m, b) THEN Recover(s, b) ELSE s
        f == IF HasBlock(World(s), h) THEN h ELSE Genesis
    IN  [t EXCEPT !.m.block = IF lower THEN b ELSE @,
                  !.m.snap = IF Num(h) < Num(@) THEN f ELSE @]

\* Freezer content above the full head is given up.
Wipe(s) == Num(s.m.block) + 1 < Len(World(s).ancients)

Markers(s) ==
    Put(s, [KV(s) EXCEPT !.headBlock = s.m.block, !.headFast = s.m.snap,
                         !.headHeader = s.m.header])

\* What is deleted with the header hdr: everything at its number.
Doomed(s, hdr) ==
    IF AllHashes(KV(s), Num(hdr)) = {} THEN {hdr} ELSE AllHashes(KV(s), Num(hdr))

\* What the first turn deletes above the old header.
RECURSIVE Leftover(_, _)
Leftover(kv, n) ==
    IF n > MaxNumber \/ AllHashes(kv, n) = {} THEN {} ELSE AllHashes(kv, n) \cup Leftover(kv, n + 1)

\* HeaderChain.setHead, the loop: markers first, deletions gathered.
RECURSIVE Loop(_, _, _, _)
Loop(s, target, update, dels) ==
    LET hdr == s.m.header
        p == IF HasBlock(World(s), Parent(hdr)) THEN Parent(hdr) ELSE Genesis
        t == IF update THEN Degraded(s, p) ELSE s
        to == IF update /\ Wipe(t) /\ Num(t.m.block) < target THEN Num(t.m.block) ELSE target
    IN  IF Num(hdr) <= target THEN [s |-> s, dels |-> dels]
        ELSE Loop(Markers([t EXCEPT !.m.header = p]), to, update,
                  dels \cup Doomed(s, hdr) \cup
                      (IF dels = {} THEN Leftover(KV(s), Num(hdr) + 1) ELSE {}))

Truncate(s) ==
    LET n == Num(s.m.header) + 1
        w == World(s)
    IN  IF n >= Len(w.ancients) THEN s
        ELSE [s EXCEPT !.ws = Append(@, [w EXCEPT !.ancients = SubSeq(@, 1, n),
                                           !.synced = IF @ > n THEN n ELSE @])]

Deleted(l) == Put(l.s, DeleteCanonical(DeleteBlocks(KV(l.s), l.dels), {Num(b) : b \in l.dels}))

\* HeaderChain.setHead, the rest.
\* Mutant: the freezer is truncated before the deletions are safe.
Shorten_Early(l) == SyncKeyValue(Deleted([l EXCEPT !.s = Truncate(l.s)]))
Shorten(l) == Truncate(SyncKeyValue(Deleted(l)))

setHead(s, target, update) == Shorten(Loop(s, target, update, {}))

-------------------------------------------------------------------------------
(* Opening. *)

\* NewDatabaseWithFreezer finds no gap, and the head header has a number.
Contiguous(w) ==
    LET frozen == Len(w.ancients)
    IN  IF frozen > 0
        THEN w.kv.canon[frozen] = Nil =>
                 /\ w.kv.headHeader \in w.kv.numbers
                 /\ Num(w.kv.headHeader) <= frozen - 1
        ELSE w.kv.headHeader # Genesis => w.kv.canon[1] # Nil

InitDatabaseFromFreezer(s) ==
    LET last == Last(World(s).ancients)
        a == Put(s, [KV(s) EXCEPT !.numbers = @ \cup Range(World(s).ancients)])
        b == Put(a, [KV(a) EXCEPT !.headHeader = last])
    IN  IF World(s).ancients = <<>> THEN s ELSE Put(b, [KV(b) EXCEPT !.headFast = last])

\* loadLastState; a head block that cannot be read would reset the chain.
Loadable(w) == ByHash(w, w.kv.headBlock)
loadLastState(s) ==
    LET w == World(s)
        or(b) == IF ByHash(w, b) THEN b ELSE w.kv.headBlock
    IN  [s EXCEPT !.m.block = w.kv.headBlock, !.m.header = or(w.kv.headHeader),
                  !.m.snap = or(w.kv.headFast),
                  !.m.final = IF w.kv.final # Nil /\ ByHash(w, w.kv.final) THEN w.kv.final ELSE @]

\* setHeadBeyondRoot.
Cleared(s, n) ==
    IF s.m.final # Nil /\ n < Num(s.m.final)
    THEN [Put(s, [KV(s) EXCEPT !.final = Nil]) EXCEPT !.m.final = Nil] ELSE s
SetHead(s, n) == loadLastState(Cleared(setHead(s, n, TRUE), n))
Repair(s) ==
    LET n == Num(s.m.block)
        d == Degraded(s, s.m.block)
        t == Put(d, [KV(d) EXCEPT !.headBlock = d.m.block, !.headFast = d.m.snap])
    IN  loadLastState(Cleared(IF Wipe(t) THEN setHead(t, Num(t.m.block), FALSE) ELSE t, n))

\* The ancients a crash in SetHead, or a store that fell back, left behind.
ExtraAncients(s) ==
    LET last == Len(World(s).ancients) - 1
        full == s.m.block # Genesis /\ Num(s.m.block) < last
        low == IF full /\ Num(s.m.block) < Num(s.m.snap) THEN s.m.block ELSE s.m.snap
    IN  IF last < 0 \/ ~(full \/ Num(s.m.snap) < last) THEN s
        ELSE SetHead(s, IF Num(s.m.snap) < last THEN Num(low) ELSE Num(s.m.block))

\* NewBlockChain.
Opened(w) ==
    LET m == [up |-> TRUE, block |-> Genesis, snap |-> Genesis, header |-> Genesis,
              final |-> Nil, disk |-> w.kv.state, layers |-> {}]
        s == [m |-> m, ws |-> <<w>>]
        empty == {w.kv.headBlock, w.kv.headHeader, w.kv.headFast} = {Genesis}
        t == loadLastState(IF empty THEN InitDatabaseFromFreezer(s) ELSE s)
        u == IF HasState(t.m, t.m.block) \/ t.m.block = Genesis THEN t ELSE Repair(t)
    IN  ExtraAncients(u)

-------------------------------------------------------------------------------
Down == [up |-> FALSE]
Idle == [pc |-> "wait", first |-> 0, last |-> 0, hashes |-> <<>>]

AfterCrash(w) ==
    {[kv |-> kv, kvs |-> {kv}, ancients |-> SubSeq(w.ancients, 1, n), synced |-> n] :
         kv \in w.kvs, n \in w.synced .. Len(w.ancients)}

\* Of the stores a later crash may fall back to, one is chosen at the end of a
\* call and the others forgotten; none is kept when no crash is to come.
Fallback(w) == IF crashes < MaxCrash THEN w.kvs ELSE {w.kv}

\* The call, between two steps of the freezing thread, stores a canonical block
\* that the thread is working on again, or takes it out of the chain.
Crosses(s) ==
    /\ freezer # Idle
    /\ \E n \in 1 .. freezer.last :
           LET b == ReadCanonicalHash(world, n)
           IN  \/ (b \in KV(s).blocks) # (b \in world.kv.blocks)
               \/ ReadCanonicalHash(World(s), n) # b

\* A call runs to its end, or the process dies on the way.  No lock keeps it
\* from falling between two steps of the freezing thread.
Perform(s) ==
    \/ /\ \E kv \in Fallback(World(s)) : world' = [World(s) EXCEPT !.kvs = {kv, KV(s)}]
       /\ mem' = s.m
       /\ crossed' = (crossed \/ Crosses(s))
       /\ UNCHANGED <<freezer, crashes>>
    \/ /\ crashes < MaxCrash
       /\ crashes' = crashes + 1
       /\ world' \in UNION {AfterCrash(w) : w \in Range(s.ws)}
       /\ mem' = Down
       /\ freezer' = Idle
       /\ UNCHANGED crossed

\* The network keeps what is finalized and does not reorganise deeper than the
\* threshold below the highest head.
Fixed(b) == IF Num(b) - FullImmutabilityThreshold > Num(fixed)
            THEN Ancestor(b, Num(b) - FullImmutabilityThreshold) ELSE fixed
Allowed(b) == IsAncestor(b, fixed) \/ IsAncestor(fixed, b)

\* InsertBlockWithoutSetHead, from newPayload.
InsertBlock(b) ==
    /\ mem.up
    /\ HasBlock(world, Parent(b)) /\ HasState(mem, Parent(b))
    /\ ~(HasBlock(world, b) /\ HasState(mem, b))
    /\ \E flush \in BOOLEAN : Perform(Processed(Call, b, flush))
    /\ UNCHANGED <<fixed, rewinds>>

\* recoverAncestors executes the blocks down to the first state again.
Reexecuted(s, b, flush) ==
    LET from == rewindHead(s, b)
        t == IF HasState(s.m, from) THEN s ELSE Recover(s, from)
    IN  FoldLeft(LAMBDA u, n : Processed(u, Ancestor(b, n), flush), t,
                 [i \in 1 .. Num(b) - Num(from) |-> Num(from) + i])

\* SetCanonical, from forkchoiceUpdated for a block that is not canonical.
SetCanonical(b) ==
    /\ mem.up
    /\ ByHash(world, b)
    /\ ReadCanonicalHash(world, Num(b)) # b
    /\ Allowed(b)
    /\ \E flush \in BOOLEAN :
           Perform(SetHeadTo(IF HasState(mem, b) THEN Call ELSE Reexecuted(Call, b, flush), b))
    /\ fixed' = Fixed(b)
    /\ UNCHANGED rewinds

\* InsertChain with one block, from the downloader.
InsertChain(b) ==
    /\ mem.up
    /\ Num(b) > Num(mem.block) \/ ReadCanonicalHash(world, Num(b)) # b
    /\ Allowed(b)
    /\ HasBlock(world, Parent(b)) /\ HasState(mem, Parent(b))
    /\ IF HasBlock(world, b) /\ HasState(mem, b)
       THEN Perform(SetHeadTo(Call, b))
       ELSE \E flush \in BOOLEAN : Perform(SetHeadTo(Processed(Call, b, flush), b))
    /\ fixed' = Fixed(b)
    /\ UNCHANGED rewinds

\* SetFinalized, from forkchoiceUpdated for an ancestor of the head.
SetFinalized(b) ==
    /\ mem.up
    /\ b # mem.final /\ b # Genesis
    /\ IsAncestor(fixed, b) /\ IsAncestor(b, mem.block)
    /\ Perform([Put(Call, [world.kv EXCEPT !.final = b]) EXCEPT !.m.final = b])
    /\ fixed' = b
    /\ UNCHANGED rewinds

\* SetHead, from debug_setHead.
Rewind(n) ==
    /\ mem.up
    /\ rewinds < MaxRewind
    /\ rewinds' = rewinds + 1
    /\ n < Num(mem.header)
    /\ Perform(SetHead(Call, n))
    /\ UNCHANGED fixed

Open ==
    /\ ~mem.up
    /\ Contiguous(world) /\ Loadable(world)
    /\ Perform(Opened(world))
    /\ UNCHANGED <<fixed, rewinds>>

Crash ==
    /\ mem.up
    /\ crashes < MaxCrash
    /\ crashes' = crashes + 1
    /\ world' \in AfterCrash(world)
    /\ mem' = Down
    /\ freezer' = Idle
    /\ UNCHANGED <<fixed, crossed, rewinds>>

-------------------------------------------------------------------------------
(* The freezing thread. *)

\* Mutant: one block too many below the head counts as immutable.
freezeThreshold_Near(kv) ==
    LET head == IF kv.headBlock \in kv.numbers THEN Num(kv.headBlock) ELSE 0
    IN  IF head >= FullImmutabilityThreshold THEN head - FullImmutabilityThreshold + 1 ELSE 0
freezeThreshold(kv) ==
    LET number(b) == IF b \in kv.numbers THEN Num(b) ELSE 0
        head == number(kv.headBlock)
        final == IF kv.final = Nil THEN 0 ELSE number(kv.final)
        limit == IF head > FullImmutabilityThreshold THEN head - FullImmutabilityThreshold ELSE 0
    IN  IF final > limit THEN final ELSE limit

Thread(w, f) ==
    /\ world' = w
    /\ freezer' = f
    /\ UNCHANGED <<mem, fixed, crossed, crashes, rewinds>>

\* The store is written by the thread: the same fallback, or this one.
Written(kv) ==
    LET w == [world EXCEPT !.kv = kv, !.kvs = @ \cup {kv}]
    IN  {[w EXCEPT !.kvs = {f, kv}] : f \in Fallback(w)}

FreezeStart ==
    LET threshold == freezeThreshold(world.kv)
        frozen == Len(world.ancients)
        last == IF threshold - frozen + 1 > freezerBatchLimit
                THEN freezerBatchLimit + frozen - 1 ELSE threshold
    IN  /\ mem.up
        /\ freezer = Idle
        /\ threshold # 0
        /\ frozen = 0 \/ frozen - 1 < threshold
        /\ Thread(world, [Idle EXCEPT !.pc = "range", !.first = frozen, !.last = last])

\* freezeRange reads the store alone, and appends nothing if a block is missing.
FreezeRange ==
    LET ns == freezer.first .. freezer.last
        hashes == [i \in 1 .. Cardinality(ns) |-> world.kv.canon[freezer.first + i - 1]]
    IN  /\ freezer.pc = "range"
        /\ IF /\ Len(world.ancients) = freezer.first
              /\ \A n \in ns : world.kv.canon[n] \in world.kv.blocks
           THEN Thread([world EXCEPT !.ancients = @ \o hashes],
                       [freezer EXCEPT !.pc = "sync", !.hashes = hashes])
           ELSE Thread(world, Idle)

SyncAncient(w) == [w EXCEPT !.synced = Len(w.ancients)]

FreezeSync ==
    /\ freezer.pc = "sync"
    /\ Thread(SyncAncient(world), [freezer EXCEPT !.pc = "wipe"])

\* The canonical blocks go, and their number stays.
FreezeWipe ==
    LET bs == Range(freezer.hashes) \ {Genesis}
        kv == [DeleteCanonical(world.kv, (freezer.first .. freezer.last) \ {0})
               EXCEPT !.blocks = @ \ bs]
    IN  /\ freezer.pc = "wipe"
        /\ \E w \in Written(kv) : Thread(w, [freezer EXCEPT !.pc = "side"])

\* The side chains at the frozen numbers go, and whatever grew on the last ones.
Dangling(kv, frozen, tips) ==
    {b \in kv.blocks : Num(b) >= frozen /\ Ancestor(b, frozen - 1) \in tips /\
         \A n \in frozen .. Num(b) : Ancestor(b, n) \in kv.blocks}

FreezeSide ==
    LET frozen == Len(world.ancients)
        ns == (freezer.first .. frozen - 1) \ {0}
        side == {b \in world.kv.blocks : Num(b) \in ns}
        kv == DeleteBlocks(world.kv, side)
        tips == IF ns = {} THEN {} ELSE AllHashes(world.kv, frozen - 1)
    IN  /\ freezer.pc = "side"
        /\ \E w \in Written(DeleteBlocks(kv, Dangling(kv, frozen, tips))) : Thread(w, Idle)

-------------------------------------------------------------------------------
Init ==
    /\ world = [kv |-> FreshKV, kvs |-> {FreshKV}, ancients |-> <<>>, synced |-> 0]
    /\ mem = Down
    /\ freezer = Idle
    /\ fixed = Genesis
    /\ crossed = FALSE
    /\ crashes = 0
    /\ rewinds = 0

Next ==
    \/ \E b \in Block \ {Genesis} :
           InsertBlock(b) \/ SetCanonical(b) \/ InsertChain(b) \/ SetFinalized(b)
    \/ \E n \in 0 .. MaxNumber : Rewind(n)
    \/ Open
    \/ Crash
    \/ FreezeStart \/ FreezeRange \/ FreezeSync \/ FreezeWipe \/ FreezeSide

Spec == Init /\ [][Next]_bcvars

-------------------------------------------------------------------------------
(* Properties. *)

\* Between the freezer and the store no block of the head's chain is lost: at
\* every number up to the head the canonical hash is the head's ancestor, and
\* its block can be read, while blocks are imported, reorganised, rewound,
\* executed again, frozen and wiped.  It fails when a call crosses the freezing
\* thread, and holds as long as none has.
ChainComplete ==
    mem.up =>
        \A n \in 0 .. Num(mem.block) :
            /\ ReadCanonicalHash(world, n) = Ancestor(mem.block, n)
            /\ HasBlock(world, Ancestor(mem.block, n))

\* No number above the head names a block, so that a query by number never
\* answers with a block of a chain that was left (until a first crash).
NothingAbove ==
    mem.up /\ crashes = 0 =>
        \A n \in 0 .. MaxNumber : n > Num(mem.header) => ReadCanonicalHash(world, n) = Nil

\* Whatever a crash leaves can be opened: the store continues where the freezer
\* ends, and the head block is there, so that the chain is not reset (as long as
\* no call has crossed the freezing thread).
Reopens == ~mem.up /\ ~crossed => Contiguous(world) /\ Loadable(world)

\* The freezer, which cannot replace a block, only takes blocks that the network
\* will not give up.
FreezerIsFinal ==
    \A n \in 0 .. Len(world.ancients) - 1 :
        n <= Num(fixed) /\ world.ancients[n + 1] = Ancestor(fixed, n)
===============================================================================
