------------------------------- MODULE PathDB -------------------------------
(***************************************************************************)
(* The path-based state store: triedb/pathdb (database.go, layertree.go,   *)
(* difflayer.go, disklayer.go, buffer.go, journal.go, history.go,          *)
(* generate.go, flush.go).  A tree of diff layers sits on one disk layer,  *)
(* which holds a write buffer in front of the key-value store; reverse     *)
(* diffs of everything below the tree are kept in a freezer, and a         *)
(* generator rebuilds the flat states from the trie in the background.     *)
(*                                                                         *)
(* A root hash commits to a state, so a root is the state itself: the      *)
(* value of every key.  A block writes its height into some of the keys,   *)
(* so no state recurs along one chain.                                     *)
(*                                                                         *)
(* The key-value store applies a batch atomically but does not sync it: a  *)
(* crash falls back to any store since the last SyncKeyValue.  The freezer *)
(* keeps what SyncAncient covered.  An operation is the sequence of worlds *)
(* (store and freezer) it passes through, and a crash may leave any one.   *)
(***************************************************************************)
EXTENDS Integers, Sequences, FiniteSets, SequencesExt, TLC

CONSTANTS
    NumKeys,        \* keys are 1 .. NumKeys, the order the generator takes
    maxDiffLayers,  \* diff layers kept above the disk layer (128 in the source)
    StateHistory,   \* config.StateHistory: histories kept, 0 for all of them
    SnapshotNoBuild, \* config.SnapshotNoBuild: flat states are not generated
    MaxHeight,      \* bound: the highest block
    MaxBranches,    \* bound: layers in the tree beside the longest branch
    MaxCrash,       \* bound: crashes and restarts
    MaxSync,        \* bound: state syncs
    Journals,       \* bound: whether the process is ever shut down in order
    Loss,           \* what a crash may lose: a subset of {"store", "ancient"}
    Nil

VARIABLES
    world,    \* what is outside the process: see Fresh
    mem,      \* what is inside it: see Down
    crashes, syncs

pathdb == <<world, mem, crashes, syncs>>

Key == 1 .. NumKeys
Done == NumKeys + 1            \* the marker of a finished generator
Zero == [k \in Key |-> 0]      \* the empty state
Height(r) == CHOOSE h \in {r[k] : k \in Key} : \A k \in Key : r[k] <= h

\* The part of the store that pathdb owns.
FreshKV ==
    [trie |-> Zero, flat |-> Zero, snapRoot |-> Nil, gen |-> Nil, pid |-> 0,
     journal |-> Nil, ids |-> <<>>, syncing |-> FALSE]

\* kvs: the stores a crash may fall back to.  hist[i] is the history of state
\* id i; those up to tail are pruned, those up to synced are on the disk, and
\* top is the highest that was ever written.
Fresh == [kv |-> FreshKV, kvs |-> {FreshKV}, hist |-> <<>>,
          tail |-> 0, oldTail |-> 0, synced |-> 0, top |-> 0]

Down == [up |-> FALSE]

\* A disk layer on top of the persistent state.
newDiskLayer(root, id, buf, layers) ==
    [root |-> root, id |-> id, buf |-> buf, layers |-> layers, stale |-> FALSE]

\* A call in flight: the memory so far, the worlds so far, and no error yet.
Call == [m |-> mem, ws |-> <<world>>, ok |-> TRUE]
World(s) == Last(s.ws)
KV(s) == World(s).kv

Put(s, kv) ==
    [s EXCEPT !.ws = Append(@, [Last(@) EXCEPT !.kv = kv,
        !.kvs = IF "store" \in Loss THEN @ \cup {kv} ELSE {kv}])]
Ancient(s, w) == [s EXCEPT !.ws = Append(@, w)]

SyncKeyValue(s) == Ancient(s, [World(s) EXCEPT !.kvs = {KV(s)}])

SyncAncient(s) == Ancient(s, [World(s) EXCEPT !.synced = Len(World(s).hist)])

-----------------------------------------------------------------------------
(* The generator.                                                          *)

\* The goroutine's first write, made before it can answer an abort.
Begin(s) ==
    IF s.m.gen.begun THEN s
    ELSE [(IF s.m.gen.progress # 0 THEN s
           ELSE Put(s, [KV(s) EXCEPT !.snapRoot = KV(s).trie, !.gen = 0]))
          EXCEPT !.m.gen.begun = TRUE]

stop(s) ==
    IF s.m.gen.running THEN [Begin(s) EXCEPT !.m.gen.running = FALSE] ELSE s

run(s) ==
    IF SnapshotNoBuild \/ s.m.gen.progress = Done THEN s
    ELSE [s EXCEPT !.m.gen.running = TRUE, !.m.gen.begun = FALSE]

\* generateRange and checkAndFlush, one key at a time.
generate(s) ==
    LET k == s.m.gen.progress + 1
    IN  [Put(s, [KV(s) EXCEPT !.flat = IF k = Done THEN @ ELSE [@ EXCEPT ![k] = KV(s).trie[k]],
                              !.gen = k])
         EXCEPT !.m.gen.progress = k]

\* loadGenerator: the marker counts only for the state it was written with.
loadGenerator(kv) ==
    IF kv.gen = Nil \/ kv.snapRoot # kv.trie THEN 0 ELSE kv.gen

-----------------------------------------------------------------------------
(* The history freezer.                                                    *)

Without(ids, roots) == [r \in DOMAIN ids \ roots |-> ids[r]]

\* writeHistory: the freezer takes its items in order.
writeHistory(s, root, parent, id) ==
    IF Len(World(s).hist) # id - 1 THEN [s EXCEPT !.ok = FALSE]
    ELSE Ancient(s, [World(s) EXCEPT !.hist = Append(@,
             [root |-> root, parent |-> parent,
              origin |-> [k \in {j \in Key : root[j] # parent[j]} |-> parent[k]]]),
             !.top = IF id > @ THEN id ELSE @])

InRange(w, nhead) == nhead \in w.tail .. Len(w.hist)

truncateFromHead(s, nhead) ==
    LET w == World(s)
        t == Put(s, [KV(s) EXCEPT !.ids =
                 Without(@, {w.hist[i].root : i \in nhead + 1 .. Len(w.hist)})])
    IN  IF ~InRange(w, nhead) THEN [s EXCEPT !.ok = FALSE]
        ELSE IF Len(w.hist) = nhead THEN s
        ELSE Ancient(t, [World(t) EXCEPT !.hist = SubSeq(@, 1, nhead),
                             !.synced = IF @ > nhead THEN nhead ELSE @])

truncateFromTail(s, ntail) ==
    LET w == World(s)
        t == Put(s, [KV(s) EXCEPT !.ids =
                 Without(@, {w.hist[i].root : i \in w.tail + 1 .. ntail})])
    IN  IF w.tail >= ntail THEN s
        ELSE Ancient(t, [World(t) EXCEPT !.tail = ntail])

\* Freezer.Reset starts an empty freezer in place of the old one.
Reset(s) == Ancient(s, [World(s) EXCEPT !.hist = <<>>, !.tail = 0,
                                        !.oldTail = 0, !.synced = 0, !.top = 0])

-----------------------------------------------------------------------------
(* The disk layer: diskLayer.commit and revert, buffer.flush.              *)

Over(f, r) == [k \in Key |-> IF k \in DOMAIN f THEN f[k] ELSE r[k]]
Upto(f, marker) == [k \in {j \in DOMAIN f : j <= marker} |-> f[k]]

writeStates(flat, f, marker) == Over(Upto(f, marker), flat)

flush(s, root, id) ==
    LET t == SyncAncient(s)
        buf == s.m.disk.buf
    IN  IF KV(s).pid + s.m.disk.layers # id THEN [s EXCEPT !.ok = FALSE]
        ELSE [Put(t, [KV(t) EXCEPT !.trie = Over(buf, @),
                          !.flat = writeStates(@, buf, s.m.gen.progress),
                          !.pid = id, !.snapRoot = root])
              EXCEPT !.m.disk.buf = <<>>, !.m.disk.layers = 0]

\* Mutant: one history more than configured is pruned.
Oldest_Next(w, id) ==
    IF StateHistory # 0 /\ id - w.tail > StateHistory THEN id - StateHistory + 2 ELSE 0
\* The id of the oldest history that is kept, 0 when none is pruned.
Oldest(w, id) ==
    IF StateHistory # 0 /\ id - w.tail > StateHistory THEN id - StateHistory + 1 ELSE 0

Forced(kv, oldest, force) == force \/ kv.pid < oldest

\* Merge one diff layer; full is whether the buffer has outgrown its limit.
Commit1(s, root, full, force) ==
    LET old == s.m.disk
        id == old.id + 1
        h == writeHistory(s, root, old.root, id)
        oldest == Oldest(World(h), id)
        a == IF old.id # 0 THEN h
             ELSE Put(h, [KV(h) EXCEPT !.ids = (old.root :> 0) @@ @])
        b == Put(a, [KV(a) EXCEPT !.ids = (root :> id) @@ @])
        diff == [k \in {j \in Key : root[j] # old.root[j]} |-> root[k]]
        c == [b EXCEPT !.m.disk = newDiskLayer(root, id, diff @@ old.buf, old.layers + 1)]
        d == IF full \/ Forced(KV(c), oldest, force)
             THEN LET e == flush(stop(c), root, id) IN IF e.ok THEN run(e) ELSE e
             ELSE c
    IN  IF ~s.ok \/ ~h.ok THEN [s EXCEPT !.ok = FALSE]
        ELSE IF oldest = 0 \/ ~d.ok THEN d
        ELSE truncateFromTail(d, oldest - 1)

\* Mutant: the buffer is emptied one transition too early.
Emptied_Early(layers) == layers <= 2
Emptied(layers) == layers = 1

\* The batch that takes the persistent state back by one history.
Undone(kv, h, id, marker) ==
    [kv EXCEPT !.trie = Over(h.origin, @), !.flat = writeStates(@, h.origin, marker),
               !.pid = id - 1, !.snapRoot = h.parent]

\* diskLayer.revert with the top history, in the buffer or in the store.
revert(s) ==
    LET dl == s.m.disk
        h == World(s).hist[dl.id]
        ndl == newDiskLayer(h.parent, dl.id - 1,
                   IF Emptied(dl.layers) THEN <<>> ELSE h.origin @@ dl.buf, dl.layers - 1)
        t == stop(s)
        u == Put(t, Undone(KV(t), h, dl.id, t.m.gen.progress))
    IN  IF dl.layers # 0 THEN [s EXCEPT !.m.disk = ndl]
        ELSE run([u EXCEPT !.m.disk = newDiskLayer(h.parent, dl.id - 1, <<>>, 0)])

-----------------------------------------------------------------------------
(* The layer tree.  tree[r] is the link of r's diff layer: the root of its *)
(* parent and whether that is a diff layer, the disk layer, or a layer     *)
(* that was merged away and still links to the stale disk layer.           *)

Link(kind, root) == [kind |-> kind, root |-> root]
LinkTo(m, root) == Link(IF root \in DOMAIN m.tree THEN "diff" ELSE "disk", root)

\* The diff layers from root down to the last one in the tree.
RECURSIVE Path(_, _)
Path(tree, root) ==
    IF tree[root].kind = "diff"
    THEN <<root>> \o Path(tree, tree[root].root) ELSE <<root>>

Bottom(tree, root) == tree[Last(Path(tree, root))]

\* layerTree.cap for a layer count above zero: flatten what is below the n
\* topmost layers of the branch, relink the one above, and drop what hangs on
\* the old disk layer.  A branch whose bottom was merged away fails.
Capped(m, root, n) ==
    LET path == Path(m.tree, root)
        base == path[n + 1]
        keep == {r \in DOMAIN m.tree : r # base /\
                     base \in {m.tree[p].root : p \in Range(Path(m.tree, r))}}
    IN  [r \in keep |-> CASE m.tree[r].root # base -> m.tree[r]
                          [] r = path[n] -> Link("disk", base)
                          [] OTHER -> Link("stale", base)]

\* Flatten roots, bottom first.
persist(s, roots, full, force) ==
    FoldLeft(LAMBDA t, r : Commit1(t, r, r \in full, force), s, Reverse(roots))

cap(s, root, n, full) ==
    LET path == Path(s.m.tree, root)
        t == persist(s, SubSeq(path, n + 1, Len(path)), full, n = 0)
    IN  IF Bottom(s.m.tree, root).kind = "stale"
        THEN [s EXCEPT !.ok = Len(path) < n]
        ELSE IF Len(path) <= n THEN s
        ELSE [t EXCEPT !.m.tree = IF ~t.ok THEN @
                                  ELSE IF n = 0 THEN <<>> ELSE Capped(s.m, root, n)]

-----------------------------------------------------------------------------
(* Reading.                                                                *)

node(r, k) ==
    LET b == Last(Path(mem.tree, r))
    IN  IF r = mem.disk.root THEN Over(mem.disk.buf, world.kv.trie)[k]
        ELSE IF \E q \in Range(Path(mem.tree, r)) : q[k] # mem.tree[q].root[k]
        THEN LET q == SelectInSeq(Path(mem.tree, r), LAMBDA p : p[k] # mem.tree[p].root[k])
             IN  Path(mem.tree, r)[q][k]
        ELSE IF mem.tree[b].kind = "stale" THEN Nil
        ELSE Over(mem.disk.buf, world.kv.trie)[k]

\* The flat value: as the node, except that the disk refuses what the
\* generator has not covered.
account(r, k) ==
    LET above == r # mem.disk.root /\
                 \E q \in Range(Path(mem.tree, r)) : q[k] # mem.tree[q].root[k]
    IN  IF above \/ k \in DOMAIN mem.disk.buf THEN node(r, k)
        ELSE IF k > mem.gen.progress THEN Nil
        ELSE IF r # mem.disk.root /\ Bottom(mem.tree, r).kind = "stale" THEN Nil
        ELSE world.kv.flat[k]

-----------------------------------------------------------------------------
(* Opening: New with loadLayers, repairHistory and setStateGenerator.      *)

\* loadJournal accepts the journal of this very persistent state.
Matches(kv) ==
    /\ kv.journal # Nil
    /\ kv.journal.root = kv.trie
    /\ kv.pid <= kv.journal.disk.id

loadLayers(kv) ==
    IF Matches(kv)
    THEN [disk |-> [kv.journal.disk EXCEPT !.layers = kv.journal.disk.id - kv.pid],
          tree |-> kv.journal.tree]
    ELSE [disk |-> newDiskLayer(kv.trie, kv.pid, <<>>, 0), tree |-> <<>>]

repairHistory(s) ==
    IF s.m.disk.id # 0 THEN truncateFromHead(s, s.m.disk.id)
    ELSE IF World(s).hist = <<>> THEN s ELSE Reset(s)

Disabled(s) ==
    Put([stop(s) EXCEPT !.m.waitSync = TRUE, !.m.disk.stale = TRUE],
        [KV(stop(s)) EXCEPT !.syncing = TRUE])

Opened(w) ==
    LET l == loadLayers(w.kv)
        g == [progress |-> loadGenerator(w.kv), running |-> FALSE, begun |-> FALSE]
        s == repairHistory(
                [m |-> [up |-> TRUE, readOnly |-> FALSE, waitSync |-> FALSE,
                        disk |-> l.disk, tree |-> l.tree, gen |-> g],
                 ws |-> <<w>>, ok |-> TRUE])
    IN  IF w.kv.syncing THEN Disabled(s) ELSE run(s)

\* What a crash leaves of a world.
AfterCrash(w) ==
    {[kv |-> kv, kvs |-> {kv}, hist |-> SubSeq(w.hist, 1, n),
      tail |-> t, oldTail |-> t, synced |-> n, top |-> w.top] :
         kv \in w.kvs,
         n \in (IF "ancient" \in Loss THEN w.synced ELSE Len(w.hist)) .. Len(w.hist),
         t \in (IF "ancient" \in Loss THEN w.oldTail ELSE w.tail) .. w.tail}

\* A call runs to its end, or the process dies on the way.  Of the stores a
\* later crash may fall back to, one is chosen here and the others forgotten.
Perform(s) ==
    \/ /\ \E kv \in World(s).kvs : world' = [World(s) EXCEPT !.kvs = {kv, KV(s)}]
       /\ mem' = s.m
       /\ UNCHANGED crashes
    \/ /\ crashes < MaxCrash
       /\ crashes' = crashes + 1
       /\ \E w \in Range(s.ws) : world' \in AfterCrash(w)
       /\ mem' = Down

-----------------------------------------------------------------------------
Writable == mem.up /\ ~mem.readOnly /\ ~mem.waitSync

Layers == {mem.disk.root} \cup DOMAIN mem.tree

\* Layers that are not on the longest branch.
Branches(tree) ==
    Cardinality(DOMAIN tree) -
        (IF tree = <<>> THEN 0
         ELSE CHOOSE n \in {Len(Path(tree, r)) : r \in DOMAIN tree} :
                  \A r \in DOMAIN tree : Len(Path(tree, r)) <= n)

\* Database.Update: StateDB.Commit hands over the state after a block.
Update(parent, K) ==
    LET root == [k \in Key |-> IF k \in K THEN Height(parent) + 1 ELSE parent[k]]
        tree == (root :> LinkTo(mem, parent)) @@ mem.tree
        s == [Call EXCEPT !.m.tree = tree]
    IN  /\ Writable
        /\ Height(parent) < MaxHeight
        /\ root \notin Layers
        /\ Branches(tree) <= MaxBranches
        /\ \E full \in SUBSET {r \in DOMAIN mem.tree : r \in Range(Path(tree, root))} :
               LET t == cap(s, root, maxDiffLayers, full)
               IN  Perform(IF t.ok THEN t ELSE s)
        /\ UNCHANGED syncs

\* Database.Commit.
CommitAll(root) ==
    /\ Writable
    /\ root \in DOMAIN mem.tree
    /\ LET t == cap(Call, root, 0, {})
       IN  t.ok /\ Perform(t)
    /\ UNCHANGED syncs

\* Database.Recoverable: the lookup and an unbroken line of histories.
Recoverable(root) ==
    /\ root \in DOMAIN world.kv.ids
    /\ LET id == world.kv.ids[root]
       IN  /\ id < mem.disk.id
           /\ id >= world.tail
           /\ mem.disk.id <= Len(world.hist)
           /\ world.hist[id + 1].parent = root
           /\ \A i \in id + 2 .. mem.disk.id : world.hist[i].parent = world.hist[i - 1].root

\* Mutant: the histories are dropped before the store is synced.
RecoverTail_Unsynced(s) ==
    SyncKeyValue(truncateFromHead(Put(s, [KV(s) EXCEPT !.journal = Nil]), s.m.disk.id))
RecoverTail(s) ==
    truncateFromHead(SyncKeyValue(Put(s, [KV(s) EXCEPT !.journal = Nil])), s.m.disk.id)

Recover(root) ==
    /\ Writable
    /\ Recoverable(root)
    /\ LET n == mem.disk.id - world.kv.ids[root]
           s == FoldLeft(LAMBDA t, i : revert(t), Call, [i \in 1 .. n |-> i])
       IN  Perform(RecoverTail([s EXCEPT !.m.tree = <<>>]))
    /\ UNCHANGED syncs

\* Database.Journal: the chain of layers up to root, then no more writes.
Journal(root) ==
    LET s == stop(Call)
        path == IF root = mem.disk.root THEN <<>> ELSE Path(mem.tree, root)
    IN  /\ Journals
        /\ mem.up /\ ~mem.readOnly /\ ~mem.disk.stale
        /\ root \in Layers
        /\ path # <<>> => Bottom(mem.tree, root).kind = "disk"
        /\ Perform([Put(s, [KV(s) EXCEPT !.journal =
                       [root |-> KV(s).trie, disk |-> mem.disk,
                        tree |-> [r \in Range(path) |-> mem.tree[r]]]])
                    EXCEPT !.m.readOnly = TRUE])
        /\ UNCHANGED syncs

\* Database.Close, then the store is closed and the process ends.
Close ==
    LET s == SyncKeyValue(SyncAncient(stop(Call)))
    IN  /\ Journals
        /\ mem.up
        /\ crashes < MaxCrash
        /\ world' = [World(s) EXCEPT !.oldTail = World(s).tail]
        /\ mem' = Down
        /\ crashes' = crashes + 1
        /\ UNCHANGED syncs

\* Database.Disable, called when a state sync starts.
Disable ==
    /\ Writable
    /\ syncs < MaxSync
    /\ syncs' = syncs + 1
    /\ Perform(Disabled(Call))

\* The state syncer is through: commitHealer has written the trie of its pivot
\* block, forwardAccountTask flat states of this and of earlier pivots.
SyncState ==
    LET root == [k \in Key |-> Height(world.kv.trie) + 1]
    IN  /\ mem.up /\ mem.waitSync
        /\ Height(root) <= MaxHeight
        /\ \E K \in SUBSET Key :
               Perform(Put(Call, [world.kv EXCEPT !.trie = root,
                    !.flat = [k \in Key |-> IF k \in K THEN root[k] ELSE @[k]]]))
        /\ UNCHANGED syncs

\* Database.Enable, for the root that is stored.
Enable ==
    LET a == Put(Call, [world.kv EXCEPT !.journal = Nil, !.snapRoot = Nil, !.pid = 0])
        b == Reset(a)
        c == Put(b, [KV(b) EXCEPT !.syncing = FALSE])
    IN  /\ mem.up /\ ~mem.readOnly /\ mem.waitSync
        /\ Perform(run([c EXCEPT !.m.waitSync = FALSE, !.m.tree = <<>>,
                           !.m.disk = newDiskLayer(world.kv.trie, 0, <<>>, 0),
                           !.m.gen.progress = 0]))
        /\ UNCHANGED syncs

\* One step of the generator's goroutine.
Generate ==
    /\ mem.up
    /\ mem.gen.running
    /\ mem.gen.progress # Done
    /\ Perform(IF mem.gen.begun THEN generate(Call) ELSE Begin(Call))
    /\ UNCHANGED syncs

Crash ==
    /\ mem.up
    /\ crashes < MaxCrash
    /\ crashes' = crashes + 1
    /\ mem' = Down
    /\ world' \in AfterCrash(world)
    /\ UNCHANGED syncs

\* New.  An error of repairHistory ends the process.
Open ==
    /\ ~mem.up
    /\ Opened(world).ok
    /\ Perform(Opened(world))
    /\ UNCHANGED syncs

Init ==
    /\ world = Fresh
    /\ mem = Down
    /\ crashes = 0
    /\ syncs = 0

Next ==
    \/ \E K \in (SUBSET Key) \ {{}} : mem.up /\ \E p \in Layers : Update(p, K)
    \/ mem.up /\ \E r \in Layers : CommitAll(r) \/ Journal(r)
    \/ mem.up /\ \E r \in DOMAIN world.kv.ids : Recover(r)
    \/ Close
    \/ Disable
    \/ SyncState
    \/ Enable
    \/ Generate
    \/ Crash
    \/ Open

Spec == Init /\ [][Next]_pathdb

-----------------------------------------------------------------------------
(* Properties.                                                             *)

Serving == mem.up /\ ~mem.disk.stale

\* Whatever was merged, flushed, reverted, journaled, generated or lost, a
\* layer answers with the values its root commits to, or refuses: a trie node
\* never differs, and a flat state is right or reported as not covered.
ReadsMatch ==
    Serving =>
        \A r \in Layers : \A k \in Key :
            /\ node(r, k) \in {r[k]} \cup (IF r # mem.disk.root /\ Bottom(mem.tree, r).kind = "stale"
                                           THEN {Nil} ELSE {})
            /\ account(r, k) \in {r[k], Nil}

\* buffer.flush refuses a buffer that does not start at the persistent state
\* id: the two counters agree in every state, so it never has to.
BufferAligned ==
    Serving => world.kv.pid + mem.disk.layers = mem.disk.id

\* The configured number of recent states can be rolled back to, or all of them
\* when there is no limit: the lookup is there and the histories are linked.
HistoriesUsable ==
    Serving =>
        \A i \in 1 .. mem.disk.id :
            StateHistory = 0 \/ i - 1 > world.top - StateHistory =>
                Recoverable(world.hist[i].parent)

\* A marker that loadGenerator would accept vouches for the flat states up to
\* it, in every store that a crash may leave.
MarkerVouches ==
    \A kv \in world.kvs :
        \A k \in Key : k <= loadGenerator(kv) => kv.flat[k] = kv.trie[k]

\* Tail pruning never removes a history that is not on the disk yet, which is
\* what the freezer's tables rely on.
PrunesFlushedOnly == world.tail <= world.synced

\* A process that died at any point finds a history that reaches its state:
\* New does not give up.
Reopens == ~mem.up => Opened(world).ok

=============================================================================
