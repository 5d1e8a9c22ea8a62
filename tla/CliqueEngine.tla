---------------------------- MODULE CliqueEngine ----------------------------
(***************************************************************************)
(* The Clique engine of one node (consensus/clique/clique.go): header      *)
(* verification over a tree of chains, behind the LRU cache of snapshots,  *)
(* the snapshots stored on disk and the trusted checkpoints.               *)
(*                                                                         *)
(* A block is identified by the sequence of headers that leads to it, so   *)
(* equal hashes are equal chains; the genesis block is <<>>.  VerifyHeaders*)
(* runs in its own goroutine, ahead of the insertion of the same batch.    *)
(***************************************************************************)
EXTENDS CliqueSnapshot, SequencesExt

CONSTANTS
    GenesisSigners,             \* the signers in the genesis block's extra-data
    Ballots,                    \* the pairs <<Coinbase, Authorize>> headers carry
    CheckpointInterval,         \* checkpointInterval: blocks between two stored snapshots
    InmemorySnapshots,          \* inmemorySnapshots: capacity of the LRU cache
    FullImmutabilityThreshold,  \* headers after which a checkpoint is trusted
    Uint64Mod,                  \* the modulus of uint64 arithmetic (any above 2 * MaxNumber)
    MaxNumber,                  \* bound: length of a chain
    MaxBlocks,                  \* bound: blocks in the database
    MaxAhead                    \* bound: headers verified ahead of their insertion

VARIABLES
    db,         \* the chains whose last header is in the chain database
    canonical,  \* the canonical chain, what GetHeaderByNumber answers from
    recents,    \* the LRU cache, least recently used first: [hash, snap]
    disk,       \* the stored snapshots: a function from chains
    batch,      \* the chain under verification: a chain of db and a batch on top of it
    inserted,   \* how much of batch is in db
    results     \* the results channel of VerifyHeaders: one per header not yet inserted

vars == <<db, canonical, recents, disk, batch, inserted, results>>

diffInTurn == 2
diffNoTurn == 1

(* Extra is the signer section of the extra-data. *)
FullHeader ==
    [Signer : Addr, Coinbase : Addr, Authorize : BOOLEAN,
     Extra : SUBSET Addr, Difficulty : {diffInTurn, diffNoTurn}]

Prefix(c, k) == SubSeq(c, 1, k)

-----------------------------------------------------------------------------
(* Snapshot.apply of a list of headers: [err, snap], stopping at the first error. *)
applyAll(s, headers) ==
    FoldLeft(LAMBDA r, h :
                 IF r.err # "nil" THEN r
                 ELSE IF ApplyError(r.snap, h) # "nil" THEN [r EXCEPT !.err = ApplyError(r.snap, h)]
                 ELSE [r EXCEPT !.snap = apply(r.snap, h)],
             [err |-> "nil", snap |-> s], headers)

(* The LRU cache: Get moves an entry to the front, Add evicts the oldest one when full. *)
Cached(cache, c) == \E i \in DOMAIN cache : cache[i].hash = c

Entry(cache, c) == CHOOSE e \in ToSet(cache) : e.hash = c

Touch(cache, c) == Append(SelectSeq(cache, LAMBDA e : e.hash # c), Entry(cache, c))

Add(cache, c, s) ==
    LET others == SelectSeq(cache, LAMBDA e : e.hash # c)
        kept   == IF Len(others) < InmemorySnapshots THEN others ELSE Tail(others)
    IN  Append(kept, [hash |-> c, snap |-> s])

Store(d, c, s) == [x \in DOMAIN d \cup {c} |-> IF x = c THEN s ELSE d[x]]

(***************************************************************************)
(* snapshot: walk back from block c to the newest block whose snapshot is  *)
(* cached, stored or trusted, then apply the headers gathered on the way.  *)
(* A trusted checkpoint is read from the canonical chain.                  *)
(***************************************************************************)
Stored(stored, c) == Len(c) % CheckpointInterval = 0 /\ c \in DOMAIN stored

(* Mutant: every checkpoint block is trusted. *)
Trusted_Any(k, gathered) == k % Epoch = 0 /\ k <= Len(canonical)

Trusted(k, gathered) ==
    /\ \/ k = 0
       \/ k % Epoch = 0 /\ (gathered > FullImmutabilityThreshold \/ Len(canonical) < k - 1)
    /\ k <= Len(canonical)

(* Mutant: the signers are those of the genesis block. *)
CheckpointSigners_Genesis(k) == GenesisSigners

(* The signers listed in the canonical block number k. *)
CheckpointSigners(k) == IF k = 0 THEN GenesisSigners ELSE canonical[k].Extra

(* The number of that newest block. *)
Newest(cache, stored, c) ==
    Max({n \in 0 .. Len(c) :
            \/ Cached(cache, Prefix(c, n)) \/ Stored(stored, Prefix(c, n))
            \/ Trusted(n, Len(c) - n)})

(* apply returned r: an error, or a snapshot that is cached and, at its interval, stored. *)
Concluded(cache, stored, from, r, hash, gathered) ==
    IF r.err # "nil"
    THEN [err |-> r.err, snap |-> from, recents |-> cache, disk |-> stored]
    ELSE [err     |-> "nil",
          snap    |-> r.snap,
          recents |-> Add(cache, hash, r.snap),
          disk    |-> IF r.snap.Number % CheckpointInterval = 0 /\ gathered
                      THEN Store(stored, hash, r.snap) ELSE stored]

SnapshotFrom(cache, stored, c, k) ==
    LET base    == Prefix(c, k)
        cached  == Cached(cache, base)
        trusted == ~cached /\ ~Stored(stored, base)
        root    == IF trusted THEN Prefix(canonical, k) ELSE base
        from    == IF cached THEN Entry(cache, base).snap
                   ELSE IF trusted THEN newSnapshot(k, CheckpointSigners(k))
                   ELSE stored[base]
    IN  Concluded(IF cached THEN Touch(cache, base) ELSE cache,
                  IF trusted THEN Store(stored, root, from) ELSE stored,
                  from, applyAll(from, SubSeq(c, k + 1, Len(c))),
                  IF k = Len(c) THEN root ELSE c, k < Len(c))

(* [err, snap, recents, disk]: what snapshot(c) returns and leaves behind. *)
Snapshot(cache, stored, c) == SnapshotFrom(cache, stored, c, Newest(cache, stored, c))

(***************************************************************************)
(* verifySeal.  number - limit is uint64 arithmetic.                       *)
(***************************************************************************)
RecentlySigned(s, number, signer) ==
    \E seen \in DOMAIN s.Recents :
        /\ s.Recents[seen] = signer
        /\ seen > (number - Limit(s.Signers)) % Uint64Mod

TurnDifficulty(s, number, signer) ==
    IF inturn(s, number, signer) THEN diffInTurn ELSE diffNoTurn

verifySeal(s, number, h) ==
    IF h.Signer \notin s.Signers THEN "errUnauthorizedSigner"
    ELSE IF RecentlySigned(s, number, h.Signer) THEN "errRecentlySigned"
    ELSE IF h.Difficulty # TurnDifficulty(s, number, h.Signer) THEN "errWrongDifficulty"
    ELSE "nil"

(* The checks of verifyHeader on the header alone. *)
StandaloneError(number, h) ==
    LET checkpoint == number % Epoch = 0
    IN  IF checkpoint /\ h.Coinbase # ZeroAddr THEN "errInvalidCheckpointBeneficiary"
        ELSE IF checkpoint /\ h.Authorize THEN "errInvalidCheckpointVote"
        ELSE IF ~checkpoint /\ h.Extra # {} THEN "errExtraSigners"
        ELSE "nil"

(* verifyCascadingFields, with the outcome s of the snapshot lookup. *)
verifyCascadingFields(s, number, h) ==
    [err     |-> IF s.err # "nil" THEN s.err
                 ELSE IF number % Epoch = 0 /\ h.Extra # s.snap.Signers
                 THEN "errMismatchingCheckpointSigners" ELSE verifySeal(s.snap, number, h),
     recents |-> s.recents,
     disk    |-> s.disk]

(* verifyHeader of h on top of block c: [err, recents, disk]. *)
verifyHeader(cache, stored, c, h) ==
    LET alone == StandaloneError(Len(c) + 1, h)
    IN  IF alone # "nil" THEN [err |-> alone, recents |-> cache, disk |-> stored]
        ELSE verifyCascadingFields(Snapshot(cache, stored, c), Len(c) + 1, h)

(***************************************************************************)
(* Prepare of a block on top of c, for the given signer.  The code never   *)
(* fills the proposals map, so no vote is cast.                            *)
(***************************************************************************)
(* Mutant: the turn is that of the parent's number. *)
prepared_ParentTurn(c, s, signer) ==
    [Signer |-> signer, Coinbase |-> ZeroAddr, Authorize |-> FALSE,
     Extra |-> IF (Len(c) + 1) % Epoch = 0 THEN s.Signers ELSE {},
     Difficulty |-> TurnDifficulty(s, s.Number, signer)]

prepared(c, s, signer) ==
    [Signer |-> signer, Coinbase |-> ZeroAddr, Authorize |-> FALSE,
     Extra |-> IF (Len(c) + 1) % Epoch = 0 THEN s.Signers ELSE {},
     Difficulty |-> TurnDifficulty(s, s.Number + 1, signer)]

-----------------------------------------------------------------------------
Init ==
    /\ db = {<<>>}
    /\ canonical = <<>>
    /\ recents = <<>>
    /\ disk = [c \in {} |-> newSnapshot(0, {})]
    /\ batch = <<>>
    /\ inserted = 0
    /\ results = <<>>

(* A batch of headers arrives on top of a known block. *)
StartBatch(c) ==
    /\ results = <<>> /\ c # batch
    /\ batch' = c
    /\ inserted' = Len(c)
    /\ UNCHANGED <<db, canonical, recents, disk, results>>

(* VerifyHeaders goes on after a header that failed, until it is told to abort. *)
VerifyNext(h) ==
    /\ Len(batch) < MaxNumber /\ Len(results) < MaxAhead
    /\ Cardinality(db) + Len(results) < MaxBlocks
    /\ LET r == verifyHeader(recents, disk, batch, h)
       IN  /\ batch' = Append(batch, h)
           /\ results' = Append(results, r.err)
           /\ recents' = r.recents
           /\ disk' = r.disk
    /\ UNCHANGED <<db, canonical, inserted>>

(***************************************************************************)
(* The chain takes the results in order: a good block becomes the head,    *)
(* unless it is on the canonical chain already; a bad one ends the batch.  *)
(***************************************************************************)
InsertNext ==
    /\ results # <<>>
    /\ IF Head(results) = "nil"
       THEN /\ LET block == Prefix(batch, inserted + 1)
               IN  /\ db' = db \cup {block}
                   /\ canonical' = IF IsPrefix(block, canonical) THEN canonical ELSE block
            /\ inserted' = inserted + 1
            /\ results' = Tail(results)
            /\ UNCHANGED batch
       ELSE /\ batch' = Prefix(batch, inserted)
            /\ results' = <<>>
            /\ UNCHANGED <<db, canonical, inserted>>
    /\ UNCHANGED <<recents, disk>>

(* Prepare and CalcDifficulty look the snapshot of the head up. *)
Prepare ==
    LET r == Snapshot(recents, disk, canonical)
    IN  /\ recents' = r.recents
        /\ disk' = r.disk
        /\ UNCHANGED <<db, canonical, batch, inserted, results>>

(* NewBlockChain on an empty cache: it verifies the header of the head. *)
Boot(stored) ==
    LET r == IF canonical = <<>> THEN [recents |-> <<>>, disk |-> stored]
             ELSE verifyHeader(<<>>, stored, Front(canonical), Last(canonical))
    IN  /\ recents' = r.recents
        /\ disk' = r.disk
        /\ batch' = canonical
        /\ inserted' = Len(canonical)
        /\ results' = <<>>
        /\ UNCHANGED canonical

(* The node stops and starts again: the cache is lost, the batch too. *)
Restart ==
    /\ Boot(disk)
    /\ UNCHANGED db

(* The database is set up anew from the freezer: only the canonical headers are left. *)
Reinit ==
    /\ Boot([c \in {} |-> newSnapshot(0, {})])
    /\ db' = {Prefix(canonical, k) : k \in 0 .. Len(canonical)}

(***************************************************************************)
(* The headers that arrive on top of c: of any signer with any ballot; and *)
(* one with a wrong difficulty, and one with a wrong list of signers.      *)
(***************************************************************************)
Arriving(c) ==
    LET s == Snapshot(recents, disk, c).snap
        good(signer, ballot) ==
            [prepared(c, s, signer) EXCEPT !.Coinbase = ballot[1], !.Authorize = ballot[2]]
        made  == {good(signer, ballot) : signer \in Addr \ {ZeroAddr}, ballot \in Ballots}
        plain == CHOOSE h \in made : h.Signer \in s.Signers /\ h.Coinbase = ZeroAddr
    IN  made \cup {[plain EXCEPT !.Difficulty = 3 - @], [plain EXCEPT !.Extra = {ZeroAddr}]}

Next ==
    \/ \E c \in db : StartBatch(c)
    \/ \E h \in Arriving(batch) : VerifyNext(h)
    \/ InsertNext
    \/ Prepare
    \/ Restart

Spec == Init /\ [][Next]_vars

(* The same, for a node that may also be set up anew from its freezer. *)
ReinitSpec == Init /\ [][Next \/ Reinit]_vars
-----------------------------------------------------------------------------
(* Every block of the database has its ancestors there; the cache respects its capacity. *)
TypeOK ==
    /\ \A c \in db : \A k \in 0 .. Len(c) : Prefix(c, k) \in db
    /\ canonical \in db /\ db \subseteq Seq(FullHeader)
    /\ Len(recents) <= InmemorySnapshots
    /\ \A i, j \in DOMAIN recents : recents[i].hash = recents[j].hash => i = j
    /\ Prefix(batch, inserted) \in db /\ Len(batch) = inserted + Len(results)

(* The snapshot of block c by the definition: all headers applied to the genesis snapshot. *)
Reference(c) == applyAll(newSnapshot(0, GenesisSigners), c)

(***************************************************************************)
(* Whatever was verified, in whatever order, on whatever fork, and however *)
(* often the node restarted, a snapshot found under a block is the one     *)
(* that block's own history defines.  Two nodes therefore agree on it.     *)
(***************************************************************************)
CachesCoherent ==
    /\ \A i \in DOMAIN recents : Reference(recents[i].hash) = [err |-> "nil", snap |-> recents[i].snap]
    /\ \A c \in DOMAIN disk : Reference(c) = [err |-> "nil", snap |-> disk[c]]

(***************************************************************************)
(* A header that verifySeal let into the database is one that apply takes, *)
(* so that a block can be built on it: errRecentlySigned is given by both  *)
(* or by none.                                                             *)
(***************************************************************************)
AcceptedHeadersApply ==
    \A c \in db : Reference(c).err = "nil"

(***************************************************************************)
(* A header that Prepare makes on the head, signed by a signer whose turn  *)
(* to pause is over, is one that verifyHeader accepts: the two agree on    *)
(* the turn, the difficulty and the signer list of a checkpoint.           *)
(***************************************************************************)
PreparedHeaderVerifies ==
    LET s == Snapshot(recents, disk, canonical)
    IN  s.err = "nil" =>
            \A x \in s.snap.Signers :
                LET h == prepared(canonical, s.snap, x)
                IN  ApplyError(s.snap, h) = "nil" =>
                        verifyHeader(recents, disk, canonical, h).err = "nil"

(* Snapshot s agrees with the whole history of block c, up to missing recent signers. *)
SoundUpToRecents(c, s) ==
    LET r == Reference(c).snap
    IN  /\ s.Signers = r.Signers /\ s.Votes = r.Votes /\ s.Tally = r.Tally
        /\ \A b \in DOMAIN s.Recents : b \in DOMAIN r.Recents /\ s.Recents[b] = r.Recents[b]

(***************************************************************************)
(* A snapshot built on a trusted checkpoint has the signers and the votes  *)
(* of the block's whole history, on the canonical chain and on a fork: all *)
(* it may lack is recent signers from before the checkpoint.               *)
(***************************************************************************)
CheckpointsSound ==
    /\ \A i \in DOMAIN recents : SoundUpToRecents(recents[i].hash, recents[i].snap)
    /\ \A c \in DOMAIN disk : SoundUpToRecents(c, disk[c])
=============================================================================
