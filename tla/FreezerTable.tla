---------------------------- MODULE FreezerTable ----------------------------
(***************************************************************************)
(* One table of the ancient store: core/rawdb/freezer_table.go with the    *)
(* batch that appends to it (freezer_batch.go) and its metadata file       *)
(* (freezer_meta.go).  A table is an index file, numbered data files and a *)
(* metadata file, none of which is written atomically with another.  Every *)
(* item is one unit long and a data file holds MaxFileSize units, so an    *)
(* index entry <<file, end>> is the source's indexEntry and offsets into   *)
(* the index are counted in entries.                                       *)
(*                                                                         *)
(* A file has the content the process sees (vol) and the content that is   *)
(* known to be on the disk (dur).  An operation is the sequence of disks   *)
(* it goes through, one per system call whose loss can be told apart; the  *)
(* table's lock lets no other operation see them, but a crash may fall     *)
(* between any two of them, in the middle of the recovery too.             *)
(***************************************************************************)
EXTENDS Integers, Sequences, FiniteSets, SequencesExt

CONSTANTS
    MaxFileSize,    \* t.maxFileSize, in items
    MaxWrites,      \* bound: how many items are ever appended
    MaxCrash        \* bound: how many crashes happen

VARIABLES
    disk,     \* [index, data, meta]: the files
    headId,   \* t.headId, the data file that is appended to
    open,     \* is the table open, waiting to be recovered, or beyond recovery
    log,      \* history: log[i + 1] is the value last stored as item i
    flushed,  \* history: how many items the caller knows to be flushed
    writes, crashes

table == <<disk, headId, open, log, flushed, writes, crashes>>

Garbage == 0
ZeroEntry == <<0, 0>>

File(content) == [vol |-> content, dur |-> content]
Written(f, content) == [f EXCEPT !.vol = @ \o content]
Cut(f, n) == [f EXCEPT !.vol = SubSeq(@, 1, n)]
Synced(f) == [f EXCEPT !.dur = f.vol]

\* What the loaded index says: items removed, the first file, items in all.
itemOffset(d) == d.index.vol[1][2]
tailId(d) == d.index.vol[1][1]
items(d) == itemOffset(d) + Len(d.index.vol) - 1
itemHidden(d) == d.meta.vol.tail
flushOffset(d) == d.meta.vol.off

\* The last entry; a table without items starts at the beginning of its tail file.
lastIndex(d) ==
    IF Len(d.index.vol) = 1 THEN <<tailId(d), 0>> ELSE Last(d.index.vol)

setVirtualTail(d, t, sync) ==
    LET m == [d.meta EXCEPT !.vol.tail = t]
    IN  [d EXCEPT !.meta = IF sync THEN Synced(m) ELSE m]

setFlushOffset(d, n) ==
    [d EXCEPT !.meta = Synced([d.meta EXCEPT !.vol.off = n])]

SyncIndex(d) == [d EXCEPT !.index = Synced(@)]
SyncHead(d, f) == [d EXCEPT !.data[f] = Synced(@)]

\* A sequence of disks extended by one more step on its last disk.
Step(ds, Op(_)) == Append(ds, Op(Last(ds)))

\* Mutant: the offset is published before the data file is on the disk.
doSync_OffsetFirst(ds, f) ==
    LET a == Step(ds, LAMBDA d : setFlushOffset(SyncIndex(d), Len(d.index.vol)))
    IN  Step(a, LAMBDA d : SyncHead(d, f))
doSync(ds, f) ==
    LET a == Step(ds, SyncIndex)
        b == Step(a, LAMBDA d : SyncHead(d, f))
    IN  Step(b, LAMBDA d : setFlushOffset(d, Len(d.index.vol)))

-----------------------------------------------------------------------------
(* Appending: freezerTableBatch.appendItem and commit.                     *)

\* An item that does not fit first sends the head file to the disk and moves
\* on to the next file, which is emptied when it exists.  The batch has then
\* nothing buffered: data is written before the index entry that names it.
advanceHead(ds, f) ==
    Step(doSync(ds, f), LAMBDA d : [d EXCEPT !.data[f + 1].vol = <<>>])

commit(ds, f, x) ==
    LET a == Step(ds, LAMBDA d : [d EXCEPT !.data[f] = Written(@, <<x>>)])
    IN  Step(a, LAMBDA d :
             [d EXCEPT !.index = Written(@, << <<f, Len(d.data[f].vol)>> >>)])

Appended(d, x) ==
    IF Len(d.data[headId].vol) + 1 > MaxFileSize
    THEN [steps |-> commit(advanceHead(<<d>>, headId), headId + 1, x),
          head |-> headId + 1]
    ELSE [steps |-> commit(<<d>>, headId, x), head |-> headId]

-----------------------------------------------------------------------------
(* Truncation.                                                             *)

truncateHead(d, n) ==
    LET len == n - itemOffset(d)
        a == Step(<<d>>, LAMBDA e : [e EXCEPT !.index = Cut(@, len + 1)])
        b == Step(a, SyncIndex)
        c == Step(b, LAMBDA e : IF flushOffset(e) > len + 1
                                THEN setFlushOffset(e, len + 1) ELSE e)
        expected == lastIndex(Last(c))
        f == Step(c, LAMBDA e : [e EXCEPT !.data =
                 [k \in DOMAIN @ |-> CASE k < expected[1] -> @[k]
                                       [] k = expected[1] -> Cut(@[k], expected[2])
                                       [] OTHER -> File(<<>>)]])
    IN  [steps |-> Step(f, LAMBDA e : SyncHead(e, expected[1])),
         head |-> expected[1]]

\* The file the new first item is in.
newTailId(d, n) ==
    IF items(d) = n THEN headId ELSE d.index.vol[n - itemOffset(d) + 2][1]

\* The first item of that file: what is removed from the index goes up to it.
newDeleted(d, n) ==
    CHOOSE k \in itemOffset(d) .. n :
        /\ \A i \in k .. n - 1 : d.index.vol[i - itemOffset(d) + 2][1] = newTailId(d, n)
        /\ k > itemOffset(d) =>
             d.index.vol[k - 1 - itemOffset(d) + 2][1] # newTailId(d, n)

Flushing(ds) == doSync(ds, headId)

truncateTail(d, n) ==
    LET a == Step(<<d>>, LAMBDA e : setVirtualTail(e, n, FALSE))
        b == Flushing(a)
        shorten == newDeleted(d, n) - itemOffset(d)
        c == Step(b, LAMBDA e : [e EXCEPT !.index.vol =
                 << <<newTailId(d, n), newDeleted(d, n)>> >>
                     \o SubSeq(@, shorten + 2, Len(@))])
        f == Step(c, SyncIndex)
        g == Step(f, LAMBDA e : [e EXCEPT !.data =
                 [k \in DOMAIN @ |-> IF k < newTailId(d, n) THEN File(<<>>) ELSE @[k]]])
    IN  IF tailId(d) = newTailId(d, n) THEN a
        ELSE Step(g, LAMBDA e : setFlushOffset(e, flushOffset(e) - shorten))

-----------------------------------------------------------------------------
(* Opening: newTable and repair.                                           *)

\* checkIndexItems, and the rule for the first item after the head entry.
InOrder(index, i) ==
    LET a == index[i - 1]
        b == index[i]
    IN  IF i = 2 THEN b[1] \in {a[1], a[1] + 1}
        ELSE \/ b[1] = a[1] /\ b[2] >= a[2]
             \/ b[1] = a[1] + 1 /\ b[2] # 0

checkIndex(d) ==
    LET bad == {i \in 2 .. Len(d.index.vol) : ~InOrder(d.index.vol, i)}
    IN  IF bad = {} THEN d
        ELSE [d EXCEPT !.index = Cut(@, (CHOOSE i \in bad : \A j \in bad : i <= j) - 1)]

repairIndex(ds) ==
    LET d == Last(ds)
        size == Len(d.index.vol)
    IN  CASE size = flushOffset(d) -> ds
          [] size > flushOffset(d) ->
               Append(ds, [d EXCEPT !.index = Cut(@, flushOffset(d))])
          [] OTHER -> Append(ds, setFlushOffset(d, size))

\* One turn of the loop that brings the index and the head file in line.
Aligned(d) == lastIndex(d)[2] = Len(d.data[lastIndex(d)[1]].vol)

Align(ds) ==
    LET d == Last(ds)
        entry == lastIndex(d)
        size == Len(d.index.vol)
    IN  IF entry[2] < Len(d.data[entry[1]].vol)
        THEN Append(ds, [d EXCEPT !.data[entry[1]] = Cut(@, entry[2])])
        ELSE LET a == Append(ds, [d EXCEPT !.index = Cut(@, size - 1)])
             IN  IF flushOffset(d) > size - 1
                 THEN Step(a, LAMBDA e : setFlushOffset(e, size - 1)) ELSE a

\* At most every entry is dropped and one file is cut.
AlignAll(ds) ==
    FoldLeft(LAMBDA acc, i : IF Aligned(Last(acc)) THEN acc ELSE Align(acc),
             ds, [i \in 1 .. Len(Last(ds).index.vol) + 1 |-> i])

repair(d) ==
    LET a == repairIndex(<<d, checkIndex(d)>>)
        b == Step(a, LAMBDA e : IF itemOffset(e) > e.meta.vol.tail
                                THEN setVirtualTail(e, itemOffset(e), TRUE) ELSE e)
        c == AlignAll(b)
    IN  Step(c, LAMBDA e :
            SyncHead([SyncIndex(e) EXCEPT !.meta = Synced(@)], lastIndex(e)[1]))

\* newTable asks for the table's size, and sizeHidden reads the index entry
\* of the last hidden item.
Opens(d) == itemHidden(d) <= itemOffset(d) \/ itemHidden(d) <= items(d)

-----------------------------------------------------------------------------
(* Reading: retrieveItems for one item.                                    *)

Retrieve(d, i) ==
    LET entry == d.index.vol[i - itemOffset(d) + 2]
    IN  d.data[entry[1]].vol[entry[2]]

-----------------------------------------------------------------------------
(* Crashes.                                                                *)

\* An unsynced file keeps a part of what was appended to it, and the kernel
\* may have extended it without writing the content; an unsynced truncation
\* or replacement either happened or did not.
AfterCrash(f, garbage) ==
    IF IsPrefix(f.dur, f.vol)
    THEN {[i \in 1 .. n |-> IF i \in lost THEN garbage ELSE f.vol[i]] :
            n \in Len(f.dur) .. Len(f.vol),
            lost \in SUBSET (Len(f.dur) + 1 .. Len(f.vol))}
    ELSE {f.dur, f.vol}

Lose(d) ==
    LET dirty == {k \in DOMAIN d.data : d.data[k].vol # d.data[k].dur}
        lost == [k \in dirty |-> AfterCrash(d.data[k], Garbage)]
    IN  \E index \in AfterCrash(d.index, ZeroEntry), meta \in {d.meta.vol, d.meta.dur} :
        \E data \in {f \in [dirty -> UNION Range(lost)] : \A k \in dirty : f[k] \in lost[k]} :
            disk' = [index |-> File(index), meta |-> File(meta),
                     data |-> [k \in DOMAIN d.data |->
                                  IF k \in dirty THEN File(data[k]) ELSE d.data[k]]]

-----------------------------------------------------------------------------
(* Actions.                                                                *)

Fresh == writes + 1

\* The operations the callers may start, with what they leave in the history.
CanAppend == writes < MaxWrites

CanTruncateHead(n) == n < items(disk) /\ n >= itemHidden(disk)

\* truncateTail accepts any item of the table; its caller, the path database,
\* never prunes a history above the last flush (PrunesFlushedOnly of PathDB).
CanTruncateTail(n) == n > itemHidden(disk) /\ n <= flushed

\* freezerTableBatch.AppendRaw and commit; the periodic sync is Sync.
AppendItem ==
    LET r == Appended(disk, Fresh)
    IN  /\ open = "yes"
        /\ CanAppend
        /\ disk' = Last(r.steps)
        /\ headId' = r.head
        /\ log' = Append(SubSeq(log, 1, items(disk)), Fresh)
        /\ flushed' = IF r.head = headId THEN flushed ELSE items(disk)
        /\ writes' = Fresh
        /\ UNCHANGED <<open, crashes>>

Sync ==
    /\ open = "yes"
    /\ flushed < items(disk)
    /\ disk' = Last(doSync(<<disk>>, headId))
    /\ flushed' = items(disk)
    /\ UNCHANGED <<headId, open, log, writes, crashes>>

TruncateHead ==
    \E n \in 0 .. MaxWrites :
        LET r == truncateHead(disk, n)
        IN  /\ open = "yes"
            /\ CanTruncateHead(n)
            /\ disk' = Last(r.steps)
            /\ headId' = r.head
            /\ log' = SubSeq(log, 1, n)
            /\ flushed' = IF flushed > n THEN n ELSE flushed
            /\ UNCHANGED <<open, writes, crashes>>

TruncateTail ==
    \E n \in 0 .. MaxWrites :
        /\ open = "yes"
        /\ CanTruncateTail(n)
        /\ disk' = Last(truncateTail(disk, n))
        /\ flushed' = IF tailId(disk) = newTailId(disk, n) THEN flushed ELSE items(disk)
        /\ UNCHANGED <<headId, open, log, writes, crashes>>

\* The disks the running operation goes through before it is done, with the
\* number of items that are flushed whatever happens to it.
Interrupted ==
    {[disk |-> disk, flushed |-> flushed, log |-> log]}
    \cup {[disk |-> d, flushed |-> flushed, log |-> Append(SubSeq(log, 1, items(disk)), Fresh)] :
             d \in IF CanAppend THEN ToSet(Appended(disk, Fresh).steps) ELSE {}}
    \cup {[disk |-> d, flushed |-> flushed, log |-> log] : d \in ToSet(doSync(<<disk>>, headId))}
    \cup (UNION {{[disk |-> d, flushed |-> IF flushed > n THEN n ELSE flushed, log |-> log] :
             d \in ToSet(truncateHead(disk, n).steps)} : n \in {k \in 0 .. MaxWrites : CanTruncateHead(k)}})
    \cup (UNION {{[disk |-> d, flushed |-> flushed, log |-> log] :
             d \in ToSet(truncateTail(disk, n))} : n \in {k \in 0 .. MaxWrites : CanTruncateTail(k)}})

Crash ==
    /\ open = "yes"
    /\ crashes < MaxCrash
    /\ \E at \in Interrupted :
         /\ Lose(at.disk)
         /\ flushed' = at.flushed
         /\ log' = at.log
    /\ writes' = IF Len(log') > Len(log) THEN Fresh ELSE writes
    /\ open' = "no"
    /\ crashes' = crashes + 1
    /\ UNCHANGED headId

CrashWhileOpening ==
    /\ open = "no"
    /\ crashes < MaxCrash
    /\ \E d \in ToSet(repair(disk)) : Lose(d)
    /\ crashes' = crashes + 1
    /\ UNCHANGED <<headId, open, log, flushed, writes>>

Open ==
    LET d == Last(repair(disk))
    IN  /\ open = "no"
        /\ disk' = d
        /\ headId' = lastIndex(d)[1]
        /\ open' = IF Opens(d) THEN "yes" ELSE "failed"
        /\ UNCHANGED <<log, flushed, writes, crashes>>

\* A new table, opened: its first entry is written and flushed.
Init ==
    /\ disk = [index |-> File(<<ZeroEntry>>),
               data |-> [k \in 0 .. MaxWrites |-> File(<<>>)],
               meta |-> File([tail |-> 0, off |-> 1])]
    /\ headId = 0
    /\ open = "yes"
    /\ log = <<>>
    /\ flushed = 0
    /\ writes = 0
    /\ crashes = 0

Next == AppendItem \/ Sync \/ TruncateHead \/ TruncateTail \/ Crash \/ CrashWhileOpening \/ Open

Spec == Init /\ [][Next]_table

-----------------------------------------------------------------------------
(* Properties.                                                             *)

\* Every item an open table offers is the value that was last stored under
\* its number: never garbage a power failure left, never what was there before
\* the head was truncated and written anew.
ReadsWhatWasWritten ==
    open = "yes" =>
        \A i \in itemHidden(disk) .. items(disk) - 1 :
            i >= itemOffset(disk) /\ Retrieve(disk, i) = log[i + 1]

\* An item that was flushed before a crash, by an explicit sync or because a
\* later item went to the next file, is still in the table after it.
FlushedSurvives ==
    open = "yes" => items(disk) >= flushed

\* "These properties are designed with error resilience, allowing them to be
\* automatically corrected after an error" (freezer_meta.go): a table can be
\* opened after every crash.
OpensAfterCrash == open # "failed"
=============================================================================
