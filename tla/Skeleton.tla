------------------------------- MODULE Skeleton -------------------------------
(***************************************************************************)
(* The skeleton of eth/downloader: the headers of the chain that the       *)
(* consensus client names are fetched backwards from its head, in batches  *)
(* from several peers, until they meet the local chain; then the           *)
(* backfiller imports the blocks forwards.  Every new head that does not   *)
(* extend the chain starts another subchain, and subchains are merged when *)
(* they meet.  The progress in memory and the one on disk are equal        *)
(* whenever no batch is being built, so there is one variable for both.    *)
(* The finalized number, which only Bounds reports, is left out.           *)
(***************************************************************************)
EXTENDS Naturals, Sequences, SequencesExt

CONSTANTS
    Nil,
    MaxNumber, ForkAt,   \* the blocks: two branches that part at number ForkAt
    requestHeaders, scratchHeaders,
    Peers,
    ShorterHeads,        \* may the client name a head below the local or the last one?
    MaxUpdates, MaxFaults

VARIABLES
    db,       \* headers: the skeleton headers by number; status: the subchains
    chain,    \* blocks: with body and receipts; current: the head block
    sk,       \* the loop of the skeleton
    conn,     \* the peers, as the peer set knows them
    filler,   \* the backfiller
    target,   \* the last head that was accepted
    spent     \* how often the environment has acted

vars == <<db, chain, sk, conn, filler, target, spent>>

-------------------------------------------------------------------------------
(* A header is identified by its number and its branch. *)
Block == {h \in (0 .. MaxNumber) \X {0, 1} : h[2] = 1 => h[1] >= ForkAt}
Ancestor(h, n) == <<n, IF n < ForkAt THEN 0 ELSE h[2]>>
ParentHash(h) == Ancestor(h, h[1] - 1)
IsCanonical(h) == h[1] <= chain.current[1] /\ Ancestor(chain.current, h[1]) = h

ReadSkeletonHeader(d, n) == IF n \in DOMAIN d.headers THEN d.headers[n] ELSE Nil

Numbers == 1 .. MaxNumber
Slots == 1 .. scratchHeaders
Tasks == 1 .. scratchHeaders \div requestHeaders
EmptySpace == [i \in Slots |-> Nil]
NoOwners == [t \in Tasks |-> Nil]

\* Outside of a cycle the loop holds nothing.
Outside(pc, next) ==
    [pc |-> pc, next |-> next, linked |-> FALSE, head |-> 0, space |-> EmptySpace,
     owners |-> NoOwners, idles |-> {}, requests |-> {}]

Init ==
    /\ db = [headers |-> [n \in Numbers |-> Nil], status |-> <<>>]
    /\ chain = [blocks |-> {<<0, 0>>, <<1, 0>>}, current |-> <<1, 0>>]
    /\ sk = Outside("startup", Nil)
    /\ conn = [p \in Peers |-> "on"]
    /\ filler = [filling |-> FALSE, filled |-> Nil, pc |-> "idle", from |-> 0, todo |-> <<>>]
    /\ target = Nil
    /\ spent = [updates |-> 0, faults |-> 0]

-------------------------------------------------------------------------------
(* The subchains, newest first. *)

\* Mutant: a subchain that reaches above the new head is not cut.
Trimmed_Uncut(subs, n) == SelectSeq(subs, LAMBDA c : c.Tail < n)
\* Drop the subchains above the new head, cut the first that overlaps it.
Trimmed(subs, n) ==
    LET i    == SelectInSeq(subs, LAMBDA c : c.Tail < n)
        kept == IF i = 0 THEN <<>> ELSE SubSeq(subs, i, Len(subs))
    IN  IF kept # <<>> /\ kept[1].Head >= n THEN [kept EXCEPT ![1].Head = n - 1] ELSE kept

initSync(d, head) ==
    LET n       == head[1]
        fresh   == [Head |-> n, Tail |-> n, Next |-> ParentHash(head)]
        kept    == Trimmed(d.status, n)
        extends == kept # <<>> /\ kept[1].Head = n - 1
                   /\ ReadSkeletonHeader(d, n - 1) = ParentHash(head)
    IN  [headers |-> [d.headers EXCEPT ![n] = head],
         status  |-> IF extends THEN [kept EXCEPT ![1].Head = n] ELSE <<fresh>> \o kept]

\* The head that is announced again, alone in its subchain.
SameHead(d, head) ==
    /\ d.status[1].Head = d.status[1].Tail
    /\ ReadSkeletonHeader(d, head[1]) = head

\* processNewHead: whether a head fits, and what it does.
Extends(d, head) ==
    LET last == d.status[1]
        n    == head[1]
    IN  IF last.Tail >= n THEN SameHead(d, head)
        ELSE last.Head + 1 >= n /\ ReadSkeletonHeader(d, n - 1) = ParentHash(head)

processNewHead(d, head) ==
    IF d.status[1].Tail >= head[1] THEN d
    ELSE [headers |-> [d.headers EXCEPT ![head[1]] = head],
          status  |-> [d.status EXCEPT ![1].Head = head[1]]]

\* The first subchain has grown into the next ones: cut or drop them, and merge
\* the first that continues it.
RECURSIVE overlap(_, _)
overlap(subs, merged) ==
    IF Len(subs) = 1 \/ subs[2].Head < subs[1].Tail THEN [subs |-> subs, merged |-> merged]
    ELSE IF subs[2].Tail >= subs[1].Tail THEN overlap(RemoveAt(subs, 2), merged)
    ELSE IF ReadSkeletonHeader(db, subs[1].Tail - 1) = subs[1].Next
         THEN overlap(<<[subs[1] EXCEPT !.Tail = subs[2].Tail, !.Next = subs[2].Next]>>
                      \o SubSeq(subs, 3, Len(subs)), TRUE)
    ELSE [subs |-> [subs EXCEPT ![2].Head = subs[1].Tail - 1], merged |-> merged]

-------------------------------------------------------------------------------
(* The tasks of the scratch space and their requests. *)

\* assignTasks: the idle peers, in the order of their capacity, take the tasks
\* that nobody has, down to the genesis.
MinOf(a, b) == IF a < b THEN a ELSE b
Assign(s, order) ==
    LET free  == SelectSeq([t \in Tasks |-> t],
                           LAMBDA t : s.owners[t] = Nil /\ (t - 1) * requestHeaders < s.head)
        n     == MinOf(Len(order), Len(free))
        taken == {i \in 1 .. n : TRUE}
    IN  [s EXCEPT
           !.owners   = [t \in Tasks |-> IF \E i \in taken : free[i] = t
                                         THEN order[CHOOSE i \in taken : free[i] = t] ELSE @[t]],
           !.requests = @ \cup {[peer |-> order[i], live |-> TRUE,
                                 head |-> s.head - (free[i] - 1) * requestHeaders] : i \in taken},
           !.idles    = @ \ {order[i] : i \in taken}]

Assigned(s) == IF s.linked THEN {s} ELSE {Assign(s, order) : order \in SetToSeqs(s.idles)}

\* revertRequest: the task is free again.
Reverted(s, r) ==
    IF r.live THEN [s EXCEPT !.owners[(s.head - r.head) \div requestHeaders + 1] = Nil] ELSE s

\* The loop body of processResponse, until the scratch space has a gap at its
\* head, a delivery does not fit, or the subchain is linked or merged.
Matching(subs, h) == subs[1].Next = h

\* Mutant: the headers are moved and their owners are not.
Shifted_Not(owners) == owners
\* The owners move up with the headers of their tasks.
Shifted(owners) == [t \in Tasks |-> IF t + 1 \in Tasks THEN owners[t + 1] ELSE Nil]

RECURSIVE consume(_)
consume(m) ==
    LET first == m.subs[1]
        batch == SelectSeq(SubSeq(m.space, 1, requestHeaders), LAMBDA h : h # Nil)
        link  == SelectInSeq(batch, LAMBDA h : ParentHash(h) \in chain.blocks)
        used  == IF link = 0 THEN batch ELSE SubSeq(batch, 1, link)
        grown == [first EXCEPT !.Tail = @ - Len(used), !.Next = ParentHash(Last(used))]
        put   == [n \in Numbers |-> LET i == SelectInSeq(used, LAMBDA h : h[1] = n)
                                    IN  IF i = 0 THEN m.headers[n] ELSE used[i]]
        old   == m.subs[2]
        stale == Len(m.subs) = 2 /\ old.Head = old.Tail /\ old.Head < grown.Tail
        over  == overlap(<<grown>> \o Tail(m.subs), FALSE)
        next  == [m EXCEPT
                    !.subs = over.subs, !.headers = put, !.merged = over.merged,
                    !.head = @ - Len(used),
                    !.space = [i \in Slots |-> IF i + requestHeaders \in Slots
                                               THEN @[i + requestHeaders] ELSE Nil],
                    !.owners = Shifted(@)]
    IN  CASE m.space[1] = Nil -> m
          [] ~Matching(m.subs, m.space[1]) ->
                 [m EXCEPT !.space = [i \in Slots |-> IF i <= requestHeaders THEN Nil ELSE @[i]],
                           !.drop = {m.owners[1]}, !.owners[1] = Nil]
          [] link # 0 ->
                 [m EXCEPT !.subs = <<grown>>, !.linked = TRUE,
                           !.headers = IF stale THEN [put EXCEPT ![old.Head] = Nil] ELSE put]
          [] OTHER -> CHOOSE c \in {IF v.merged THEN v ELSE consume(v) : v \in {next}} : TRUE

\* The chain of headers that a peer sends, on the branch of header h.
Delivered(s, h) ==
    [i \in Slots |->
        LET n == s.head + 1 - i
        IN  IF i <= s.head /\ n <= h[1] /\ n + requestHeaders > h[1] /\ n >= 1
            THEN Ancestor(h, n) ELSE s.space[i]]

-------------------------------------------------------------------------------
(* The backfiller as the skeleton uses it. *)

resume(f) == IF f.filling THEN f ELSE [filling |-> TRUE, filled |-> Nil, pc |-> "starting", from |-> 0, todo |-> <<>>]

\* What suspend returns, and the backfiller it leaves: the downloader is
\* cancelled, its goroutine may take a while to say so.
Filled == IF filler.filling THEN chain.current ELSE filler.filled
Suspended == IF filler.filling THEN [filler EXCEPT !.pc = "ending", !.from = 0, !.todo = <<>>] ELSE filler

\* cleanStales.  Removed(d, c, m): the headers below m are gone and the first
\* subchain is c.
HeaderAt(d, n) == ReadSkeletonHeader(d, n)
NothingFilled(d, filled) ==
    \/ filled = Nil
    \/ filled[1] + 1 <= d.status[1].Tail
    \/ HeaderAt(d, filled[1]) # filled
    \/ filled[1] < d.status[1].Head /\ ParentHash(d.headers[filled[1] + 1]) # filled

Cleaned(d, filled) ==
    LET c   == d.status[1]
        n   == filled[1]
        end == IF n < c.Head THEN n + 1 ELSE MinOf(n, c.Head + 1)
        new == IF n < c.Head THEN [c EXCEPT !.Tail = n + 1, !.Next = filled]
               ELSE [Head |-> n, Tail |-> n, Next |-> ParentHash(filled)]
    IN  [headers |-> [i \in Numbers |-> IF c.Tail <= i /\ i < end THEN Nil ELSE d.headers[i]],
         status  |-> [d.status EXCEPT ![1] = new]]

cleanStales(d, filled) == IF NothingFilled(d, filled) THEN d ELSE Cleaned(d, filled)

\* The trimming goes out in several batches: what a crash after the one that
\* ends before number m leaves.
PartlyCleaned(d, filled) ==
    IF NothingFilled(d, filled) THEN {}
    ELSE LET c    == d.status[1]
             done == Cleaned(d, filled)
         IN  {[headers |-> [i \in Numbers |-> IF i < m THEN done.headers[i] ELSE d.headers[i]],
               status  |-> [done.status EXCEPT ![1].Tail = m, ![1].Next = ParentHash(d.headers[m])]]
                : m \in {i \in Numbers : done.headers[i] # d.headers[i]}}
-------------------------------------------------------------------------------
(* The cycles of the loop. *)

\* sync, up to its loop: d is the database it finds.
BeginCycle(d) ==
    LET first  == d.status[1]
        linked == Len(d.status) = 1 /\ first.Next \in chain.blocks
        fresh  == [Outside("sync", Nil) EXCEPT !.linked = linked, !.head = first.Tail - 1,
                                               !.idles = {p \in Peers : conn[p] # "off"}]
    IN  /\ sk' \in Assigned(fresh)
        /\ filler' = IF linked THEN resume(Suspended) ELSE Suspended

\* The client names a head again, or another one.
MayName(head) ==
    \/ head = target
    \/ /\ spent.updates < MaxUpdates
       /\ ~ShorterHeads => head[1] >= chain.current[1] /\ (target # Nil => head[1] >= target[1])
Named(head) ==
    /\ MayName(head)
    /\ target' = head
    /\ spent' = IF head = target THEN spent ELSE [spent EXCEPT !.updates = @ + 1]

Startup(head) ==
    /\ sk.pc = "startup" /\ head \notin chain.blocks /\ Named(head)
    /\ db' = initSync(db, head)
    /\ BeginCycle(db')
    /\ UNCHANGED <<chain, conn>>

NewHead(head) ==
    /\ sk.pc = "sync" /\ head \notin chain.blocks /\ Extends(db, head) /\ Named(head)
    /\ db' = processNewHead(db, head)
    /\ sk' \in Assigned(sk)
    /\ filler' = IF sk.linked THEN resume(filler) ELSE filler
    /\ UNCHANGED <<chain, conn>>

\* A forced head that does not fit ends the cycle; the next one starts with it.
Reorged(head) ==
    /\ sk.pc = "sync" /\ head \notin chain.blocks /\ ~Extends(db, head) /\ Named(head)
    /\ sk' = Outside("suspend", head)
    /\ UNCHANGED <<db, chain, conn, filler>>

Terminate ==
    /\ sk.pc = "sync" /\ spent.faults < MaxFaults
    /\ sk' = Outside("terminate", Nil)
    /\ UNCHANGED <<db, chain, conn, filler, target, spent>>

\* The end of a cycle: the backfiller is suspended and the stale headers are
\* removed; then the next cycle begins, unless the process ends.
EndCycle ==
    /\ sk.pc = "suspend"
    /\ LET clean == cleanStales(db, Filled)
       IN  db' = IF sk.next = Nil THEN clean ELSE initSync(clean, sk.next)
    /\ BeginCycle(db')
    /\ UNCHANGED <<chain, conn, target, spent>>

\* A process that starts again has nothing in memory.
Restarted ==
    /\ sk' = Outside("startup", Nil)
    /\ filler' = [filling |-> FALSE, filled |-> Nil, pc |-> "idle", from |-> 0, todo |-> <<>>]
    /\ conn' = [p \in Peers |-> "on"]
    /\ spent' = [spent EXCEPT !.faults = @ + 1]
    /\ UNCHANGED <<chain, target>>

Terminated == sk.pc = "terminate" /\ db' = cleanStales(db, Filled) /\ Restarted

Crash ==
    /\ spent.faults < MaxFaults /\ sk.pc # "startup"
    /\ db' \in {db} \cup (IF sk.pc \in {"suspend", "terminate"} THEN PartlyCleaned(db, Filled) ELSE {})
    /\ Restarted
-------------------------------------------------------------------------------
(* Peers. *)

Join(p) ==
    /\ conn[p] = "off"
    /\ conn' = [conn EXCEPT ![p] = "on"]
    /\ IF sk.pc = "sync" THEN sk' \in Assigned([sk EXCEPT !.idles = @ \cup {p}]) ELSE UNCHANGED sk
    /\ UNCHANGED <<db, chain, filler, target, spent>>

Leave(p) ==
    /\ \/ conn[p] = "dropped" /\ UNCHANGED spent
       \/ conn[p] = "on" /\ spent.faults < MaxFaults /\ spent' = [spent EXCEPT !.faults = @ + 1]
    /\ conn' = [conn EXCEPT ![p] = "off"]
    /\ LET mine == {r \in sk.requests : r.peer = p /\ r.live}
           back == FoldLeft(Reverted, sk, SetToSeq(mine))
           left == [back EXCEPT !.idles = @ \ {p},
                                !.requests = (@ \ mine) \cup {[r EXCEPT !.live = FALSE] : r \in mine}]
       IN  IF sk.pc = "sync" THEN sk' \in Assigned(left) ELSE UNCHANGED sk
    /\ UNCHANGED <<db, chain, filler, target>>

Drop(S) == conn' = [p \in Peers |-> IF p \in S /\ conn[p] = "on" THEN "dropped" ELSE conn[p]]

\* executeTask fails: a timeout, or an answer that is not a chain of headers
\* from the requested number on.
Fail(r) ==
    /\ sk.pc = "sync" /\ spent.faults < MaxFaults
    /\ sk' \in Assigned([Reverted(sk, r) EXCEPT !.requests = @ \ {r}])
    /\ Drop({r.peer})
    /\ spent' = [spent EXCEPT !.faults = @ + 1]
    /\ UNCHANGED <<db, chain, filler, target>>

\* The request is answered with headers of the branch of h; the answer to a
\* request that was given up only makes the peer idle.
ProcessResponse(r, h) ==
    /\ sk.pc = "sync" /\ h[1] = r.head
    /\ IF h = Ancestor(target, r.head) THEN UNCHANGED spent
       ELSE spent.faults < MaxFaults /\ spent' = [spent EXCEPT !.faults = @ + 1]
    /\ LET rest == [sk EXCEPT !.idles = @ \cup {r.peer}, !.requests = @ \ {r}]
           first == [subs |-> db.status, headers |-> db.headers, head |-> sk.head,
                            space |-> Delivered(sk, h), owners |-> sk.owners,
                            drop |-> {}, linked |-> FALSE, merged |-> FALSE]
       IN  \E m \in {consume(v) : v \in {first}} : IF ~r.live THEN sk' \in Assigned(rest) /\ UNCHANGED <<db, conn>>
           ELSE /\ db' = [headers |-> m.headers, status |-> m.subs]
                /\ Drop(m.drop)
                /\ IF m.linked \/ m.merged THEN sk' = Outside("suspend", Nil)
                   ELSE sk' \in Assigned([rest EXCEPT !.head = m.head, !.space = m.space,
                                                      !.owners = m.owners])
    /\ UNCHANGED <<chain, filler, target>>

-------------------------------------------------------------------------------
(* The backfiller, and imports by the engine API. *)

\* InsertChain of one block: a known block of the canonical chain is ignored.
Inserted(h) ==
    IF h \in chain.blocks /\ IsCanonical(h) THEN chain
    ELSE [blocks |-> chain.blocks \cup {h}, current |-> h]

\* findBeaconAncestor: a binary search for the last skeleton header that is a
\* local block.
RECURSIVE search(_, _)
search(start, end) ==
    IF start + 1 >= end THEN start
    ELSE LET check == (start + end) \div 2
         IN  IF db.headers[check] \in chain.blocks THEN search(check, end) ELSE search(start, check)

\* Mutant: the block after the ancestor is taken for known.
findBeaconAncestor_Next(c) == search(c.Tail - 1, MinOf(chain.current[1], c.Head)) + 1
findBeaconAncestor(c) == search(c.Tail - 1, MinOf(chain.current[1], c.Head))

Linkup == LET c == db.status[1] IN db.headers[c.Tail] # Nil /\ ParentHash(db.headers[c.Tail]) \in chain.blocks

StopFilling == filler' = [filling |-> FALSE, filled |-> chain.current, pc |-> "idle", from |-> 0, todo |-> <<>>]

FillStart ==
    /\ filler.pc = "starting"
    /\ LET c == db.status[1]
       IN  IF Linkup
           THEN filler' = [filler EXCEPT !.pc = "fetching", !.from = findBeaconAncestor(c) + 1]
           ELSE StopFilling
    /\ UNCHANGED <<db, chain, sk, conn, target, spent>>

\* fetchHeaders: the skeleton headers up to its head of now.  The parts of the
\* downloader between the two are a queue.
FillFetch ==
    /\ filler.pc = "fetching"
    /\ LET wanted == [i \in 1 .. db.status[1].Head + 1 - filler.from |-> HeaderAt(db, filler.from + i - 1)]
       IN  IF \E i \in DOMAIN wanted : wanted[i] = Nil THEN StopFilling
           ELSE filler' = [filler EXCEPT !.pc = "running", !.todo = wanted]
    /\ UNCHANGED <<db, chain, sk, conn, target, spent>>

FillImport ==
    /\ filler.pc = "running" /\ filler.todo # <<>>
    /\ IF ParentHash(Head(filler.todo)) \in chain.blocks
       THEN chain' = Inserted(Head(filler.todo)) /\ filler' = [filler EXCEPT !.todo = Tail(@)]
       ELSE StopFilling /\ UNCHANGED chain
    /\ UNCHANGED <<db, sk, conn, target, spent>>

FillDone ==
    /\ \/ filler.pc = "running" /\ filler.todo = <<>>
       \/ filler.pc = "ending"
    /\ StopFilling
    /\ UNCHANGED <<db, chain, sk, conn, target, spent>>

\* A payload whose parent is there is executed, and becomes the head when the
\* client names it.
NewPayload(h) ==
    /\ h[1] > 0 /\ h \notin chain.blocks /\ ParentHash(h) \in chain.blocks
    /\ spent.faults < MaxFaults
    /\ chain' = [chain EXCEPT !.blocks = @ \cup {h}]
    /\ spent' = [spent EXCEPT !.faults = @ + 1]
    /\ UNCHANGED <<db, sk, conn, filler, target>>

SetCanonical(h) ==
    /\ h \in chain.blocks /\ h # chain.current /\ Named(h)
    /\ chain' = [chain EXCEPT !.current = h]
    /\ UNCHANGED <<db, sk, conn, filler>>

-------------------------------------------------------------------------------
\* What goes on by itself: the loop, the backfiller, peers that answer, leave
\* when they were dropped and come back, and a client that names its head again.
Work ==
    \/ FillStart \/ FillFetch \/ FillImport \/ FillDone
    \/ EndCycle \/ Terminated
    \/ \E h \in (Block \cap {target}) : Startup(h) \/ NewHead(h) \/ Reorged(h)
    \/ \E p \in Peers : Join(p) \/ (conn[p] = "dropped" /\ Leave(p))
    \/ \E r \in sk.requests : ProcessResponse(r, Ancestor(target, r.head))

\* What only happens MaxUpdates or MaxFaults times.
Disturb ==
    \/ \E h \in Block : Startup(h) \/ NewHead(h) \/ Reorged(h) \/ NewPayload(h) \/ SetCanonical(h)
    \/ Terminate \/ Crash
    \/ \E p \in Peers : Leave(p)
    \/ \E r \in sk.requests : Fail(r) \/ \E h \in Block : ProcessResponse(r, h)

Next == Work \/ Disturb

Spec == Init /\ [][Next]_vars /\ WF_vars(Work)

-------------------------------------------------------------------------------
\* The subchains on disk are what the next run can build on, whatever was cut,
\* merged, trimmed or interrupted: disjoint, newest first, and each of them a
\* chain of headers, every one the parent of the next, down to Next.
SubchainsSound ==
    \A i \in DOMAIN db.status :
        LET c == db.status[i]
        IN  /\ c.Tail <= c.Head /\ c.Tail >= 1
            /\ \A n \in c.Tail .. c.Head : db.headers[n] # Nil
            /\ \A n \in c.Tail + 1 .. c.Head : ParentHash(db.headers[n]) = db.headers[n - 1]
            /\ ParentHash(db.headers[c.Tail]) = c.Next
            /\ i > 1 => c.Head < db.status[i - 1].Tail

\* The skeleton works for the head that was last accepted.
TargetTracked == sk.pc = "sync" /\ target \notin chain.blocks => db.headers[db.status[1].Head] = target

\* The tasks of the scratch space and the requests agree, however the window
\* moves while peers come and go: every request that is still waited for owns
\* the task of its headers, and no two own the same.
TasksOwned ==
    \A r \in sk.requests : r.live =>
        /\ r.head <= sk.head /\ (sk.head - r.head) % requestHeaders = 0
        /\ LET t == (sk.head - r.head) \div requestHeaders + 1
           IN  t \in Tasks /\ sk.owners[t] = r.peer

\* When the backfiller starts, the tail is linked to the local chain: "the chain
\* backfiller was called with a tail that's not linked" is never logged.
FillsFromLink == filler.pc = "starting" /\ sk.pc = "sync" => Linkup

OnTrack == TargetTracked /\ TasksOwned /\ FillsFromLink

\* However often the client went on to another head that is not lower, peers
\* left or lied and the process crashed: a head that the client goes on naming
\* becomes a local block.
TargetReached == target # Nil => target \in chain.blocks
EventuallyReached == []<>TargetReached
===============================================================================
