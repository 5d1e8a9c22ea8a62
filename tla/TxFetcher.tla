------------------------------ MODULE TxFetcher -------------------------------
(***************************************************************************)
(* eth/fetcher/tx_fetcher.go: retrieval of announced transactions.  A hash *)
(* is waiting (it may still be broadcast), queued, or being fetched from   *)
(* one peer with the other announcers as alternates.  One goroutine, loop, *)
(* owns all state; its inputs are announcements, deliveries, drops and two *)
(* timers.                                                                 *)
(*                                                                         *)
(* An absent entry of a map of sets is the empty set.  Whether a hash is   *)
(* known or underpriced is looked up by Notify before the loop sees the    *)
(* announcement, so here any hash may arrive.  Arrival times are the order *)
(* of waitOrder and reqOrder; a timer is the entry it was set for, and     *)
(* when it fires that entry has expired if it is still there.  The order   *)
(* of a request and where the byte limit cuts it are arbitrary, and the    *)
(* announced sizes and kinds that get a peer dropped are left to Drop,     *)
(* which may happen at any time.                                           *)
(***************************************************************************)
EXTENDS TxFetcherState

waiting == <<waitlist, waitslots, waitOrder, waitTimer>>
queued == <<announces, announced>>
inflight == <<fetching, requests, alternates, reqOrder, timeoutTimer>>
counters == <<notified, dropped, broadcast>>
vars == <<waiting, queued, inflight, network, counters>>

Waiting == {h \in Hashes : waitlist[h] # {}}

\* The peers whose request has not timed out.
Live == {p \in Peers : requests[p] # Absent /\ requests[p].hashes # <<>>}

Init ==
    /\ waitlist = [h \in Hashes |-> {}] /\ waitslots = [p \in Peers |-> {}]
    /\ waitOrder = <<>> /\ waitTimer = Off
    /\ announces = [p \in Peers |-> {}] /\ announced = [h \in Hashes |-> {}]
    /\ fetching = [h \in Hashes |-> Absent] /\ alternates = [h \in Hashes |-> {}]
    /\ requests = [p \in Peers |-> Absent] /\ reqOrder = <<>> /\ timeoutTimer = Off
    /\ network = [p \in Peers |-> 0]
    /\ notified = 0 /\ dropped = 0 /\ broadcast = 0
-------------------------------------------------------------------------------
(* Timers. *)

Earliest(order, otherwise) == IF order = <<>> THEN otherwise ELSE Head(order)

rescheduleWait(order) == Earliest(order, Off)

-------------------------------------------------------------------------------
(* scheduleFetches: every active peer that is idle and has announced a hash  *)
(* nobody fetches is sent a request.  `ask' is what each is asked for; the   *)
(* map of peers is walked in any order.  The arguments are the state of the  *)
(* step so far: announces, announced, fetching, requests, alternates, order. *)

Orders(set) == Bijection(1 .. Cardinality(set), set)

Free(anns, fet, p) == {h \in anns[p] : fet[h] = Absent}

Lists(set) ==
    UNION {Orders(s) : s \in {s \in SUBSET set : Cardinality(s) <= MaxTxRetrievals}}

Asked(ask) == UNION {Range(ask[p]) : p \in Peers}

Asks(anns, fet, reqs, actives) ==
    LET idle == {p \in actives : reqs[p] = Absent /\ Free(anns, fet, p) # {}} IN
    {ask \in [Peers -> (UNION {Lists(Free(anns, fet, p)) : p \in idle}) \cup {<<>>}] :
        /\ \A p \in Peers : ask[p] # <<>> => p \in idle /\ Range(ask[p]) \subseteq Free(anns, fet, p)
        /\ \A p, q \in Peers : p # q => Range(ask[p]) \cap Range(ask[q]) = {}
        /\ \A p \in idle : ask[p] = <<>> => Free(anns, fet, p) \subseteq Asked(ask)}

scheduleFetches(anns, annd, fet, reqs, alts, order, actives, net) ==
    \E ask \in Asks(anns, fet, reqs, actives) :
    \E new \in Orders({p \in Peers : ask[p] # <<>>}) :
        LET to(h) == CHOOSE p \in Peers : h \in Range(ask[p]) IN
        /\ announces' = anns
        /\ announced' = [h \in Hashes |-> IF h \in Asked(ask) THEN {} ELSE annd[h]]
        /\ fetching' = [h \in Hashes |-> IF h \in Asked(ask) THEN to(h) ELSE fet[h]]
        /\ alternates' = [h \in Hashes |-> IF h \in Asked(ask) THEN annd[h] ELSE alts[h]]
        /\ requests' = [p \in Peers |-> IF ask[p] = <<>> THEN reqs[p]
                                        ELSE [hashes |-> ask[p], stolen |-> {}]]
        /\ reqOrder' = order \o new
        /\ network' = [p \in Peers |-> IF ask[p] = <<>> THEN net[p] ELSE net[p] + 1]

\* Mutant: the timer is set only when a request is live, as the comment on
\* rescheduleTimeout warns.
rescheduleTimeout_IfLive(order) == Earliest(order, Off)
rescheduleTimeout(order) == Earliest(order, Stale)

\* The end of scheduleFetches: the timer is set if nothing was running before.
timerAfterFetch(before, after, timer) ==
    IF (\A p \in Peers : before[p] = Absent) /\ (\E p \in Peers : after[p] # Absent)
    THEN rescheduleTimeout(reqOrder') ELSE timer

\* The timer keeps running when the request it was set for is gone.
without(p) == IF timeoutTimer = p THEN Stale ELSE timeoutTimer

AllActive(anns) == {p \in Peers : anns[p] # {}}
-------------------------------------------------------------------------------
(* Announcements: case ann := <-f.notify. *)

Used(p) == Cardinality(waitslots[p]) + Cardinality(announces[p])

\* The slice that is kept of a batch that exceeds the allowance.
Kept(p, batch) ==
    LET want == Used(p) + Len(batch) IN
    IF want > MaxTxAnnounces THEN SubSeq(batch, 1, want - MaxTxAnnounces) ELSE batch

Downloading(hs) == {h \in hs : alternates[h] # {}}

Notify(p, batch) ==
    LET hs == Range(Kept(p, batch))
        downloading == Downloading(hs)
        inQueue == {h \in hs \ downloading : announced[h] # {}}
        toWait == hs \ (downloading \cup inQueue)
        new == toWait \ Waiting
        isNew(h) == h \in new
        anns == [announces EXCEPT ![p] = @ \cup downloading \cup inQueue]
        annd == [h \in Hashes |-> IF h \in inQueue THEN announced[h] \cup {p} ELSE announced[h]]
        alts == [h \in Hashes |-> IF h \in downloading THEN alternates[h] \cup {p} ELSE alternates[h]]
        actives == IF announces[p] = {} /\ anns[p] # {} THEN {p} ELSE {}
    IN
    /\ notified < MaxNotify /\ notified' = notified + 1
    /\ Used(p) < MaxTxAnnounces
    /\ waitlist' = [h \in Hashes |-> IF h \in toWait THEN waitlist[h] \cup {p} ELSE waitlist[h]]
    /\ waitslots' = [waitslots EXCEPT ![p] = @ \cup toWait]
    /\ LET added == SelectSeq(Kept(p, batch), isNew)
           blob(h) == h \in Blobs
           other(h) == h \notin Blobs
       IN  waitOrder' = SelectSeq(added, blob) \o waitOrder \o SelectSeq(added, other)
    /\ waitTimer' = IF new \cap Blobs # {} \/ (waitOrder = <<>> /\ waitOrder' # <<>>)
                    THEN Head(waitOrder') ELSE waitTimer
    /\ scheduleFetches(anns, annd, fetching, requests, alts, reqOrder, actives, network)
    /\ timeoutTimer' = timerAfterFetch(requests, requests', timeoutTimer)
    /\ UNCHANGED <<dropped, broadcast>>
-------------------------------------------------------------------------------
(* Timers: case <-waitTrigger and case <-timeoutTrigger. *)

\* The oldest k entries have expired.
WaitTrigger(k) ==
    LET gone == Waiting \cap Range(SubSeq(waitOrder, 1, k))
        anns == [p \in Peers |-> announces[p] \cup (waitslots[p] \cap gone)]
        annd == [h \in Hashes |-> IF h \in gone THEN waitlist[h] ELSE announced[h]]
    IN
    /\ waitTimer # Off
    /\ waitTimer \in Range(waitOrder) => waitTimer \in gone
    /\ waitlist' = [h \in Hashes |-> IF h \in gone THEN {} ELSE waitlist[h]]
    /\ waitslots' = [p \in Peers |-> waitslots[p] \ gone]
    /\ waitOrder' = SubSeq(waitOrder, k + 1, Len(waitOrder))
    /\ waitTimer' = rescheduleWait(waitOrder')
    /\ scheduleFetches(anns, annd, fetching, requests, alternates, reqOrder,
                       UNION {waitlist[h] : h \in gone}, network)
    /\ timeoutTimer' = timerAfterFetch(requests, requests', timeoutTimer)
    /\ UNCHANGED counters

\* The request stays, without hashes, until the peer answers or leaves.
TimedOut(req) == [req EXCEPT !.hashes = <<>>]

\* The hashes of a peer's request that nobody delivered.
Undelivered(late) == UNION {Due(p) : p \in late}

\* The requests of the peers in `late' have expired.
TimeoutTrigger(late) ==
    LET back == Undelivered(late)
        annd == [h \in Hashes |-> IF h \in back THEN alternates[h] \ {fetching[h]} ELSE announced[h]]
        anns == [p \in Peers |-> IF p \in late THEN announces[p] \ Due(p) ELSE announces[p]]
        alts == [h \in Hashes |-> IF h \in back THEN {} ELSE alternates[h]]
        fet == [h \in Hashes |-> IF h \in back THEN Absent ELSE fetching[h]]
        reqs == [p \in Peers |-> IF p \in late THEN TimedOut(requests[p]) ELSE requests[p]]
        alive(p) == p \notin late
        order == SelectSeq(reqOrder, alive)
    IN
    /\ timeoutTimer # Off
    /\ timeoutTimer \in Peers => timeoutTimer \in late
    /\ scheduleFetches(anns, annd, fet, reqs, alts, order, AllActive(anns), network)
    /\ timeoutTimer' = rescheduleTimeout(reqOrder')
    /\ UNCHANGED <<waiting, counters>>
-------------------------------------------------------------------------------
(* Deliveries: case delivery := <-f.cleanup.  A direct delivery answers a      *)
(* request, possibly one that has timed out or whose peer was dropped since;  *)
(* it need not match the request.                                             *)

\* Mutant: a delivery by somebody else is not noted in the request.
Stolen_Never(p, hs, direct, x) == {}
\* What x was asked for that this delivery makes superfluous.
Stolen(p, hs, direct, x) ==
    {h \in hs \ Waiting : fetching[h] = x /\ (x # p \/ ~direct)}

\* The hashes of a request before the last one that was delivered; all of them
\* if none was.
BeforeCutoff(req, hs) ==
    LET hit == {i \in DOMAIN req.hashes : req.hashes[i] \in hs}
        cutoff == IF hit = {} THEN Len(req.hashes) + 1 ELSE CHOOSE i \in hit : \A j \in hit : j <= i
    IN  {req.hashes[i] : i \in 1 .. cutoff - 1}

\* The part both kinds share: every trace of the delivered hashes goes.
Forgotten(f, hs, empty) == [h \in Hashes |-> IF h \in hs THEN empty ELSE f[h]]

Delivery(p, hs, direct, net) ==
    LET known == hs \ Waiting
        undelivered(h) == h \notin hs
        reqs == [x \in Peers |-> IF requests[x] = Absent THEN Absent
                   ELSE [requests[x] EXCEPT !.stolen = @ \cup Stolen(p, hs, direct, x)]]
        anns == [x \in Peers |-> announces[x] \ known]
        annd == Forgotten(announced, known, {})
        alts == Forgotten(alternates, known, {})
        fet == Forgotten(fetching, known, Absent)
    IN
    /\ waitlist' = Forgotten(waitlist, hs, {})
    /\ waitslots' = [x \in Peers |-> waitslots[x] \ (hs \cap Waiting)]
    /\ waitOrder' = SelectSeq(waitOrder, undelivered)
    /\ IF direct /\ requests[p] # Absent
       THEN LET due == Due(p)
                missing == due \ hs
                refused == missing \cap BeforeCutoff(requests[p], hs)
                others(h) == IF h \in refused THEN alts[h] \ {p} ELSE alts[h]
                anns2 == [anns EXCEPT ![p] = @ \ refused]
                annd2 == [h \in Hashes |-> IF h \in missing /\ others(h) # {} THEN others(h) ELSE annd[h]]
                another(x) == x # p
            IN  /\ scheduleFetches(anns2, annd2, Forgotten(fet, due, Absent), [reqs EXCEPT ![p] = Absent],
                                   Forgotten(alts, due, {}), SelectSeq(reqOrder, another), AllActive(anns2), net)
                /\ timeoutTimer' = timerAfterFetch([reqs EXCEPT ![p] = Absent], requests', without(p))
       ELSE /\ announces' = anns /\ announced' = annd /\ alternates' = alts
            /\ fetching' = fet /\ requests' = reqs
            /\ network' = net /\ UNCHANGED <<reqOrder, timeoutTimer>>
    /\ UNCHANGED <<waitTimer, notified, dropped>>

Reply(p, hs) ==
    /\ network[p] > 0
    /\ Delivery(p, hs, TRUE, [network EXCEPT ![p] = @ - 1])
    /\ UNCHANGED broadcast

Broadcast(p, hs) ==
    /\ broadcast < MaxBroadcast /\ broadcast' = broadcast + 1
    /\ Delivery(p, hs, FALSE, network)
-------------------------------------------------------------------------------
(* Peers that leave: case drop := <-f.drop. *)

Drop(p) ==
    LET mine == waitslots[p]
        due == Due(p)
        listed(h) == h \notin mine \/ waitlist[h] # {p}
        another(x) == x # p
        rest(h) == IF h \in due THEN alternates[h] \ {p} ELSE announced[h]
        annd == [h \in Hashes |-> IF h \in announces[p] THEN rest(h) \ {p} ELSE rest(h)]
        anns == [announces EXCEPT ![p] = {}]
        reqs == [requests EXCEPT ![p] = Absent]
        fet == Forgotten(fetching, due, Absent)
        alts == Forgotten(alternates, due, {})
    IN
    /\ dropped < MaxDrop /\ dropped' = dropped + 1
    /\ waitlist' = [h \in Hashes |-> IF h \in mine THEN waitlist[h] \ {p} ELSE waitlist[h]]
    /\ waitslots' = [waitslots EXCEPT ![p] = {}]
    /\ waitOrder' = SelectSeq(waitOrder, listed)
    /\ waitTimer' = IF mine # {} /\ waitOrder' # <<>> THEN Head(waitOrder') ELSE waitTimer
    /\ IF requests[p] = Absent
       THEN /\ announces' = anns /\ announced' = annd
            /\ UNCHANGED <<inflight, network>>
       ELSE /\ scheduleFetches(anns, annd, fet, reqs, alts, SelectSeq(reqOrder, another),
                               AllActive(anns), network)
            /\ timeoutTimer' = rescheduleTimeout(reqOrder')
    /\ UNCHANGED <<notified, broadcast>>

Batches == UNION {Orders(s) : s \in (SUBSET Hashes) \ {{}}}

Next ==
    \/ \E p \in Peers, b \in Batches : Notify(p, b)
    \/ \E k \in 0 .. Len(waitOrder) : WaitTrigger(k)
    \/ \E late \in SUBSET Live : TimeoutTrigger(late)
    \/ \E p \in Peers, hs \in SUBSET Hashes : Reply(p, hs)
    \/ \E p \in Peers, hs \in (SUBSET Hashes) \ {{}} : Broadcast(p, hs)
    \/ \E p \in Peers : Drop(p)

\* The loop and its timers keep running; nobody is obliged to answer.
Fairness ==
    /\ WF_vars(\E k \in 0 .. Len(waitOrder) : WaitTrigger(k))
    /\ WF_vars(\E late \in SUBSET Live : TimeoutTrigger(late))

Spec == Init /\ [][Next]_vars /\ Fairness
-------------------------------------------------------------------------------
(* Properties. *)

\* A hash does not wait for ever to be broadcast: the wait timer is set
\* whenever something waits, whatever was delivered or dropped meanwhile.
WaitingEnds == \A h \in Hashes : (waitlist[h] # {}) ~> (waitlist[h] = {})

\* A peer that never answers does not hold a hash: the timeout timer is set
\* while any request is live.
FetchingEnds == \A p \in Peers, h \in Hashes : (fetching[h] = p) ~> (fetching[h] # p)

\* A peer without a request is asked for what it announced, or somebody else
\* resolves it: the cases that do not schedule never lose the wake-up.
IdlePeerIsAsked ==
    \A p \in Peers, h \in Hashes :
        (requests[p] = Absent /\ h \in announces[p]) ~> (requests[p] # Absent \/ h \notin announces[p])
===============================================================================
