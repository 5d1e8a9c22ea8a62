--------------------------- MODULE TxFetcherProofs ----------------------------
(***************************************************************************)
(* Proofs about TxFetcher, for any peers and hashes, any limits and any    *)
(* number of announcements, deliveries and drops: the indexes of           *)
(* eth/fetcher/tx_fetcher.go agree after every turn of its loop.           *)
(*                                                                         *)
(* A turn first edits the indexes and then calls scheduleFetches on the    *)
(* result, so the argument is about five maps that need not be the         *)
(* variables: Indexed(anns, annd, fet, reqs, alts).  scheduleFetches keeps *)
(* it (ScheduleKeeps), and each case of the loop hands it maps that have   *)
(* it.                                                                     *)
(***************************************************************************)
EXTENDS TxFetcher, FiniteSetTheorems, TLAPS

USE FetcherAssumption

DueOf(r) == IF r = Absent THEN {} ELSE Range(r.hashes) \ r.stolen

Maps(anns, annd, fet, reqs, alts) ==
    /\ anns \in [Peers -> SUBSET Hashes]
    /\ annd \in [Hashes -> SUBSET Peers]
    /\ fet \in [Hashes -> Peers \cup {Absent}]
    /\ reqs \in [Peers -> Request \cup {Absent}]
    /\ alts \in [Hashes -> SUBSET Peers]

(* A hash is queued or in flight, in flight exactly when its fetcher was     *)
(* asked for it, and known under the name of everyone who announced it.      *)
Agree(anns, annd, fet, reqs, alts) ==
    /\ \A h \in Hashes : annd[h] # {} => alts[h] = {}
    /\ \A h \in Hashes : fet[h] # Absent <=> alts[h] # {}
    /\ \A p \in Peers, h \in Hashes : h \in DueOf(reqs[p]) <=> fet[h] = p
    /\ \A p \in Peers, h \in Hashes : h \in anns[p] => p \in annd[h] \cup alts[h]

Indexed(anns, annd, fet, reqs, alts) ==
    Maps(anns, annd, fet, reqs, alts) /\ Agree(anns, annd, fet, reqs, alts)

(* The waiting stage: what waits is neither queued nor in flight. *)
Waits(list, slots, annd, alts) ==
    /\ list \in [Hashes -> SUBSET Peers]
    /\ slots \in [Peers -> SUBSET Hashes]
    /\ \A h \in Hashes : list[h] # {} => annd[h] = {} /\ alts[h] = {}
    /\ \A p \in Peers, h \in Hashes : h \in slots[p] <=> p \in list[h]

(* The inductive invariant. *)
TInv ==
    /\ Indexed(announces, announced, fetching, requests, alternates)
    /\ Waits(waitlist, waitslots, announced, alternates)

-------------------------------------------------------------------------------
(* Sequences of hashes. *)

LEMMA EmptyRange == Range(<<>>) = {}
BY DEF Range

LEMMA SeqRange == ASSUME NEW S, NEW s \in Seq(S) PROVE Range(s) \subseteq S
BY DEF Range

LEMMA ListsAreSeqs ==
  ASSUME NEW S \in SUBSET Hashes, NEW l \in Lists(S)
  PROVE  l \in Seq(Hashes)
<1>1. PICK s \in SUBSET S : l \in Orders(s)
  BY DEF Lists
<1>2. IsFiniteSet(s) /\ s \subseteq Hashes
  BY <1>1, FS_Subset
<1>3. Cardinality(s) \in Nat
  BY <1>2, FS_CardinalityType
<1>4. l \in [1 .. Cardinality(s) -> s]
  BY <1>1 DEF Orders, Bijection, Injection
<1> QED BY <1>2, <1>3, <1>4

LEMMA NewRequest ==
  ASSUME NEW s \in Seq(Hashes)
  PROVE  /\ [hashes |-> s, stolen |-> {}] \in Request
         /\ DueOf([hashes |-> s, stolen |-> {}]) = Range(s)
<1>1. [hashes |-> s, stolen |-> {}] \in Request
  BY DEF Request
<1>2. [hashes |-> s, stolen |-> {}] # Absent
  BY <1>1, Zenon
<1> QED BY <1>1, <1>2 DEF DueOf

-------------------------------------------------------------------------------
(* scheduleFetches. *)

(* What a peer is asked for it announced, and nobody fetches it; it had no    *)
(* request, and no two peers are asked for the same hash.                     *)
LEMMA AskFacts ==
  ASSUME NEW anns \in [Peers -> SUBSET Hashes], NEW fet, NEW reqs,
         NEW actives \in SUBSET Peers, NEW ask \in Asks(anns, fet, reqs, actives)
  PROVE  /\ \A p \in Peers : ask[p] \in Seq(Hashes)
         /\ \A p \in Peers : ask[p] # <<>> => reqs[p] = Absent
         /\ \A p \in Peers : Range(ask[p]) \subseteq Hashes
         /\ \A p \in Peers : \A h \in Range(ask[p]) : h \in anns[p] /\ fet[h] = Absent
         /\ \A p, q \in Peers : p # q => Range(ask[p]) \cap Range(ask[q]) = {}
<1> DEFINE idle == {p \in actives : reqs[p] = Absent /\ Free(anns, fet, p) # {}}
<1>0. \A p \in Peers : ask[p] # <<>> => \E q \in idle : ask[p] \in Lists(Free(anns, fet, q))
  <2> DEFINE lists == UNION {Lists(Free(anns, fet, q)) : q \in idle}
  <2>1. ask \in [Peers -> lists \cup {<<>>}]
    BY DEF Asks
  <2> TAKE p \in Peers
  <2> HAVE ask[p] # <<>>
  <2>2. ask[p] \in lists
    <3> HIDE DEF lists
    <3> QED BY <2>1
  <2> HIDE DEF idle
  <2> QED BY <2>2
<1>1. /\ \A p \in Peers : ask[p] # <<>> => p \in idle /\ Range(ask[p]) \subseteq Free(anns, fet, p)
      /\ \A p, q \in Peers : p # q => Range(ask[p]) \cap Range(ask[q]) = {}
  BY DEF Asks
<1>2. \A p \in Peers : ask[p] \in Seq(Hashes)
  <2> TAKE p \in Peers
  <2>1. CASE ask[p] = <<>>
    BY <2>1
  <2>2. CASE ask[p] # <<>>
    <3>1. PICK q \in idle : ask[p] \in Lists(Free(anns, fet, q))
      BY <1>0, <2>2
    <3>2. Free(anns, fet, q) \in SUBSET Hashes
      BY <3>1 DEF Free
    <3> QED BY <3>1, <3>2, ListsAreSeqs
  <2> QED BY <2>1, <2>2
<1>3. \A p \in Peers : ask[p] # <<>> => reqs[p] = Absent
  BY <1>1
<1>4. \A p \in Peers : \A h \in Range(ask[p]) : h \in anns[p] /\ fet[h] = Absent
  <2> TAKE p \in Peers
  <2> TAKE h \in Range(ask[p])
  <2>1. ask[p] # <<>>
    BY EmptyRange
  <2> QED BY <1>1, <2>1 DEF Free
<1>5. \A p \in Peers : Range(ask[p]) \subseteq Hashes
  BY <1>4
<1> HIDE DEF idle
<1> QED BY <1>1, <1>2, <1>3, <1>4, <1>5, Zenon

(* scheduleFetches keeps the indexes in agreement, and takes nothing up that   *)
(* was neither queued nor in flight.                                           *)
LEMMA ScheduleKeeps ==
  ASSUME NEW STATE anns, NEW STATE annd, NEW STATE fet, NEW STATE reqs, NEW STATE alts,
         NEW STATE order, NEW STATE actives, NEW STATE net,
         actives \in SUBSET Peers,
         Indexed(anns, annd, fet, reqs, alts),
         scheduleFetches(anns, annd, fet, reqs, alts, order, actives, net)
  PROVE  /\ Indexed(announces', announced', fetching', requests', alternates')
         /\ \A h \in Hashes : annd[h] = {} /\ alts[h] = {} => announced'[h] = {} /\ alternates'[h] = {}
<1>0. /\ Maps(anns, annd, fet, reqs, alts)
      /\ Agree(anns, annd, fet, reqs, alts)
  BY DEF Indexed
<1>1. PICK ask \in Asks(anns, fet, reqs, actives) :
        /\ announces' = anns
        /\ announced' = [h \in Hashes |-> IF h \in Asked(ask) THEN {} ELSE annd[h]]
        /\ fetching' = [h \in Hashes |->
               IF h \in Asked(ask) THEN CHOOSE p \in Peers : h \in Range(ask[p]) ELSE fet[h]]
        /\ alternates' = [h \in Hashes |-> IF h \in Asked(ask) THEN annd[h] ELSE alts[h]]
        /\ requests' = [p \in Peers |-> IF ask[p] = <<>> THEN reqs[p]
                                        ELSE [hashes |-> ask[p], stolen |-> {}]]
  BY Zenon DEF scheduleFetches
<1>2. anns \in [Peers -> SUBSET Hashes]
  BY <1>0 DEF Maps
<1>3. /\ \A p \in Peers : ask[p] \in Seq(Hashes)
      /\ \A p \in Peers : ask[p] # <<>> => reqs[p] = Absent
      /\ \A p \in Peers : Range(ask[p]) \subseteq Hashes
      /\ \A p \in Peers : \A h \in Range(ask[p]) : h \in anns[p] /\ fet[h] = Absent
      /\ \A p, q \in Peers : p # q => Range(ask[p]) \cap Range(ask[q]) = {}
  BY <1>1, <1>2, AskFacts, Zenon
<1> DEFINE to(h) == CHOOSE p \in Peers : h \in Range(ask[p])
<1>4. \A h \in Asked(ask) : to(h) \in Peers /\ h \in Range(ask[to(h)])
  BY DEF Asked
<1>5. \A h \in Asked(ask) : \A p \in Peers : h \in Range(ask[p]) <=> p = to(h)
  BY <1>3, <1>4
<1>6. \A h \in Asked(ask) : h \in Hashes /\ fet[h] = Absent /\ alts[h] = {} /\ to(h) \in annd[h]
  BY <1>0, <1>3, <1>4 DEF Agree
<1>7. \A p \in Peers, h \in Hashes : h \in Range(ask[p]) => h \in Asked(ask)
  BY DEF Asked
<1>8. \A h \in Hashes : fetching'[h] = IF h \in Asked(ask) THEN to(h) ELSE fet[h]
  BY <1>1
<1> HIDE DEF to
<1>9. \A p \in Peers : /\ ask[p] = <<>> => requests'[p] = reqs[p]
                       /\ ask[p] # <<>> => requests'[p] = [hashes |-> ask[p], stolen |-> {}]
  BY <1>1
<1>10. ASSUME NEW p \in Peers, ask[p] # <<>>
       PROVE  requests'[p] \in Request /\ DueOf(requests'[p]) = Range(ask[p])
  <2>1. ask[p] \in Seq(Hashes) /\ requests'[p] = [hashes |-> ask[p], stolen |-> {}]
    BY <1>3, <1>9, <1>10
  <2>2. /\ [hashes |-> ask[p], stolen |-> {}] \in Request
        /\ DueOf([hashes |-> ask[p], stolen |-> {}]) = Range(ask[p])
    BY <2>1, NewRequest
  <2> QED BY <2>1, <2>2, Zenon
<1>11. \A p \in Peers : ask[p] # <<>> => DueOf(requests'[p]) = Range(ask[p])
  BY <1>10
<1>12. Maps(announces', announced', fetching', requests', alternates')
  <2>1. announces' \in [Peers -> SUBSET Hashes]
    BY <1>1, <1>2
  <2>2. announced' \in [Hashes -> SUBSET Peers] /\ alternates' \in [Hashes -> SUBSET Peers]
    BY <1>0, <1>1 DEF Maps
  <2>3. fetching' \in [Hashes -> Peers \cup {Absent}]
    <3>1. \A h \in Hashes : fetching'[h] \in Peers \cup {Absent}
      BY <1>0, <1>4, <1>8 DEF Maps
    <3>2. fetching' = [h \in Hashes |-> fetching'[h]]
      BY <1>1
    <3> QED BY <3>1, <3>2
  <2>4. requests' \in [Peers -> Request \cup {Absent}]
    <3>1. \A p \in Peers : requests'[p] \in Request \cup {Absent}
      BY <1>0, <1>9, <1>10, Zenon DEF Maps
    <3>2. requests' = [p \in Peers |-> requests'[p]]
      BY <1>1
    <3> QED BY <3>1, <3>2
  <2> QED BY <2>1, <2>2, <2>3, <2>4 DEF Maps
<1>13. Agree(announces', announced', fetching', requests', alternates')
  <2>1. \A h \in Hashes : announced'[h] # {} => alternates'[h] = {}
    BY <1>0, <1>1 DEF Agree
  <2>2. \A h \in Hashes : fetching'[h] # Absent <=> alternates'[h] # {}
    <3> TAKE h \in Hashes
    <3>1. CASE h \in Asked(ask)
      BY <1>1, <1>4, <1>6, <1>8, <3>1
    <3>2. CASE h \notin Asked(ask)
      BY <1>0, <1>1, <1>8, <3>2 DEF Agree
    <3> QED BY <3>1, <3>2
  <2>3. ASSUME NEW p \in Peers, NEW h \in Hashes
        PROVE  h \in DueOf(requests'[p]) <=> fetching'[h] = p
    <3>0. h \in DueOf(reqs[p]) <=> fet[h] = p
      BY <1>0 DEF Agree
    <3>1. CASE ask[p] = <<>>
      <4>1. h \notin Range(ask[p])
        BY <3>1, EmptyRange
      <4>2. CASE h \in Asked(ask)
        <5>1. fet[h] # p /\ to(h) # p
          BY <1>5, <1>6, <4>1, <4>2
        <5> QED BY <1>8, <1>9, <3>0, <3>1, <4>2, <5>1, Zenon
      <4>3. CASE h \notin Asked(ask)
        BY <1>8, <1>9, <3>0, <3>1, <4>3, Zenon
      <4> QED BY <4>2, <4>3
    <3>2. CASE ask[p] # <<>>
      <4>1. DueOf(reqs[p]) = {}
        BY <1>3, <3>2 DEF DueOf
      <4>2. CASE h \in Asked(ask)
        BY <1>5, <1>8, <1>11, <3>2, <4>2
      <4>3. CASE h \notin Asked(ask)
        BY <1>7, <1>8, <1>11, <3>0, <3>2, <4>1, <4>3
      <4> QED BY <4>2, <4>3
    <3> QED BY <3>1, <3>2
  <2>4. \A p \in Peers, h \in Hashes : h \in announces'[p] => p \in announced'[h] \cup alternates'[h]
    BY <1>0, <1>1, <1>6 DEF Agree
  <2> QED BY <2>1, <2>2, <2>3, <2>4 DEF Agree
<1>14. \A h \in Hashes : annd[h] = {} /\ alts[h] = {} => announced'[h] = {} /\ alternates'[h] = {}
  BY <1>1, <1>6
<1> QED BY <1>12, <1>13, <1>14 DEF Indexed

(* A turn that hands scheduleFetches maps in agreement keeps the invariant. *)
LEMMA TurnKeeps ==
  ASSUME NEW STATE anns, NEW STATE annd, NEW STATE fet, NEW STATE reqs, NEW STATE alts,
         NEW STATE order, NEW STATE actives, NEW STATE net,
         actives \in SUBSET Peers,
         Indexed(anns, annd, fet, reqs, alts),
         Waits(waitlist', waitslots', annd, alts),
         scheduleFetches(anns, annd, fet, reqs, alts, order, actives, net)
  PROVE  TInv'
<1>1. /\ Indexed(announces', announced', fetching', requests', alternates')
      /\ \A h \in Hashes : annd[h] = {} /\ alts[h] = {} => announced'[h] = {} /\ alternates'[h] = {}
  BY ScheduleKeeps
<1>2. Waits(waitlist', waitslots', announced', alternates')
  BY <1>1 DEF Waits
<1> QED BY <1>1, <1>2 DEF TInv

(* A turn that schedules nothing. *)
LEMMA QuietKeeps ==
  ASSUME Indexed(announces', announced', fetching', requests', alternates'),
         Waits(waitlist', waitslots', announced', alternates')
  PROVE  TInv'
BY DEF TInv

-------------------------------------------------------------------------------
(* The cases of the loop. *)

LEMMA KeptHashes ==
  ASSUME TInv, NEW p \in Peers, NEW b \in Batches, Used(p) < MaxTxAnnounces
  PROVE  Range(Kept(p, b)) \subseteq Hashes
<1>1. PICK s \in SUBSET Hashes : b \in Orders(s)
  BY DEF Batches
<1>2. IsFiniteSet(s) /\ Cardinality(s) \in Nat
  BY <1>1, FS_Subset, FS_CardinalityType
<1>3. b \in [1 .. Cardinality(s) -> s]
  BY <1>1 DEF Orders, Bijection, Injection
<1>4. b \in Seq(Hashes)
  BY <1>1, <1>2, <1>3
<1>5. Used(p) \in Nat
  <2>1. waitslots[p] \subseteq Hashes /\ announces[p] \subseteq Hashes
    BY DEF TInv, Indexed, Maps, Waits
  <2>2. IsFiniteSet(waitslots[p]) /\ IsFiniteSet(announces[p])
    BY <2>1, FS_Subset
  <2> QED BY <2>2, FS_CardinalityType DEF Used
<1>6. Kept(p, b) \in Seq(Hashes)
  <2> DEFINE want == Used(p) + Len(b)
  <2>1. CASE want > MaxTxAnnounces
    <3>1. want - MaxTxAnnounces \in 1 .. Len(b)
      BY <1>4, <1>5, <2>1
    <3>2. SubSeq(b, 1, want - MaxTxAnnounces) \in Seq(Hashes)
      BY <1>4, <3>1
    <3> QED BY <2>1, <3>2 DEF Kept
  <2>2. CASE ~(want > MaxTxAnnounces)
    BY <1>4, <2>2 DEF Kept
  <2> QED BY <2>1, <2>2
<1> QED BY <1>6, SeqRange

LEMMA NotifyKeeps ==
  ASSUME TInv, NEW p \in Peers, NEW b \in Batches, Notify(p, b)
  PROVE  TInv'
<1> DEFINE hs == Range(Kept(p, b))
           downloading == Downloading(hs)
           inQueue == {h \in hs \ downloading : announced[h] # {}}
           toWait == hs \ (downloading \cup inQueue)
           anns == [announces EXCEPT ![p] = @ \cup downloading \cup inQueue]
           annd == [h \in Hashes |-> IF h \in inQueue THEN announced[h] \cup {p} ELSE announced[h]]
           alts == [h \in Hashes |-> IF h \in downloading THEN alternates[h] \cup {p} ELSE alternates[h]]
           actives == IF announces[p] = {} /\ anns[p] # {} THEN {p} ELSE {}
<1>1. /\ Used(p) < MaxTxAnnounces
      /\ waitlist' = [h \in Hashes |-> IF h \in toWait THEN waitlist[h] \cup {p} ELSE waitlist[h]]
      /\ waitslots' = [waitslots EXCEPT ![p] = @ \cup toWait]
      /\ scheduleFetches(anns, annd, fetching, requests, alts, reqOrder, actives, network)
  BY Zenon DEF Notify
<1>2. hs \subseteq Hashes
  BY <1>1, KeptHashes, Zenon
<1>3. /\ downloading \subseteq Hashes /\ inQueue \subseteq Hashes /\ toWait \subseteq Hashes
      /\ \A h \in downloading : alternates[h] # {}
      /\ \A h \in inQueue : announced[h] # {} /\ h \notin downloading
      /\ \A h \in toWait : announced[h] = {} /\ alternates[h] = {}
  BY <1>2, Zenon DEF Downloading
<1> HIDE DEF hs, downloading, inQueue, toWait
<1>4. /\ Maps(announces, announced, fetching, requests, alternates)
      /\ Agree(announces, announced, fetching, requests, alternates)
      /\ Waits(waitlist, waitslots, announced, alternates)
  BY DEF TInv, Indexed
<1>5. Maps(anns, annd, fetching, requests, alts)
  BY <1>3, <1>4, SMTT(30) DEF Maps
<1>6. Agree(anns, annd, fetching, requests, alts)
  <2>1. \A h \in Hashes : annd[h] # {} => alts[h] = {}
    BY <1>3, <1>4, SMTT(30) DEF Agree
  <2>2. \A h \in Hashes : fetching[h] # Absent <=> alts[h] # {}
    BY <1>3, <1>4, SMTT(30) DEF Agree
  <2>3. \A x \in Peers, h \in Hashes : h \in DueOf(requests[x]) <=> fetching[h] = x
    BY <1>4 DEF Agree
  <2>4. \A x \in Peers, h \in Hashes : h \in anns[x] => x \in annd[h] \cup alts[h]
    BY <1>3, <1>4 DEF Agree, Maps
  <2> QED BY <2>1, <2>2, <2>3, <2>4, SMTT(30) DEF Agree
<1>7. Waits(waitlist', waitslots', annd, alts)
  <2>1. waitlist' \in [Hashes -> SUBSET Peers] /\ waitslots' \in [Peers -> SUBSET Hashes]
    BY <1>1, <1>3, <1>4, SMTT(30) DEF Waits
  <2>2. \A h \in Hashes : waitlist'[h] # {} => annd[h] = {} /\ alts[h] = {}
    BY <1>1, <1>3, <1>4, SMTT(30) DEF Waits
  <2>3. \A x \in Peers, h \in Hashes : h \in waitslots'[x] <=> x \in waitlist'[h]
    BY <1>1, <1>3, <1>4 DEF Waits
  <2> QED BY <2>1, <2>2, <2>3, SMTT(30) DEF Waits
<1>8. actives \in SUBSET Peers
  BY SMTT(30)
<1>9. Indexed(anns, annd, fetching, requests, alts)
  BY <1>5, <1>6, SMTT(30) DEF Indexed
<1> HIDE DEF anns, annd, alts, actives
<1> QED BY <1>1, <1>7, <1>8, <1>9, TurnKeeps, Zenon

LEMMA WaitTriggerKeeps ==
  ASSUME TInv, NEW k, WaitTrigger(k)
  PROVE  TInv'
<1> DEFINE gone == Waiting \cap Range(SubSeq(waitOrder, 1, k))
           anns == [p \in Peers |-> announces[p] \cup (waitslots[p] \cap gone)]
           annd == [h \in Hashes |-> IF h \in gone THEN waitlist[h] ELSE announced[h]]
           actives == UNION {waitlist[h] : h \in gone}
<1>1. /\ waitlist' = [h \in Hashes |-> IF h \in gone THEN {} ELSE waitlist[h]]
      /\ waitslots' = [p \in Peers |-> waitslots[p] \ gone]
      /\ scheduleFetches(anns, annd, fetching, requests, alternates, reqOrder, actives, network)
  BY Zenon DEF WaitTrigger
<1>2. gone \subseteq Hashes /\ \A h \in gone : waitlist[h] # {}
  BY DEF Waiting
<1> HIDE DEF gone
<1>3. /\ Maps(announces, announced, fetching, requests, alternates)
      /\ Agree(announces, announced, fetching, requests, alternates)
      /\ Waits(waitlist, waitslots, announced, alternates)
  BY DEF TInv, Indexed
<1>4. Maps(anns, annd, fetching, requests, alternates)
  BY <1>2, <1>3 DEF Maps, Waits
<1>5. Agree(anns, annd, fetching, requests, alternates)
  BY <1>2, <1>3 DEF Agree, Waits
<1>6. Waits(waitlist', waitslots', annd, alternates)
  <2>1. waitlist' \in [Hashes -> SUBSET Peers] /\ waitslots' \in [Peers -> SUBSET Hashes]
    BY <1>1, <1>3, SMTT(30) DEF Waits
  <2>2. \A h \in Hashes : waitlist'[h] # {} => annd[h] = {} /\ alternates[h] = {}
    BY <1>1, <1>3, SMTT(30) DEF Waits
  <2>3. \A p \in Peers, h \in Hashes : h \in waitslots'[p] <=> p \in waitlist'[h]
    BY <1>1, <1>3 DEF Waits
  <2> QED BY <2>1, <2>2, <2>3 DEF Waits
<1>7. actives \in SUBSET Peers
  BY <1>2, <1>3, SMTT(30) DEF Waits
<1>8. Indexed(anns, annd, fetching, requests, alternates)
  BY <1>4, <1>5 DEF Indexed
<1> HIDE DEF anns, annd, actives
<1> QED BY <1>1, <1>6, <1>7, <1>8, TurnKeeps

LEMMA DueIsDueOf == ASSUME NEW p \in Peers PROVE Due(p) = DueOf(requests[p])
BY DEF Due, DueOf

LEMMA TimedOutOwesNothing ==
  ASSUME NEW r \in Request
  PROVE  TimedOut(r) \in Request /\ DueOf(TimedOut(r)) = {}
<1>1. TimedOut(r) = [hashes |-> <<>>, stolen |-> r.stolen]
  BY DEF TimedOut, Request
<1>2. TimedOut(r) \in Request
  BY <1>1 DEF Request
<1>3. DueOf(TimedOut(r)) = Range(TimedOut(r).hashes) \ TimedOut(r).stolen
  BY <1>2 DEF DueOf
<1>4. TimedOut(r).hashes = <<>>
  BY <1>1
<1> QED BY <1>2, <1>3, <1>4, EmptyRange

LEMMA TimeoutTriggerKeeps ==
  ASSUME TInv, NEW late \in SUBSET Live, TimeoutTrigger(late)
  PROVE  TInv'
<1> DEFINE back == Undelivered(late)
           annd == [h \in Hashes |-> IF h \in back THEN alternates[h] \ {fetching[h]} ELSE announced[h]]
           anns == [p \in Peers |-> IF p \in late THEN announces[p] \ Due(p) ELSE announces[p]]
           alts == [h \in Hashes |-> IF h \in back THEN {} ELSE alternates[h]]
           fet == [h \in Hashes |-> IF h \in back THEN Absent ELSE fetching[h]]
           reqs == [p \in Peers |-> IF p \in late THEN TimedOut(requests[p]) ELSE requests[p]]
           alive(p) == p \notin late
           order == SelectSeq(reqOrder, alive)
           actives == AllActive(anns)
<1>1. /\ waitlist' = waitlist /\ waitslots' = waitslots
      /\ scheduleFetches(anns, annd, fet, reqs, alts, order, actives, network)
  BY Zenon DEF TimeoutTrigger, waiting
<1>2. /\ Maps(announces, announced, fetching, requests, alternates)
      /\ Agree(announces, announced, fetching, requests, alternates)
      /\ Waits(waitlist, waitslots, announced, alternates)
  BY DEF TInv, Indexed
<1>3. late \subseteq Peers /\ \A p \in late : requests[p] \in Request
  BY <1>2 DEF Live, Maps
<1>4. \A p \in Peers, h \in Hashes : h \in Due(p) <=> fetching[h] = p
  BY <1>2, DueIsDueOf DEF Agree
<1>5. \A h \in Hashes : h \in back <=> fetching[h] \in late
  BY <1>3, <1>4 DEF Undelivered
<1> HIDE DEF back
<1>6. Maps(anns, annd, fet, reqs, alts)
  <2>1. reqs \in [Peers -> Request \cup {Absent}]
    BY <1>2, <1>3, TimedOutOwesNothing DEF Maps
  <2> QED BY <1>2, <2>1 DEF Maps
<1>7. Agree(anns, annd, fet, reqs, alts)
  <2>1. \A h \in Hashes : annd[h] # {} => alts[h] = {}
    BY <1>2, SMTT(30) DEF Agree
  <2>2. \A h \in Hashes : fet[h] # Absent <=> alts[h] # {}
    BY <1>2 DEF Agree
  <2>3. ASSUME NEW p \in Peers, NEW h \in Hashes
        PROVE  h \in DueOf(reqs[p]) <=> fet[h] = p
    <3>1. CASE p \in late
      <4>1. DueOf(reqs[p]) = {}
        BY <1>3, <3>1, TimedOutOwesNothing
      <4> QED BY <1>5, <3>1, <4>1
    <3>2. CASE p \notin late
      <4>1. reqs[p] = requests[p] /\ (h \in DueOf(requests[p]) <=> fetching[h] = p)
        BY <1>2, <3>2 DEF Agree
      <4> HIDE DEF reqs
      <4> QED BY <1>5, <3>2, <4>1, SMTT(30)
    <3> QED BY <3>1, <3>2
  <2>4. ASSUME NEW p \in Peers, NEW h \in Hashes, h \in anns[p]
        PROVE  p \in annd[h] \cup alts[h]
    <3>1. h \in announces[p] /\ (p \in late => fetching[h] # p)
      BY <1>4, <2>4, SMTT(30)
    <3>2. p \in announced[h] \cup alternates[h]
      BY <1>2, <3>1 DEF Agree
    <3>3. CASE h \in back
      <4>1. alternates[h] # {} /\ fetching[h] # p
        BY <1>2, <1>3, <1>5, <3>1, <3>3, SMTT(30) DEF Agree
      <4>2. announced[h] = {}
        BY <1>2, <4>1 DEF Agree
      <4> QED BY <3>2, <3>3, <4>1, <4>2, SMTT(30)
    <3>4. CASE h \notin back
      BY <3>2, <3>4
    <3> QED BY <3>3, <3>4
  <2> QED BY <2>1, <2>2, <2>3, <2>4, Zenon DEF Agree
<1>8. Waits(waitlist', waitslots', annd, alts)
  <2>1. \A h \in Hashes : waitlist[h] # {} => annd[h] = {} /\ alts[h] = {}
    BY <1>2, <1>3, <1>5, SMTT(30) DEF Waits, Agree
  <2> QED BY <1>1, <1>2, <2>1, Zenon DEF Waits
<1>9. actives \in SUBSET Peers
  BY DEF AllActive
<1>10. Indexed(anns, annd, fet, reqs, alts)
  BY <1>6, <1>7, Zenon DEF Indexed
<1> HIDE DEF anns, annd, fet, reqs, alts, order, actives
<1> QED BY <1>1, <1>8, <1>9, <1>10, TurnKeeps

(* What a delivery takes from a request is what it was fetched for. *)
LEMMA StolenLeavesRest ==
  ASSUME NEW r \in Request, NEW S \in SUBSET Hashes
  PROVE  /\ [r EXCEPT !.stolen = @ \cup S] \in Request
         /\ DueOf([r EXCEPT !.stolen = @ \cup S]) = DueOf(r) \ S
<1> DEFINE q == [r EXCEPT !.stolen = @ \cup S]
<1>1. q \in Request /\ q.hashes = r.hashes /\ q.stolen = r.stolen \cup S
  BY DEF Request
<1>2. q # Absent /\ r # Absent
  BY <1>1
<1> HIDE DEF q
<1>3. DueOf(q) = DueOf(r) \ S
  BY <1>1, <1>2 DEF DueOf
<1> QED BY <1>1, <1>3 DEF q

LEMMA DeliveryKeeps ==
  ASSUME TInv, NEW p \in Peers, NEW hs \in SUBSET Hashes, NEW direct \in BOOLEAN, NEW STATE net,
         Delivery(p, hs, direct, net)
  PROVE  TInv'
<1> DEFINE known == hs \ Waiting
           reqs == [x \in Peers |-> IF requests[x] = Absent THEN Absent
                      ELSE [requests[x] EXCEPT !.stolen = @ \cup Stolen(p, hs, direct, x)]]
           anns == [x \in Peers |-> announces[x] \ known]
           annd == Forgotten(announced, known, {})
           alts == Forgotten(alternates, known, {})
           fet == Forgotten(fetching, known, Absent)
           due == Due(p)
           missing == due \ hs
           refused == missing \cap BeforeCutoff(requests[p], hs)
           others(h) == IF h \in refused THEN alts[h] \ {p} ELSE alts[h]
           anns2 == [anns EXCEPT ![p] = @ \ refused]
           annd2 == [h \in Hashes |-> IF h \in missing /\ others(h) # {} THEN others(h) ELSE annd[h]]
           another(x) == x # p
           fet2 == Forgotten(fet, due, Absent)
           reqs2 == [reqs EXCEPT ![p] = Absent]
           alts2 == Forgotten(alts, due, {})
           order == SelectSeq(reqOrder, another)
           actives == AllActive(anns2)
<1>1. /\ waitlist' = Forgotten(waitlist, hs, {})
      /\ waitslots' = [x \in Peers |-> waitslots[x] \ (hs \cap Waiting)]
      /\ direct /\ requests[p] # Absent =>
             scheduleFetches(anns2, annd2, fet2, reqs2, alts2, order, actives, net)
      /\ ~(direct /\ requests[p] # Absent) =>
             /\ announces' = anns /\ announced' = annd /\ alternates' = alts
             /\ fetching' = fet /\ requests' = reqs
  BY DEF Delivery
<1>2. /\ Maps(announces, announced, fetching, requests, alternates)
      /\ Agree(announces, announced, fetching, requests, alternates)
      /\ Waits(waitlist, waitslots, announced, alternates)
  BY SMTT(30) DEF TInv, Indexed
<1>3. \A x \in Peers, h \in Hashes : h \in Due(x) <=> fetching[h] = x
  BY <1>2, DueIsDueOf, SMTT(30) DEF Agree
<1>4. \A h \in Hashes : /\ h \in Waiting <=> waitlist[h] # {}
                        /\ h \in known <=> h \in hs /\ waitlist[h] = {}
  BY DEF Waiting
<1>5. /\ anns \in [Peers -> SUBSET Hashes] /\ annd \in [Hashes -> SUBSET Peers]
      /\ alts \in [Hashes -> SUBSET Peers] /\ fet \in [Hashes -> Peers \cup {Absent}]
  BY <1>2 DEF Maps, Forgotten
<1>6. /\ \A x \in Peers : anns[x] = announces[x] \ known
      /\ \A h \in Hashes : annd[h] = IF h \in known THEN {} ELSE announced[h]
      /\ \A h \in Hashes : alts[h] = IF h \in known THEN {} ELSE alternates[h]
      /\ \A h \in Hashes : fet[h] = IF h \in known THEN Absent ELSE fetching[h]
  BY DEF Forgotten
<1>7. ASSUME NEW x \in Peers
      PROVE  /\ reqs[x] \in Request \cup {Absent}
             /\ DueOf(reqs[x]) = DueOf(requests[x]) \ Stolen(p, hs, direct, x)
  <2>1. CASE requests[x] = Absent
    BY <2>1 DEF DueOf
  <2>2. CASE requests[x] # Absent
    <3>1. requests[x] \in Request
      BY <1>2, <2>2 DEF Maps
    <3>2. Stolen(p, hs, direct, x) \in SUBSET Hashes
      BY DEF Stolen
    <3>3. reqs[x] = [requests[x] EXCEPT !.stolen = @ \cup Stolen(p, hs, direct, x)]
      BY <2>2
    <3> HIDE DEF reqs
    <3> QED BY <3>1, <3>2, <3>3, StolenLeavesRest
  <2> QED BY <2>1, <2>2
<1>8. ASSUME NEW x \in Peers, NEW h \in Hashes, x # p \/ ~direct \/ requests[p] = Absent
      PROVE  h \in DueOf(reqs[x]) <=> fet[h] = x
  <2>1. h \in DueOf(requests[x]) <=> fetching[h] = x
    BY <1>2 DEF Agree
  <2>2. CASE x # p \/ ~direct
    <3>1. h \in Stolen(p, hs, direct, x) <=> h \in known /\ fetching[h] = x
      BY <2>2, SMTT(30) DEF Stolen
    <3>2. fet[h] = IF h \in known THEN Absent ELSE fetching[h]
      BY <1>6, Zenon
    <3> HIDE DEF reqs, fet, known
    <3>3. DueOf(reqs[x]) = DueOf(requests[x]) \ Stolen(p, hs, direct, x)
      BY <1>7
    <3> QED BY <2>1, <3>1, <3>2, <3>3
  <2>3. CASE x = p /\ requests[p] = Absent
    <3>1. DueOf(requests[x]) = {}
      BY <2>3 DEF DueOf
    <3> QED BY <1>6, <1>7, <2>1, <3>1, Zenon
  <2> QED BY <1>8, <2>2, <2>3, SMTT(30)
<1>9. reqs \in [Peers -> Request \cup {Absent}]
  BY <1>7
<1>10. /\ \A h \in Hashes : annd[h] # {} => alts[h] = {}
       /\ \A h \in Hashes : fet[h] # Absent <=> alts[h] # {}
       /\ \A x \in Peers, h \in Hashes : h \in anns[x] => x \in annd[h] \cup alts[h]
  BY <1>2, <1>6, Zenon DEF Agree
<1>11. \A h \in Hashes : waitlist'[h] # {} =>
          h \notin hs /\ h \in Waiting /\ annd[h] = {} /\ alts[h] = {} /\ fetching[h] = Absent
  BY <1>1, <1>2, <1>4, <1>6 DEF Forgotten, Waits, Agree
<1>12. /\ waitlist' \in [Hashes -> SUBSET Peers] /\ waitslots' \in [Peers -> SUBSET Hashes]
       /\ \A x \in Peers, h \in Hashes : h \in waitslots'[x] <=> x \in waitlist'[h]
  <2>1. waitlist' = [h \in Hashes |-> IF h \in hs THEN {} ELSE waitlist[h]]
    BY <1>1 DEF Forgotten
  <2>2. waitlist' \in [Hashes -> SUBSET Peers] /\ waitslots' \in [Peers -> SUBSET Hashes]
    BY <1>1, <1>2, <2>1 DEF Waits
  <2>3. \A x \in Peers, h \in Hashes : h \in waitslots'[x] <=> x \in waitlist'[h]
    BY <1>1, <1>2, <1>4, <2>1 DEF Waits
  <2> QED BY <2>2, <2>3
<1> HIDE DEF reqs, anns, annd, alts, fet, known
<1>13. CASE ~(direct /\ requests[p] # Absent)
  <2>1. \A x \in Peers, h \in Hashes : h \in DueOf(reqs[x]) <=> fet[h] = x
    BY <1>8, <1>13
  <2>2. Indexed(anns, annd, fet, reqs, alts)
    BY <1>5, <1>9, <1>10, <2>1, SMTT(30) DEF Indexed, Maps, Agree
  <2>3. Waits(waitlist', waitslots', annd, alts)
    BY <1>11, <1>12 DEF Waits
  <2> QED BY <1>1, <1>13, <2>2, <2>3, QuietKeeps, Zenon
<1>14. CASE direct /\ requests[p] # Absent
  <2>1. /\ due \subseteq Hashes /\ missing \subseteq due /\ refused \subseteq missing
        /\ \A h \in missing : h \notin hs
        /\ \A h \in due : h \in hs \/ h \in missing
    <3>1. DueOf(requests[p]) \subseteq Hashes
      <4>1. requests[p] \in Request
        BY <1>2, <1>14 DEF Maps
      <4> QED BY <1>14, <4>1, SeqRange DEF DueOf, Request
    <3> QED BY <3>1, DueIsDueOf
  <2>2. \A h \in Hashes : h \in due <=> fetching[h] = p
    BY <1>3, SMTT(30)
  <2>3. \A h \in due : alternates[h] # {} /\ announced[h] = {} /\ h \notin Waiting
    BY <1>2, <1>4, <2>1, <2>2 DEF Agree, Waits
  <2> HIDE DEF due, missing, refused
  <2>4. /\ anns2 \in [Peers -> SUBSET Hashes] /\ annd2 \in [Hashes -> SUBSET Peers]
        /\ alts2 \in [Hashes -> SUBSET Peers] /\ fet2 \in [Hashes -> Peers \cup {Absent}]
    BY <1>5 DEF Forgotten
  <2>5. reqs2 \in [Peers -> Request \cup {Absent}]
    BY <1>9
  <2>6. /\ \A h \in Hashes : alts2[h] = IF h \in due THEN {} ELSE alts[h]
        /\ \A h \in Hashes : fet2[h] = IF h \in due THEN Absent ELSE fet[h]
    BY DEF Forgotten
  <2>7. \A h \in Hashes : annd2[h] = IF h \in missing /\ others(h) # {} THEN others(h) ELSE annd[h]
    BY SMTT(30)
  <2>8. \A h \in Hashes : annd2[h] # {} => alts2[h] = {}
    BY <1>10, <2>1, <2>6, SMTT(30)
  <2>9. \A h \in Hashes : fet2[h] # Absent <=> alts2[h] # {}
    BY <1>10, <2>6
  <2>10. ASSUME NEW x \in Peers, NEW h \in Hashes
         PROVE  h \in DueOf(reqs2[x]) <=> fet2[h] = x
    <3>1. CASE x = p
      <4>1. DueOf(reqs2[x]) = {}
        BY <1>9, <3>1, SMTT(30) DEF DueOf
      <4>2. fet2[h] # p
        BY <1>6, <2>2, <2>6
      <4> QED BY <3>1, <4>1, <4>2
    <3>2. CASE x # p
      <4>1. reqs2[x] = reqs[x]
        BY <1>9, <3>2
      <4>2. h \in DueOf(reqs[x]) <=> fet[h] = x
        BY <1>8, <3>2, SMTT(30)
      <4>3. fet2[h] = x <=> fet[h] = x
        BY <1>6, <2>2, <2>6, <3>2, SMTT(30)
      <4> HIDE DEF reqs2, fet2
      <4> QED BY <4>1, <4>2, <4>3
    <3> QED BY <3>1, <3>2
  <2>11. ASSUME NEW x \in Peers, NEW h \in Hashes, h \in anns2[x]
         PROVE  x \in annd2[h] \cup alts2[h]
    <3>1. h \in anns[x] /\ (x = p => h \notin refused)
      BY <1>5, <2>11
    <3>2. h \notin known /\ h \in announces[x]
      BY <1>6, <3>1
    <3>3. x \in annd[h] \cup alts[h]
      BY <1>10, <3>1, SMTT(30)
    <3>4. CASE h \in due
      <4>1. h \in missing
        BY <1>4, <2>1, <2>3, <3>2, <3>4, SMTT(30) DEF known
      <4>2. annd[h] = {} /\ x \in alts[h]
        BY <1>6, <2>3, <3>3, <3>4
      <4>3. x \in others(h)
        BY <3>1, <4>2, SMTT(30)
      <4> QED BY <2>7, <4>1, <4>3, SMTT(30)
    <3>5. CASE h \notin due
      <4>1. annd2[h] = annd[h] /\ alts2[h] = alts[h]
        BY <2>1, <2>6, <2>7, <3>5
      <4> HIDE DEF annd2, alts2
      <4> QED BY <3>3, <4>1
    <3> QED BY <3>4, <3>5
  <2>12. Indexed(anns2, annd2, fet2, reqs2, alts2)
    BY <2>4, <2>5, <2>8, <2>9, <2>10, <2>11 DEF Indexed, Maps, Agree
  <2>13. Waits(waitlist', waitslots', annd2, alts2)
    <3>1. \A h \in Hashes : waitlist'[h] # {} => annd2[h] = {} /\ alts2[h] = {}
      BY <1>11, <2>1, <2>2, <2>6, <2>7, Zenon
    <3> QED BY <1>12, <3>1, Zenon DEF Waits
  <2>14. actives \in SUBSET Peers
    BY DEF AllActive
  <2>15. scheduleFetches(anns2, annd2, fet2, reqs2, alts2, order, actives, net)
    BY <1>1, <1>14, Zenon
  <2> HIDE DEF anns2, annd2, fet2, reqs2, alts2, order, actives
  <2> QED BY <2>12, <2>13, <2>14, <2>15, TurnKeeps
<1> QED BY <1>13, <1>14

LEMMA DropKeeps ==
  ASSUME TInv, NEW p \in Peers, Drop(p)
  PROVE  TInv'
<1> DEFINE mine == waitslots[p]
           due == Due(p)
           another(x) == x # p
           rest(h) == IF h \in due THEN alternates[h] \ {p} ELSE announced[h]
           annd == [h \in Hashes |-> IF h \in announces[p] THEN rest(h) \ {p} ELSE rest(h)]
           anns == [announces EXCEPT ![p] = {}]
           reqs == [requests EXCEPT ![p] = Absent]
           fet == Forgotten(fetching, due, Absent)
           alts == Forgotten(alternates, due, {})
           order == SelectSeq(reqOrder, another)
           actives == AllActive(anns)
<1>1. /\ waitlist' = [h \in Hashes |-> IF h \in mine THEN waitlist[h] \ {p} ELSE waitlist[h]]
      /\ waitslots' = [waitslots EXCEPT ![p] = {}]
      /\ requests[p] = Absent =>
             /\ announces' = anns /\ announced' = annd
             /\ fetching' = fetching /\ requests' = requests /\ alternates' = alternates
      /\ requests[p] # Absent =>
             scheduleFetches(anns, annd, fet, reqs, alts, order, actives, network)
  BY Zenon DEF Drop, inflight
<1>2. /\ Maps(announces, announced, fetching, requests, alternates)
      /\ Agree(announces, announced, fetching, requests, alternates)
      /\ Waits(waitlist, waitslots, announced, alternates)
  BY SMTT(30) DEF TInv, Indexed
<1>3. \A h \in Hashes : h \in due <=> fetching[h] = p
  BY <1>2, DueIsDueOf DEF Agree
<1> HIDE DEF due
<1>4. /\ \A h \in Hashes : fet[h] = IF h \in due THEN Absent ELSE fetching[h]
      /\ \A h \in Hashes : alts[h] = IF h \in due THEN {} ELSE alternates[h]
  BY DEF Forgotten
<1>5. Maps(anns, annd, fet, reqs, alts)
  BY <1>2 DEF Maps, Forgotten
<1>6. Agree(anns, annd, fet, reqs, alts)
  <2>1. \A h \in Hashes : annd[h] # {} => alts[h] = {}
    BY <1>2, <1>4, Zenon DEF Agree
  <2>2. \A h \in Hashes : fet[h] # Absent <=> alts[h] # {}
    BY <1>2, <1>4, Zenon DEF Agree
  <2>3. ASSUME NEW x \in Peers, NEW h \in Hashes
        PROVE  h \in DueOf(reqs[x]) <=> fet[h] = x
    <3>1. CASE x = p
      <4>1. DueOf(reqs[x]) = {}
        BY <1>2, <3>1 DEF DueOf, Maps
      <4> QED BY <1>3, <1>4, <3>1, <4>1, SMTT(30)
    <3>2. CASE x # p
      <4>1. reqs[x] = requests[x] /\ (h \in DueOf(requests[x]) <=> fetching[h] = x)
        BY <1>2, <3>2, SMTT(30) DEF Agree, Maps
      <4>2. fet[h] = x <=> fetching[h] = x
        BY <1>3, <1>4, <3>2, SMTT(30)
      <4> HIDE DEF reqs, fet
      <4> QED BY <4>1, <4>2
    <3> QED BY <3>1, <3>2, SMTT(30)
  <2>4. ASSUME NEW x \in Peers, NEW h \in Hashes, h \in anns[x]
        PROVE  x \in annd[h] \cup alts[h]
    <3>1. x # p /\ h \in announces[x]
      BY <1>2, <2>4, SMTT(30) DEF Maps
    <3>2. x \in announced[h] \cup alternates[h]
      BY <1>2, <3>1, SMTT(30) DEF Agree
    <3>3. h \in due => announced[h] = {}
      BY <1>2, <1>3, SMTT(30) DEF Agree
    <3> QED BY <1>4, <3>1, <3>2, <3>3
  <2> QED BY <2>1, <2>2, <2>3, <2>4, Zenon DEF Agree
<1>7. Waits(waitlist', waitslots', annd, alts)
  <2>1. waitlist' \in [Hashes -> SUBSET Peers] /\ waitslots' \in [Peers -> SUBSET Hashes]
    BY <1>1, <1>2, Zenon DEF Waits
  <2>2. \A h \in Hashes : waitlist'[h] # {} => annd[h] = {} /\ alts[h] = {}
    BY <1>1, <1>2, <1>3, <1>4, Zenon DEF Waits, Agree
  <2>3. \A x \in Peers, h \in Hashes : h \in waitslots'[x] <=> x \in waitlist'[h]
    BY <1>1, <1>2, Zenon DEF Waits
  <2> QED BY <2>1, <2>2, <2>3 DEF Waits
<1>8. Indexed(anns, annd, fet, reqs, alts)
  BY <1>5, <1>6, Zenon DEF Indexed
<1>9. actives \in SUBSET Peers
  BY DEF AllActive
<1>10. CASE requests[p] = Absent
  <2>1. due = {}
    BY <1>10 DEF due, Due
  <2>2. fet = fetching /\ alts = alternates /\ reqs = requests
    BY <1>2, <1>10, <2>1 DEF Maps, Forgotten
  <2> HIDE DEF anns, annd, fet, reqs, alts
  <2> QED BY <1>1, <1>7, <1>8, <1>10, <2>2, QuietKeeps, Zenon
<1>11. CASE requests[p] # Absent
  <2> HIDE DEF anns, annd, fet, reqs, alts, order, actives
  <2> QED BY <1>1, <1>7, <1>8, <1>9, <1>11, TurnKeeps, Zenon
<1> QED BY <1>10, <1>11

-------------------------------------------------------------------------------
LEMMA InitTInv == Init => TInv
<1> SUFFICES ASSUME Init PROVE TInv
  OBVIOUS
<1>1. Maps(announces, announced, fetching, requests, alternates)
  BY SMTT(30) DEF Init, Maps
<1>2. \A p \in Peers : DueOf(requests[p]) = {}
  BY DEF Init, DueOf
<1>3. Agree(announces, announced, fetching, requests, alternates)
  BY <1>2 DEF Init, Agree
<1>4. Waits(waitlist, waitslots, announced, alternates)
  BY DEF Init, Waits
<1> QED BY <1>1, <1>3, <1>4 DEF TInv, Indexed

LEMMA NextTInv == TInv /\ [Next]_vars => TInv'
<1> SUFFICES ASSUME TInv, [Next]_vars PROVE TInv'
  OBVIOUS
<1>1. ASSUME NEW p \in Peers, NEW b \in Batches, Notify(p, b) PROVE TInv'
  BY <1>1, NotifyKeeps
<1>2. ASSUME NEW k \in 0 .. Len(waitOrder), WaitTrigger(k) PROVE TInv'
  BY <1>2, WaitTriggerKeeps
<1>3. ASSUME NEW late \in SUBSET Live, TimeoutTrigger(late) PROVE TInv'
  BY <1>3, TimeoutTriggerKeeps
<1>4. ASSUME NEW p \in Peers, NEW hs \in SUBSET Hashes, Reply(p, hs) PROVE TInv'
  BY <1>4, DeliveryKeeps, Zenon DEF Reply
<1>5. ASSUME NEW p \in Peers, NEW hs \in (SUBSET Hashes) \ {{}}, Broadcast(p, hs) PROVE TInv'
  <2>1. hs \in SUBSET Hashes
    OBVIOUS
  <2> QED BY <1>5, <2>1, DeliveryKeeps, Zenon DEF Broadcast
<1>6. ASSUME NEW p \in Peers, Drop(p) PROVE TInv'
  BY <1>6, DropKeeps
<1>7. CASE UNCHANGED vars
  BY <1>7, QuietKeeps DEF vars, waiting, queued, inflight, TInv
<1> QED BY <1>1, <1>2, <1>3, <1>4, <1>5, <1>6, <1>7 DEF Next

LEMMA TInvConsistent == TInv => FetcherConsistent
<1> SUFFICES ASSUME TInv PROVE FetcherConsistent
  OBVIOUS
<1>1. /\ Agree(announces, announced, fetching, requests, alternates)
      /\ Waits(waitlist, waitslots, announced, alternates)
  BY DEF TInv, Indexed
<1>2. OneStage
  BY <1>1 DEF Agree, Waits, OneStage
<1>3. RequestsMatchFetching
  BY <1>1, DueIsDueOf DEF Agree, RequestsMatchFetching
<1>4. AnnouncesAreIndexed
  BY <1>1 DEF Agree, Waits, AnnouncesAreIndexed
<1> QED BY <1>2, <1>3, <1>4 DEF FetcherConsistent

LEMMA AlwaysTInv == Spec => []TInv
BY InitTInv, NextTInv, PTL DEF Spec

(* After every turn of the fetcher's loop each hash is in one stage, the      *)
(* requests and the index of what is being fetched agree, and what a peer     *)
(* announced is indexed under its name: through any announcements, time-outs, *)
(* stolen deliveries, late replies and drops, for any number of peers,        *)
(* hashes and outstanding requests.                                           *)
THEOREM FetcherStaysConsistent == Spec => []FetcherConsistent
BY AlwaysTInv, TInvConsistent, PTL
===============================================================================
