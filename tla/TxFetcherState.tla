---------------------------- MODULE TxFetcherState ----------------------------
(***************************************************************************)
(* The parameters and the state of the transaction fetcher                 *)
(* (eth/fetcher/tx_fetcher.go), and how its indexes belong together.       *)
(***************************************************************************)
EXTENDS Naturals, FiniteSets, Sequences, Functions

CONSTANTS
    Peers, Hashes,
    Blobs,            \* hashes of blob transactions, which do not wait
    MaxTxAnnounces,   \* announcements a peer may have outstanding
    MaxTxRetrievals,  \* hashes in a request
    MaxNotify, MaxDrop, MaxBroadcast,   \* bounds: announcements, drops, broadcasts
    Absent, Off, Stale

\* txRequest: what a peer was asked for, and what somebody else has delivered.
Request == [hashes : Seq(Hashes), stolen : SUBSET Hashes]

ASSUME FetcherAssumption ==
    /\ Absent \notin Peers /\ Absent \notin Request
    /\ IsFiniteSet(Hashes)
    /\ MaxTxAnnounces \in Nat

VARIABLES
    waitlist, waitslots, waitOrder, waitTimer,
    announces, announced,
    fetching, requests, alternates, reqOrder, timeoutTimer,
    network,          \* requests on the wire that may still be answered, by peer
    notified, dropped, broadcast   \* counters for the bounds

Due(p) == IF requests[p] = Absent THEN {} ELSE Range(requests[p].hashes) \ requests[p].stolen

-------------------------------------------------------------------------------
\* A hash is in one stage: waiting, queued, or being fetched with its
\* announcers as alternates (the automaton the type's comment describes); so
\* the panics on an item that is already tracked are never reached.
OneStage ==
    \A h \in Hashes :
        /\ waitlist[h] # {} => announced[h] = {} /\ alternates[h] = {}
        /\ announced[h] # {} => alternates[h] = {}
        /\ fetching[h] # Absent => alternates[h] # {}
        /\ alternates[h] # {} => fetching[h] # Absent

\* The requests and the index of what is being fetched agree through
\* time-outs, stolen deliveries, late replies and drops: no hash is requested
\* twice, and none is believed to be in flight when it is not.
RequestsMatchFetching ==
    \A p \in Peers, h \in Hashes : h \in Due(p) <=> fetching[h] = p

\* A hash in a peer's queue is either queued under its name or in flight with
\* it as an alternate; while hashes wait, the two indexes are the same.  The
\* first part goes one way only: a dropped peer stays among the alternates.
AnnouncesAreIndexed ==
    \A p \in Peers, h \in Hashes :
        /\ h \in announces[p] => p \in announced[h] \cup alternates[h]
        /\ h \in waitslots[p] <=> p \in waitlist[h]

\* The indexes of the fetcher agree.
FetcherConsistent == OneStage /\ RequestsMatchFetching /\ AnnouncesAreIndexed
===============================================================================
