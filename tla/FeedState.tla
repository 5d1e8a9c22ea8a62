------------------------------ MODULE FeedState ------------------------------
(***************************************************************************)
(* The parameters and the state of an event feed (event/feed.go), the      *)
(* operations of caseList, the list of the channels a Send has to serve,   *)
(* and what the lists are for.                                             *)
(***************************************************************************)
EXTENDS Naturals, Sequences, FiniteSets

CONSTANTS
    Subs,      \* subscriptions, each made and ended once
    Channels,
    ChanOf,    \* ChanOf[s]: the channel of s; a channel may be subscribed twice
    Cap,       \* buffer space of a channel
    Senders,   \* calls of Send; each sends its own name
    None

ASSUME FeedAssumption ==
    /\ IsFiniteSet(Subs) /\ ChanOf \in [Subs -> Channels]
    /\ Cap \in Nat
    /\ None \notin Senders

VARIABLES
    inbox,     \* channels subscribed since the last Send
    sendCases, \* channels Send knows
    cases,     \* length of the prefix the running Send has still to serve
    index,     \* position of the fast path
    sendLock,  \* the goroutine that took the token, or None
    sendPc, subPc,
    nsent,
    buffer,    \* what is in each channel
    got,       \* history: what was ever sent on each channel
    returned   \* history: the results of Send

-------------------------------------------------------------------------------
\* The first case of channel c, or 0.
find(list, c) ==
    LET hits == {i \in 1 .. Len(list) : list[i] = c} IN
    IF hits = {} THEN 0 ELSE CHOOSE i \in hits : \A j \in hits : i <= j

delete(list, i) == SubSeq(list, 1, i - 1) \o SubSeq(list, i + 1, Len(list))

\* The case at i moves behind the cases that are still active.
deactivate(list, i, last) == [list EXCEPT ![i] = list[last], ![last] = list[i]]

\* How many of the first n cases are of channel c.
Count(list, n, c) == Cardinality({i \in 1 .. n : list[i] = c})
-------------------------------------------------------------------------------
\* The number of times channel c is listed.
Listed(c) == Count(sendCases, Len(sendCases), c) + Count(inbox, Len(inbox), c)

Sending == \E p \in Senders : sendPc[p] \in {"try", "select", "unlock"}

\* The feed keeps its promise: the lists, the prefix and the interrupted select
\* of Send come to one delivery per subscription, in the order of the sends.
Promise == INSTANCE FeedPromise WITH
    Values <- Senders,
    subs <- [c \in Channels |-> Listed(c)],
    current <- IF Sending THEN sendLock ELSE None,
    owed <- [c \in Channels |-> IF Sending THEN Count(sendCases, cases, c) ELSE 0],
    nsent <- IF Sending THEN nsent ELSE 0

KeepsPromise == Promise!Spec

\* Every subscription that has not ended is in one of the lists, so that the
\* index that remove and Send look up is never -1 (delete would panic).
EverySubListed ==
    \A c \in Channels :
        Listed(c)
            = Cardinality({s \in Subs : ChanOf[s] = c /\ subPc[s] \in {"subscribed", "removing"}})
===============================================================================
