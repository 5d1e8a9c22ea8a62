------------------------------- MODULE MCTxPool -------------------------------
(***************************************************************************)
(* TxPoolLoop, and instances of Feed and TxFetcher.  They share no state:  *)
(* "part" says which of them moves in a behaviour, and the variables of    *)
(* the others keep their first value.                                      *)
(***************************************************************************)
EXTENDS TxPoolLoop, FeedState, TxFetcherState

VARIABLE part

fetcher == <<waitlist, waitslots, waitOrder, waitTimer, announces, announced, fetching, requests,
             alternates, reqOrder, timeoutTimer, network, notified, dropped, broadcast>>
feed == <<inbox, sendCases, cases, index, sendLock, sendPc, subPc, nsent, buffer, got, returned>>

MCChanOf == [s \in Subs |-> IF s = "s1" THEN "c1" ELSE "c2"]
Feed == INSTANCE Feed

Fetcher == INSTANCE TxFetcher

SuiteInit ==
    /\ part \in {"loop", "feed", "fetcher"}
    /\ Init /\ (part # "loop" => stale)
    /\ Feed!Init
    /\ Fetcher!Init

SuiteNext ==
    \/ part = "loop" /\ Next /\ UNCHANGED <<part, feed, fetcher>>
    \/ part = "feed" /\ Feed!Next /\ UNCHANGED <<part, vars, fetcher>>
    \/ part = "fetcher" /\ Fetcher!Next /\ UNCHANGED <<part, vars, feed>>

\* The fairness of each component, in the behaviours in which it moves.
InLoop == part = "loop"
LoopFairness ==
    /\ WF_vars(InLoop /\ InitSubpool) /\ WF_vars(InLoop /\ Subscribe) /\ WF_vars(InLoop /\ TryReset)
    /\ SF_vars(InLoop /\ ReceiveHead) /\ SF_vars(InLoop /\ ReceiveQuit)
    /\ SF_vars(InLoop /\ \E r \in resets : ReceiveDone(r))
    /\ \A c \in Syncers : SF_vars(InLoop /\ ReceiveSync(c)) /\ WF_vars(InLoop /\ SyncTerminated(c))
    /\ WF_vars(InLoop /\ \E r \in resets : ResetSubpool(r) \/ ResetAbandoned(r))
    /\ WF_vars(InLoop /\ ReplyQuit) /\ WF_vars(InLoop /\ NotifyWaiter)
    /\ WF_vars(InLoop /\ Unsubscribe) /\ WF_vars(InLoop /\ Terminate)
    /\ WF_vars(InLoop /\ CloseSubpool)

InFeed == part = "feed"
FeedFairness ==
    /\ \A p \in Senders : WF_feed(InFeed /\ Feed!SendStep(p))
    /\ \A s \in Subs :
           WF_feed(InFeed /\ (Feed!RemoveIdle(s) \/ \E p \in Senders : Feed!SelectRemove(p, s)))
    /\ \A c \in Channels : WF_feed(InFeed /\ Feed!Receive(c))

InFetcher == part = "fetcher"
FetcherFairness ==
    /\ WF_fetcher(InFetcher /\ \E k \in 0 .. Len(waitOrder) : Fetcher!WaitTrigger(k))
    /\ WF_fetcher(InFetcher /\ \E late \in SUBSET Fetcher!Live : Fetcher!TimeoutTrigger(late))

SuiteSpec ==
    SuiteInit /\ [][SuiteNext]_<<part, vars, feed, fetcher>>
    /\ LoopFairness /\ FeedFairness /\ FetcherFairness

-------------------------------------------------------------------------------
(* The properties of the instances. *)

\* Send and Unsubscribe of a Feed return, although a subscriber may stop
\* reading in order to unsubscribe.
FeedCallersReturn == Feed!SendReturns /\ Feed!UnsubscribeReturns

\* No hash is stuck in the fetcher: the wait for a broadcast ends, a peer that
\* never answers does not keep it, and an idle peer is asked for what it has.
FetcherProgress == Fetcher!WaitingEnds /\ Fetcher!FetchingEnds /\ Fetcher!IdlePeerIsAsked
===============================================================================
