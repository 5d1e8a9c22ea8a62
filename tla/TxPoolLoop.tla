------------------------------ MODULE TxPoolLoop ------------------------------
(***************************************************************************)
(* The coordinator of the transaction pool (core/txpool/txpool.go): New,   *)
(* the event loop, the goroutine that resets the subpools, Sync and Close, *)
(* together with the chain that announces its heads to the loop.           *)
(*                                                                         *)
(* Channels are unbuffered: a send and its receive are one step.  A head   *)
(* is its number; a subpool is the head it was last reset to.              *)
(***************************************************************************)
EXTENDS Integers, FiniteSets

CONSTANTS
    NumSubpools,  \* len(subpools)
    Syncers,      \* the goroutines that call Sync
    MaxHead       \* bound: heads the chain announces

ASSUME LoopAssumption == NumSubpools \in Nat \ {0} /\ MaxHead \in Nat

VARIABLES
    chainHead,    \* the head of the chain
    event,        \* the head the chain is sending to newHeadCh, or -1
    subscribed,   \* newHeadSub
    loop,         \* where the event loop is
    oldHead, newHead, resetForced,
    resetBusy,    \* whether the marker is in the channel
    resetWaiter,  \* the caller whose channel it is, or NoCaller
    resets,       \* the reset goroutines: [old, new, next, covers]
    state,        \* the head of p.state
    stale,        \* the last StateAt failed
    term,         \* the channel term is closed
    subHead,      \* for each subpool, the head it was last reset to
    open,         \* the subpools initialised and not closed
    closer,       \* where Close is
    sync,         \* where each call of Sync is
    covered       \* the callers whose request was followed by a whole reset

loopVars == <<loop, oldHead, newHead, resetForced, resetBusy, resetWaiter, state, stale, term>>
vars == <<chainHead, event, subscribed, loopVars, resets, subHead, open, closer, sync, covered>>

Subpools == 1 .. NumSubpools
NoCaller == "none"
NoEvent == -1
Heads == 0 .. MaxHead

Reset == [old : Heads, new : Heads, next : 1 .. NumSubpools + 1, covers : SUBSET Syncers]

(* The control points of the goroutines, and heads within the chain's. *)
TypeOK ==
    /\ chainHead \in Heads /\ event \in Heads \cup {NoEvent} /\ subscribed \in BOOLEAN
    /\ loop \in {"init", "failed", "subscribe", "top", "select", "reply",
                 "notify", "unsubscribe", "terminate", "dead"}
    /\ oldHead \in Heads /\ newHead \in Heads /\ state \in Heads
    /\ {resetForced, resetBusy, stale, term} \subseteq BOOLEAN
    /\ resetWaiter \in Syncers \cup {NoCaller}
    /\ resets \subseteq Reset
    /\ subHead \in [Subpools -> Heads] /\ open \subseteq Subpools
    /\ closer \in {"idle", "quit", "errc", "subpools", "closed"}
    /\ sync \in [Syncers -> {"idle", "sending", "waiting", "nil", "terminated"}]
    /\ covered \subseteq Syncers

(* New has read the head of the chain. *)
Init ==
    /\ chainHead = 0 /\ event = NoEvent /\ subscribed = FALSE
    /\ loop = "init" /\ oldHead = 0 /\ newHead = 0
    /\ resetForced = FALSE /\ resetBusy = FALSE /\ resetWaiter = NoCaller
    /\ resets = {} /\ state = 0 /\ stale \in BOOLEAN /\ term = FALSE
    /\ subHead = [i \in Subpools |-> 0] /\ open = {}
    /\ closer = "idle"
    /\ sync = [c \in Syncers |-> "idle"] /\ covered = {}

-----------------------------------------------------------------------------
(* The chain has a new head; the feed's Send returns when every subscriber took it. *)
Extend ==
    /\ event = NoEvent /\ chainHead < MaxHead
    /\ chainHead' = chainHead + 1
    /\ event' = IF subscribed THEN chainHead + 1 ELSE NoEvent
    /\ UNCHANGED <<subscribed, loopVars, resets, subHead, open, closer, sync, covered>>

(* New initialises the subpools in order; when one fails it closes those before it. *)
InitSubpool ==
    /\ loop = "init"
    /\ \/ /\ open' = open \cup {Cardinality(open) + 1}
          /\ loop' = IF open' = Subpools THEN "subscribe" ELSE "init"
       \/ /\ open' = {}
          /\ loop' = "failed"
    /\ UNCHANGED <<chainHead, event, subscribed, oldHead, newHead, resetForced, resetBusy,
                   resetWaiter, resets, state, stale, term, subHead, closer, sync, covered>>

Subscribe ==
    /\ loop = "subscribe"
    /\ subscribed' = TRUE
    /\ loop' = "top"
    /\ UNCHANGED <<chainHead, event, oldHead, newHead, resetForced, resetBusy, resetWaiter,
                   resets, state, stale, term, subHead, open, closer, sync, covered>>

Waiting == {c \in Syncers : sync[c] = "waiting"}

(* Mutant: the busy marker is not looked at. *)
ResetStarts_Busy == newHead # oldHead \/ resetForced

(* A reset is needed and the busy marker can be injected. *)
ResetStarts == (newHead # oldHead \/ resetForced) /\ ~resetBusy

ResetState == newHead

(* The top of the loop: a reset starts when one is needed and none is running. *)
TryReset ==
    /\ loop = "top"
    /\ loop' = "select"
    /\ IF ResetStarts
       THEN /\ resetBusy' = TRUE
            /\ \/ state' = ResetState /\ stale' = FALSE
               \/ state' = state /\ stale' = TRUE
            /\ resets' = resets \cup {[old |-> oldHead, new |-> newHead, next |-> 1, covers |-> Waiting]}
            /\ resetForced' = FALSE
       ELSE UNCHANGED <<resetBusy, state, stale, resets, resetForced>>
    /\ UNCHANGED <<chainHead, event, subscribed, oldHead, newHead, resetWaiter, term,
                   subHead, open, closer, sync, covered>>

(* case event := <-newHeadCh *)
ReceiveHead ==
    /\ loop = "select" /\ event # NoEvent
    /\ newHead' = event
    /\ event' = NoEvent
    /\ loop' = "top"
    /\ UNCHANGED <<chainHead, subscribed, oldHead, resetForced, resetBusy, resetWaiter,
                   resets, state, stale, term, subHead, open, closer, sync, covered>>

Remaining(r) == r.next <= NumSubpools

(* The reset goroutine resets the next subpool. *)
ResetSubpool(r) ==
    /\ Remaining(r)
    /\ subHead' = [subHead EXCEPT ![r.next] = r.new]
    /\ resets' = (resets \ {r}) \cup {[r EXCEPT !.next = @ + 1]}
    /\ UNCHANGED <<chainHead, event, subscribed, loopVars, open, closer, sync, covered>>

(* The waiter is told unless a forced reset is still pending. *)
Notified == resetWaiter # NoCaller /\ ~resetForced

(* Mutant: the busy marker stays in the channel. *)
BusyAfterDone_Kept == resetBusy

BusyAfterDone == FALSE

(* case head := <-resetDone *)
ReceiveDone(r) ==
    /\ loop = "select" /\ ~Remaining(r)
    /\ resets' = resets \ {r}
    /\ oldHead' = r.new
    /\ resetBusy' = BusyAfterDone
    /\ covered' = covered \cup r.covers
    /\ IF Notified
       THEN sync' = [sync EXCEPT ![resetWaiter] = "nil"] /\ resetWaiter' = NoCaller
       ELSE UNCHANGED <<sync, resetWaiter>>
    /\ loop' = "top"
    /\ UNCHANGED <<chainHead, event, subscribed, newHead, resetForced, state, stale, term,
                   subHead, open, closer>>

(* Mutant: the goroutine waits for the loop alone. *)
ResetAbandoned_Never(r) == FALSE /\ UNCHANGED vars

(* The loop is gone: the goroutine takes the other case of its select. *)
ResetAbandoned(r) ==
    /\ term /\ ~Remaining(r)
    /\ resets' = resets \ {r}
    /\ UNCHANGED <<chainHead, event, subscribed, loopVars, subHead, open, closer, sync, covered>>

(* case errc = <-p.quit *)
ReceiveQuit ==
    /\ loop = "select" /\ closer = "quit"
    /\ closer' = "errc"
    /\ loop' = "reply"
    /\ UNCHANGED <<chainHead, event, subscribed, oldHead, newHead, resetForced, resetBusy,
                   resetWaiter, resets, state, stale, term, subHead, open, sync, covered>>

(* case syncc := <-p.sync *)
ReceiveSync(c) ==
    /\ loop = "select" /\ sync[c] = "sending"
    /\ sync' = [sync EXCEPT ![c] = "waiting"]
    /\ covered' = covered \ {c}
    /\ resetForced' = TRUE
    /\ resetWaiter' = c
    /\ loop' = "top"
    /\ UNCHANGED <<chainHead, event, subscribed, oldHead, newHead, resetBusy, resets, state,
                   stale, term, subHead, open, closer>>

-----------------------------------------------------------------------------
(* After the loop: errc <- nil, then the deferred calls, last one first. *)
ReplyQuit ==
    /\ loop = "reply" /\ closer = "errc"
    /\ closer' = "subpools"
    /\ loop' = "notify"
    /\ UNCHANGED <<chainHead, event, subscribed, oldHead, newHead, resetForced, resetBusy,
                   resetWaiter, resets, state, stale, term, subHead, open, sync, covered>>

LiveWaiter == resetWaiter # NoCaller

NotifyWaiter ==
    /\ loop = "notify"
    /\ IF LiveWaiter
       THEN sync' = [sync EXCEPT ![resetWaiter] = "terminated"] /\ resetWaiter' = NoCaller
       ELSE UNCHANGED <<sync, resetWaiter>>
    /\ loop' = "unsubscribe"
    /\ UNCHANGED <<chainHead, event, subscribed, oldHead, newHead, resetForced, resetBusy,
                   resets, state, stale, term, subHead, open, closer, covered>>

(* A Send that waits for this subscriber goes on without it. *)
Unsubscribe ==
    /\ loop = "unsubscribe"
    /\ subscribed' = FALSE
    /\ event' = NoEvent
    /\ loop' = "terminate"
    /\ UNCHANGED <<chainHead, oldHead, newHead, resetForced, resetBusy, resetWaiter, resets,
                   state, stale, term, subHead, open, closer, sync, covered>>

Terminate ==
    /\ loop = "terminate"
    /\ term' = TRUE
    /\ loop' = "dead"
    /\ UNCHANGED <<chainHead, event, subscribed, oldHead, newHead, resetForced, resetBusy,
                   resetWaiter, resets, state, stale, subHead, open, closer, sync, covered>>

(* Sync: the request goes to the loop, or the pool is terminated already. *)
CallSync(c) ==
    /\ loop \notin {"init", "failed"} /\ sync[c] \in {"idle", "nil"}
    /\ sync' = [sync EXCEPT ![c] = "sending"]
    /\ UNCHANGED <<chainHead, event, subscribed, loopVars, resets, subHead, open, closer, covered>>

SyncTerminated(c) ==
    /\ sync[c] = "sending" /\ term
    /\ sync' = [sync EXCEPT ![c] = "terminated"]
    /\ UNCHANGED <<chainHead, event, subscribed, loopVars, resets, subHead, open, closer, covered>>

(* Close: send to quit, wait for the answer, close the subpools in order. *)
CallClose ==
    /\ loop \notin {"init", "failed"} /\ closer = "idle"
    /\ closer' = "quit"
    /\ UNCHANGED <<chainHead, event, subscribed, loopVars, resets, subHead, open, sync, covered>>

CloseSubpool ==
    /\ closer = "subpools"
    /\ LET first == CHOOSE i \in open : \A j \in open : i <= j
       IN  open' = open \ {first}
    /\ closer' = IF open' = {} THEN "closed" ELSE "subpools"
    /\ UNCHANGED <<chainHead, event, subscribed, loopVars, resets, subHead, sync, covered>>

Next ==
    \/ Extend \/ InitSubpool \/ Subscribe \/ TryReset
    \/ ReceiveHead \/ ReceiveQuit
    \/ \E r \in resets : ResetSubpool(r) \/ ReceiveDone(r) \/ ResetAbandoned(r)
    \/ \E c \in Syncers : ReceiveSync(c) \/ CallSync(c) \/ SyncTerminated(c)
    \/ ReplyQuit \/ NotifyWaiter \/ Unsubscribe \/ Terminate
    \/ CallClose \/ CloseSubpool

(***************************************************************************)
(* Goroutines that can run do run.  Go's select picks one of the ready     *)
(* cases at random, so that none of them is passed over for ever.          *)
(***************************************************************************)
Fairness ==
    /\ WF_vars(InitSubpool) /\ WF_vars(Subscribe) /\ WF_vars(TryReset)
    /\ SF_vars(ReceiveHead) /\ SF_vars(ReceiveQuit)
    /\ SF_vars(\E r \in resets : ReceiveDone(r))
    /\ \A c \in Syncers : SF_vars(ReceiveSync(c)) /\ WF_vars(SyncTerminated(c))
    /\ WF_vars(\E r \in resets : ResetSubpool(r) \/ ResetAbandoned(r))
    /\ WF_vars(ReplyQuit) /\ WF_vars(NotifyWaiter) /\ WF_vars(Unsubscribe) /\ WF_vars(Terminate)
    /\ WF_vars(CloseSubpool)

Spec == Init /\ [][Next]_vars /\ Fairness
-----------------------------------------------------------------------------
(***************************************************************************)
(* A reset carries every subpool from the head the subpool is at: the      *)
(* subpools it has not reached yet are at its old head, the others at its  *)
(* new one, and with no reset running all are at oldHead.                  *)
(***************************************************************************)
ResetsAreContiguous ==
    /\ \A r \in resets : \A i \in Subpools : subHead[i] = IF i < r.next THEN r.new ELSE r.old
    /\ resets = {} /\ loop # "dead" => \A i \in Subpools : subHead[i] = oldHead

(* The state that Nonce reads is not behind the subpools, unless the last StateAt failed. *)
StateNotBehind ==
    ~stale => \A i \in Subpools : state >= subHead[i]

(* When Sync returns without an error, a whole reset ran after the request was taken. *)
SyncRanReset ==
    \A c \in Syncers : sync[c] = "nil" => c \in covered

(* The resets of the loop follow each other without a gap, the state keeps *)
(* up with them, and a Sync is answered by one that began after it.        *)
ResetsAreSound == ResetsAreContiguous /\ StateNotBehind /\ SyncRanReset

(* A head that the loop has taken reaches every subpool, unless the pool is closed. *)
HeadsReachSubpools ==
    \A h \in Heads :
        newHead = h ~> (\A i \in Subpools : subHead[i] >= h) \/ closer # "idle"

(* Sync returns, whatever it meets: a reset running, new heads, a pool that closes. *)
SyncReturns ==
    \A c \in Syncers : sync[c] = "sending" ~> sync[c] \in {"nil", "terminated"}

(* Close returns with all subpools closed, and no goroutine of the pool is left. *)
CloseReturns ==
    closer = "quit" ~> closer = "closed" /\ loop = "dead" /\ resets = {}

(* The pool does not hold up the chain: a Send of a head event returns. *)
SendReturns == event # NoEvent ~> event = NoEvent

(* Whoever calls into the pool returns: Sync, Close and the chain's Send. *)
EveryoneReturns == SyncReturns /\ CloseReturns /\ SendReturns
=============================================================================
