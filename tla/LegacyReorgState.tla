--------------------------- MODULE LegacyReorgState ---------------------------
(***************************************************************************)
(* The parameters and the state of the goroutines of the legacy pool       *)
(* (core/txpool/legacypool), and what their callers may rely on.           *)
(***************************************************************************)
EXTENDS Integers, FiniteSets

CONSTANTS
    Adders,          \* callers of Add, each with an account of its own
    SyncAdders,      \* those that call it with sync = true
    Resetter,        \* the caller of Reset (TxPool runs one reset at a time)
    MaxHead,         \* bound: heads the chain reaches
    None

ASSUME AdderAssumption ==
    /\ SyncAdders \subseteq Adders /\ Resetter \notin Adders
    /\ None \notin Adders \cup {Resetter} \cup Nat
    /\ None \notin [old : 0..MaxHead, new : 0..MaxHead]
    /\ MaxHead \in Nat

Clients == Adders \cup {Resetter}

VARIABLES
    pc,              \* of every client
    ticket,          \* the done channel a client has been given
    asked,           \* the accounts an adder asks to promote
    head,            \* head the Resetter asks for (last) and the chain's
    mu,              \* who holds pool.mu
    \* scheduleReorgLoop
    loopPc, replyTo, curDone, nextDone, launchNextRun, reset, dirtyAccounts, queuedEvents,
    runs,            \* the runReorg goroutines
    closed,          \* closed done channels
    shutdown,        \* reorgShutdownCh is closed
    closePc,
    \* the pool
    unseen, poolHead, announced

-------------------------------------------------------------------------------
\* The loop knows whether a run is active: a run that has not closed its
\* channel is the one curDone names, so there is never a second one.
RunIsTracked == \A r \in runs : r.done = curDone /\ r.done \notin closed

\* A caller that was not cut short by Close returns after its work is done:
\* a synchronous Add finds its account looked at, a Reset the pool at its head.
DoneMeansDone ==
    /\ \A c \in SyncAdders : pc[c] = "returned" => c \notin unseen \/ shutdown
    /\ pc[Resetter] \in {"idle", "returned"} => poolHead = head \/ shutdown

\* When Close has returned no run is using the pool any more.
ClosedIsQuiet == closePc = "returned" => runs = {}

\* The runs of the reorg loop: one at a time, none reported done before its
\* callers' work is, and none left behind by Close.
RunsAreSound == RunIsTracked /\ DoneMeansDone /\ ClosedIsQuiet

\* Nobody is waiting: whoever asked for a run has returned, what was queued has
\* been looked at by a promotion run, unless the pool is closed, and Close is
\* not under way.
AllServed ==
    /\ \A c \in Clients : pc[c] \notin {"request", "reply", "wait"}
    /\ unseen = {} \/ shutdown
    /\ closePc # "wait"

\* Nobody waits for ever on the reorg loop: callers return, what was queued is
\* promoted, and Close ends.
EveryoneReturns == []<>AllServed
===============================================================================
