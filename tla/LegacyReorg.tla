----------------------------- MODULE LegacyReorg ------------------------------
(***************************************************************************)
(* The goroutines of the legacy pool (core/txpool/legacypool) and how they *)
(* synchronise: callers of Add, the caller of Reset, scheduleReorgLoop and *)
(* the runReorg goroutine it starts, and Close.                            *)
(*                                                                         *)
(* The channels are unbuffered: a send and its receive are one step.  A    *)
(* `done' channel is the number of the run it belongs to, `closed' the set *)
(* of those that are closed.  The contents of the pool are abstracted to   *)
(* the accounts with a transaction no promotion has looked at yet and to   *)
(* the head the pool was reset to; LegacyPool models them.  The eviction   *)
(* ticker only competes for the lock and is left out.                      *)
(***************************************************************************)
EXTENDS LegacyReorgState

clients == <<pc, ticket, asked, head>>
loop == <<loopPc, replyTo, curDone, nextDone, launchNextRun, reset, dirtyAccounts, queuedEvents>>
content == <<unseen, poolHead, announced>>
vars == <<clients, mu, loop, runs, closed, shutdown, closePc, content>>

Init ==
    /\ pc = [c \in Clients |-> "idle"] /\ ticket = [c \in Clients |-> None]
    /\ asked = [c \in Adders |-> {}] /\ head = 0
    /\ mu = None
    /\ loopPc = "select" /\ replyTo = None
    /\ curDone = None /\ nextDone = 1 /\ launchNextRun = FALSE
    /\ reset = None /\ dirtyAccounts = {} /\ queuedEvents = {}
    /\ runs = {} /\ closed = {}
    /\ shutdown = FALSE /\ closePc = "idle"
    /\ unseen = {} /\ poolHead = 0 /\ announced = {}
-------------------------------------------------------------------------------
(* The top of scheduleReorgLoop: a run is started if one is due and none is  *)
(* active, and only then the loop waits in its select.                       *)

MayLaunch == curDone = None /\ launchNextRun

Selecting == loopPc = "select" /\ ~MayLaunch
-------------------------------------------------------------------------------
(* Callers of Add. *)

\* Add takes the lock.
AddLock(c) ==
    /\ pc[c] = "idle" /\ mu = None
    /\ mu' = c
    /\ pc' = [pc EXCEPT ![c] = "locked"]
    /\ UNCHANGED <<ticket, asked, head, loop, runs, closed, shutdown, closePc, content>>

\* The transaction goes to the queue and its account becomes dirty.
AddEnqueue(c) ==
    /\ pc[c] = "locked"
    /\ unseen' = unseen \cup {c}
    /\ asked' = [asked EXCEPT ![c] = {c}]
    /\ mu' = None
    /\ pc' = [pc EXCEPT ![c] = "request"]
    /\ UNCHANGED <<ticket, head, loop, runs, closed, shutdown, closePc, poolHead, announced>>

\* The transaction replaces a pending one: its event has to be queued, with
\* the lock held.
AddReplace(c) ==
    /\ pc[c] = "locked"
    /\ pc' = [pc EXCEPT ![c] = "event"]
    /\ UNCHANGED <<ticket, asked, head, mu, loop, runs, closed, shutdown, closePc, content>>

\* queueTxEvent, through the loop or given up at shutdown; then the unlock.
QueueTxEvent(c) ==
    /\ pc[c] = "event"
    /\ \/ Selecting /\ queuedEvents' = queuedEvents \cup {c}
       \/ shutdown /\ UNCHANGED queuedEvents
    /\ mu' = None
    /\ pc' = [pc EXCEPT ![c] = "request"]
    /\ UNCHANGED <<ticket, asked, head, loopPc, replyTo, curDone, nextDone, launchNextRun, reset,
                   dirtyAccounts, runs, closed, shutdown, closePc, content>>

\* The Resetter hears of the next head.
NewHead ==
    /\ pc[Resetter] = "idle" /\ head < MaxHead
    /\ head' = head + 1
    /\ pc' = [pc EXCEPT ![Resetter] = "request"]
    /\ UNCHANGED <<ticket, asked, mu, loop, runs, closed, shutdown, closePc, content>>

\* requestReset and requestPromoteExecutables give up at shutdown: they
\* return the shutdown channel, which is closed.
RequestAborted(c) ==
    /\ pc[c] = "request" /\ shutdown
    /\ ticket' = [ticket EXCEPT ![c] = 0]
    /\ pc' = [pc EXCEPT ![c] = "aborted"]
    /\ UNCHANGED <<asked, head, mu, loop, runs, closed, shutdown, closePc, content>>

\* The done channel a client was given is closed.
Waits(c) == c \in SyncAdders \cup {Resetter}
DoneSeen(c) ==
    /\ pc[c] = "wait" /\ (Waits(c) => ticket[c] \in closed)
    /\ pc' = [pc EXCEPT ![c] = IF c = Resetter /\ head < MaxHead THEN "idle" ELSE "returned"]
    /\ UNCHANGED <<ticket, asked, head, mu, loop, runs, closed, shutdown, closePc, content>>
-------------------------------------------------------------------------------
(* scheduleReorgLoop *)

Launch ==
    /\ loopPc = "select" /\ MayLaunch
    /\ runs' = runs \cup {[done |-> nextDone, reset |-> reset, dirty |-> dirtyAccounts,
                            events |-> queuedEvents, at |-> "lock"]}
    /\ curDone' = nextDone /\ nextDone' = nextDone + 1
    /\ launchNextRun' = FALSE
    /\ reset' = None /\ dirtyAccounts' = {} /\ queuedEvents' = {}
    /\ UNCHANGED <<clients, mu, loopPc, replyTo, closed, shutdown, closePc, content>>

\* A reset request is merged into the one that is waiting, if there is one.
RecvReset ==
    /\ Selecting /\ pc[Resetter] = "request"
    /\ reset' = IF reset = None THEN [old |-> head - 1, new |-> head] ELSE [reset EXCEPT !.new = head]
    /\ launchNextRun' = TRUE
    /\ loopPc' = "reply" /\ replyTo' = Resetter
    /\ pc' = [pc EXCEPT ![Resetter] = "reply"]
    /\ UNCHANGED <<ticket, asked, head, mu, curDone, nextDone, dirtyAccounts, queuedEvents, runs,
                   closed, shutdown, closePc, content>>

\* Mutant: a new request replaces the accounts that were waiting.
Merged_Last(c) == asked[c]
Merged(c) == dirtyAccounts \cup asked[c]
RecvPromote(c) ==
    /\ Selecting /\ c \in Adders /\ pc[c] = "request"
    /\ dirtyAccounts' = Merged(c)
    /\ launchNextRun' = TRUE
    /\ loopPc' = "reply" /\ replyTo' = c
    /\ pc' = [pc EXCEPT ![c] = "reply"]
    /\ UNCHANGED <<ticket, asked, head, mu, curDone, nextDone, reset, queuedEvents, runs,
                   closed, shutdown, closePc, content>>

\* reorgDoneCh: the client is given the channel of the run that will serve it.
\* Mutant: it is given the channel of the run that is active.
DoneChannel_Current == IF curDone = None THEN nextDone ELSE curDone
DoneChannel == nextDone
Reply ==
    /\ loopPc = "reply"
    /\ ticket' = [ticket EXCEPT ![replyTo] = DoneChannel]
    /\ pc' = [pc EXCEPT ![replyTo] = "wait"]
    /\ loopPc' = "select" /\ replyTo' = None
    /\ UNCHANGED <<asked, head, mu, curDone, nextDone, launchNextRun, reset, dirtyAccounts,
                   queuedEvents, runs, closed, shutdown, closePc, content>>

RunDone ==
    /\ Selecting /\ curDone \in closed
    /\ curDone' = None
    /\ UNCHANGED <<clients, mu, loopPc, replyTo, nextDone, launchNextRun, reset, dirtyAccounts,
                   queuedEvents, runs, closed, shutdown, closePc, content>>

\* Shutdown: wait for the current run, then free whoever waits for the next.
ShutdownSeen ==
    /\ Selecting /\ shutdown
    /\ loopPc' = "drain"
    /\ UNCHANGED <<clients, mu, replyTo, curDone, nextDone, launchNextRun, reset, dirtyAccounts,
                   queuedEvents, runs, closed, shutdown, closePc, content>>

Drained == curDone = None \/ curDone \in closed
Freed == {nextDone}
Drain ==
    /\ loopPc = "drain" /\ Drained
    /\ closed' = closed \cup Freed
    /\ loopPc' = "stopped"
    /\ UNCHANGED <<clients, mu, replyTo, curDone, nextDone, launchNextRun, reset, dirtyAccounts,
                   queuedEvents, runs, shutdown, closePc, content>>
-------------------------------------------------------------------------------
(* runReorg *)

RunLock(r) ==
    /\ r.at = "lock" /\ mu = None
    /\ mu' = "run"
    /\ runs' = (runs \ {r}) \cup {[r EXCEPT !.at = "locked"]}
    /\ UNCHANGED <<clients, loop, closed, shutdown, closePc, content>>

\* Under the lock: the reset, which looks at every account and forgets the
\* events that became stale, or the promotion of the dirty accounts.
RunBody(r) ==
    /\ r.at = "locked"
    /\ poolHead' = IF r.reset # None THEN r.reset.new ELSE poolHead
    /\ unseen' = IF r.reset # None THEN {} ELSE unseen \ r.dirty
    /\ \E stale \in IF r.reset # None THEN SUBSET r.events ELSE {{}} :
         runs' = (runs \ {r}) \cup {[r EXCEPT !.at = "send", !.events = @ \ stale]}
    /\ mu' = None
    /\ UNCHANGED <<clients, loop, closed, shutdown, closePc, announced>>

\* The announcement, and the deferred close(done).
RunSend(r) ==
    /\ r.at = "send"
    /\ announced' = announced \cup r.events
    /\ closed' = closed \cup {r.done}
    /\ runs' = runs \ {r}
    /\ UNCHANGED <<clients, mu, loop, shutdown, closePc, unseen, poolHead>>
-------------------------------------------------------------------------------
(* Close *)

Close ==
    /\ closePc = "idle"
    /\ shutdown' = TRUE /\ closePc' = "wait"
    /\ UNCHANGED <<clients, mu, loop, runs, closed, content>>
CloseReturn ==
    /\ closePc = "wait" /\ loopPc = "stopped"
    /\ closePc' = "returned"
    /\ UNCHANGED <<clients, mu, loop, runs, closed, shutdown, content>>

AddStep(c) == AddEnqueue(c) \/ AddReplace(c) \/ QueueTxEvent(c)
ClientStep(c) == RequestAborted(c) \/ DoneSeen(c)
RunStep == \E r \in runs : RunLock(r) \/ RunBody(r) \/ RunSend(r)

Next ==
    \/ \E c \in Adders : AddLock(c) \/ AddStep(c) \/ RecvPromote(c)
    \/ \E c \in Clients : ClientStep(c)
    \/ NewHead \/ RecvReset
    \/ Launch \/ Reply \/ RunDone \/ ShutdownSeen \/ Drain
    \/ RunStep
    \/ Close \/ CloseReturn

\* Goroutines that can go on do: weak fairness of every step that is not a
\* call from outside (Add, Reset, Close).  Since each caller acts
\* finitely often here, neither the lock nor the select can starve anybody.
AdderStep(c) == AddStep(c) \/ RecvPromote(c) \/ ClientStep(c)
LoopStep == Launch \/ Reply \/ RunDone \/ ShutdownSeen \/ Drain
Fairness ==
    /\ \A c \in Adders : WF_vars(AdderStep(c))
    /\ WF_vars(ClientStep(Resetter) \/ RecvReset)
    /\ WF_vars(LoopStep) /\ WF_vars(RunStep)
    /\ WF_vars(CloseReturn)

Spec == Init /\ [][Next]_vars /\ Fairness
-------------------------------------------------------------------------------
\* The control points and the values that go with them.
TypeOK ==
    /\ pc \in [Clients -> {"idle", "locked", "event", "request", "reply", "wait", "aborted", "returned"}]
    /\ ticket \in [Clients -> Nat \cup {None}] /\ asked \in [Adders -> SUBSET Adders]
    /\ head \in 0..MaxHead /\ poolHead \in 0..MaxHead
    /\ mu \in Adders \cup {"run", None}
    /\ loopPc \in {"select", "reply", "drain", "stopped"} /\ replyTo \in Clients \cup {None}
    /\ curDone \in Nat \cup {None} /\ nextDone \in Nat /\ launchNextRun \in BOOLEAN
    /\ reset \in {None} \cup [old : 0..MaxHead, new : 0..MaxHead]
    /\ dirtyAccounts \subseteq Adders /\ queuedEvents \subseteq Adders
    /\ closed \subseteq Nat /\ unseen \subseteq Adders /\ announced \subseteq Adders
===============================================================================
