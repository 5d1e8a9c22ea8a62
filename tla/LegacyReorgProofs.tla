--------------------------- MODULE LegacyReorgProofs --------------------------
(***************************************************************************)
(* Proofs about LegacyReorg, for any callers of Add and any number of      *)
(* heads: what scheduleReorgLoop, runReorg and Close of the legacy pool    *)
(* (core/txpool/legacypool) keep true in every interleaving.               *)
(***************************************************************************)
EXTENDS LegacyReorg, TLAPS

USE AdderAssumption

Run ==
    [done : Nat, reset : {None} \cup [old : 0..MaxHead, new : 0..MaxHead],
     dirty : SUBSET Adders, events : SUBSET Adders, at : {"lock", "locked", "send"}]

(* TypeOK, with the types of the runs and the head of a request. *)
Typed == TypeOK /\ runs \subseteq Run /\ (pc[Resetter] = "request" => head >= 1)

(* Done channels are numbered in the order of the runs; only Drain closes one without a run. *)
Channels ==
    /\ nextDone >= 1 /\ (curDone # None => curDone < nextDone)
    /\ RunIsTracked /\ \A r, q \in runs : r = q
    /\ loopPc # "stopped" => \A k \in closed : k < nextDone
    /\ loopPc = "stopped" => runs = {}
    /\ loopPc \in {"drain", "stopped"} => shutdown
    /\ closePc = "returned" => loopPc = "stopped"

(* The loop owes an answer to the one client it is replying to. *)
Replying ==
    /\ replyTo # None => loopPc = "reply"
    /\ \A c \in Clients : pc[c] = "reply" => replyTo = c
    /\ loopPc = "reply" => replyTo \in Clients /\ pc[replyTo] = "reply"

(* The run that closes the channel a client was given has its work still before it. *)
Before(r, c) == r.done = ticket[c] /\ r.at # "send"

(* An account nobody looked at is on its way: asked for, waiting for a run, or in one. *)
AddersServed ==
    ~shutdown => \A c \in Adders \cap unseen :
        /\ pc[c] \notin {"idle", "locked", "event", "aborted"}
        /\ pc[c] = "request" => c \in asked[c]
        /\ pc[c] = "reply" => c \in dirtyAccounts
        /\ pc[c] = "wait" => \/ ticket[c] = nextDone /\ c \in dirtyAccounts
                             \/ \E r \in runs : Before(r, c) /\ (r.reset # None \/ c \in r.dirty)
        /\ pc[c] = "returned" => c \notin SyncAdders

(* The head the Resetter asked for is the one that waits, is in a run or has arrived. *)
ResetServed ==
    ~shutdown =>
        /\ pc[Resetter] \in {"idle", "returned"} => poolHead = head
        /\ pc[Resetter] = "reply" => reset # None
        /\ pc[Resetter] = "wait" => \/ poolHead = head
                                    \/ ticket[Resetter] = nextDone /\ reset # None
                                    \/ \E r \in runs : Before(r, Resetter) /\ r.reset # None
        /\ reset # None => /\ reset.new = head /\ pc[Resetter] \in {"reply", "wait"}
                           /\ pc[Resetter] = "wait" => ticket[Resetter] = nextDone
        /\ \A r \in runs : r.at # "send" /\ r.reset # None =>
               r.reset.new = head /\ pc[Resetter] = "wait" /\ ticket[Resetter] = r.done

(* The inductive invariant. *)
IInv == Typed /\ Channels /\ Replying /\ AddersServed /\ ResetServed

LEMMA InitIInv == Init => IInv
<1> SUFFICES ASSUME Init PROVE IInv
  OBVIOUS
<1>1. Typed
  <2>1. pc = [c \in Clients |-> "idle"] /\ pc[Resetter] = "idle"
    BY DEF Init, Clients
  <2>2. ticket \in [Clients -> Nat \cup {None}] /\ asked \in [Adders -> SUBSET Adders]
    BY DEF Init
  <2>3. head \in 0..MaxHead /\ poolHead \in 0..MaxHead
    BY DEF Init
  <2> QED BY <2>1, <2>2, <2>3 DEF Init, Typed, TypeOK
<1>2. Channels /\ Replying
  BY DEF Init, Channels, RunIsTracked, Replying, Clients
<1>3. AddersServed /\ ResetServed
  BY DEF Init, AddersServed, ResetServed, Clients
<1> QED BY <1>1, <1>2, <1>3 DEF IInv

(* Every step of the callers, of the loop and of a run keeps the invariant. *)
LEMMA NextIInv == IInv /\ [Next]_vars => IInv'
<1> SUFFICES ASSUME IInv, [Next]_vars PROVE IInv'
  OBVIOUS
<1>1. ASSUME NEW c \in Adders, AddLock(c) PROVE IInv'
  <2>1. Typed'
    BY <1>1 DEF IInv, AddLock, Typed, TypeOK, Clients, Run, loop, content
  <2>2. Channels'
    BY <1>1 DEF IInv, AddLock, Typed, TypeOK, Run, Channels, RunIsTracked, loop, content
  <2>3. Replying'
    BY <1>1 DEF IInv, AddLock, Typed, TypeOK, Replying, Clients, loop, content
  <2>4. AddersServed'
    BY <1>1 DEF IInv, AddLock, Typed, TypeOK, Clients, Run, Channels, RunIsTracked, Replying,
      AddersServed, Before, loop, content
  <2>5. ResetServed'
    BY <1>1 DEF IInv, AddLock, Typed, TypeOK, Clients, Run, Channels, RunIsTracked, Replying,
      ResetServed, Before, loop, content
  <2> QED BY <2>1, <2>2, <2>3, <2>4, <2>5 DEF IInv
<1>2. ASSUME NEW c \in Adders, AddEnqueue(c) PROVE IInv'
  <2>1. Typed'
    BY <1>2 DEF IInv, AddEnqueue, Typed, TypeOK, Clients, Run, loop
  <2>2. Channels'
    BY <1>2 DEF IInv, AddEnqueue, Typed, TypeOK, Run, Channels, RunIsTracked, loop
  <2>3. Replying'
    BY <1>2 DEF IInv, AddEnqueue, Typed, TypeOK, Replying, Clients, loop
  <2>4. AddersServed'
    BY <1>2 DEF IInv, AddEnqueue, Typed, TypeOK, Clients, Run, Channels, RunIsTracked, Replying,
      AddersServed, Before, loop
  <2>5. ResetServed'
    BY <1>2 DEF IInv, AddEnqueue, Typed, TypeOK, Clients, Run, Channels, RunIsTracked, Replying,
      ResetServed, Before, loop
  <2> QED BY <2>1, <2>2, <2>3, <2>4, <2>5 DEF IInv
<1>3. ASSUME NEW c \in Adders, AddReplace(c) PROVE IInv'
  <2>1. Typed'
    BY <1>3 DEF IInv, AddReplace, Typed, TypeOK, Clients, Run, loop, content
  <2>2. Channels'
    BY <1>3 DEF IInv, AddReplace, Typed, TypeOK, Run, Channels, RunIsTracked, loop, content
  <2>3. Replying'
    BY <1>3 DEF IInv, AddReplace, Typed, TypeOK, Replying, Clients, loop, content
  <2>4. AddersServed'
    BY <1>3 DEF IInv, AddReplace, Typed, TypeOK, Clients, Run, Channels, RunIsTracked, Replying,
      AddersServed, Before, loop, content
  <2>5. ResetServed'
    BY <1>3 DEF IInv, AddReplace, Typed, TypeOK, Clients, Run, Channels, RunIsTracked, Replying,
      ResetServed, Before, loop, content
  <2> QED BY <2>1, <2>2, <2>3, <2>4, <2>5 DEF IInv
<1>4. ASSUME NEW c \in Adders, QueueTxEvent(c) PROVE IInv'
  <2>1. Typed'
    BY <1>4 DEF IInv, QueueTxEvent, Typed, TypeOK, Clients, Run, content
  <2>2. Channels'
    BY <1>4 DEF IInv, QueueTxEvent, Typed, TypeOK, Run, Channels, RunIsTracked, content
  <2>3. Replying'
    BY <1>4 DEF IInv, QueueTxEvent, Typed, TypeOK, Replying, Clients, content
  <2>4. AddersServed'
    BY <1>4 DEF IInv, QueueTxEvent, Typed, TypeOK, Clients, Run, Channels, RunIsTracked,
      Replying, AddersServed, Before, content
  <2>5. ResetServed'
    BY <1>4 DEF IInv, QueueTxEvent, Typed, TypeOK, Clients, Run, Channels, RunIsTracked,
      Replying, ResetServed, Before, content
  <2> QED BY <2>1, <2>2, <2>3, <2>4, <2>5 DEF IInv
<1>5. ASSUME NEW c \in Adders, RecvPromote(c) PROVE IInv'
  <2>1. Typed'
    BY <1>5 DEF IInv, RecvPromote, Merged, Selecting, MayLaunch, Typed, TypeOK, Clients, Run,
      content
  <2>2. Channels'
    BY <1>5 DEF IInv, RecvPromote, Merged, Selecting, MayLaunch, Typed, TypeOK, Run, Channels,
      RunIsTracked, content
  <2>3. Replying'
    BY <1>5 DEF IInv, RecvPromote, Merged, Selecting, MayLaunch, Typed, TypeOK, Replying,
      Clients, content
  <2>4. AddersServed'
    BY <1>5 DEF IInv, RecvPromote, Merged, Selecting, MayLaunch, Typed, TypeOK, Clients, Run,
      Channels, RunIsTracked, Replying, AddersServed, Before, content
  <2>5. ResetServed'
    BY <1>5 DEF IInv, RecvPromote, Merged, Selecting, MayLaunch, Typed, TypeOK, Clients, Run,
      Channels, RunIsTracked, Replying, ResetServed, Before, content
  <2> QED BY <2>1, <2>2, <2>3, <2>4, <2>5 DEF IInv
<1>6. ASSUME NEW c \in Clients, RequestAborted(c) PROVE IInv'
  <2>1. Typed'
    BY <1>6 DEF IInv, RequestAborted, Typed, TypeOK, Clients, Run, loop, content
  <2>2. Channels'
    BY <1>6 DEF IInv, RequestAborted, Typed, TypeOK, Run, Channels, RunIsTracked, loop, content
  <2>3. Replying'
    BY <1>6 DEF IInv, RequestAborted, Typed, TypeOK, Replying, Clients, loop, content
  <2>4. AddersServed'
    BY <1>6 DEF IInv, RequestAborted, Typed, TypeOK, Clients, Run, Channels, RunIsTracked,
      Replying, AddersServed, Before, loop, content
  <2>5. ResetServed'
    BY <1>6 DEF IInv, RequestAborted, Typed, TypeOK, Clients, Run, Channels, RunIsTracked,
      Replying, ResetServed, Before, loop, content
  <2> QED BY <2>1, <2>2, <2>3, <2>4, <2>5 DEF IInv
<1>7. ASSUME NEW c \in Clients, DoneSeen(c) PROVE IInv'
  <2>1. Typed'
    BY <1>7 DEF IInv, DoneSeen, Waits, Typed, TypeOK, Clients, Run, loop, content
  <2>2. Channels'
    BY <1>7 DEF IInv, DoneSeen, Waits, Typed, TypeOK, Run, Channels, RunIsTracked, loop, content
  <2>3. Replying'
    BY <1>7 DEF IInv, DoneSeen, Waits, Typed, TypeOK, Replying, Clients, loop, content
  <2>4. AddersServed'
    BY <1>7 DEF IInv, DoneSeen, Waits, Typed, TypeOK, Clients, Run, Channels, RunIsTracked,
      Replying, AddersServed, Before, loop, content
  <2>5. ResetServed'
    BY <1>7 DEF IInv, DoneSeen, Waits, Typed, TypeOK, Clients, Run, Channels, RunIsTracked,
      Replying, ResetServed, Before, loop, content
  <2> QED BY <2>1, <2>2, <2>3, <2>4, <2>5 DEF IInv
<1>8. CASE NewHead
  <2>1. Typed'
    BY <1>8 DEF IInv, NewHead, Typed, TypeOK, Clients, Run, loop, content
  <2>2. Channels'
    BY <1>8 DEF IInv, NewHead, Typed, TypeOK, Run, Channels, RunIsTracked, loop, content
  <2>3. Replying'
    BY <1>8 DEF IInv, NewHead, Typed, TypeOK, Replying, Clients, loop, content
  <2>4. AddersServed'
    BY <1>8 DEF IInv, NewHead, Typed, TypeOK, Clients, Run, Channels, RunIsTracked, Replying,
      AddersServed, Before, loop, content
  <2>5. ResetServed'
    BY <1>8 DEF IInv, NewHead, Typed, TypeOK, Clients, Run, Channels, RunIsTracked, Replying,
      ResetServed, Before, loop, content
  <2> QED BY <2>1, <2>2, <2>3, <2>4, <2>5 DEF IInv
<1>9. CASE RecvReset
  <2>1. Typed'
    BY <1>9 DEF IInv, RecvReset, Selecting, MayLaunch, Typed, TypeOK, Clients, Run, content
  <2>2. Channels'
    BY <1>9 DEF IInv, RecvReset, Selecting, MayLaunch, Typed, TypeOK, Run, Channels,
      RunIsTracked, content
  <2>3. Replying'
    BY <1>9 DEF IInv, RecvReset, Selecting, MayLaunch, Typed, TypeOK, Replying, Clients, content
  <2>4. AddersServed'
    BY <1>9 DEF IInv, RecvReset, Selecting, MayLaunch, Typed, TypeOK, Clients, Run, Channels,
      RunIsTracked, Replying, AddersServed, Before, content
  <2>5. ResetServed'
    <3> SUFFICES ASSUME ~shutdown' PROVE ResetServed'
      BY DEF ResetServed
    <3>1. /\ ~shutdown /\ pc[Resetter] = "request" /\ runs' = runs /\ head' = head
          /\ pc'[Resetter] = "reply"
      BY <1>9 DEF RecvReset, IInv, Typed, TypeOK, Clients
    <3>2. reset = None /\ \A r \in runs : r.at # "send" => r.reset = None
      BY <3>1 DEF IInv, ResetServed
    <3>3. reset' = [old |-> head - 1, new |-> head] /\ reset'.new = head
      BY <1>9, <3>2 DEF RecvReset
    <3>4. reset' # None
      BY <3>1, <3>3 DEF IInv, Typed, TypeOK
    <3> QED BY <3>1, <3>2, <3>3, <3>4 DEF ResetServed
  <2> QED BY <2>1, <2>2, <2>3, <2>4, <2>5 DEF IInv
<1>10. CASE Launch
  <2> DEFINE launched == [done |-> nextDone, reset |-> reset, dirty |-> dirtyAccounts,
                          events |-> queuedEvents, at |-> "lock"]
  <2>6. runs = {} /\ runs' = {launched}
    BY <1>10 DEF Launch, MayLaunch, IInv, Channels, RunIsTracked, Typed, Run
  <2>7. launched \in Run
    BY DEF IInv, Typed, TypeOK, Run
  <2>8. /\ launched.done = nextDone /\ launched.reset = reset
        /\ launched.dirty = dirtyAccounts /\ launched.at = "lock"
    OBVIOUS
  <2> HIDE DEF launched
  <2>1. Typed'
    <3>1. /\ UNCHANGED <<pc, ticket, asked, head, mu, loopPc, replyTo, closed, content>>
          /\ curDone' = nextDone /\ nextDone' = nextDone + 1 /\ launchNextRun' = FALSE
          /\ reset' = None /\ dirtyAccounts' = {} /\ queuedEvents' = {}
      BY <1>10 DEF Launch, clients
    <3>2. curDone' \in Nat \cup {None} /\ nextDone' \in Nat
      BY <3>1 DEF IInv, Typed, TypeOK
    <3>3. /\ launchNextRun' \in BOOLEAN
          /\ reset' \in {None} \cup [old : 0..MaxHead, new : 0..MaxHead]
          /\ dirtyAccounts' \subseteq Adders /\ queuedEvents' \subseteq Adders
      BY <3>1, Zenon
    <3>4. TypeOK'
      BY <3>1, <3>2, <3>3 DEF IInv, Typed, TypeOK, content
    <3> QED BY <2>6, <2>7, <3>1, <3>4 DEF IInv, Typed, Run
  <2>2. Channels'
    BY <1>10 DEF IInv, Launch, MayLaunch, Typed, TypeOK, Run, Channels, RunIsTracked, clients,
      content
  <2>3. Replying'
    BY <1>10 DEF IInv, Launch, MayLaunch, Typed, TypeOK, Replying, Clients, clients, content
  <2>4. AddersServed'
    <3>1. /\ UNCHANGED <<shutdown, unseen, pc, asked, ticket>> /\ dirtyAccounts' = {}
          /\ nextDone' = nextDone + 1 /\ loopPc = "select"
      BY <1>10 DEF Launch, clients, content
    <3>2. \A c \in Clients : pc[c] # "reply"
      BY <3>1 DEF IInv, Replying, Typed, TypeOK, Clients
    <3>3. ASSUME ~shutdown, NEW c \in Adders \cap unseen, pc[c] = "wait"
          PROVE  launched.done = ticket[c] /\ launched.at # "send" /\ c \in launched.dirty
      BY <3>3, <2>6, <2>8 DEF IInv, AddersServed
    <3> QED BY <2>6, <3>1, <3>2, <3>3 DEF IInv, AddersServed, Before, Clients
  <2>5. ResetServed'
    <3>1. /\ UNCHANGED <<shutdown, poolHead, pc, head, ticket>> /\ reset' = None
          /\ nextDone' = nextDone + 1 /\ loopPc = "select"
      BY <1>10 DEF Launch, clients, content
    <3>2. pc[Resetter] # "reply"
      BY <3>1 DEF IInv, Replying, Typed, TypeOK, Clients
    <3>3. ASSUME ~shutdown, pc[Resetter] = "wait", poolHead # head
          PROVE  launched.done = ticket[Resetter] /\ launched.at # "send" /\ launched.reset # None
      BY <3>3, <2>6, <2>8 DEF IInv, ResetServed
    <3>4. ASSUME ~shutdown, launched.reset # None
          PROVE  /\ launched.reset.new = head /\ pc[Resetter] = "wait"
                 /\ ticket[Resetter] = launched.done
      BY <2>8, <3>2, <3>4 DEF IInv, ResetServed
    <3> QED BY <2>6, <3>1, <3>2, <3>3, <3>4 DEF IInv, ResetServed, Before
  <2> QED BY <2>1, <2>2, <2>3, <2>4, <2>5 DEF IInv
<1>11. CASE Reply
  <2>1. Typed'
    BY <1>11 DEF IInv, Reply, DoneChannel, Typed, TypeOK, Clients, Run, content
  <2>2. Channels'
    BY <1>11 DEF IInv, Reply, DoneChannel, Typed, TypeOK, Run, Channels, RunIsTracked, content
  <2>3. Replying'
    BY <1>11 DEF IInv, Reply, DoneChannel, Typed, TypeOK, Replying, Clients, content
  <2>4. AddersServed'
    BY <1>11 DEF IInv, Reply, DoneChannel, Typed, TypeOK, Clients, Run, Channels, RunIsTracked,
      Replying, AddersServed, Before, content
  <2>5. ResetServed'
    BY <1>11 DEF IInv, Reply, DoneChannel, Typed, TypeOK, Clients, Run, Channels, RunIsTracked,
      Replying, ResetServed, Before, content
  <2> QED BY <2>1, <2>2, <2>3, <2>4, <2>5 DEF IInv
<1>12. CASE RunDone
  <2>1. Typed'
    BY <1>12 DEF IInv, RunDone, Selecting, Typed, TypeOK, Clients, Run, clients, content
  <2>2. Channels'
    BY <1>12 DEF IInv, RunDone, Selecting, Typed, TypeOK, Run, Channels, RunIsTracked, clients,
      content
  <2>3. Replying'
    BY <1>12 DEF IInv, RunDone, Selecting, Typed, TypeOK, Replying, Clients, clients, content
  <2>4. AddersServed'
    BY <1>12 DEF IInv, RunDone, Selecting, Typed, TypeOK, Clients, Run, Channels, RunIsTracked,
      Replying, AddersServed, Before, clients, content
  <2>5. ResetServed'
    BY <1>12 DEF IInv, RunDone, Selecting, Typed, TypeOK, Clients, Run, Channels, RunIsTracked,
      Replying, ResetServed, Before, clients, content
  <2> QED BY <2>1, <2>2, <2>3, <2>4, <2>5 DEF IInv
<1>13. CASE ShutdownSeen
  <2>1. Typed'
    BY <1>13 DEF IInv, ShutdownSeen, Selecting, Typed, TypeOK, Clients, Run, clients, content
  <2>2. Channels'
    BY <1>13 DEF IInv, ShutdownSeen, Selecting, Typed, TypeOK, Run, Channels, RunIsTracked,
      clients, content
  <2>3. Replying'
    BY <1>13 DEF IInv, ShutdownSeen, Selecting, Typed, TypeOK, Replying, Clients, clients, content
  <2>4. AddersServed'
    BY <1>13 DEF IInv, ShutdownSeen, Selecting, Typed, TypeOK, Clients, Run, Channels,
      RunIsTracked, Replying, AddersServed, Before, clients, content
  <2>5. ResetServed'
    BY <1>13 DEF IInv, ShutdownSeen, Selecting, Typed, TypeOK, Clients, Run, Channels,
      RunIsTracked, Replying, ResetServed, Before, clients, content
  <2> QED BY <2>1, <2>2, <2>3, <2>4, <2>5 DEF IInv
<1>14. CASE Drain
  <2>1. Typed'
    BY <1>14 DEF IInv, Drain, Drained, Freed, Typed, TypeOK, Clients, Run, clients, content
  <2>2. Channels'
    BY <1>14 DEF IInv, Drain, Drained, Freed, Typed, TypeOK, Run, Channels, RunIsTracked,
      clients, content
  <2>3. Replying'
    BY <1>14 DEF IInv, Drain, Drained, Freed, Typed, TypeOK, Replying, Clients, clients, content
  <2>4. AddersServed'
    BY <1>14 DEF IInv, Drain, Drained, Freed, Typed, TypeOK, Clients, Run, Channels,
      RunIsTracked, Replying, AddersServed, Before, clients, content
  <2>5. ResetServed'
    BY <1>14 DEF IInv, Drain, Drained, Freed, Typed, TypeOK, Clients, Run, Channels,
      RunIsTracked, Replying, ResetServed, Before, clients, content
  <2> QED BY <2>1, <2>2, <2>3, <2>4, <2>5 DEF IInv
<1>15. ASSUME NEW r \in runs, RunLock(r) PROVE IInv'
  <2> DEFINE locked == [r EXCEPT !.at = "locked"]
  <2>6. runs = {r} /\ runs' = {locked}
    BY <1>15 DEF RunLock, IInv, Channels
  <2>7. r \in Run /\ locked \in Run
    BY DEF IInv, Typed, Run
  <2>8. /\ locked.done = r.done /\ locked.reset = r.reset /\ locked.dirty = r.dirty
        /\ locked.at # "send" /\ r.at # "send"
    BY <1>15, <2>7 DEF Run, RunLock
  <2> HIDE DEF locked
  <2>1. Typed'
    BY <1>15, <2>6, <2>7 DEF RunLock, IInv, Typed, TypeOK, clients, loop, content
  <2>2. Channels'
    BY <1>15, <2>6, <2>8 DEF RunLock, IInv, Channels, RunIsTracked, loop
  <2>3. Replying'
    BY <1>15 DEF IInv, RunLock, Typed, TypeOK, Replying, Clients, clients, loop, content
  <2>4. AddersServed'
    BY <1>15, <2>6, <2>8 DEF RunLock, IInv, AddersServed, Before, clients, loop, content
  <2>5. ResetServed'
    BY <1>15, <2>6, <2>8 DEF RunLock, IInv, ResetServed, Before, clients, loop, content
  <2> QED BY <2>1, <2>2, <2>3, <2>4, <2>5 DEF IInv
<1>16. ASSUME NEW r \in runs, RunBody(r) PROVE IInv'
  <2>6. PICK stale \in SUBSET r.events :
           runs' = (runs \ {r}) \cup {[r EXCEPT !.at = "send", !.events = @ \ stale]}
    BY <1>16 DEF RunBody
  <2> DEFINE worked == [r EXCEPT !.at = "send", !.events = @ \ stale]
  <2>7. r \in Run /\ worked \in Run
    BY DEF IInv, Typed, Run
  <2>8. /\ runs = {r} /\ runs' = {worked} /\ r.at # "send"
        /\ worked.done = r.done /\ worked.at = "send"
    BY <1>16, <2>6, <2>7 DEF IInv, Channels, Run, RunBody
  <2> HIDE DEF worked
  <2>1. Typed'
    BY <1>16, <2>7, <2>8 DEF RunBody, IInv, Typed, TypeOK, Run, clients, loop
  <2>2. Channels'
    BY <1>16, <2>8 DEF RunBody, IInv, Channels, RunIsTracked, loop
  <2>3. Replying'
    BY <1>16 DEF IInv, RunBody, Typed, TypeOK, Replying, Clients, clients, loop
  <2>4. AddersServed'
    BY <1>16, <2>8 DEF RunBody, IInv, AddersServed, Before, clients, loop
  <2>5. ResetServed'
    BY <1>16, <2>8 DEF RunBody, IInv, ResetServed, Before, clients, loop
  <2> QED BY <2>1, <2>2, <2>3, <2>4, <2>5 DEF IInv
<1>17. ASSUME NEW r \in runs, RunSend(r) PROVE IInv'
  <2>1. Typed'
    BY <1>17 DEF IInv, RunSend, Typed, TypeOK, Clients, Run, clients, loop
  <2>2. Channels'
    BY <1>17 DEF IInv, RunSend, Typed, TypeOK, Run, Channels, RunIsTracked, clients, loop
  <2>3. Replying'
    BY <1>17 DEF IInv, RunSend, Typed, TypeOK, Replying, Clients, clients, loop
  <2>4. AddersServed'
    BY <1>17 DEF IInv, RunSend, Typed, TypeOK, Clients, Run, Channels, RunIsTracked, Replying,
      AddersServed, Before, clients, loop
  <2>5. ResetServed'
    BY <1>17 DEF IInv, RunSend, Typed, TypeOK, Clients, Run, Channels, RunIsTracked, Replying,
      ResetServed, Before, clients, loop
  <2> QED BY <2>1, <2>2, <2>3, <2>4, <2>5 DEF IInv
<1>18. CASE Close
  <2>1. Typed'
    BY <1>18 DEF IInv, Close, Typed, TypeOK, Clients, Run, clients, loop, content
  <2>2. Channels'
    BY <1>18 DEF IInv, Close, Typed, TypeOK, Run, Channels, RunIsTracked, clients, loop, content
  <2>3. Replying'
    BY <1>18 DEF IInv, Close, Typed, TypeOK, Replying, Clients, clients, loop, content
  <2>4. AddersServed'
    BY <1>18 DEF IInv, Close, Typed, TypeOK, Clients, Run, Channels, RunIsTracked, Replying,
      AddersServed, Before, clients, loop, content
  <2>5. ResetServed'
    BY <1>18 DEF IInv, Close, Typed, TypeOK, Clients, Run, Channels, RunIsTracked, Replying,
      ResetServed, Before, clients, loop, content
  <2> QED BY <2>1, <2>2, <2>3, <2>4, <2>5 DEF IInv
<1>19. CASE CloseReturn
  <2>1. Typed'
    BY <1>19 DEF IInv, CloseReturn, Typed, TypeOK, Clients, Run, clients, loop, content
  <2>2. Channels'
    BY <1>19 DEF IInv, CloseReturn, Typed, TypeOK, Run, Channels, RunIsTracked, clients, loop,
      content
  <2>3. Replying'
    BY <1>19 DEF IInv, CloseReturn, Typed, TypeOK, Replying, Clients, clients, loop, content
  <2>4. AddersServed'
    BY <1>19 DEF IInv, CloseReturn, Typed, TypeOK, Clients, Run, Channels, RunIsTracked,
      Replying, AddersServed, Before, clients, loop, content
  <2>5. ResetServed'
    BY <1>19 DEF IInv, CloseReturn, Typed, TypeOK, Clients, Run, Channels, RunIsTracked,
      Replying, ResetServed, Before, clients, loop, content
  <2> QED BY <2>1, <2>2, <2>3, <2>4, <2>5 DEF IInv
<1>20. CASE UNCHANGED vars
  BY <1>20 DEF IInv, Typed, TypeOK, Channels, RunIsTracked, Replying, AddersServed, ResetServed,
    Before, vars, clients, loop, content
<1> QED BY <1>1, <1>2, <1>3, <1>4, <1>5, <1>6, <1>7, <1>8, <1>9, <1>10, <1>11, <1>12, <1>13,
  <1>14, <1>15, <1>16, <1>17, <1>18, <1>19, <1>20 DEF Next, AddStep, ClientStep, RunStep, Clients

LEMMA AlwaysIInv == Spec => []IInv
<1> QED BY InitIInv, NextIInv, PTL DEF Spec
-------------------------------------------------------------------------------
(***************************************************************************)
(* Type correctness: the callers, scheduleReorgLoop and Close stay at      *)
(* their control points.                                                   *)
(***************************************************************************)
THEOREM TypeCorrect == Spec => []TypeOK
<1>1. IInv => TypeOK
  BY DEF IInv, Typed
<1> QED BY <1>1, AlwaysIInv, PTL

(***************************************************************************)
(* scheduleReorgLoop never starts a run while one is under way, and knows  *)
(* the done channel of the one that is.                                    *)
(***************************************************************************)
THEOREM RunStaysTracked == Spec => []RunIsTracked
<1>1. IInv => RunIsTracked
  BY DEF IInv, Channels
<1> QED BY <1>1, AlwaysIInv, PTL

(***************************************************************************)
(* A synchronous Add returns after a run has looked at its account, and    *)
(* Reset after the pool is at its head, unless the pool is shut down.      *)
(***************************************************************************)
THEOREM DoneIsDone == Spec => []DoneMeansDone
<1>1. IInv => DoneMeansDone
  BY DEF IInv, AddersServed, ResetServed, DoneMeansDone
<1> QED BY <1>1, AlwaysIInv, PTL

(***************************************************************************)
(* When Close has returned, no runReorg goroutine is left.                 *)
(***************************************************************************)
THEOREM ClosedStaysQuiet == Spec => []ClosedIsQuiet
<1>1. IInv => ClosedIsQuiet
  BY DEF IInv, Channels, ClosedIsQuiet
<1> QED BY <1>1, AlwaysIInv, PTL

(***************************************************************************)
(* The runs of scheduleReorgLoop are sound for any callers and heads: one  *)
(* at a time, done only when the work is, none left by Close.              *)
(***************************************************************************)
THEOREM RunsStaySound == Spec => []RunsAreSound
<1>1. RunIsTracked /\ DoneMeansDone /\ ClosedIsQuiet => RunsAreSound
  BY DEF RunsAreSound
<1> QED BY <1>1, RunStaysTracked, DoneIsDone, ClosedStaysQuiet, PTL
===============================================================================
