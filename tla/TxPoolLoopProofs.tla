--------------------------- MODULE TxPoolLoopProofs ---------------------------
(***************************************************************************)
(* Proofs about TxPoolLoop, for any number of subpools, any callers of     *)
(* Sync and any number of heads: what the event loop and the reset         *)
(* goroutine of core/txpool/txpool.go keep true in every interleaving.     *)
(***************************************************************************)
EXTENDS TxPoolLoop, FiniteSetTheorems, TLAPS

USE LoopAssumption

(* New has opened an initial segment of the subpools, and nobody can close it yet. *)
InitProgress ==
    loop = "init" => closer = "idle" /\ \E k \in 0 .. NumSubpools - 1 : open = 1 .. k

(* The marker is in resetBusy exactly while a reset goroutine is under way. *)
OneReset ==
    /\ \A r, q \in resets : r = q
    /\ term <=> loop = "dead"
    /\ ~term => (resetBusy <=> resets # {})

(* Heads only move forward, from the chain to newHead to oldHead. *)
HeadsOrdered ==
    /\ oldHead <= newHead /\ newHead <= chainHead
    /\ event # NoEvent => event = chainHead
    /\ \A r \in resets : r.old = oldHead /\ r.old <= r.new /\ r.new <= newHead

(* The state is not behind the subpools, nor behind where a reset takes them. *)
StateFollows ==
    /\ StateNotBehind
    /\ ~stale => \A r \in resets : state >= r.new

(* Who waits has its reset still to come, or is covered by the one under way. *)
WaiterServed ==
    resetWaiter # NoCaller =>
        /\ sync[resetWaiter] = "waiting"
        /\ term \/ resetForced \/ (resets # {} /\ \A r \in resets : resetWaiter \in r.covers)

(* The inductive invariant. *)
IInv ==
    /\ TypeOK /\ InitProgress /\ OneReset /\ HeadsOrdered
    /\ ResetsAreContiguous /\ StateFollows /\ WaiterServed /\ SyncRanReset

LEMMA InitIInv == Init => IInv
<1> SUFFICES ASSUME Init PROVE IInv
  OBVIOUS
<1>1. TypeOK
  <2>1. 0 \in Heads /\ chainHead \in Heads /\ subHead \in [Subpools -> Heads]
    BY DEF Init, Heads
  <2>2. resets \subseteq Reset /\ open \subseteq Subpools /\ covered \subseteq Syncers
    BY DEF Init
  <2>3. {resetForced, resetBusy, stale, term} \subseteq BOOLEAN
    BY DEF Init
  <2> QED BY <2>1, <2>2, <2>3 DEF Init, TypeOK
<1>2. InitProgress
  BY DEF Init, InitProgress
<1>3. OneReset /\ HeadsOrdered
  BY DEF Init, OneReset, HeadsOrdered, NoEvent
<1>4. ResetsAreContiguous /\ StateFollows
  BY DEF Init, ResetsAreContiguous, StateFollows, StateNotBehind
<1>5. WaiterServed /\ SyncRanReset
  BY DEF Init, WaiterServed, SyncRanReset
<1> QED BY <1>1, <1>2, <1>3, <1>4, <1>5 DEF IInv

(* A step of control alone: no head, reset, waiter or caller of Sync is touched. *)
LEMMA ControlStep ==
    ASSUME IInv, loop' = "dead" <=> loop = "dead", event' \in {event, NoEvent},
           UNCHANGED <<chainHead, oldHead, newHead, resetForced, resetBusy, resetWaiter,
                       resets, state, stale, term, subHead, sync, covered>>
    PROVE  /\ OneReset' /\ HeadsOrdered' /\ ResetsAreContiguous'
           /\ StateFollows' /\ WaiterServed' /\ SyncRanReset'
<1>1. OneReset' /\ HeadsOrdered'
  BY DEF IInv, OneReset, HeadsOrdered
<1>2. ResetsAreContiguous' /\ StateFollows'
  BY DEF IInv, ResetsAreContiguous, StateFollows, StateNotBehind
<1>3. WaiterServed' /\ SyncRanReset'
  BY DEF IInv, WaiterServed, SyncRanReset
<1> QED BY <1>1, <1>2, <1>3

(* Every step of the loop, of the reset goroutine and of the callers keeps the invariant. *)
LEMMA NextIInv == IInv /\ [Next]_vars => IInv'
<1> SUFFICES ASSUME IInv, [Next]_vars PROVE IInv'
  OBVIOUS
<1>1. CASE Extend
  <2>1. TypeOK'
    BY <1>1 DEF IInv, Extend, TypeOK, Heads, Subpools, NoEvent, NoCaller, loopVars
  <2>4. HeadsOrdered'
    BY <1>1 DEF IInv, Extend, HeadsOrdered, OneReset, TypeOK, Heads, NoEvent, Reset, loopVars
  <2>9. /\ InitProgress' /\ OneReset' /\ ResetsAreContiguous'
        /\ StateFollows' /\ WaiterServed' /\ SyncRanReset'
    BY <1>1 DEF IInv, Extend, InitProgress, OneReset, ResetsAreContiguous, StateFollows,
      StateNotBehind, WaiterServed, SyncRanReset, loopVars
  <2> QED BY <2>1, <2>4, <2>9 DEF IInv
<1>2. CASE InitSubpool
  <2>1. TypeOK'
    <3>1. PICK k \in 0 .. NumSubpools - 1 : open = 1 .. k
      BY <1>2 DEF IInv, InitProgress, InitSubpool
    <3>2. Cardinality(open) = k
      BY <3>1, FS_Interval
    <3>3. open' \subseteq Subpools
      BY <1>2, <3>1, <3>2 DEF InitSubpool, Subpools
    <3> QED BY <1>2, <3>3 DEF IInv, InitSubpool, TypeOK, Heads, NoEvent
  <2>2. InitProgress'
    <3>1. PICK k \in 0 .. NumSubpools - 1 : open = 1 .. k
      BY <1>2 DEF IInv, InitProgress, InitSubpool
    <3>2. Cardinality(open) = k
      BY <3>1, FS_Interval
    <3> SUFFICES ASSUME loop' = "init"
                 PROVE  closer' = "idle" /\ \E j \in 0 .. NumSubpools - 1 : open' = 1 .. j
      BY DEF InitProgress
    <3>3. open' = 1 .. (k + 1) /\ open' # 1 .. NumSubpools
      <4>1. (1 .. k) \cup {k + 1} = 1 .. (k + 1)
        OBVIOUS
      <4> QED BY <1>2, <3>1, <3>2, <4>1 DEF InitSubpool, Subpools
    <3>4. closer' = "idle" /\ k + 1 \in 0 .. NumSubpools - 1
      BY <1>2, <3>3 DEF InitSubpool, IInv, InitProgress
    <3> QED BY <3>3, <3>4
  <2>3. loop' = "dead" <=> loop = "dead"
    BY <1>2 DEF InitSubpool, loopVars
  <2> QED BY <1>2, <2>1, <2>2, <2>3, ControlStep DEF IInv, InitSubpool, loopVars
<1>3. CASE Subscribe
  <2>1. TypeOK'
    BY <1>3 DEF IInv, Subscribe, TypeOK, Heads, Subpools, NoEvent, NoCaller, loopVars
  <2>2. InitProgress'
    BY <1>3 DEF IInv, Subscribe, InitProgress, loopVars
  <2>3. loop' = "dead" <=> loop = "dead"
    BY <1>3 DEF Subscribe, loopVars
  <2> QED BY <1>3, <2>1, <2>2, <2>3, ControlStep DEF IInv, Subscribe, loopVars
<1>4. CASE TryReset
  <2>1. TypeOK'
    <3>1. ResetStarts => [old |-> oldHead, new |-> newHead, next |-> 1, covers |-> Waiting] \in Reset
      BY DEF IInv, TypeOK, Reset, Waiting, Heads
    <3>2. resets' \subseteq Reset
      BY <1>4, <3>1 DEF TryReset, IInv, TypeOK
    <3> QED BY <1>4, <3>2 DEF IInv, TryReset, ResetState, TypeOK, Heads
  <2>3. OneReset'
    BY <1>4 DEF IInv, TryReset, ResetStarts, ResetState, Waiting, OneReset, loopVars
  <2>4. HeadsOrdered'
    BY <1>4 DEF IInv, TryReset, ResetStarts, ResetState, Waiting, HeadsOrdered, OneReset, TypeOK,
      Heads, NoEvent, Reset, loopVars
  <2>5. ResetsAreContiguous'
    BY <1>4 DEF IInv, TryReset, ResetStarts, ResetState, Waiting, ResetsAreContiguous, OneReset,
      HeadsOrdered, TypeOK, Heads, Subpools, Reset, loopVars
  <2>6. StateFollows'
    BY <1>4 DEF IInv, TryReset, ResetStarts, ResetState, Waiting, StateFollows, StateNotBehind,
      ResetsAreContiguous, HeadsOrdered, OneReset, TypeOK, Heads, Subpools, Reset, loopVars
  <2>7. WaiterServed'
    <3> SUFFICES ASSUME resetWaiter' # NoCaller
                 PROVE  /\ sync'[resetWaiter'] = "waiting"
                        /\ \/ term' \/ resetForced'
                           \/ resets' # {} /\ \A r \in resets' : resetWaiter' \in r.covers
      BY DEF WaiterServed
    <3>1. resetWaiter' = resetWaiter /\ sync' = sync /\ term' = term /\ ~term
      BY <1>4 DEF TryReset, IInv, OneReset
    <3>2. sync[resetWaiter] = "waiting" /\ resetWaiter \in Syncers
      BY <3>1 DEF IInv, WaiterServed, TypeOK
    <3>3. CASE ResetStarts
      <4>1. resets' = {[old |-> oldHead, new |-> newHead, next |-> 1, covers |-> Waiting]}
        BY <1>4, <3>1, <3>3 DEF TryReset, ResetStarts, IInv, OneReset
      <4>2. resetWaiter \in Waiting
        BY <3>2 DEF Waiting
      <4> QED BY <3>1, <3>2, <4>1, <4>2
    <3>4. CASE ~ResetStarts
      BY <1>4, <3>1, <3>2, <3>4 DEF TryReset, IInv, WaiterServed
    <3> QED BY <3>3, <3>4
  <2>9. InitProgress' /\ SyncRanReset'
    BY <1>4 DEF IInv, TryReset, InitProgress, SyncRanReset, loopVars
  <2> QED BY <2>1, <2>3, <2>4, <2>5, <2>6, <2>7, <2>9 DEF IInv
<1>5. CASE ReceiveHead
  <2>1. TypeOK'
    BY <1>5 DEF IInv, ReceiveHead, TypeOK, Heads, Subpools, NoEvent, NoCaller, loopVars
  <2>4. HeadsOrdered'
    BY <1>5 DEF IInv, ReceiveHead, HeadsOrdered, OneReset, TypeOK, Heads, NoEvent, Reset, loopVars
  <2>9. /\ InitProgress' /\ OneReset' /\ ResetsAreContiguous'
        /\ StateFollows' /\ WaiterServed' /\ SyncRanReset'
    BY <1>5 DEF IInv, ReceiveHead, InitProgress, OneReset, ResetsAreContiguous, StateFollows,
      StateNotBehind, WaiterServed, SyncRanReset, loopVars
  <2> QED BY <2>1, <2>4, <2>9 DEF IInv
<1>6. CASE ReceiveQuit
  <2>1. TypeOK'
    BY <1>6 DEF IInv, ReceiveQuit, TypeOK, Heads, Subpools, NoEvent, NoCaller, loopVars
  <2>2. InitProgress'
    BY <1>6 DEF IInv, ReceiveQuit, InitProgress, loopVars
  <2>3. loop' = "dead" <=> loop = "dead"
    BY <1>6 DEF ReceiveQuit, loopVars
  <2> QED BY <1>6, <2>1, <2>2, <2>3, ControlStep DEF IInv, ReceiveQuit, loopVars
<1>7. ASSUME NEW r \in resets, ResetSubpool(r) PROVE IInv'
  <2>1. TypeOK'
    <3>1. r \in Reset /\ r.next \in 1 .. NumSubpools
      BY <1>7 DEF IInv, TypeOK, Reset, ResetSubpool, Remaining
    <3>2. [r EXCEPT !.next = @ + 1] \in Reset
      BY <3>1 DEF Reset
    <3>3. resets' \subseteq Reset
      BY <1>7, <3>2 DEF ResetSubpool, IInv, TypeOK
    <3>4. subHead' \in [Subpools -> Heads]
      BY <1>7, <3>1 DEF ResetSubpool, IInv, TypeOK, Reset
    <3> QED BY <1>7, <3>3, <3>4 DEF IInv, ResetSubpool, TypeOK, loopVars
  <2>3. OneReset'
    BY <1>7 DEF IInv, ResetSubpool, Remaining, Reset, OneReset, loopVars
  <2>4. HeadsOrdered'
    BY <1>7 DEF IInv, ResetSubpool, Remaining, Reset, HeadsOrdered, OneReset, TypeOK, Heads,
      NoEvent, loopVars
  <2>5. ResetsAreContiguous'
    <3>1. r \in Reset /\ r.next \in Subpools
      BY <1>7 DEF IInv, TypeOK, Reset, ResetSubpool, Remaining, Subpools
    <3>2. resets' = {[r EXCEPT !.next = @ + 1]}
      BY <1>7 DEF ResetSubpool, IInv, OneReset
    <3>3. \A i \in Subpools : subHead'[i] = IF i < r.next + 1 THEN r.new ELSE r.old
      <4>1. \A i \in Subpools : subHead[i] = IF i < r.next THEN r.new ELSE r.old
        BY <1>7 DEF IInv, ResetsAreContiguous
      <4>2. \A i \in Subpools : subHead'[i] = IF i = r.next THEN r.new ELSE subHead[i]
        BY <1>7 DEF ResetSubpool, IInv, TypeOK
      <4> QED BY <3>1, <4>1, <4>2 DEF Subpools
    <3>4. \A q \in resets' : q.next = r.next + 1 /\ q.new = r.new /\ q.old = r.old
      BY <3>1, <3>2 DEF Reset
    <3> QED BY <3>2, <3>3, <3>4 DEF ResetsAreContiguous
  <2>6. StateFollows'
    BY <1>7 DEF IInv, ResetSubpool, Remaining, Reset, StateFollows, StateNotBehind,
      ResetsAreContiguous, HeadsOrdered, OneReset, TypeOK, Heads, Subpools, loopVars
  <2>7. WaiterServed'
    BY <1>7 DEF IInv, ResetSubpool, Remaining, Reset, WaiterServed, OneReset, TypeOK, NoCaller,
      loopVars
  <2>9. InitProgress' /\ SyncRanReset'
    BY <1>7 DEF IInv, ResetSubpool, InitProgress, SyncRanReset, loopVars
  <2> QED BY <2>1, <2>3, <2>4, <2>5, <2>6, <2>7, <2>9 DEF IInv
<1>8. ASSUME NEW r \in resets, ReceiveDone(r) PROVE IInv'
  <2>1. TypeOK'
    BY <1>8 DEF IInv, ReceiveDone, Remaining, Reset, Notified, BusyAfterDone, TypeOK, Heads,
      Subpools, NoEvent, NoCaller, loopVars
  <2>3. OneReset'
    BY <1>8 DEF IInv, ReceiveDone, Remaining, Reset, Notified, BusyAfterDone, OneReset, loopVars
  <2>4. HeadsOrdered'
    BY <1>8 DEF IInv, ReceiveDone, Remaining, Reset, Notified, BusyAfterDone, HeadsOrdered,
      OneReset, TypeOK, Heads, NoEvent, loopVars
  <2>5. ResetsAreContiguous'
    BY <1>8 DEF IInv, ReceiveDone, Remaining, Reset, Notified, BusyAfterDone,
      ResetsAreContiguous, OneReset, HeadsOrdered, TypeOK, Heads, Subpools, loopVars
  <2>6. StateFollows'
    BY <1>8 DEF IInv, ReceiveDone, Remaining, Reset, Notified, BusyAfterDone, StateFollows,
      StateNotBehind, ResetsAreContiguous, HeadsOrdered, OneReset, TypeOK, Heads, Subpools,
      loopVars
  <2>7. WaiterServed'
    BY <1>8 DEF IInv, ReceiveDone, Remaining, Reset, Notified, BusyAfterDone, WaiterServed,
      OneReset, TypeOK, NoCaller, loopVars
  <2>8. SyncRanReset'
    BY <1>8 DEF IInv, ReceiveDone, Remaining, Reset, Notified, BusyAfterDone, SyncRanReset,
      WaiterServed, OneReset, TypeOK, NoCaller, loopVars
  <2>9. InitProgress'
    BY <1>8 DEF IInv, ReceiveDone, InitProgress, loopVars
  <2> QED BY <2>1, <2>3, <2>4, <2>5, <2>6, <2>7, <2>8, <2>9 DEF IInv
<1>9. ASSUME NEW r \in resets, ResetAbandoned(r) PROVE IInv'
  <2>1. TypeOK'
    BY <1>9 DEF IInv, ResetAbandoned, Remaining, TypeOK, Heads, Subpools, NoEvent, NoCaller,
      loopVars
  <2>3. OneReset'
    BY <1>9 DEF IInv, ResetAbandoned, Remaining, OneReset, loopVars
  <2>5. ResetsAreContiguous'
    BY <1>9 DEF IInv, ResetAbandoned, Remaining, ResetsAreContiguous, OneReset, HeadsOrdered,
      TypeOK, Heads, Subpools, Reset, loopVars
  <2>7. WaiterServed'
    BY <1>9 DEF IInv, ResetAbandoned, Remaining, WaiterServed, OneReset, TypeOK, NoCaller,
      loopVars
  <2>9. InitProgress' /\ HeadsOrdered' /\ StateFollows' /\ SyncRanReset'
    BY <1>9 DEF IInv, ResetAbandoned, InitProgress, HeadsOrdered, StateFollows, StateNotBehind,
      SyncRanReset, loopVars
  <2> QED BY <2>1, <2>3, <2>5, <2>7, <2>9 DEF IInv
<1>10. ASSUME NEW c \in Syncers, ReceiveSync(c) PROVE IInv'
  <2>1. TypeOK'
    BY <1>10 DEF IInv, ReceiveSync, TypeOK, Heads, Subpools, NoEvent, NoCaller, loopVars
  <2>7. WaiterServed'
    BY <1>10 DEF IInv, ReceiveSync, WaiterServed, OneReset, TypeOK, NoCaller, loopVars
  <2>8. SyncRanReset'
    BY <1>10 DEF IInv, ReceiveSync, SyncRanReset, WaiterServed, OneReset, TypeOK, NoCaller,
      loopVars
  <2>9. /\ InitProgress' /\ OneReset' /\ HeadsOrdered'
        /\ ResetsAreContiguous' /\ StateFollows'
    BY <1>10 DEF IInv, ReceiveSync, InitProgress, OneReset, HeadsOrdered, ResetsAreContiguous,
      StateFollows, StateNotBehind, loopVars
  <2> QED BY <2>1, <2>7, <2>8, <2>9 DEF IInv
<1>11. ASSUME NEW c \in Syncers, CallSync(c) PROVE IInv'
  <2>1. TypeOK'
    BY <1>11 DEF IInv, CallSync, TypeOK, Heads, Subpools, NoEvent, NoCaller, loopVars
  <2>7. WaiterServed'
    BY <1>11 DEF IInv, CallSync, WaiterServed, OneReset, TypeOK, NoCaller, loopVars
  <2>8. SyncRanReset'
    BY <1>11 DEF IInv, CallSync, SyncRanReset, WaiterServed, OneReset, TypeOK, NoCaller, loopVars
  <2>9. /\ InitProgress' /\ OneReset' /\ HeadsOrdered'
        /\ ResetsAreContiguous' /\ StateFollows'
    BY <1>11 DEF IInv, CallSync, InitProgress, OneReset, HeadsOrdered, ResetsAreContiguous,
      StateFollows, StateNotBehind, loopVars
  <2> QED BY <2>1, <2>7, <2>8, <2>9 DEF IInv
<1>12. ASSUME NEW c \in Syncers, SyncTerminated(c) PROVE IInv'
  <2>1. TypeOK'
    BY <1>12 DEF IInv, SyncTerminated, TypeOK, Heads, Subpools, NoEvent, NoCaller, loopVars
  <2>7. WaiterServed'
    BY <1>12 DEF IInv, SyncTerminated, WaiterServed, OneReset, TypeOK, NoCaller, loopVars
  <2>8. SyncRanReset'
    BY <1>12 DEF IInv, SyncTerminated, SyncRanReset, WaiterServed, OneReset, TypeOK, NoCaller,
      loopVars
  <2>9. /\ InitProgress' /\ OneReset' /\ HeadsOrdered'
        /\ ResetsAreContiguous' /\ StateFollows'
    BY <1>12 DEF IInv, SyncTerminated, InitProgress, OneReset, HeadsOrdered, ResetsAreContiguous,
      StateFollows, StateNotBehind, loopVars
  <2> QED BY <2>1, <2>7, <2>8, <2>9 DEF IInv
<1>13. CASE ReplyQuit
  <2>1. TypeOK'
    BY <1>13 DEF IInv, ReplyQuit, TypeOK, Heads, Subpools, NoEvent, NoCaller, loopVars
  <2>2. InitProgress'
    BY <1>13 DEF IInv, ReplyQuit, InitProgress, loopVars
  <2>3. loop' = "dead" <=> loop = "dead"
    BY <1>13 DEF ReplyQuit, loopVars
  <2> QED BY <1>13, <2>1, <2>2, <2>3, ControlStep DEF IInv, ReplyQuit, loopVars
<1>14. CASE NotifyWaiter
  <2>1. TypeOK'
    BY <1>14 DEF IInv, NotifyWaiter, LiveWaiter, TypeOK, Heads, Subpools, NoEvent, NoCaller,
      loopVars
  <2>7. WaiterServed'
    BY <1>14 DEF IInv, NotifyWaiter, LiveWaiter, WaiterServed, OneReset, TypeOK, NoCaller,
      loopVars
  <2>8. SyncRanReset'
    BY <1>14 DEF IInv, NotifyWaiter, LiveWaiter, SyncRanReset, WaiterServed, OneReset, TypeOK,
      NoCaller, loopVars
  <2>9. /\ InitProgress' /\ OneReset' /\ HeadsOrdered'
        /\ ResetsAreContiguous' /\ StateFollows'
    BY <1>14 DEF IInv, NotifyWaiter, InitProgress, OneReset, HeadsOrdered, ResetsAreContiguous,
      StateFollows, StateNotBehind, loopVars
  <2> QED BY <2>1, <2>7, <2>8, <2>9 DEF IInv
<1>15. CASE Unsubscribe
  <2>1. TypeOK'
    BY <1>15 DEF IInv, Unsubscribe, TypeOK, Heads, Subpools, NoEvent, NoCaller, loopVars
  <2>2. InitProgress'
    BY <1>15 DEF IInv, Unsubscribe, InitProgress, loopVars
  <2>3. loop' = "dead" <=> loop = "dead"
    BY <1>15 DEF Unsubscribe, loopVars
  <2> QED BY <1>15, <2>1, <2>2, <2>3, ControlStep DEF IInv, Unsubscribe, loopVars
<1>16. CASE Terminate
  <2>1. TypeOK'
    BY <1>16 DEF IInv, Terminate, TypeOK, Heads, Subpools, NoEvent, NoCaller, loopVars
  <2>3. OneReset'
    BY <1>16 DEF IInv, Terminate, OneReset, loopVars
  <2>5. ResetsAreContiguous'
    BY <1>16 DEF IInv, Terminate, ResetsAreContiguous, OneReset, HeadsOrdered, TypeOK, Heads,
      Subpools, Reset, loopVars
  <2>7. WaiterServed'
    BY <1>16 DEF IInv, Terminate, WaiterServed, OneReset, TypeOK, NoCaller, loopVars
  <2>9. InitProgress' /\ HeadsOrdered' /\ StateFollows' /\ SyncRanReset'
    BY <1>16 DEF IInv, Terminate, InitProgress, HeadsOrdered, StateFollows, StateNotBehind,
      SyncRanReset, loopVars
  <2> QED BY <2>1, <2>3, <2>5, <2>7, <2>9 DEF IInv
<1>17. CASE CallClose
  <2>1. TypeOK'
    BY <1>17 DEF IInv, CallClose, TypeOK, Heads, Subpools, NoEvent, NoCaller, loopVars
  <2>2. InitProgress'
    BY <1>17 DEF IInv, CallClose, InitProgress, loopVars
  <2>3. loop' = "dead" <=> loop = "dead"
    BY <1>17 DEF CallClose, loopVars
  <2> QED BY <1>17, <2>1, <2>2, <2>3, ControlStep DEF IInv, CallClose, loopVars
<1>18. CASE CloseSubpool
  <2>1. TypeOK'
    BY <1>18 DEF IInv, CloseSubpool, TypeOK, Heads, Subpools, NoEvent, NoCaller, loopVars
  <2>2. InitProgress'
    BY <1>18 DEF IInv, CloseSubpool, InitProgress, loopVars
  <2>3. loop' = "dead" <=> loop = "dead"
    BY <1>18 DEF CloseSubpool, loopVars
  <2> QED BY <1>18, <2>1, <2>2, <2>3, ControlStep DEF IInv, CloseSubpool, loopVars
<1>19. CASE UNCHANGED vars
  <2>1. TypeOK' /\ InitProgress'
    BY <1>19 DEF IInv, TypeOK, InitProgress, vars, loopVars
  <2> QED BY <1>19, <2>1, ControlStep DEF IInv, vars, loopVars
<1> QED BY <1>1, <1>2, <1>3, <1>4, <1>5, <1>6, <1>7, <1>8, <1>9, <1>10, <1>11, <1>12, <1>13,
  <1>14, <1>15, <1>16, <1>17, <1>18, <1>19 DEF Next

LEMMA AlwaysIInv == Spec => []IInv
<1> QED BY InitIInv, NextIInv, PTL DEF Spec
-------------------------------------------------------------------------------
(***************************************************************************)
(* Type correctness of the coordinator: no goroutine of txpool.go leaves   *)
(* its control points, and a reset never passes the last subpool.          *)
(***************************************************************************)
THEOREM TypeCorrect == Spec => []TypeOK
<1>1. IInv => TypeOK
  BY DEF IInv
<1> QED BY <1>1, AlwaysIInv, PTL

(***************************************************************************)
(* The resets of loop chain up: each carries every subpool from the head   *)
(* the subpool is at, for any number of subpools and any order of events.  *)
(***************************************************************************)
THEOREM ResetsStayContiguous == Spec => []ResetsAreContiguous
<1>1. IInv => ResetsAreContiguous
  BY DEF IInv
<1> QED BY <1>1, AlwaysIInv, PTL

(***************************************************************************)
(* The state loop keeps for Nonce is never behind a subpool, unless the    *)
(* last StateAt failed.                                                    *)
(***************************************************************************)
THEOREM StateStaysAhead == Spec => []StateNotBehind
<1>1. IInv => StateNotBehind
  BY DEF IInv, StateFollows
<1> QED BY <1>1, AlwaysIInv, PTL

(***************************************************************************)
(* Sync returns nil only after a reset that began after its request, for   *)
(* any number of callers.                                                  *)
(***************************************************************************)
THEOREM SyncMeansReset == Spec => []SyncRanReset
<1>1. IInv => SyncRanReset
  BY DEF IInv
<1> QED BY <1>1, AlwaysIInv, PTL

(***************************************************************************)
(* The resets of loop are sound for any number of subpools, callers and    *)
(* heads: they chain up, the state keeps up with them, and each Sync is    *)
(* answered by one of its own.                                             *)
(***************************************************************************)
THEOREM ResetsStaySound == Spec => []ResetsAreSound
<1>1. ResetsAreContiguous /\ StateNotBehind /\ SyncRanReset => ResetsAreSound
  BY DEF ResetsAreSound
<1> QED BY <1>1, ResetsStayContiguous, StateStaysAhead, SyncMeansReset, PTL
===============================================================================
