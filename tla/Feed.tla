--------------------------------- MODULE Feed ---------------------------------
(***************************************************************************)
(* event/feed.go: one-to-many subscriptions over channels.  Goroutines     *)
(* call Subscribe, Send and Unsubscribe at the same time; sendLock is a    *)
(* channel that holds one token, removeSub an unbuffered channel that      *)
(* interrupts a blocked Send.                                              *)
(*                                                                         *)
(* sendCases is the list without its first element, the case of removeSub, *)
(* so that Go's indexes are those of the sequence.  `cases' of Send is a   *)
(* prefix of sendCases and is kept as its length.                          *)
(***************************************************************************)
EXTENDS FeedState

lists == <<inbox, sendCases, cases, index>>
vars == <<lists, sendLock, sendPc, subPc, nsent, buffer, got, returned>>

Init ==
    /\ inbox = <<>> /\ sendCases = <<>> /\ cases = 0 /\ index = 1
    /\ sendLock = None
    /\ sendPc = [p \in Senders |-> "idle"] /\ subPc = [s \in Subs |-> "new"]
    /\ nsent = 0
    /\ buffer = [c \in Channels |-> <<>>] /\ got = [c \in Channels |-> <<>>]
    /\ returned = [p \in Senders |-> None]
-------------------------------------------------------------------------------
Subscribe(s) ==
    /\ subPc[s] = "new"
    /\ inbox' = Append(inbox, ChanOf[s])
    /\ subPc' = [subPc EXCEPT ![s] = "subscribed"]
    /\ UNCHANGED <<sendCases, cases, index, sendLock, sendPc, nsent, buffer, got, returned>>

\* Unsubscribe: first half of remove, under mu.
\* Mutant: the inbox is not looked at.
RemoveFromInbox_Never(s) == FALSE
RemoveFromInbox(s) == find(inbox, ChanOf[s]) # 0

Unsubscribe(s) ==
    /\ subPc[s] = "subscribed"
    /\ IF RemoveFromInbox(s)
       THEN /\ inbox' = delete(inbox, find(inbox, ChanOf[s]))
            /\ subPc' = [subPc EXCEPT ![s] = "ended"]
       ELSE UNCHANGED inbox /\ subPc' = [subPc EXCEPT ![s] = "removing"]
    /\ UNCHANGED <<sendCases, cases, index, sendLock, sendPc, nsent, buffer, got, returned>>

\* Second half of remove: no Send is in progress.
RemoveIdle(s) ==
    /\ subPc[s] = "removing" /\ sendLock = None
    /\ sendCases' = delete(sendCases, find(sendCases, ChanOf[s]))
    /\ index' = 1
    /\ subPc' = [subPc EXCEPT ![s] = "ended"]
    /\ UNCHANGED <<inbox, cases, sendLock, sendPc, nsent, buffer, got, returned>>
-------------------------------------------------------------------------------
(* Send. *)

CallSend(p) ==
    /\ sendPc[p] = "idle"
    /\ sendPc' = [sendPc EXCEPT ![p] = "lock"]
    /\ UNCHANGED <<lists, sendLock, subPc, nsent, buffer, got, returned>>

TakeLock(p) ==
    /\ sendPc[p] = "lock" /\ sendLock = None
    /\ sendLock' = p
    /\ sendPc' = [sendPc EXCEPT ![p] = "merge"]
    /\ UNCHANGED <<lists, subPc, nsent, buffer, got, returned>>

\* The inbox becomes part of sendCases, and all cases are active.
Merge(p) ==
    /\ sendPc[p] = "merge"
    /\ sendCases' = sendCases \o inbox /\ inbox' = <<>>
    /\ cases' = Len(sendCases') /\ index' = 1 /\ nsent' = 0
    /\ sendPc' = [sendPc EXCEPT ![p] = "try"]
    /\ UNCHANGED <<sendLock, subPc, buffer, got, returned>>

\* The value is put on the channel of the case at i.
Deliver(p, i) ==
    LET c == sendCases[i] IN
    /\ Len(buffer[c]) < Cap
    /\ buffer' = [buffer EXCEPT ![c] = Append(@, p)]
    /\ got' = [got EXCEPT ![c] = Append(@, p)]
    /\ nsent' = nsent + 1
    /\ sendCases' = deactivate(sendCases, i, cases) /\ cases' = cases - 1

\* One turn of the fast path.
TrySend(p) ==
    /\ sendPc[p] = "try" /\ index <= cases
    /\ \/ Deliver(p, index) /\ UNCHANGED index
       \/ /\ Len(buffer[sendCases[index]]) >= Cap
          /\ index' = index + 1
          /\ UNCHANGED <<sendCases, cases, nsent, buffer, got>>
    /\ UNCHANGED <<inbox, sendLock, sendPc, subPc, returned>>

TriedAll(p) ==
    /\ sendPc[p] = "try" /\ index > cases
    /\ sendPc' = [sendPc EXCEPT ![p] = IF cases = 0 THEN "unlock" ELSE "select"]
    /\ index' = 1
    /\ UNCHANGED <<inbox, sendCases, cases, sendLock, subPc, nsent, buffer, got, returned>>

SelectSend(p) ==
    /\ sendPc[p] = "select"
    /\ \E i \in 1 .. cases : Deliver(p, i)
    /\ sendPc' = [sendPc EXCEPT ![p] = "try"]
    /\ UNCHANGED <<inbox, index, sendLock, subPc, returned>>

\* The prefix shrinks if the case that was removed was still active.
\* Mutant: it does not, and a case that was served slides into it.
Shrunk_Never(removed) == IF cases < Len(sendCases) THEN cases ELSE cases - 1
Shrunk(removed) == IF removed <= cases THEN cases - 1 ELSE cases

\* The first case of the select is removeSub.
\* Mutant: a blocked Send cannot be interrupted.
Interrupts_Never(p, s) == FALSE
Interrupts(p, s) == sendPc[p] = "select" /\ subPc[s] = "removing"

SelectRemove(p, s) ==
    LET i == find(sendCases, ChanOf[s]) IN
    /\ Interrupts(p, s)
    /\ sendCases' = delete(sendCases, i)
    /\ cases' = Shrunk(i)
    /\ sendPc' = [sendPc EXCEPT ![p] = "try"]
    /\ subPc' = [subPc EXCEPT ![s] = "ended"]
    /\ UNCHANGED <<inbox, index, sendLock, nsent, buffer, got, returned>>

Return(p) ==
    /\ sendPc[p] = "unlock"
    /\ sendLock' = None
    /\ returned' = [returned EXCEPT ![p] = nsent] /\ nsent' = 0
    /\ sendPc' = [sendPc EXCEPT ![p] = "returned"]
    /\ UNCHANGED <<lists, subPc, buffer, got>>

\* A subscriber reads its channel until it decides to unsubscribe.
Receive(c) ==
    /\ buffer[c] # <<>>
    /\ \E s \in Subs : ChanOf[s] = c /\ subPc[s] = "subscribed"
    /\ buffer' = [buffer EXCEPT ![c] = Tail(@)]
    /\ UNCHANGED <<lists, sendLock, sendPc, subPc, nsent, got, returned>>
-------------------------------------------------------------------------------
SendStep(p) ==
    \/ TakeLock(p) \/ Merge(p) \/ TrySend(p) \/ TriedAll(p) \/ SelectSend(p)
    \/ (\E s \in Subs : SelectRemove(p, s)) \/ Return(p)

Next ==
    \/ \E s \in Subs : Subscribe(s) \/ Unsubscribe(s) \/ RemoveIdle(s)
    \/ \E p \in Senders : CallSend(p) \/ SendStep(p)
    \/ \E c \in Channels : Receive(c)

\* A goroutine that can go on does; subscribers read until they unsubscribe.
\* Nobody has to subscribe, to send or to unsubscribe.
Fairness ==
    /\ \A p \in Senders : WF_vars(SendStep(p))
    /\ \A s \in Subs : WF_vars(RemoveIdle(s) \/ \E p \in Senders : SelectRemove(p, s))
    /\ \A c \in Channels : WF_vars(Receive(c))

Spec == Init /\ [][Next]_vars /\ Fairness
-------------------------------------------------------------------------------
\* Send returns, although a subscriber may stop reading in order to unsubscribe.
SendReturns == \A p \in Senders : sendPc[p] = "lock" ~> sendPc[p] = "returned"

\* Unsubscribe returns, whether a Send is blocked, running or absent.
UnsubscribeReturns == \A s \in Subs : subPc[s] = "removing" ~> subPc[s] = "ended"
===============================================================================
