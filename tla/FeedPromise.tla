----------------------------- MODULE FeedPromise ------------------------------
(***************************************************************************)
(* What a feed (event/feed.go) promises, without its locks and lists.      *)
(* Sends are served one after the other.  A send reaches every channel     *)
(* once for each subscription it had when the send began, except for the   *)
(* subscriptions that end before their turn; nothing reaches a channel     *)
(* without a subscription, and Send returns the number of deliveries.      *)
(***************************************************************************)
EXTENDS Naturals, Sequences

CONSTANTS Channels, Values, None

VARIABLES
    subs,      \* subs[c]: the number of subscriptions of channel c
    current,   \* the value being sent, or None
    owed,      \* owed[c]: deliveries of the current value that are due on c
    nsent,     \* deliveries of the current value so far
    got,       \* got[c]: the values delivered to c, in order
    returned   \* returned[v]: what Send returned for v, or None

vars == <<subs, current, owed, nsent, got, returned>>

Nothing == [c \in Channels |-> 0]

Init ==
    /\ subs = Nothing /\ current = None /\ owed = Nothing /\ nsent = 0
    /\ got = [c \in Channels |-> <<>>] /\ returned = [v \in Values |-> None]

Subscribe(c) ==
    /\ subs' = [subs EXCEPT ![c] = @ + 1]
    /\ UNCHANGED <<current, owed, nsent, got, returned>>

\* A subscription ends; what was due on it may be due no more.
Unsubscribe(c) ==
    /\ subs[c] > 0
    /\ subs' = [subs EXCEPT ![c] = @ - 1]
    /\ \E due \in {owed[c], owed[c] - 1} \cap 0 .. subs'[c] : owed' = [owed EXCEPT ![c] = due]
    /\ UNCHANGED <<current, nsent, got, returned>>

Begin(v) ==
    /\ current = None
    /\ current' = v /\ owed' = subs /\ nsent' = 0
    /\ UNCHANGED <<subs, got, returned>>

Deliver(c) ==
    /\ owed[c] > 0
    /\ owed' = [owed EXCEPT ![c] = @ - 1]
    /\ nsent' = nsent + 1
    /\ got' = [got EXCEPT ![c] = Append(@, current)]
    /\ UNCHANGED <<subs, current, returned>>

End ==
    /\ current # None /\ owed = Nothing
    /\ returned' = [returned EXCEPT ![current] = nsent]
    /\ current' = None /\ nsent' = 0
    /\ UNCHANGED <<subs, owed, got>>

Next ==
    \/ \E c \in Channels : Subscribe(c) \/ Unsubscribe(c) \/ Deliver(c)
    \/ \E v \in Values : Begin(v)
    \/ End

Spec == Init /\ [][Next]_vars
===============================================================================
