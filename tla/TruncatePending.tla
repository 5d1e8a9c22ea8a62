--------------------------- MODULE TruncatePending ----------------------------
(***************************************************************************)
(* The loops of LegacyPool.truncatePending, one action per turn of a loop. *)
(* Only the lengths of the accounts' lists matter; list.Cap(Len() - 1)     *)
(* drops the one transaction of the highest nonce.                         *)
(***************************************************************************)
EXTENDS PendingLevel, Sequences

CONSTANT MaxLen            \* bound: longest list to start from

VARIABLES
    first,                 \* the lengths when the function is called
    len,                   \* the lengths now
    pending,               \* the counter of the code
    spammers,              \* the priority queue
    offenders,
    pc                     \* the loop control is in

vars == <<first, len, pending, spammers, offenders, pc>>

Above == pending > GlobalSlots
Total(f) == MapThenSumSet(LAMBDA a : f[a], Addr)
Offenders(n) == {offenders[i] : i \in 1..n}

\* One transaction less for the first n offenders, and for the counter.
Charged(n) == n
CapOffenders(n) ==
    /\ len' = [a \in Addr |-> IF a \in Offenders(n) THEN len[a] - 1 ELSE len[a]]
    /\ pending' = pending - Charged(n)
-------------------------------------------------------------------------------
Init ==
    /\ first \in [Addr -> 0..MaxLen]
    /\ len = first /\ pending = Total(first)
    /\ spammers = {a \in Addr : first[a] > AccountSlots}
    /\ offenders = <<>>
    /\ pc = IF Above THEN "pop" ELSE "done"

\* Mutant: the priorities are negated.
Longest_Shortest(a) == \A b \in spammers : len[a] <= len[b]
\* The queue gives the longest list first.
Longest(a) == \A b \in spammers : len[b] <= len[a]

MorePops == Above /\ spammers # {}

\* Retrieve the next offender.
Pop ==
    /\ pc = "pop" /\ MorePops
    /\ \E a \in spammers :
         /\ Longest(a)
         /\ offenders' = Append(offenders, a)
         /\ spammers' = spammers \ {a}
    /\ pc' = IF Len(offenders) > 0 THEN "equalize" ELSE "pop"
    /\ UNCHANGED <<first, len, pending>>

\* Reduce the earlier offenders to the length of the last one.
Equalize ==
    LET n == Len(offenders)
    IN  /\ pc = "equalize"
        /\ IF Above /\ len[offenders[n - 1]] > len[offenders[n]]
           THEN CapOffenders(n - 1) /\ pc' = pc
           ELSE pc' = "pop" /\ UNCHANGED <<len, pending>>
        /\ UNCHANGED <<first, spammers, offenders>>

PopEnd ==
    /\ pc = "pop" /\ ~MorePops
    /\ pc' = IF Above /\ Len(offenders) > 0 THEN "reduce" ELSE "done"
    /\ UNCHANGED <<first, len, pending, spammers, offenders>>

\* Still above: reduce all of them to the limit or to AccountSlots.
Reduce ==
    LET n == Len(offenders)
    IN  /\ pc = "reduce"
        /\ IF Above /\ len[offenders[n]] > AccountSlots
           THEN CapOffenders(n) /\ pc' = pc
           ELSE pc' = "done" /\ UNCHANGED <<len, pending>>
        /\ UNCHANGED <<first, spammers, offenders>>

Next == Pop \/ Equalize \/ PopEnd \/ Reduce

Spec == Init /\ [][Next]_vars
-------------------------------------------------------------------------------
\* The counter that decides when to stop counts the transactions that are
\* left, so the unsigned pending-- never passes zero.
CounterExact == pending = Total(len) /\ \A a \in Addr : len[a] >= 0

\* When the function returns every list that was too long has been cut at the
\* same level, the highest that is low enough.
CutAtOneLevel ==
    pc = "done" => \A a \in Addr : len[a] = CutLen(first, Level(first), a)

\* What is left to do: offenders to pop, then transactions to drop, then the
\* way to the end of the loops.
Variant ==
    LET way == CHOOSE k \in 0..3 : pc = <<"done", "reduce", "pop", "equalize">>[k + 1]
    IN  (Cardinality(spammers) * (Cardinality(Addr) * MaxLen + 1) + Total(len)) * 4 + way

\* One turn of a loop: it leaves less to do, so the loops end, and keeps the
\* count and, when it is the last, has cut the lists at one level.
Turn == Variant' < Variant /\ CounterExact' /\ CutAtOneLevel'
===============================================================================
