------------------------------ MODULE StateStack ------------------------------
(***************************************************************************)
(* What core/state promises to the EVM: accounts and per-transaction data, *)
(* with a stack of saved versions of both.  A change leaves the stack      *)
(* alone, a revert restores a version exactly and forgets the younger      *)
(* ones, the end of a transaction removes what is destructed or empty and  *)
(* keeps the rest, also when the block is written.                         *)
(***************************************************************************)
EXTENDS Naturals, Sequences

CONSTANTS Accounts, Absent

VARIABLES accounts, scratch, touched, stack
vars == <<accounts, scratch, touched, stack>>

Version == [accounts |-> accounts, scratch |-> scratch, touched |-> touched]

Init == stack = <<>>

Change == stack' = stack

Snapshot == stack' = Append(stack, Version) /\ UNCHANGED <<accounts, scratch, touched>>

Revert(i) ==
    /\ accounts' = stack[i].accounts /\ scratch' = stack[i].scratch
    /\ touched' = stack[i].touched
    /\ stack' = SubSeq(stack, 1, i - 1)

Gone(acct) ==
    acct.destructed \/ (acct.nonce = 0 /\ acct.balance = 0 /\ acct.code = 0)

Finish ==
    /\ accounts' = [a \in Accounts |->
         IF a \notin touched THEN accounts[a]
         ELSE IF Gone(accounts[a]) THEN Absent ELSE [accounts[a] EXCEPT !.created = FALSE]]
    /\ touched' = {} /\ stack' = <<>>

Next == Change \/ Snapshot \/ (\E i \in DOMAIN stack : Revert(i)) \/ Finish

Spec == Init /\ [][Next]_vars
===============================================================================
