---------------------------- MODULE MCLegacyChurn -----------------------------
(* An instance of LegacyPool for model checking. *)
EXTENDS LegacyPool

T(a, n, p, c, s) == [from |-> a, nonce |-> n, price |-> p, cost |-> c, slots |-> s]

\* Account "a" has three nonces, a replacement that meets the price bump and
\* one that does not, a dear transaction and a large one; "b" competes for
\* the slots.
MCTx == {T("a", 0, 20, 1, 1), T("a", 0, 22, 2, 1), T("a", 1, 21, 1, 1), T("a", 1, 22, 1, 1),
         T("a", 2, 22, 1, 2), T("b", 0, 20, 1, 1), T("b", 1, 23, 1, 1)}

At(na, nb, ba, bb) == [nonce   |-> [x \in {"a", "b"} |-> IF x = "a" THEN na ELSE nb],
                         balance |-> [x \in {"a", "b"} |-> IF x = "a" THEN ba ELSE bb]]
MCGenesis == At(0, 0, 4, 4)

\* Heads on which each account has advanced or fallen back, rich or poor.
MCHeads == {MCGenesis, At(1, 0, 4, 4), At(2, 0, 4, 4), At(0, 1, 1, 4),
            At(1, 1, 0, 4)}
===============================================================================
