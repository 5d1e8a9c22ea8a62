--------------------------- MODULE CliqueSnapshot ---------------------------
(***************************************************************************)
(* The authorization snapshot of the Clique proof-of-authority engine      *)
(* (consensus/clique/snapshot.go): which accounts may sign, which of them  *)
(* signed recently, and the votes in flight to add or drop a signer.       *)
(*                                                                         *)
(* This module has no state of its own.  It gives the snapshot and the     *)
(* function that carries it over one header; CliqueVoting runs it along    *)
(* one chain and CliqueEngine along a tree of chains, behind the caches of *)
(* the engine.                                                             *)
(***************************************************************************)
EXTENDS Integers, FiniteSets

CONSTANTS
    Addr,            \* account addresses, as integers (they are ordered)
    Epoch            \* config.Epoch: blocks between two checkpoints

ASSUME AddrAssumption == Addr \subseteq Nat /\ 0 \in Addr /\ IsFiniteSet(Addr)

ASSUME EpochAssumption == Epoch \in Nat \ {0}

(* The zero address: the Coinbase of a header that carries no vote. *)
ZeroAddr == 0

(***************************************************************************)
(* A header is what Clique reads of it.  Signer is the account ecrecover   *)
(* returns, Authorize the two legal values of Nonce.                       *)
(***************************************************************************)
Header == [Signer : Addr, Coinbase : Addr, Authorize : BOOLEAN]

(* Go's zero value of Tally: what a lookup of a missing key returns. *)
NoTally == [Authorize |-> FALSE, Votes |-> 0]

(***************************************************************************)
(* Votes is the chronological list of the code.  A block carries at most   *)
(* one vote, so the list is the set of its votes in the order of Block.    *)
(* Recents is a map from block numbers to signers.                         *)
(***************************************************************************)
Vote == [Signer : Addr, Block : Nat, Address : Addr, Authorize : BOOLEAN]

newSnapshot(number, signers) ==
    [Number  |-> number,
     Signers |-> signers,
     Recents |-> [b \in {} |-> ZeroAddr],
     Votes   |-> {},
     Tally   |-> [a \in Addr |-> NoTally]]

(* Mutant: the window is wider than the set of signers. *)
Limit_Whole(signers) == Cardinality(signers) + 1

(* The number of consecutive blocks of which a signer may sign only one. *)
Limit(signers) == (Cardinality(signers) \div 2) + 1

validVote(signers, address, authorize) ==
    \/ address \in signers /\ ~authorize
    \/ address \notin signers /\ authorize

(***************************************************************************)
(* cast and uncast, on the tally alone.  cast keeps the direction of a     *)
(* tally that exists; uncast ignores a vote the tally does not count, and  *)
(* drops the entry with its last vote.  uncast takes back k votes at once. *)
(***************************************************************************)
cast(tally, address, authorize) ==
    [tally EXCEPT ![address] =
        [Authorize |-> IF @.Votes > 0 THEN @.Authorize ELSE authorize,
         Votes     |-> @.Votes + 1]]

uncast(entry, k) ==
    IF entry.Votes > k THEN [entry EXCEPT !.Votes = @ - k] ELSE NoTally

(* Takes the votes of the set out of the tally, one uncast for each. *)
uncastAll(tally, votes) ==
    [a \in Addr |->
        LET counted == {v \in votes : v.Address = a /\ v.Authorize = tally[a].Authorize}
        IN  IF counted = {} THEN tally[a] ELSE uncast(tally[a], Cardinality(counted))]

(* Mutant: the window is one block too short. *)
ShiftRecents_Early(recents, signers, block) ==
    [b \in {x \in DOMAIN recents : x # block - (Cardinality(signers) \div 2)} |-> recents[b]]

(* delete(snap.Recents, block - Limit(signers)), when that is no underflow. *)
ShiftRecents(recents, signers, block) ==
    [b \in {x \in DOMAIN recents : x # block - Limit(signers)} |-> recents[b]]

(***************************************************************************)
(* apply, for one header on top of s, step by step in the code's order.    *)
(***************************************************************************)
(* Mutant: a checkpoint forgets the votes but keeps counting them. *)
AtCheckpoint_KeepTally(s) ==
    IF (s.Number + 1) % Epoch = 0 THEN [s EXCEPT !.Votes = {}] ELSE s

(* Checkpoint blocks drop every vote in flight. *)
AtCheckpoint(s) ==
    IF (s.Number + 1) % Epoch = 0
    THEN [s EXCEPT !.Votes = {}, !.Tally = [a \in Addr |-> NoTally]]
    ELSE s

(* The oldest recent signer is shifted out and may sign again. *)
Shifted(s) ==
    [s EXCEPT !.Recents = ShiftRecents(s.Recents, s.Signers, s.Number + 1)]

(* The error apply returns for header h on s. *)
ApplyError(s, h) ==
    LET recents == Shifted(s).Recents
    IN  IF h.Signer \notin s.Signers THEN "errUnauthorizedSigner"
        ELSE IF \E b \in DOMAIN recents : recents[b] = h.Signer THEN "errRecentlySigned"
        ELSE "nil"

RecordSigner(s, h) ==
    [s EXCEPT !.Recents = [b \in DOMAIN s.Recents \cup {s.Number + 1} |->
                              IF b = s.Number + 1 THEN h.Signer ELSE s.Recents[b]]]

(* The signer's earlier vote on the same account is taken back, the first in the list only. *)
DiscardPrevious(s, h) ==
    LET mine  == {v \in s.Votes : v.Signer = h.Signer /\ v.Address = h.Coinbase}
        first == {v \in mine : \A w \in mine : v.Block <= w.Block}
    IN  [s EXCEPT !.Votes = @ \ first, !.Tally = uncastAll(@, first)]

CastVote(s, h) ==
    IF validVote(s.Signers, h.Coinbase, h.Authorize)
    THEN [s EXCEPT !.Tally = cast(@, h.Coinbase, h.Authorize),
                   !.Votes = @ \cup {[Signer |-> h.Signer, Block |-> s.Number + 1,
                                      Address |-> h.Coinbase, Authorize |-> h.Authorize]}]
    ELSE s

(* Votes about the account whose status just changed do not survive the change. *)
ForgetAccount(s, a) ==
    [s EXCEPT !.Votes = {v \in @ : v.Address # a},
              !.Tally = [@ EXCEPT ![a] = NoTally]]

Admit(s, a) == ForgetAccount([s EXCEPT !.Signers = @ \cup {a}], a)

(* Mutant: the leftover entry of Recents is not deleted when the window shrinks. *)
Drop_KeepRecents(s, a) ==
    LET its  == {v \in s.Votes : v.Signer = a}
    IN  ForgetAccount([s EXCEPT !.Signers = @ \ {a}, !.Votes = @ \ its,
                                !.Tally = uncastAll(@, its)], a)

(* Dropping a signer shrinks the window of Recents and discards the votes it cast. *)
Drop(s, a) ==
    LET left == s.Signers \ {a}
        its  == {v \in s.Votes : v.Signer = a}
    IN  ForgetAccount([s EXCEPT !.Signers = left,
                                !.Recents = ShiftRecents(@, left, s.Number + 1),
                                !.Votes   = @ \ its,
                                !.Tally   = uncastAll(@, its)], a)

(* Mutant: half of the signers is enough. *)
Passed_AtHalf(s, h) ==
    LET tally == s.Tally[h.Coinbase]
    IN  IF 2 * tally.Votes < Cardinality(s.Signers) \/ tally.Votes = 0 THEN s
        ELSE IF tally.Authorize THEN Admit(s, h.Coinbase)
        ELSE Drop(s, h.Coinbase)

(* A vote that passed changes the signers; only the account of this header is looked at. *)
Passed(s, h) ==
    LET tally == s.Tally[h.Coinbase]
    IN  IF tally.Votes <= Cardinality(s.Signers) \div 2 THEN s
        ELSE IF tally.Authorize THEN Admit(s, h.Coinbase)
        ELSE Drop(s, h.Coinbase)

apply(s, h) ==
    LET entered  == RecordSigner(Shifted(AtCheckpoint(s)), h)
        voted    == CastVote(DiscardPrevious(entered, h), h)
    IN  [Passed(voted, h) EXCEPT !.Number = @ + 1]

(* signers() in ascending order: the place of an account is the number of smaller signers. *)
inturn(s, number, signer) ==
    LET offset == IF signer \in s.Signers
                  THEN Cardinality({a \in s.Signers : a < signer})
                  ELSE Cardinality(s.Signers)
    IN  number % Cardinality(s.Signers) = offset

-----------------------------------------------------------------------------
(***************************************************************************)
(* What makes a snapshot good, in parts.  CliqueVoting and CliqueEngine    *)
(* state them of the snapshots they hold.                                  *)
(***************************************************************************)
IsSnapshot(s) ==
    /\ s = [Number |-> s.Number, Signers |-> s.Signers, Recents |-> s.Recents,
            Votes |-> s.Votes, Tally |-> s.Tally]
    /\ s.Number \in Nat
    /\ s.Signers \subseteq Addr
    /\ s.Recents \in [DOMAIN s.Recents -> Addr]
    /\ s.Votes \subseteq Vote /\ IsFiniteSet(s.Votes)
    /\ s.Tally \in [Addr -> [Authorize : BOOLEAN, Votes : Nat]]

(* Recents and Votes only speak of blocks up to n. *)
BlocksUpTo(s, n) ==
    /\ DOMAIN s.Recents \subseteq 1 .. n
    /\ \A v \in s.Votes : v.Block \in 1 .. n

(* One vote of a signer on an account, by signers, and in the direction that makes sense. *)
VotesAreValid(s) ==
    /\ \A v, w \in s.Votes :
           v.Signer = w.Signer /\ v.Address = w.Address => v = w
    /\ \A v \in s.Votes :
           v.Signer \in s.Signers /\ validVote(s.Signers, v.Address, v.Authorize)

VotesOn(votes, a) == {v \in votes : v.Address = a}

TallyCounts(s) ==
    \A a \in Addr :
        /\ s.Tally[a].Votes = Cardinality(VotesOn(s.Votes, a))
        /\ s.Tally[a].Votes > 0 => s.Tally[a].Authorize = (a \notin s.Signers)

(* Recents holds no block outside the window that ends with block n. *)
RecentsWithin(s, n) ==
    \A b \in DOMAIN s.Recents : b > n - Limit(s.Signers)
=============================================================================
