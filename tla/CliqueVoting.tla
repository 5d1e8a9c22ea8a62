---------------------------- MODULE CliqueVoting ----------------------------
(***************************************************************************)
(* The voting of Clique along one chain: the snapshot at the head, carried *)
(* over every header the code accepts (Snapshot.apply,                     *)
(* consensus/clique/snapshot.go).  Any account may try to sign any header. *)
(***************************************************************************)
EXTENDS CliqueSnapshot, Sequences

CONSTANTS
    GenesisSigners,  \* the signers in the genesis block's extra-data
    Ballots,         \* the pairs <<Coinbase, Authorize>> headers carry
    MaxNumber        \* bound on the length of the chain

ASSUME GenesisAssumption == GenesisSigners \subseteq Addr /\ GenesisSigners # {}

ASSUME BallotsAssumption == Ballots \subseteq Addr \X BOOLEAN

ASSUME MaxNumberAssumption == MaxNumber \in Nat

VARIABLES
    snap,     \* the snapshot at the head of the chain
    chain,    \* the accepted headers, oldest first
    history   \* history[n]: the signers in force for block n (before it is applied)

vars == <<snap, chain, history>>

(* Every variable has its type; Recents only holds blocks of the chain. *)
TypeOK ==
    /\ IsSnapshot(snap)
    /\ snap.Number <= MaxNumber
    /\ BlocksUpTo(snap, snap.Number)
    /\ chain \in Seq(Header) /\ Len(chain) = snap.Number
    /\ history \in Seq(SUBSET Addr) /\ Len(history) = snap.Number

Init ==
    /\ snap = newSnapshot(0, GenesisSigners)
    /\ chain = <<>>
    /\ history = <<>>

(* A header apply returns an error for leaves the snapshot as it is: apply works on a copy. *)
Apply(h) ==
    /\ snap.Number < MaxNumber
    /\ ApplyError(snap, h) = "nil"
    /\ snap' = apply(snap, h)
    /\ chain' = Append(chain, h)
    /\ history' = Append(history, snap.Signers)

Next ==
    \E signer \in Addr, ballot \in Ballots :
        Apply([Signer |-> signer, Coinbase |-> ballot[1], Authorize |-> ballot[2]])

Spec == Init /\ [][Next]_vars

-----------------------------------------------------------------------------
(***************************************************************************)
(* The list of votes.  apply keeps one vote of a signer on an account, and *)
(* forgets the votes of a signer it drops ("only one vote allowed",        *)
(* "Discard any previous votes the deauthorized signer cast").             *)
(***************************************************************************)
VotesWellFormed == VotesAreValid(snap)

(***************************************************************************)
(* The cached tally ("to avoid recalculating") is the number of votes in   *)
(* the list, in the one direction that makes sense for the account, after  *)
(* any sequence of casts, retractions, drops and checkpoints.              *)
(***************************************************************************)
TallyCountsVotes == TallyCounts(snap)

(***************************************************************************)
(* Recents never holds a block that the window of the current signers has  *)
(* shifted out, although the window shrinks when a signer is dropped.      *)
(***************************************************************************)
RecentsInWindow == RecentsWithin(snap, snap.Number)

(***************************************************************************)
(* The three lists of a snapshot agree with each other and with its        *)
(* signers, whatever apply, cast, uncast and the edits of the vote list    *)
(* while it is iterated have done to them.                                 *)
(***************************************************************************)
SnapshotConsistent == VotesWellFormed /\ TallyCountsVotes /\ RecentsInWindow

(***************************************************************************)
(* The chain never runs out of signers that apply would accept: whatever   *)
(* votes were cast, some authorized signer has not signed recently.  The   *)
(* exception is the one the tests allow, the last signer dropping itself.  *)
(***************************************************************************)
SomeoneMaySign ==
    snap.Signers # {} =>
        \E s \in snap.Signers :
            ApplyError(snap, [Signer |-> s, Coinbase |-> ZeroAddr, Authorize |-> FALSE]) = "nil"

(***************************************************************************)
(* Spacing: between two blocks of one signer lie at least as many blocks   *)
(* as the smallest window in force since the first of them asks for        *)
(* (errRecentlySigned).                                                    *)
(***************************************************************************)
SignersInForce(n) == IF n > Len(history) THEN snap.Signers ELSE history[n]

SigningIsSpaced ==
    \A i, j \in 1 .. Len(chain) :
        i < j /\ chain[i].Signer = chain[j].Signer =>
            \E k \in i + 1 .. j : j - i >= Limit(SignersInForce(k))

(***************************************************************************)
(* A recount of the votes from the headers alone.  The header of block n   *)
(* still speaks for account a when no checkpoint came after it, its signer *)
(* said nothing later about a, its signer has been authorized ever since,  *)
(* and a has not changed status since.                                     *)
(***************************************************************************)
Speaks(n, a) ==
    /\ chain[n].Coinbase = a
    /\ validVote(SignersInForce(n), a, chain[n].Authorize)
    /\ \A m \in n + 1 .. Len(chain) :
           /\ m % Epoch # 0
           /\ ~(chain[m].Signer = chain[n].Signer /\ chain[m].Coinbase = a)
    /\ \A m \in n + 1 .. Len(chain) + 1 :
           /\ chain[n].Signer \in SignersInForce(m)
           /\ (a \in SignersInForce(m)) = (a \in SignersInForce(n))

Recount(a) == {n \in 1 .. Len(chain) : Speaks(n, a)}

(***************************************************************************)
(* The incremental tally agrees with the recount: no vote is counted that  *)
(* the chain has voided, none that still stands is lost.                   *)
(***************************************************************************)
TallyIsRecount ==
    \A a \in Addr : snap.Tally[a].Votes = Cardinality(Recount(a))

(***************************************************************************)
(* A block changes the status of at most one account, its Coinbase, and    *)
(* only if more than half of the signers then in force stand for the       *)
(* change, the block's own signer's latest word counted as it is.          *)
(***************************************************************************)
MajorityDecides ==
    [][\A a \in Addr :
          (a \in snap.Signers) # (a \in snap'.Signers) =>
              LET h        == chain'[Len(chain')]
                  earlier  == IF (snap.Number + 1) % Epoch = 0 THEN {} ELSE VotesOn(snap.Votes, a)
                  standing == {v.Signer : v \in earlier} \ {h.Signer}
                  own      == IF validVote(snap.Signers, a, h.Authorize)
                              THEN {h.Signer} ELSE {}
              IN  /\ a = h.Coinbase
                  /\ standing \subseteq snap.Signers
                  /\ 2 * Cardinality(standing \cup own) > Cardinality(snap.Signers)]_vars
=============================================================================
