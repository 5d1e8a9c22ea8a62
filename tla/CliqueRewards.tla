---------------------------- MODULE CliqueRewards ----------------------------
(***************************************************************************)
(* The block rewards of the Clique engine (consensus/clique/clique.go,     *)
(* Finalize and FinalizeAndAssemble; consensus/clique/rewards.go): how a   *)
(* block is assembled, sealed and imported, and what is credited to whom.  *)
(*                                                                         *)
(* The state of the chain is the balances; the root of a state is the      *)
(* state itself.                                                           *)
(***************************************************************************)
EXTENDS Integers, Sequences, Functions, FiniteSetsExt

CONSTANTS
    Addr,          \* account addresses; 0 is the zero address
    Signers,       \* the accounts that may sign
    Total,         \* the reward of a block (1e18 in the code)
    MaxWeight,     \* the largest weight of a receiver
    MaxReceivers,  \* the length of a list of receivers or weights
    Uint64Mod,     \* the modulus of the sum of the weights
    Uint256Mod,    \* the modulus of balances and parts
    MaxHeight      \* bound: blocks on the chain

VARIABLES
    rewardSnapshots,  \* the engine's map: from signers to [Receivers, Weights]
    balances,         \* the state of the head block
    height,           \* the number of the head block
    block,            \* the block being made or imported: [root, signer, stage]
    last              \* how the last import ended

vars == <<rewardSnapshots, balances, height, block, last>>

NoBlock == [root |-> <<>>, signer |-> 0, stage |-> "none"]

BoundedSeq(S) == UNION {[1 .. n -> S] : n \in 0 .. MaxReceivers}

RewardSnapshot == [Receivers : BoundedSeq(Addr), Weights : BoundedSeq(0 .. MaxWeight)]

-----------------------------------------------------------------------------

AddBalance(state, a, amount) == [state EXCEPT ![a] = (@ + amount) % Uint256Mod]

SumOfWeights(snap) == FoldFunction(+, 0, snap.Weights) % Uint64Mod

(* uint256 division: by zero it gives zero. *)
Part(snap, i) ==
    IF SumOfWeights(snap) = 0 THEN 0 ELSE (Total * snap.Weights[i]) \div SumOfWeights(snap)

(* What the parts leave of the reward; the subtractions wrap. *)
Remain(snap) ==
    (Total - FoldFunction(+, 0, [i \in DOMAIN snap.Receivers |-> Part(snap, i)])) % Uint256Mod

(* Mutant: the signer takes the whole reward beside the parts. *)
Distribute_Twice(state, signer, snap) ==
    LET share(a) == MapThenSumSet(LAMBDA i : Part(snap, i),
                                  {i \in DOMAIN snap.Receivers : snap.Receivers[i] = a})
    IN  AddBalance([a \in Addr |-> (state[a] + share(a)) % Uint256Mod], signer, Total)

(* Each receiver's parts, and the rest for the signer. *)
Distribute(state, signer, snap) ==
    LET share(a) == MapThenSumSet(LAMBDA i : Part(snap, i),
                                  {i \in DOMAIN snap.Receivers : snap.Receivers[i] = a})
    IN  AddBalance([a \in Addr |-> (state[a] + share(a)) % Uint256Mod], signer, Remain(snap))

(* Finalize of a header whose Author is the given account. *)
Finalize(state, author) ==
    IF author \in DOMAIN rewardSnapshots
    THEN Distribute(state, author, rewardSnapshots[author])
    ELSE AddBalance(state, author, Total)

-----------------------------------------------------------------------------
(* The engine New returns; nothing in the program fills its map. *)
Init ==
    /\ rewardSnapshots = [a \in {} |-> <<>>]
    /\ balances = [a \in Addr |-> 0] /\ height = 0
    /\ block = NoBlock /\ last = "none"

(* The engine Finalize is written for: an entry for a signer, with a weight for every receiver. *)
ConfiguredInit ==
    /\ rewardSnapshots \in
           [Signers -> {snap \in RewardSnapshot : Len(snap.Weights) >= Len(snap.Receivers)}]
    /\ balances = [a \in Addr |-> 0] /\ height = 0
    /\ block = NoBlock /\ last = "none"

(* The header has no signature yet: Author fails with the zero address and the error is dropped. *)
FinalizeAndAssemble ==
    /\ block.stage = "none" /\ height < MaxHeight
    /\ block' = [root |-> Finalize(balances, 0), signer |-> 0, stage |-> "assembled"]
    /\ UNCHANGED <<rewardSnapshots, balances, height, last>>

(* The signature goes into the extra-data after the block was assembled. *)
WithSeal(signer) ==
    /\ block.stage = "assembled"
    /\ block' = [block EXCEPT !.signer = signer, !.stage = "sealed"]
    /\ UNCHANGED <<rewardSnapshots, balances, height, last>>

(* A block comes from a node that knew the signer when it computed the root. *)
Arrive(signer) ==
    /\ block.stage = "none" /\ height < MaxHeight
    /\ block' = [root |-> Finalize(balances, signer), signer |-> signer, stage |-> "arrived"]
    /\ UNCHANGED <<rewardSnapshots, balances, height, last>>

(* The import executes the block, finalizes it and compares the root with the header's. *)
Import ==
    /\ block.stage \in {"sealed", "arrived"}
    /\ block' = NoBlock
    /\ IF Finalize(balances, block.signer) # block.root
       THEN /\ last' = "invalid merkle root"
            /\ UNCHANGED <<balances, height>>
       ELSE /\ last' = "nil"
            /\ balances' = Finalize(balances, block.signer)
            /\ height' = height + 1
    /\ UNCHANGED rewardSnapshots

Next ==
    \/ FinalizeAndAssemble
    \/ \E x \in Signers : WithSeal(x)
    \/ \E x \in Signers : Arrive(x)
    \/ Import

Spec == Init /\ [][Next]_vars

ConfiguredSpec == ConfiguredInit /\ [][Next]_vars
-----------------------------------------------------------------------------
(* Balances stay within uint256, and a block is at a stage of its making or import. *)
TypeOK ==
    /\ balances \in [Addr -> 0 .. Uint256Mod - 1]
    /\ height \in 0 .. MaxHeight
    /\ block.stage \in {"none", "assembled", "sealed", "arrived"}

(* The uint64 sum of no signer's weights wraps. *)
NoWrap == \A x \in DOMAIN rewardSnapshots :
              FoldFunction(+, 0, rewardSnapshots[x].Weights) < Uint64Mod

(***************************************************************************)
(* However a signer's reward is split over receivers (a receiver twice, a  *)
(* receiver that is the signer, weights that do not divide the reward, no  *)
(* weight at all), a block creates exactly the reward, as long as the      *)
(* uint64 sum of the weights did not wrap.                                 *)
(***************************************************************************)
RewardConserved ==
    NoWrap => FoldFunction(+, 0, balances) = height * Total

(***************************************************************************)
(* What the test of the voting snapshot relies on: a block that the engine *)
(* assembled and that was then sealed is imported.                         *)
(***************************************************************************)
SealedBlocksImport ==
    [][block.stage = "sealed" /\ block'.stage = "none" => last' = "nil"]_vars
=============================================================================
