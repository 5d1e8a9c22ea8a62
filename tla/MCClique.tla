------------------------------- MODULE MCClique -------------------------------
(***************************************************************************)
(* CliqueVoting, and instances of CliqueEngine, CliqueRewards and StateDB. *)
(* They share no state: "part" says which of them moves in a behaviour,    *)
(* and the variables of the others keep their first value.  There are two  *)
(* engines, one of them on databases that are set up anew.                 *)
(***************************************************************************)
EXTENDS CliqueVoting

MCAddr == 0 .. 4

MCGenesisSigners == {1, 2, 3}

\* No vote, a vote to admit 4, a vote to drop 1, and a vote not to.
MCBallots == {<<0, FALSE>>, <<4, TRUE>>, <<1, FALSE>>, <<1, TRUE>>}

CONSTANT Nil

VARIABLES
    part,
    db, canonical, recents, disk, batch, inserted, results,   \* CliqueEngine
    rewardSnapshots, balances, height, block, last,           \* CliqueRewards
    s, revisions, txs, saved, calls                           \* StateDB

engine == <<db, canonical, recents, disk, batch, inserted, results>>
rewards == <<rewardSnapshots, balances, height, block, last>>
statedb == <<s, revisions, txs, saved, calls>>

\* Two signers at genesis, and one account that may be admitted.
Engine == INSTANCE CliqueEngine WITH
    Addr <- 0 .. 3, GenesisSigners <- {1, 2}, Ballots <- {<<0, FALSE>>, <<3, TRUE>>},
    Epoch <- 3, CheckpointInterval <- 2, InmemorySnapshots <- 2, FullImmutabilityThreshold <- 9,
    Uint64Mod <- 64, MaxNumber <- 3, MaxBlocks <- 4, MaxAhead <- 2

\* The engine of a node that may be set up anew from its freezer.  One signer
\* at genesis, whose vote is enough: sibling chains differ in their signers.
Reinit == INSTANCE CliqueEngine WITH
    Addr <- 0 .. 2, GenesisSigners <- {1}, Ballots <- {<<0, FALSE>>, <<2, TRUE>>},
    Epoch <- 2, CheckpointInterval <- 2, InmemorySnapshots <- 1, FullImmutabilityThreshold <- 2,
    Uint64Mod <- 64, MaxNumber <- 6, MaxBlocks <- 7, MaxAhead <- 1

Rewards == INSTANCE CliqueRewards WITH
    Addr <- 0 .. 3, Signers <- {1}, Total <- 10, MaxWeight <- 3, MaxReceivers <- 3,
    Uint64Mod <- 8, Uint256Mod <- 256, MaxHeight <- 2

Addresses == {"c", "n"}
Contract == [nonce |-> 1, balance |-> 1, hash |-> 1, root |-> 1]
State == INSTANCE StateDB WITH
    Addr <- Addresses, Ripemd <- Nil, Scratched <- {"c"}, Warm <- {{}},
    Disk <- [a \in Addresses |-> IF a = "c" THEN Contract ELSE Nil],
    MaxBalance <- 1, MaxNonce <- 1, MaxCalls <- 3, MaxTx <- 3, MaxRevisions <- 2

SuiteInit ==
    /\ part \in {"voting", "engine", "reinit", "rewards", "statedb"}
    /\ Init
    /\ IF part = "reinit" THEN Reinit!Init ELSE Engine!Init
    /\ State!Init
    /\ IF part = "rewards" THEN Rewards!ConfiguredInit ELSE Rewards!Init

SuiteNext ==
    \/ part = "voting" /\ Next /\ UNCHANGED <<part, engine, rewards, statedb>>
    \/ part = "engine" /\ Engine!Next /\ UNCHANGED <<part, vars, rewards, statedb>>
    \/ /\ part = "reinit" /\ (Reinit!Next \/ Reinit!Reinit)
       /\ UNCHANGED <<part, vars, rewards, statedb>>
    \/ part = "rewards" /\ Rewards!Next /\ UNCHANGED <<part, vars, engine, statedb>>
    \/ part = "statedb" /\ State!Next /\ UNCHANGED <<part, vars, engine, rewards>>

SuiteSpec == SuiteInit /\ [][SuiteNext]_<<part, vars, engine, rewards, statedb>>

-------------------------------------------------------------------------------
(* The properties of the instances. *)

\* A snapshot in a cache, or on disk, is the one its chain leads to.
EngineCachesCoherent == part = "engine" => Engine!CachesCoherent

\* The two ways in which the engine judges a header agree: one that was verified
\* can be applied to the snapshot of its parent, and one that Prepare made and a
\* signer sealed passes verification.
EngineHeadersAgree ==
    part = "engine" => Engine!AcceptedHeadersApply /\ Engine!PreparedHeaderVerifies

\* A checkpoint that the engine trusts after a fresh start from the freezer has
\* the signers of its chain.
CheckpointsSound == part = "reinit" => Reinit!CheckpointsSound

\* The parts of a block's reward add up to it, within uint256.
RewardsConserved == part = "rewards" => Rewards!TypeOK /\ Rewards!RewardConserved

\* The journal of the state database undoes what was done since a revision.
StateImplementsStack == State!ImplementsStack

\* The flat storage and the storage tries agree after every block.
StateDatabaseAgrees == part = "statedb" => State!DatabaseAgrees
===============================================================================
