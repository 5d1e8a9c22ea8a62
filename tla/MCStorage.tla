------------------------------- MODULE MCStorage -------------------------------
(***************************************************************************)
(* Instances of BlockChain, FreezerTable and PathDB.  They share no state: *)
(* "part" says which of them moves in a behaviour, and the variables of    *)
(* the others keep their first value.                                      *)
(***************************************************************************)
EXTENDS Integers

CONSTANT Nil

VARIABLES
    part, world, mem, crashes,
    freezer, fixed, crossed, rewinds,            \* BlockChain
    syncs,                                       \* PathDB
    disk, headId, open, log, flushed, writes     \* FreezerTable

chain == <<freezer, fixed, crossed, rewinds>>
table == <<disk, headId, open, log, flushed, writes>>

-------------------------------------------------------------------------------
(* The chain and its freezer: with crashes, with crashes and SetHead on a  *)
(* shorter chain, and with deep reorganisations.                           *)
ChainCrash == INSTANCE BlockChain WITH
    MaxNumber <- 3, ForkAt <- <<>>, FullImmutabilityThreshold <- 1, freezerBatchLimit <- 2,
    maxDiffLayers <- 1, MaxCrash <- 1, MaxRewind <- 0, TornReorg <- FALSE
ChainRewind == INSTANCE BlockChain WITH
    MaxNumber <- 2, ForkAt <- <<2>>, FullImmutabilityThreshold <- 1, freezerBatchLimit <- 2,
    maxDiffLayers <- 1, MaxCrash <- 1, MaxRewind <- 1, TornReorg <- FALSE
ChainReorg == INSTANCE BlockChain WITH
    MaxNumber <- 3, ForkAt <- <<2>>, FullImmutabilityThreshold <- 2, freezerBatchLimit <- 2,
    maxDiffLayers <- 1, MaxCrash <- 0, MaxRewind <- 1, TornReorg <- FALSE

(* The path database: the histories are kept, and the store loses writes;  *)
(* two keys are generated, and the freezer loses appends; the tail is      *)
(* pruned; the tree forks.                                                 *)
PathKeeps == INSTANCE PathDB WITH
    NumKeys <- 1, maxDiffLayers <- 1, StateHistory <- 0, SnapshotNoBuild <- TRUE,
    MaxHeight <- 4, MaxBranches <- 0, MaxCrash <- 2, MaxSync <- 0, Journals <- TRUE,
    Loss <- {"store"}
PathBuilds == INSTANCE PathDB WITH
    NumKeys <- 2, maxDiffLayers <- 1, StateHistory <- 2, SnapshotNoBuild <- FALSE,
    MaxHeight <- 2, MaxBranches <- 0, MaxCrash <- 1, MaxSync <- 1, Journals <- FALSE,
    Loss <- {"ancient"}
PathPrunes == INSTANCE PathDB WITH
    NumKeys <- 1, maxDiffLayers <- 1, StateHistory <- 2, SnapshotNoBuild <- FALSE,
    MaxHeight <- 3, MaxBranches <- 0, MaxCrash <- 1, MaxSync <- 1, Journals <- FALSE,
    Loss <- {"ancient"}
PathForks == INSTANCE PathDB WITH
    NumKeys <- 2, maxDiffLayers <- 2, StateHistory <- 2, SnapshotNoBuild <- TRUE,
    MaxHeight <- 4, MaxBranches <- 1, MaxCrash <- 0, MaxSync <- 0, Journals <- FALSE,
    Loss <- {}

Table == INSTANCE FreezerTable WITH MaxFileSize <- 2, MaxWrites <- 5, MaxCrash <- 2

-------------------------------------------------------------------------------
Chains == {"chain_crash", "chain_rewind", "chain_reorg", "table"}
Init ==
    /\ \/ part \in {"chain_crash", "table"} /\ ChainCrash!Init
       \/ part = "chain_rewind" /\ ChainRewind!Init
       \/ part = "chain_reorg" /\ ChainReorg!Init
       \/ part = "path_keeps" /\ PathKeeps!Init
       \/ part = "path_builds" /\ PathBuilds!Init
       \/ part = "path_prunes" /\ PathPrunes!Init
       \/ part = "path_forks" /\ PathForks!Init
    /\ IF part \in Chains THEN syncs = 0
       ELSE freezer = Nil /\ fixed = Nil /\ crossed = FALSE /\ rewinds = 0
    /\ Table!Init

Next ==
    \/ /\ \/ part = "chain_crash" /\ ChainCrash!Next
          \/ part = "chain_rewind" /\ ChainRewind!Next
          \/ part = "chain_reorg" /\ ChainReorg!Next
       /\ UNCHANGED <<part, syncs, table>>
    \/ /\ \/ part = "path_keeps" /\ PathKeeps!Next
          \/ part = "path_builds" /\ PathBuilds!Next
          \/ part = "path_prunes" /\ PathPrunes!Next
          \/ part = "path_forks" /\ PathForks!Next
       /\ UNCHANGED <<part, chain, table>>
    \/ part = "table" /\ Table!Next /\ UNCHANGED <<part, world, mem, syncs, chain>>

Spec == Init /\ [][Next]_<<part, world, mem, crashes, syncs, chain, table>>

-------------------------------------------------------------------------------
(* The properties of the components, of the instances that move. *)

\* As long as no call has changed blocks while they were being frozen, no block
\* of the canonical chain is lost between the store and the freezer, and no
\* number above the head names a block.
ChainComplete ==
    ~crossed =>
        /\ part = "chain_crash" => ChainCrash!ChainComplete
        /\ part = "chain_rewind" => ChainRewind!ChainComplete
        /\ part = "chain_reorg" => ChainReorg!ChainComplete /\ ChainReorg!NothingAbove

\* The chain can be opened after a crash.
ChainReopens ==
    /\ part = "chain_crash" => ChainCrash!Reopens
    /\ part = "chain_rewind" => ChainRewind!Reopens

\* The freezer only takes blocks that the network will not give up.
ChainFreezerIsFinal ==
    /\ part = "chain_crash" => ChainCrash!FreezerIsFinal
    /\ part = "chain_rewind" => ChainRewind!FreezerIsFinal
    /\ part = "chain_reorg" => ChainReorg!FreezerIsFinal

\* Whatever a crash leaves of its files, a freezer table can be opened, holds
\* what was flushed, and returns the item that was last stored under a number.
TableSurvivesCrash ==
    part = "table" =>
        Table!ReadsWhatWasWritten /\ Table!FlushedSurvives /\ Table!OpensAfterCrash

\* A layer of the path database answers with what its root commits to, or
\* refuses, and the generator's marker vouches for the flat states it serves.
PathReadsMatch ==
    /\ part = "path_keeps" => PathKeeps!ReadsMatch
    /\ part = "path_builds" => PathBuilds!ReadsMatch /\ PathBuilds!MarkerVouches
    /\ part = "path_prunes" => PathPrunes!ReadsMatch /\ PathPrunes!MarkerVouches
    /\ part = "path_forks" => PathForks!ReadsMatch

\* The configured number of recent states of the path database can be rolled
\* back to: the write buffer starts at the persistent state id, and histories
\* are there from it on.
PathHistoriesUsable ==
    /\ part = "path_keeps" => PathKeeps!HistoriesUsable /\ PathKeeps!BufferAligned
    /\ part = "path_builds" => PathBuilds!HistoriesUsable /\ PathBuilds!BufferAligned
    /\ part = "path_prunes" => PathPrunes!HistoriesUsable /\ PathPrunes!BufferAligned
    /\ part = "path_forks" => PathForks!BufferAligned

\* The path database can be opened after a crash, and the histories it pruned
\* are below what is on the disk.
PathReopens ==
    /\ part = "path_keeps" => PathKeeps!Reopens
    /\ part = "path_builds" => PathBuilds!Reopens
    /\ part = "path_prunes" => PathPrunes!PrunesFlushedOnly
===============================================================================
