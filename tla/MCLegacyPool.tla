----------------------------- MODULE MCLegacyPool -----------------------------
(***************************************************************************)
(* LegacyPool, and instances of LegacyReorg, of TruncatePending, the last  *)
(* stage of its runs, and of Skeleton.  They share no state: "part" says   *)
(* which of them moves in a behaviour, and the variables of the others     *)
(* keep their first value.                                                 *)
(***************************************************************************)
EXTENDS MCLegacyChurn, LegacyReorgState

CONSTANT Nil

VARIABLES
    part,
    first, len, pending, spammers, offenders, truncPc,    \* TruncatePending
    db, chain, sk, conn, filler, target, spent            \* Skeleton

reorg == <<pc, ticket, asked, head, mu, loopPc, replyTo, curDone, nextDone, launchNextRun, reset,
           dirtyAccounts, queuedEvents, runs, closed, shutdown, closePc, unseen, poolHead, announced>>
lengths == <<first, len, pending, spammers, offenders, truncPc>>
skeleton == <<db, chain, sk, conn, filler, target, spent>>

Reorg == INSTANCE LegacyReorg

Accounts == {"a", "b", "c", "d"}
Truncate == INSTANCE TruncatePending WITH
    pc <- truncPc, Addr <- Accounts, AccountSlots <- 2, GlobalSlots <- 9, MaxLen <- 6

\* The client names three heads, and one thing goes wrong.
Sync == INSTANCE Skeleton WITH
    MaxNumber <- 5, ForkAt <- 4, requestHeaders <- 2, scratchHeaders <- 4,
    Peers <- {"p", "q"}, ShorterHeads <- FALSE, MaxUpdates <- 3, MaxFaults <- 1

SuiteInit ==
    /\ part \in {"pool", "reorg", "truncate", "skeleton"}
    /\ Init /\ Reorg!Init /\ Sync!Init
    /\ IF part = "truncate" THEN Truncate!Init
       ELSE /\ first = [a \in Accounts |-> 0] /\ len = first /\ pending = 0
            /\ spammers = {} /\ offenders = <<>> /\ truncPc = "done"

SuiteNext ==
    \/ part = "pool" /\ Next /\ UNCHANGED <<part, reorg, lengths, skeleton>>
    \/ part = "reorg" /\ Reorg!Next /\ UNCHANGED <<part, vars, lengths, skeleton>>
    \/ part = "truncate" /\ Truncate!Next /\ UNCHANGED <<part, vars, reorg, skeleton>>
    \/ part = "skeleton" /\ Sync!Next /\ UNCHANGED <<part, vars, reorg, lengths>>

\* The fairness of each component, in the behaviours in which it moves.
InReorg == part = "reorg"
ReorgFairness ==
    /\ \A c \in Adders : WF_reorg(InReorg /\ Reorg!AdderStep(c))
    /\ WF_reorg(InReorg /\ (Reorg!ClientStep(Resetter) \/ Reorg!RecvReset))
    /\ WF_reorg(InReorg /\ Reorg!LoopStep) /\ WF_reorg(InReorg /\ Reorg!RunStep)
    /\ WF_reorg(InReorg /\ Reorg!CloseReturn)

InSkeleton == part = "skeleton"
SuiteSpec ==
    /\ SuiteInit /\ [][SuiteNext]_<<part, vars, reorg, lengths, skeleton>>
    /\ ReorgFairness
    /\ WF_skeleton(InSkeleton /\ Sync!Work)

-------------------------------------------------------------------------------
(* The properties of the instances. *)

\* truncatePending keeps exact count of what is left, cuts the long lists at one
\* level, the highest that is low enough, and its loops end.
TruncateIsFair == [][Truncate!Turn]_lengths

\* The subchains that the skeleton keeps on disk can be built on.
SubchainsSound == part = "skeleton" => Sync!SubchainsSound

\* The skeleton works for the head it was last given, its tasks and requests
\* agree, and the backfiller starts where the chain is linked.
SkeletonOnTrack == part = "skeleton" => Sync!OnTrack

\* A head that the client goes on naming becomes a local block.
EventuallyReached == []<>(part = "skeleton" => Sync!TargetReached)
===============================================================================
