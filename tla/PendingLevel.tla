---------------------------- MODULE PendingLevel ------------------------------
(***************************************************************************)
(* What truncatePending (core/txpool/legacypool) comes to: the lists that  *)
(* are longer than AccountSlots are all cut at one level, the highest that *)
(* brings the total within GlobalSlots, and never below AccountSlots.      *)
(* TruncatePending shows that the loops of the code compute this, and      *)
(* LegacyPool uses it for the step of runReorg.                            *)
(***************************************************************************)
EXTENDS Integers, FiniteSets, FiniteSetsExt

CONSTANTS Addr, AccountSlots, GlobalSlots

\* The length of list a when the lists of lengths len are cut at a level.
CutLen(len, level, a) ==
    IF len[a] > AccountSlots THEN Min({len[a], level}) ELSE len[a]

TotalAt(len, level) == MapThenSumSet(LAMBDA a : CutLen(len, level, a), Addr)

\* Mutant: the lists are never cut below AccountSlots + 1.
Level_Above(len) ==
    Max({AccountSlots + 1} \cup
        {l \in AccountSlots..Max({len[a] : a \in Addr}) : TotalAt(len, l) <= GlobalSlots})

Level(len) ==
    Max({AccountSlots} \cup
        {l \in AccountSlots..Max({len[a] : a \in Addr}) : TotalAt(len, l) <= GlobalSlots})
===============================================================================
