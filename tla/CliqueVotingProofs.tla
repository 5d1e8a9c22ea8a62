------------------------- MODULE CliqueVotingProofs -------------------------
(***************************************************************************)
(* Proofs about CliqueSnapshot and CliqueVoting, for any set of accounts,  *)
(* any genesis signers, any epoch and a chain of any length.  The lemmas   *)
(* follow one header through the stages of apply.                          *)
(***************************************************************************)
EXTENDS CliqueVoting, FiniteSetTheorems, TLAPS

USE AddrAssumption, EpochAssumption

(* The window of recent signers is at least one block, and moves by at most one with a signer. *)
LEMMA LimitFacts ==
    ASSUME NEW S, S \subseteq Addr, NEW a \in Addr
    PROVE  /\ IsFiniteSet(S) /\ Cardinality(S) \in Nat
           /\ Limit(S) \in Nat /\ Limit(S) >= 1
           /\ Limit(S \cup {a}) \in Nat /\ Limit(S \cup {a}) >= Limit(S)
           /\ Limit(S \ {a}) \in Nat
           /\ Limit(S \ {a}) <= Limit(S) /\ Limit(S \ {a}) >= Limit(S) - 1
<1>1. IsFiniteSet(S) /\ Cardinality(S) \in Nat
  BY FS_Subset, FS_CardinalityType, Zenon
<1>2. Cardinality(S \cup {a}) = Cardinality(S) \/ Cardinality(S \cup {a}) = Cardinality(S) + 1
  BY <1>1, FS_AddElement, Zenon
<1>3. Cardinality(S \ {a}) = Cardinality(S) \/ (Cardinality(S \ {a}) = Cardinality(S) - 1 /\ a \in S)
  BY <1>1, FS_RemoveElement, Zenon
<1>4. a \in S => Cardinality(S) # 0
  BY <1>1, FS_EmptySet
<1>5. Cardinality(S \ {a}) \in Nat
  BY <1>1, <1>3, <1>4
<1> QED
  BY <1>1, <1>2, <1>3, <1>5 DEF Limit

(* Taking votes out of the list and out of the tally keeps the two in step. *)
LEMMA UncastKeepsTally ==
    ASSUME NEW s, IsSnapshot(s), VotesAreValid(s), TallyCounts(s),
           NEW votes, votes \subseteq s.Votes,
           NEW t, IsSnapshot(t), t.Signers = s.Signers,
           t.Votes = s.Votes \ votes, t.Tally = uncastAll(s.Tally, votes)
    PROVE  VotesAreValid(t) /\ TallyCounts(t)
<1>1. VotesAreValid(t)
  BY DEF VotesAreValid
<1>2. ASSUME NEW a \in Addr
      PROVE  /\ t.Tally[a].Votes = Cardinality(VotesOn(t.Votes, a))
             /\ t.Tally[a].Votes > 0 => t.Tally[a].Authorize = (a \notin t.Signers)
  <2> DEFINE counted == {v \in votes : v.Address = a /\ v.Authorize = s.Tally[a].Authorize}
             V == VotesOn(s.Votes, a)
  <2>1. IsFiniteSet(V) /\ Cardinality(V) \in Nat /\ V \subseteq s.Votes
    BY FS_Subset, FS_CardinalityType DEF VotesOn, IsSnapshot
  <2>2. V # {} => Cardinality(V) > 0
    BY <2>1, FS_EmptySet
  <2>3. \A v \in V : v.Authorize = s.Tally[a].Authorize
    <3> SUFFICES ASSUME NEW v \in V PROVE v.Authorize = s.Tally[a].Authorize
      OBVIOUS
    <3>1. s.Tally[a].Votes > 0
      BY <2>2 DEF TallyCounts
    <3>2. s.Tally[a].Authorize = (a \notin s.Signers)
      BY <3>1, Zenon DEF TallyCounts
    <3>3. v \in s.Votes /\ v.Address = a /\ v.Authorize \in BOOLEAN
      BY DEF VotesOn, IsSnapshot, Vote
    <3>4. validVote(s.Signers, a, v.Authorize)
      BY <3>3 DEF VotesAreValid
    <3> QED BY <3>2, <3>3, <3>4 DEF validVote
  <2>4. counted = {v \in votes : v.Address = a} /\ counted \subseteq V
    BY <2>3 DEF VotesOn
  <2>5. VotesOn(t.Votes, a) = V \ counted
    BY <2>4 DEF VotesOn
  <2>6. IsFiniteSet(counted) /\ Cardinality(counted) \in Nat /\ Cardinality(counted) <= Cardinality(V)
    BY <2>1, <2>4, FS_Subset, FS_CardinalityType
  <2>7. Cardinality(VotesOn(t.Votes, a)) = Cardinality(V) - Cardinality(counted)
    <3>1. V \cap counted = counted
      BY <2>4
    <3>2. Cardinality(V \ counted) = Cardinality(V) - Cardinality(V \cap counted)
      BY <2>1, FS_Difference, Zenon
    <3> QED BY <2>5, <3>1, <3>2, Zenon
  <2>8. s.Tally[a] \in [Authorize : BOOLEAN, Votes : Nat] /\ s.Tally[a].Votes = Cardinality(V)
    BY DEF IsSnapshot, TallyCounts
  <2>9. t.Tally[a] = IF counted = {} THEN s.Tally[a] ELSE uncast(s.Tally[a], Cardinality(counted))
    BY DEF uncastAll
  <2> HIDE DEF counted, V
  <2>10. CASE counted = {}
    <3>1. VotesOn(t.Votes, a) = V /\ t.Tally[a] = s.Tally[a]
      BY <2>5, <2>9, <2>10
    <3>2. V = VotesOn(s.Votes, a)
      BY DEF V
    <3> QED BY <3>1, <3>2 DEF TallyCounts
  <2>11. CASE counted # {}
    <3>1. t.Tally[a] = uncast(s.Tally[a], Cardinality(counted))
      BY <2>9, <2>11
    <3>2. CASE s.Tally[a].Votes > Cardinality(counted)
      <4>1. /\ t.Tally[a].Votes = s.Tally[a].Votes - Cardinality(counted)
            /\ t.Tally[a].Authorize = s.Tally[a].Authorize
        BY <3>1, <3>2, <2>8 DEF uncast
      <4>2. s.Tally[a].Votes > 0
        BY <3>2, <2>6, <2>8
      <4> QED BY <4>1, <4>2, <2>7, <2>8 DEF TallyCounts
    <3>3. CASE ~(s.Tally[a].Votes > Cardinality(counted))
      <4>1. t.Tally[a].Votes = 0
        BY <3>1, <3>3 DEF uncast, NoTally
      <4>2. Cardinality(V) = Cardinality(counted)
        BY <3>3, <2>1, <2>6, <2>8
      <4>3. Cardinality(VotesOn(t.Votes, a)) = 0
        BY <4>2, <2>1, <2>7
      <4> QED BY <4>1, <4>3
    <3> QED BY <3>2, <3>3
  <2> QED BY <2>10, <2>11
<1> QED BY <1>1, <1>2, Zenon DEF TallyCounts

-----------------------------------------------------------------------------
(* What every stage of apply keeps. *)
Sound(s) == IsSnapshot(s) /\ VotesAreValid(s) /\ TallyCounts(s)

(* Replacing the votes and the tally of a snapshot keeps its other fields. *)
LEMMA SnapshotRecount ==
    ASSUME NEW s, IsSnapshot(s), NEW x, NEW y
    PROVE  [s EXCEPT !.Votes = x, !.Tally = y] = [Number |-> s.Number,
               Signers |-> s.Signers, Recents |-> s.Recents, Votes |-> x, Tally |-> y]
<1> DEFINE e == [s EXCEPT !.Votes = x, !.Tally = y]
<1>1. DOMAIN s = {"Number", "Signers", "Recents", "Votes", "Tally"}
  BY DEF IsSnapshot
<1>2. /\ DOMAIN e = {"Number", "Signers", "Recents", "Votes", "Tally"}
      /\ e.Number = s.Number /\ e.Signers = s.Signers /\ e.Recents = s.Recents
      /\ e.Votes = x /\ e.Tally = y /\ e = [f \in DOMAIN e |-> e[f]]
  BY <1>1, Zenon
<1> HIDE DEF e
<1>3. e = [Number |-> s.Number, Signers |-> s.Signers, Recents |-> s.Recents,
           Votes |-> x, Tally |-> y]
  BY <1>2
<1> QED BY <1>3 DEF e
(* Replacing the number of a snapshot keeps its other fields. *)
LEMMA SnapshotRenumber ==
    ASSUME NEW s, IsSnapshot(s), NEW x
    PROVE  [s EXCEPT !.Number = x] = [Number |-> x, Signers |-> s.Signers,
               Recents |-> s.Recents, Votes |-> s.Votes, Tally |-> s.Tally]
<1>1. s = [Number |-> s.Number, Signers |-> s.Signers, Recents |-> s.Recents,
           Votes |-> s.Votes, Tally |-> s.Tally]
  BY DEF IsSnapshot
<1> QED BY <1>1
(* Replacing the signers of a snapshot keeps its other fields. *)
LEMMA SnapshotResign ==
    ASSUME NEW s, IsSnapshot(s), NEW x
    PROVE  [s EXCEPT !.Signers = x] = [Number |-> s.Number, Signers |-> x,
               Recents |-> s.Recents, Votes |-> s.Votes, Tally |-> s.Tally]
<1>1. s = [Number |-> s.Number, Signers |-> s.Signers, Recents |-> s.Recents,
           Votes |-> s.Votes, Tally |-> s.Tally]
  BY DEF IsSnapshot
<1> QED BY <1>1
(* Replacing the recent signers of a snapshot keeps its other fields. *)
LEMMA SnapshotReshift ==
    ASSUME NEW s, IsSnapshot(s), NEW x
    PROVE  [s EXCEPT !.Recents = x] = [Number |-> s.Number, Signers |-> s.Signers,
               Recents |-> x, Votes |-> s.Votes, Tally |-> s.Tally]
<1>1. s = [Number |-> s.Number, Signers |-> s.Signers, Recents |-> s.Recents,
           Votes |-> s.Votes, Tally |-> s.Tally]
  BY DEF IsSnapshot
<1> QED BY <1>1

(* An empty list of votes and an empty tally agree. *)
LEMMA NoVotesSound ==
    ASSUME NEW s, IsSnapshot(s), s.Votes = {}, s.Tally = [a \in Addr |-> NoTally]
    PROVE  Sound(s)
<1>1. VotesAreValid(s)
  BY DEF VotesAreValid
<1>2. \A a \in Addr : VotesOn(s.Votes, a) = {} /\ s.Tally[a].Votes = 0
  BY DEF VotesOn, NoTally
<1>3. TallyCounts(s)
  BY <1>2, FS_EmptySet DEF TallyCounts
<1> QED BY <1>1, <1>3 DEF Sound

(* The checkpoint reset. *)
LEMMA CheckpointStage ==
    ASSUME NEW s, Sound(s)
    PROVE  LET t == AtCheckpoint(s)
           IN  /\ Sound(t) /\ t.Number = s.Number /\ t.Signers = s.Signers
               /\ t.Recents = s.Recents /\ t.Votes \subseteq s.Votes
               /\ t.Votes = IF (s.Number + 1) % Epoch = 0 THEN {} ELSE s.Votes
<1> DEFINE t == AtCheckpoint(s)
           empty == [a \in Addr |-> NoTally]
<1>1. CASE (s.Number + 1) % Epoch = 0
  <2>1. t = [s EXCEPT !.Votes = {}, !.Tally = empty]
    BY <1>1 DEF AtCheckpoint
  <2>2. s = [Number |-> s.Number, Signers |-> s.Signers, Recents |-> s.Recents,
             Votes |-> s.Votes, Tally |-> s.Tally]
    BY DEF Sound, IsSnapshot
  <2>3. t = [Number |-> s.Number, Signers |-> s.Signers, Recents |-> s.Recents,
             Votes |-> {}, Tally |-> empty]
    BY <2>1, <2>2, Zenon
  <2>4. empty \in [Addr -> [Authorize : BOOLEAN, Votes : Nat]]
    BY DEF NoTally
  <2>5. IsSnapshot(t)
    BY <2>3, <2>4, FS_EmptySet DEF Sound, IsSnapshot
  <2> QED BY <1>1, <2>3, <2>5, NoVotesSound
<1>2. CASE (s.Number + 1) % Epoch # 0
  BY <1>2 DEF AtCheckpoint
<1> QED BY <1>1, <1>2

(* A snapshot whose Recents alone changed is as sound as before. *)
LEMMA RecentsStage ==
    ASSUME NEW s, Sound(s), NEW r, r \in [DOMAIN r -> Addr]
    PROVE  LET t == [s EXCEPT !.Recents = r]
           IN  /\ Sound(t) /\ t.Number = s.Number /\ t.Signers = s.Signers
               /\ t.Recents = r /\ t.Votes = s.Votes /\ t.Tally = s.Tally
<1> DEFINE t == [s EXCEPT !.Recents = r]
<1>1. t = [Number |-> s.Number, Signers |-> s.Signers, Recents |-> r,
           Votes |-> s.Votes, Tally |-> s.Tally]
  BY SnapshotReshift DEF Sound
<1>2. IsSnapshot(t)
  BY <1>1 DEF Sound, IsSnapshot
<1>3. VotesAreValid(t)
  BY <1>1 DEF Sound, VotesAreValid
<1>4. TallyCounts(t)
  BY <1>1 DEF Sound, TallyCounts
<1> QED BY <1>1, <1>2, <1>3, <1>4 DEF Sound
(* Taking votes back through uncastAll gives a well-typed tally. *)
LEMMA UncastType ==
    ASSUME NEW tally \in [Addr -> [Authorize : BOOLEAN, Votes : Nat]],
           NEW votes, IsFiniteSet(votes)
    PROVE  uncastAll(tally, votes) \in [Addr -> [Authorize : BOOLEAN, Votes : Nat]]
<1> SUFFICES ASSUME NEW a \in Addr
             PROVE  uncastAll(tally, votes)[a] \in [Authorize : BOOLEAN, Votes : Nat]
  BY DEF uncastAll
<1> DEFINE counted == {v \in votes : v.Address = a /\ v.Authorize = tally[a].Authorize}
<1>1. Cardinality(counted) \in Nat
  BY FS_Subset, FS_CardinalityType
<1>2. uncastAll(tally, votes)[a] =
        IF counted = {} THEN tally[a] ELSE uncast(tally[a], Cardinality(counted))
  BY DEF uncastAll
<1> HIDE DEF counted
<1>3. uncast(tally[a], Cardinality(counted)) \in [Authorize : BOOLEAN, Votes : Nat]
  BY <1>1 DEF uncast, NoTally
<1> QED BY <1>2, <1>3, Zenon

(* Votes leave the list and the tally together. *)
LEMMA WithdrawStage ==
    ASSUME NEW s, Sound(s), NEW votes, votes \subseteq s.Votes
    PROVE  LET t == [s EXCEPT !.Votes = @ \ votes, !.Tally = uncastAll(@, votes)]
           IN  /\ Sound(t) /\ t.Number = s.Number /\ t.Signers = s.Signers
               /\ t.Recents = s.Recents /\ t.Votes = s.Votes \ votes
<1> DEFINE t == [s EXCEPT !.Votes = @ \ votes, !.Tally = uncastAll(@, votes)]
           left == s.Votes \ votes
           tally == uncastAll(s.Tally, votes)
<1>1. t = [s EXCEPT !.Votes = left, !.Tally = tally]
  OBVIOUS
<1>2. t = [Number |-> s.Number, Signers |-> s.Signers, Recents |-> s.Recents,
           Votes |-> s.Votes \ votes, Tally |-> uncastAll(s.Tally, votes)]
  <2> HIDE DEF left, tally, t
  <2>1. t = [Number |-> s.Number, Signers |-> s.Signers, Recents |-> s.Recents,
             Votes |-> left, Tally |-> tally]
    BY <1>1, SnapshotRecount, Zenon DEF Sound
  <2> QED BY <2>1 DEF left, tally
<1>3. IsFiniteSet(votes) /\ IsFiniteSet(s.Votes \ votes)
  BY FS_Subset DEF Sound, IsSnapshot
<1>4. uncastAll(s.Tally, votes) \in [Addr -> [Authorize : BOOLEAN, Votes : Nat]]
  BY <1>3, UncastType DEF Sound, IsSnapshot
<1>5. IsSnapshot(t)
  BY <1>2, <1>3, <1>4 DEF Sound, IsSnapshot
<1>6. /\ t.Number = s.Number /\ t.Signers = s.Signers /\ t.Recents = s.Recents
      /\ t.Votes = s.Votes \ votes /\ t.Tally = uncastAll(s.Tally, votes)
  BY <1>2
<1> HIDE DEF t
<1>7. VotesAreValid(t) /\ TallyCounts(t)
  BY <1>5, <1>6, UncastKeepsTally DEF Sound
<1> QED BY <1>5, <1>6, <1>7 DEF Sound, t

(* The signer's earlier vote on the account is withdrawn, and no other of its votes on it is left. *)
LEMMA DiscardStage ==
    ASSUME NEW s, Sound(s), NEW h \in Header
    PROVE  LET t == DiscardPrevious(s, h)
           IN  /\ Sound(t) /\ t.Number = s.Number /\ t.Signers = s.Signers
               /\ t.Recents = s.Recents /\ t.Votes \subseteq s.Votes
               /\ t.Votes = {v \in s.Votes : ~(v.Signer = h.Signer /\ v.Address = h.Coinbase)}
<1> DEFINE mine  == {v \in s.Votes : v.Signer = h.Signer /\ v.Address = h.Coinbase}
           first == {v \in mine : \A w \in mine : v.Block <= w.Block}
           t == [s EXCEPT !.Votes = @ \ first, !.Tally = uncastAll(@, first)]
<1>1. DiscardPrevious(s, h) = t
  BY DEF DiscardPrevious
<1>2. first = mine
  <2>1. \A v, w \in mine : v = w
    BY DEF Sound, VotesAreValid
  <2>2. \A v \in mine : v.Block \in Nat
    BY Zenon DEF Sound, IsSnapshot, Vote
  <2> QED BY <2>1, <2>2
<1>3. /\ Sound(t) /\ t.Number = s.Number /\ t.Signers = s.Signers
      /\ t.Recents = s.Recents /\ t.Votes = s.Votes \ first
  BY WithdrawStage, Zenon
<1> QED BY <1>1, <1>2, <1>3

(* What cast does to the tally: one more vote, in the direction of the votes already there. *)
LEMMA CastFacts ==
    ASSUME NEW tally \in [Addr -> [Authorize : BOOLEAN, Votes : Nat]], NEW h \in Header
    PROVE  LET a == h.Coinbase
               t == cast(tally, a, h.Authorize)
           IN  /\ t \in [Addr -> [Authorize : BOOLEAN, Votes : Nat]]
               /\ \A b \in Addr \ {a} : t[b] = tally[b]
               /\ t[a].Votes = tally[a].Votes + 1
               /\ tally[a].Votes > 0 => t[a].Authorize = tally[a].Authorize
               /\ ~(tally[a].Votes > 0) => t[a].Authorize = h.Authorize
<1> DEFINE a == h.Coinbase
           dir == IF tally[a].Votes > 0 THEN tally[a].Authorize ELSE h.Authorize
           n == tally[a].Votes + 1
<1>1. cast(tally, a, h.Authorize) = [tally EXCEPT ![a] = [Authorize |-> dir, Votes |-> n]]
  BY DEF cast
<1>2. a \in Addr /\ dir \in BOOLEAN /\ n \in Nat
  <2>1. a \in Addr /\ h.Authorize \in BOOLEAN
    BY DEF Header
  <2>2. tally[a] \in [Authorize : BOOLEAN, Votes : Nat]
    BY <2>1, Zenon
  <2>3. tally[a].Authorize \in BOOLEAN /\ tally[a].Votes \in Nat
    BY <2>2
  <2> QED BY <2>1, <2>3
<1>3. [Authorize |-> dir, Votes |-> n] \in [Authorize : BOOLEAN, Votes : Nat]
  BY <1>2
<1>4. cast(tally, a, h.Authorize)[a] = [Authorize |-> dir, Votes |-> n]
  BY <1>1, <1>2
<1> QED BY <1>1, <1>2, <1>3, <1>4

(* A vote that makes sense joins the list and the tally. *)
LEMMA CastStage ==
    ASSUME NEW s, Sound(s), NEW h \in Header, h.Signer \in s.Signers,
           \A v \in s.Votes : ~(v.Signer = h.Signer /\ v.Address = h.Coinbase)
    PROVE  LET t == CastVote(s, h)
           IN  /\ Sound(t) /\ t.Number = s.Number /\ t.Signers = s.Signers
               /\ t.Recents = s.Recents
               /\ \A v \in t.Votes : v \in s.Votes \/ v.Block = s.Number + 1
               /\ t.Votes = s.Votes \cup
                      (IF validVote(s.Signers, h.Coinbase, h.Authorize)
                       THEN {[Signer |-> h.Signer, Block |-> s.Number + 1,
                              Address |-> h.Coinbase, Authorize |-> h.Authorize]}
                       ELSE {})
<1> DEFINE t == CastVote(s, h)
           a == h.Coinbase
           new == [Signer |-> h.Signer, Block |-> s.Number + 1,
                   Address |-> h.Coinbase, Authorize |-> h.Authorize]
<1>1. CASE ~validVote(s.Signers, h.Coinbase, h.Authorize)
  BY <1>1 DEF CastVote
<1>2. CASE validVote(s.Signers, h.Coinbase, h.Authorize)
  <2> DEFINE more  == s.Votes \cup {new}
             tally == cast(s.Tally, a, h.Authorize)
  <2>1. t = [s EXCEPT !.Votes = more, !.Tally = tally]
    BY <1>2, Zenon DEF CastVote
  <2>2. /\ t = [Number |-> s.Number, Signers |-> s.Signers, Recents |-> s.Recents,
                Votes |-> more, Tally |-> tally]
    <3> HIDE DEF more, tally, t
    <3> QED BY <2>1, SnapshotRecount, Zenon DEF Sound
  <2>3. /\ new \in Vote /\ new \notin s.Votes /\ a \in Addr /\ h.Authorize \in BOOLEAN
        /\ new.Signer = h.Signer /\ new.Address = a /\ new.Block = s.Number + 1
        /\ new.Authorize = h.Authorize
    BY DEF Vote, Header, Sound, IsSnapshot
  <2>4. IsFiniteSet(more)
    BY FS_AddElement, Zenon DEF Sound, IsSnapshot
  <2>5. s.Tally \in [Addr -> [Authorize : BOOLEAN, Votes : Nat]]
    BY DEF Sound, IsSnapshot
  <2> HIDE DEF new, t, a
  <2>6. /\ tally \in [Addr -> [Authorize : BOOLEAN, Votes : Nat]]
        /\ \A b \in Addr \ {a} : tally[b] = s.Tally[b]
        /\ tally[a].Votes = s.Tally[a].Votes + 1
        /\ s.Tally[a].Votes > 0 => tally[a].Authorize = s.Tally[a].Authorize
        /\ ~(s.Tally[a].Votes > 0) => tally[a].Authorize = h.Authorize
    <3> HIDE DEF tally
    <3>1. tally = cast(s.Tally, a, h.Authorize)
      BY DEF tally
    <3> QED BY <2>5, <3>1, CastFacts DEF a
  <2> HIDE DEF tally
  <2>7. IsSnapshot(t)
    BY <2>2, <2>3, <2>4, <2>6 DEF Sound, IsSnapshot
  <2>8. VotesAreValid(t)
    <3> t.Signers = s.Signers /\ t.Votes = s.Votes \cup {new}
      BY <2>2
    <3>1. \A v, w \in t.Votes : v.Signer = w.Signer /\ v.Address = w.Address => v = w
      BY <2>3 DEF Sound, VotesAreValid, a
    <3>2. \A v \in t.Votes : v.Signer \in t.Signers /\ validVote(t.Signers, v.Address, v.Authorize)
      BY <1>2, <2>3 DEF Sound, VotesAreValid, a
    <3> QED BY <3>1, <3>2 DEF VotesAreValid
  <2>9. ASSUME NEW b \in Addr
        PROVE  /\ t.Tally[b].Votes = Cardinality(VotesOn(t.Votes, b))
               /\ t.Tally[b].Votes > 0 => t.Tally[b].Authorize = (b \notin t.Signers)
    <3> t.Signers = s.Signers /\ t.Tally = tally /\ t.Votes = s.Votes \cup {new}
      BY <2>2
    <3>1. CASE b # a
      <4>1. t.Tally[b] = s.Tally[b]
        BY <2>6, <3>1
      <4>2. VotesOn(t.Votes, b) = VotesOn(s.Votes, b)
        BY <2>3, <3>1 DEF VotesOn
      <4> QED BY <4>1, <4>2, Zenon DEF Sound, TallyCounts
    <3>2. CASE b = a
      <4>1. VotesOn(t.Votes, a) = VotesOn(s.Votes, a) \cup {new}
        BY <2>3 DEF VotesOn
      <4>2. IsFiniteSet(VotesOn(s.Votes, a)) /\ new \notin VotesOn(s.Votes, a)
        BY <2>3, FS_Subset DEF VotesOn, Sound, IsSnapshot
      <4>3. Cardinality(VotesOn(s.Votes, a) \cup {new}) = Cardinality(VotesOn(s.Votes, a)) + 1
        BY <4>2, FS_AddElement, Zenon
      <4>4. s.Tally[a].Votes = Cardinality(VotesOn(s.Votes, a)) /\ s.Tally[a].Votes \in Nat
        BY <2>3, <2>5 DEF Sound, TallyCounts
      <4>5. t.Tally[a].Votes = Cardinality(VotesOn(t.Votes, a))
        BY <2>6, <4>1, <4>3, <4>4, Zenon
      <4>6. t.Tally[a].Authorize = (a \notin s.Signers)
        <5>1. CASE s.Tally[a].Votes > 0
          <6>1. s.Tally[a].Authorize = (a \notin s.Signers)
            BY <5>1, <2>3 DEF Sound, TallyCounts
          <6> QED BY <5>1, <6>1, <2>6
        <5>2. CASE ~(s.Tally[a].Votes > 0)
          <6>1. h.Authorize = (a \notin s.Signers)
            BY <1>2, <2>3 DEF validVote, a
          <6> QED BY <5>2, <6>1, <2>6
        <5> QED BY <5>1, <5>2
      <4> QED BY <3>2, <4>5, <4>6
    <3> QED BY <3>1, <3>2
  <2>10. TallyCounts(t)
    BY <2>9 DEF TallyCounts
  <2>11. \A v \in t.Votes : v \in s.Votes \/ v.Block = s.Number + 1
    BY <2>2, <2>3
  <2>12. t.Votes = s.Votes \cup {new}
    BY <2>2
  <2> QED BY <1>2, <2>2, <2>7, <2>8, <2>10, <2>11, <2>12 DEF Sound, t, new
<1> QED BY <1>1, <1>2
(* Sound but for the votes on account a, whose status has just changed. *)
SoundExcept(s, a) ==
    /\ IsSnapshot(s)
    /\ \A v, w \in s.Votes : v.Signer = w.Signer /\ v.Address = w.Address => v = w
    /\ \A v \in s.Votes : v.Address # a =>
           v.Signer \in s.Signers /\ validVote(s.Signers, v.Address, v.Authorize)
    /\ \A b \in Addr \ {a} :
           /\ s.Tally[b].Votes = Cardinality(VotesOn(s.Votes, b))
           /\ s.Tally[b].Votes > 0 => s.Tally[b].Authorize = (b \notin s.Signers)

(* Forgetting the votes on the changed account makes the snapshot sound again. *)
LEMMA ForgetStage ==
    ASSUME NEW s, NEW a \in Addr, SoundExcept(s, a)
    PROVE  LET t == ForgetAccount(s, a)
           IN  /\ Sound(t) /\ t.Number = s.Number /\ t.Signers = s.Signers
               /\ t.Recents = s.Recents /\ t.Votes = {v \in s.Votes : v.Address # a}
<1> DEFINE t == ForgetAccount(s, a)
           left == {v \in s.Votes : v.Address # a}
           tally == [s.Tally EXCEPT ![a] = NoTally]
<1>1. t = [s EXCEPT !.Votes = left, !.Tally = tally]
  BY DEF ForgetAccount
<1>2. tally \in [Addr -> [Authorize : BOOLEAN, Votes : Nat]]
  BY DEF SoundExcept, IsSnapshot, NoTally
<1>3. IsFiniteSet(left) /\ left \subseteq s.Votes
  BY FS_Subset DEF SoundExcept, IsSnapshot
<1>4. tally[a].Votes = 0 /\ \A b \in Addr \ {a} : tally[b] = s.Tally[b]
  BY DEF SoundExcept, IsSnapshot, NoTally
<1>5. VotesOn(left, a) = {} /\ \A b \in Addr \ {a} : VotesOn(left, b) = VotesOn(s.Votes, b)
  BY DEF VotesOn
<1>6. \A v \in left : v.Address # a
  OBVIOUS
<1> HIDE DEF tally, left, t
<1>7. t = [Number |-> s.Number, Signers |-> s.Signers, Recents |-> s.Recents,
           Votes |-> left, Tally |-> tally]
  <2>1. IsSnapshot(s)
    BY Zenon DEF SoundExcept
  <2>2. [s EXCEPT !.Votes = left, !.Tally = tally]
            = [Number |-> s.Number, Signers |-> s.Signers, Recents |-> s.Recents,
               Votes |-> left, Tally |-> tally]
    BY <2>1, SnapshotRecount, Zenon
  <2> QED BY <1>1, <2>2, Zenon
<1>8. /\ t.Number = s.Number /\ t.Signers = s.Signers /\ t.Recents = s.Recents
      /\ t.Votes = left /\ t.Tally = tally
  BY <1>7
<1>9. IsSnapshot(t)
  BY <1>2, <1>3, <1>7 DEF SoundExcept, IsSnapshot
<1>10. VotesAreValid(t)
  BY <1>3, <1>6, <1>8 DEF SoundExcept, VotesAreValid
<1>11. ASSUME NEW b \in Addr
       PROVE  /\ t.Tally[b].Votes = Cardinality(VotesOn(t.Votes, b))
              /\ t.Tally[b].Votes > 0 => t.Tally[b].Authorize = (b \notin t.Signers)
  <2>1. CASE b = a
    BY <2>1, <1>4, <1>5, <1>8, FS_EmptySet
  <2>2. CASE b # a
    BY <2>2, <1>4, <1>5, <1>8, Zenon DEF SoundExcept
  <2> QED BY <2>1, <2>2
<1>12. TallyCounts(t)
  BY <1>11 DEF TallyCounts
<1>13. t.Votes = {v \in s.Votes : v.Address # a}
  BY <1>8 DEF left
<1> QED BY <1>8, <1>9, <1>10, <1>12, <1>13 DEF Sound, t

(* Admitting an account. *)
LEMMA AdmitStage ==
    ASSUME NEW s, Sound(s), NEW a \in Addr
    PROVE  LET t == Admit(s, a)
           IN  /\ Sound(t) /\ t.Number = s.Number /\ t.Signers = s.Signers \cup {a}
               /\ t.Recents = s.Recents /\ t.Votes = {v \in s.Votes : v.Address # a}
<1> DEFINE u == [s EXCEPT !.Signers = @ \cup {a}]
           more == s.Signers \cup {a}
<1>1. Admit(s, a) = ForgetAccount(u, a)
  BY DEF Admit
<1>2. u = [s EXCEPT !.Signers = more]
  OBVIOUS
<1>3. more \subseteq Addr /\ s.Signers \subseteq more /\ \A b \in Addr \ {a} : (b \in more) = (b \in s.Signers)
  BY DEF Sound, IsSnapshot
<1> HIDE DEF u, more
<1>4. u = [Number |-> s.Number, Signers |-> more, Recents |-> s.Recents,
           Votes |-> s.Votes, Tally |-> s.Tally]
  BY <1>2, SnapshotResign DEF Sound
<1>5. /\ u.Number = s.Number /\ u.Signers = more /\ u.Recents = s.Recents
      /\ u.Votes = s.Votes /\ u.Tally = s.Tally
  BY <1>4
<1>6. IsSnapshot(u)
  BY <1>3, <1>4 DEF Sound, IsSnapshot
<1>7. ASSUME NEW v \in u.Votes, v.Address # a
      PROVE  v.Signer \in u.Signers /\ validVote(u.Signers, v.Address, v.Authorize)
  <2>1. v \in s.Votes /\ v.Address \in Addr \ {a}
    BY <1>5, <1>7 DEF Sound, IsSnapshot, Vote
  <2> QED BY <1>3, <1>5, <2>1 DEF Sound, VotesAreValid, validVote
<1>8. \A b \in Addr \ {a} :
           /\ u.Tally[b].Votes = Cardinality(VotesOn(u.Votes, b))
           /\ u.Tally[b].Votes > 0 => u.Tally[b].Authorize = (b \notin u.Signers)
  <2> SUFFICES ASSUME NEW b \in Addr \ {a}
               PROVE  /\ u.Tally[b].Votes = Cardinality(VotesOn(u.Votes, b))
                      /\ u.Tally[b].Votes > 0 => u.Tally[b].Authorize = (b \notin u.Signers)
    OBVIOUS
  <2>1. u.Tally[b] = s.Tally[b] /\ VotesOn(u.Votes, b) = VotesOn(s.Votes, b)
    BY <1>5
  <2>2. (b \notin u.Signers) = (b \notin s.Signers)
    BY <1>3, <1>5
  <2> QED BY <2>1, <2>2 DEF Sound, TallyCounts
<1>9. \A v, w \in u.Votes : v.Signer = w.Signer /\ v.Address = w.Address => v = w
  BY <1>5 DEF Sound, VotesAreValid
<1>10. SoundExcept(u, a)
  BY <1>6, <1>7, <1>8, <1>9 DEF SoundExcept
<1> QED BY <1>1, <1>5, <1>10, ForgetStage DEF more
(* Dropping a signer: its votes go, and the window of Recents may shrink by one. *)
LEMMA DropStage ==
    ASSUME NEW s, Sound(s), NEW a \in Addr
    PROVE  LET t == Drop(s, a)
           IN  /\ Sound(t) /\ t.Number = s.Number /\ t.Signers = s.Signers \ {a}
               /\ t.Recents = ShiftRecents(s.Recents, s.Signers \ {a}, s.Number + 1)
               /\ t.Votes = {v \in s.Votes : v.Signer # a /\ v.Address # a}
<1> DEFINE its == {v \in s.Votes : v.Signer = a}
           w == [s EXCEPT !.Votes = @ \ its, !.Tally = uncastAll(@, its)]
           fewer == s.Signers \ {a}
           recents == ShiftRecents(s.Recents, fewer, s.Number + 1)
           u == [s EXCEPT !.Signers = fewer, !.Recents = recents,
                          !.Votes = @ \ its, !.Tally = uncastAll(@, its)]
<1>1. Drop(s, a) = ForgetAccount(u, a)
  BY Zenon DEF Drop
<1>2. /\ Sound(w) /\ w.Number = s.Number /\ w.Signers = s.Signers
      /\ w.Recents = s.Recents /\ w.Votes = s.Votes \ its
  BY WithdrawStage, Zenon
<1>3. fewer \subseteq Addr /\ \A b \in Addr \ {a} : (b \in fewer) = (b \in s.Signers)
  BY DEF Sound, IsSnapshot
<1>4. recents \in [DOMAIN recents -> Addr]
  BY DEF ShiftRecents, Sound, IsSnapshot
<1>5. u = [[w EXCEPT !.Signers = fewer] EXCEPT !.Recents = recents]
  <2> DEFINE votes == s.Votes \ its
             tally == uncastAll(s.Tally, its)
  <2>1. w = [s EXCEPT !.Votes = votes, !.Tally = tally]
    OBVIOUS
  <2>2. u = [s EXCEPT !.Signers = fewer, !.Recents = recents, !.Votes = votes, !.Tally = tally]
    OBVIOUS
  <2>3. DOMAIN s = {"Number", "Signers", "Recents", "Votes", "Tally"}
    <3>1. s = [Number |-> s.Number, Signers |-> s.Signers, Recents |-> s.Recents,
               Votes |-> s.Votes, Tally |-> s.Tally]
      BY DEF Sound, IsSnapshot
    <3> QED BY <3>1
  <2> HIDE DEF fewer, recents, votes, tally, w, u, its
  <2> QED BY <2>1, <2>2, <2>3, Zenon
<1> HIDE DEF fewer, recents, w, u
<1>6. u = [Number |-> s.Number, Signers |-> fewer, Recents |-> recents,
           Votes |-> w.Votes, Tally |-> w.Tally]
  <2>1. w = [Number |-> w.Number, Signers |-> w.Signers, Recents |-> w.Recents,
             Votes |-> w.Votes, Tally |-> w.Tally]
    BY <1>2 DEF Sound, IsSnapshot
  <2> QED BY <1>2, <1>5, <2>1, Zenon
<1>7. /\ u.Number = s.Number /\ u.Signers = fewer /\ u.Recents = recents
      /\ u.Votes = w.Votes /\ u.Tally = w.Tally
  BY <1>6
<1>8. IsSnapshot(u)
  BY <1>2, <1>3, <1>4, <1>6 DEF Sound, IsSnapshot
<1>9. ASSUME NEW v \in u.Votes, v.Address # a
      PROVE  v.Signer \in u.Signers /\ validVote(u.Signers, v.Address, v.Authorize)
  <2>1. v \in s.Votes /\ v.Signer # a /\ v.Address \in Addr \ {a} /\ v.Signer \in Addr
    BY <1>2, <1>7, <1>9 DEF Sound, IsSnapshot, Vote
  <2>2. v.Signer \in s.Signers /\ validVote(s.Signers, v.Address, v.Authorize)
    BY <2>1 DEF Sound, VotesAreValid
  <2> QED BY <1>3, <1>7, <2>1, <2>2 DEF validVote
<1>10. \A b \in Addr \ {a} :
           /\ u.Tally[b].Votes = Cardinality(VotesOn(u.Votes, b))
           /\ u.Tally[b].Votes > 0 => u.Tally[b].Authorize = (b \notin u.Signers)
  <2> SUFFICES ASSUME NEW b \in Addr \ {a}
               PROVE  /\ u.Tally[b].Votes = Cardinality(VotesOn(u.Votes, b))
                      /\ u.Tally[b].Votes > 0 => u.Tally[b].Authorize = (b \notin u.Signers)
    OBVIOUS
  <2>1. u.Tally[b] = w.Tally[b] /\ VotesOn(u.Votes, b) = VotesOn(w.Votes, b)
    BY <1>7
  <2>2. (b \notin u.Signers) = (b \notin w.Signers)
    BY <1>2, <1>3, <1>7
  <2> QED BY <1>2, <2>1, <2>2, Zenon DEF Sound, TallyCounts
<1>11. \A v, x \in u.Votes : v.Signer = x.Signer /\ v.Address = x.Address => v = x
  BY <1>2, <1>7 DEF Sound, VotesAreValid
<1>12. SoundExcept(u, a)
  BY <1>8, <1>9, <1>10, <1>11 DEF SoundExcept
<1>13. u.Votes = {v \in s.Votes : v.Signer # a}
  BY <1>2, <1>7
<1> QED BY <1>1, <1>7, <1>12, <1>13, ForgetStage DEF fewer, recents
-----------------------------------------------------------------------------
(***************************************************************************)
(* apply as a whole: the votes and the recent signers once the header has  *)
(* spoken, and the change of the signers, if there is one.                 *)
(***************************************************************************)
Good(s) ==
    /\ Sound(s)
    /\ BlocksUpTo(s, s.Number)
    /\ RecentsWithin(s, s.Number)

(* The vote a header at block n carries. *)
Ballot(n, h) ==
    [Signer |-> h.Signer, Block |-> n, Address |-> h.Coinbase, Authorize |-> h.Authorize]

(* The earlier votes that header h leaves standing, and its own. *)
Standing(s, h) ==
    {v \in (IF (s.Number + 1) % Epoch = 0 THEN {} ELSE s.Votes) :
        ~(v.Signer = h.Signer /\ v.Address = h.Coinbase)}

Own(s, h) ==
    IF validVote(s.Signers, h.Coinbase, h.Authorize) THEN {Ballot(s.Number + 1, h)} ELSE {}

(* The recent signers with the signer of h. *)
Recorded(s, h) ==
    LET kept == ShiftRecents(s.Recents, s.Signers, s.Number + 1)
    IN  [b \in DOMAIN kept \cup {s.Number + 1} |->
            IF b = s.Number + 1 THEN h.Signer ELSE kept[b]]

Voted(s, h) == CastVote(DiscardPrevious(RecordSigner(Shifted(AtCheckpoint(s)), h), h), h)

(* The stages of apply before the votes are counted. *)
LEMMA VotedStage ==
    ASSUME NEW s, Sound(s), NEW h \in Header, h.Signer \in s.Signers
    PROVE  LET t == Voted(s, h)
           IN  /\ Sound(t) /\ t.Number = s.Number /\ t.Signers = s.Signers
               /\ t.Recents = Recorded(s, h) /\ t.Votes = Standing(s, h) \cup Own(s, h)
<1> DEFINE n == s.Number + 1
           c == AtCheckpoint(s)
           f == Shifted(c)
           e == RecordSigner(f, h)
           d == DiscardPrevious(e, h)
           v == CastVote(d, h)
<1>1. h.Signer \in Addr /\ h.Coinbase \in Addr /\ s.Number \in Nat
  BY DEF Header, Sound, IsSnapshot
<1>2. Voted(s, h) = v
  BY DEF Voted
<1>3. /\ Sound(c) /\ c.Number = s.Number /\ c.Signers = s.Signers /\ c.Recents = s.Recents
      /\ c.Votes = IF (s.Number + 1) % Epoch = 0 THEN {} ELSE s.Votes
  BY CheckpointStage
<1> HIDE DEF c
<1>4. /\ Sound(f) /\ f.Number = s.Number /\ f.Signers = s.Signers
      /\ f.Recents = ShiftRecents(s.Recents, s.Signers, n) /\ f.Votes = c.Votes
  <2> DEFINE r == ShiftRecents(c.Recents, c.Signers, c.Number + 1)
  <2>1. r \in [DOMAIN r -> Addr]
    BY <1>3 DEF ShiftRecents, Sound, IsSnapshot
  <2>2. f = [c EXCEPT !.Recents = r]
    BY DEF Shifted
  <2>3. r = ShiftRecents(s.Recents, s.Signers, n)
    BY <1>3
  <2> HIDE DEF r, f
  <2> QED BY <1>3, <2>1, <2>2, <2>3, RecentsStage
<1> HIDE DEF f
<1>5. /\ Sound(e) /\ e.Number = s.Number /\ e.Signers = s.Signers
      /\ e.Recents = Recorded(s, h) /\ e.Votes = c.Votes
  <2> DEFINE r == [b \in DOMAIN f.Recents \cup {f.Number + 1} |->
                      IF b = f.Number + 1 THEN h.Signer ELSE f.Recents[b]]
  <2>1. r \in [DOMAIN r -> Addr]
    BY <1>1, <1>4 DEF Sound, IsSnapshot
  <2>2. e = [f EXCEPT !.Recents = r]
    BY DEF RecordSigner
  <2>3. r = Recorded(s, h)
    BY <1>4 DEF Recorded
  <2> HIDE DEF r, e
  <2> QED BY <1>4, <2>1, <2>2, <2>3, RecentsStage
<1> HIDE DEF e
<1>6. /\ Sound(d) /\ d.Number = s.Number /\ d.Signers = s.Signers /\ d.Recents = e.Recents
      /\ d.Votes = {x \in e.Votes : ~(x.Signer = h.Signer /\ x.Address = h.Coinbase)}
  BY <1>5, DiscardStage
<1> HIDE DEF d
<1>7. d.Votes = Standing(s, h)
  BY <1>3, <1>5, <1>6 DEF Standing
<1>8. /\ Sound(v) /\ v.Number = s.Number /\ v.Signers = s.Signers /\ v.Recents = e.Recents
      /\ v.Votes = d.Votes \cup (IF validVote(d.Signers, h.Coinbase, h.Authorize)
                                 THEN {Ballot(d.Number + 1, h)} ELSE {})
  <2>1. h.Signer \in d.Signers /\ \A x \in d.Votes : ~(x.Signer = h.Signer /\ x.Address = h.Coinbase)
    BY <1>6
  <2> QED BY <1>6, <2>1, CastStage DEF Ballot
<1> HIDE DEF v
<1>9. v.Votes = Standing(s, h) \cup Own(s, h)
  BY <1>6, <1>7, <1>8 DEF Own
<1> QED BY <1>2, <1>5, <1>8, <1>9

(* The votes are counted: nothing happens, or a majority admits or drops the header's account. *)
LEMMA PassedStage ==
    ASSUME NEW s, Sound(s), NEW h \in Header
    PROVE  LET t == Passed(s, h)
               a == h.Coinbase
           IN  /\ Sound(t) /\ t.Number = s.Number
               /\ \/ t = s
                  \/ /\ a \notin s.Signers /\ t.Signers = s.Signers \cup {a}
                     /\ 2 * Cardinality(VotesOn(s.Votes, a)) > Cardinality(s.Signers)
                     /\ t.Recents = s.Recents /\ t.Votes = {v \in s.Votes : v.Address # a}
                  \/ /\ a \in s.Signers /\ t.Signers = s.Signers \ {a}
                     /\ 2 * Cardinality(VotesOn(s.Votes, a)) > Cardinality(s.Signers)
                     /\ t.Recents = ShiftRecents(s.Recents, s.Signers \ {a}, s.Number + 1)
                     /\ t.Votes = {v \in s.Votes : v.Signer # a /\ v.Address # a}
<1> DEFINE a == h.Coinbase
           tally == s.Tally[a]
<1>1. a \in Addr
  BY DEF Header
<1>2. Cardinality(s.Signers) \in Nat
  BY <1>1, LimitFacts, Zenon DEF Sound, IsSnapshot
<1>3. /\ tally.Votes \in Nat /\ tally.Votes = Cardinality(VotesOn(s.Votes, a))
      /\ tally.Votes > 0 => tally.Authorize = (a \notin s.Signers)
  BY <1>1 DEF Sound, IsSnapshot, TallyCounts
<1>4. CASE tally.Votes <= Cardinality(s.Signers) \div 2
  BY <1>4 DEF Passed
<1>5. CASE ~(tally.Votes <= Cardinality(s.Signers) \div 2)
  <2>1. tally.Votes > 0 /\ 2 * Cardinality(VotesOn(s.Votes, a)) > Cardinality(s.Signers)
    <3> HIDE DEF tally
    <3> QED BY <1>2, <1>3, <1>5
  <2>2. CASE tally.Authorize
    <3>1. Passed(s, h) = Admit(s, a) /\ a \notin s.Signers
      BY <1>3, <1>5, <2>1, <2>2, Zenon DEF Passed
    <3>2. LET t == Admit(s, a)
          IN  /\ Sound(t) /\ t.Number = s.Number /\ t.Signers = s.Signers \cup {a}
              /\ t.Recents = s.Recents /\ t.Votes = {v \in s.Votes : v.Address # a}
      <4> HIDE DEF a
      <4> QED BY <1>1, AdmitStage
    <3> QED BY <2>1, <3>1, <3>2
  <2>3. CASE ~tally.Authorize
    <3>1. Passed(s, h) = Drop(s, a) /\ a \in s.Signers
      BY <1>3, <1>5, <2>1, <2>3, Zenon DEF Passed
    <3>2. LET t == Drop(s, a)
          IN  /\ Sound(t) /\ t.Number = s.Number /\ t.Signers = s.Signers \ {a}
              /\ t.Recents = ShiftRecents(s.Recents, s.Signers \ {a}, s.Number + 1)
              /\ t.Votes = {v \in s.Votes : v.Signer # a /\ v.Address # a}
      BY <1>1, DropStage, ZenonT(60)
    <3> QED BY <2>1, <3>1, <3>2
  <2> QED BY <2>2, <2>3
<1> QED BY <1>4, <1>5

(* What apply makes of a snapshot, field by field. *)
LEMMA ApplyShape ==
    ASSUME NEW s, Sound(s), NEW h \in Header, ApplyError(s, h) = "nil"
    PROVE  LET q     == apply(s, h)
               a     == h.Coinbase
               voted == Standing(s, h) \cup Own(s, h)
           IN  /\ Sound(q) /\ q.Number = s.Number + 1
               /\ \/ q.Signers = s.Signers /\ q.Recents = Recorded(s, h) /\ q.Votes = voted
                  \/ /\ a \notin s.Signers /\ q.Signers = s.Signers \cup {a}
                     /\ 2 * Cardinality(VotesOn(voted, a)) > Cardinality(s.Signers)
                     /\ q.Recents = Recorded(s, h) /\ q.Votes = {v \in voted : v.Address # a}
                  \/ /\ a \in s.Signers /\ q.Signers = s.Signers \ {a}
                     /\ 2 * Cardinality(VotesOn(voted, a)) > Cardinality(s.Signers)
                     /\ q.Recents = ShiftRecents(Recorded(s, h), s.Signers \ {a}, s.Number + 1)
                     /\ q.Votes = {v \in voted : v.Signer # a /\ v.Address # a}
<1> DEFINE v == Voted(s, h)
           p == Passed(v, h)
           q == apply(s, h)
<1>1. s.Number \in Nat /\ h.Signer \in s.Signers
  BY DEF Sound, IsSnapshot, ApplyError
<1>2. q = [p EXCEPT !.Number = p.Number + 1]
  BY DEF apply, Voted
<1>3. /\ Sound(v) /\ v.Number = s.Number /\ v.Signers = s.Signers
      /\ v.Recents = Recorded(s, h) /\ v.Votes = Standing(s, h) \cup Own(s, h)
  BY <1>1, VotedStage
<1> HIDE DEF v
<1>4. /\ Sound(p) /\ p.Number = v.Number
      /\ \/ p = v
         \/ /\ h.Coinbase \notin v.Signers /\ p.Signers = v.Signers \cup {h.Coinbase}
            /\ 2 * Cardinality(VotesOn(v.Votes, h.Coinbase)) > Cardinality(v.Signers)
            /\ p.Recents = v.Recents /\ p.Votes = {x \in v.Votes : x.Address # h.Coinbase}
         \/ /\ h.Coinbase \in v.Signers /\ p.Signers = v.Signers \ {h.Coinbase}
            /\ 2 * Cardinality(VotesOn(v.Votes, h.Coinbase)) > Cardinality(v.Signers)
            /\ p.Recents = ShiftRecents(v.Recents, v.Signers \ {h.Coinbase}, v.Number + 1)
            /\ p.Votes = {x \in v.Votes : x.Signer # h.Coinbase /\ x.Address # h.Coinbase}
  BY <1>3, PassedStage, Zenon
<1> HIDE DEF p, q
<1>5. q = [Number |-> s.Number + 1, Signers |-> p.Signers, Recents |-> p.Recents,
           Votes |-> p.Votes, Tally |-> p.Tally]
  <2>1. IsSnapshot(p) /\ p.Number = s.Number
    BY <1>3, <1>4 DEF Sound
  <2> QED BY <1>2, <2>1, SnapshotRenumber
<1>6. /\ q.Number = s.Number + 1 /\ q.Signers = p.Signers /\ q.Recents = p.Recents
      /\ q.Votes = p.Votes /\ q.Tally = p.Tally
  BY <1>5
<1>7. IsSnapshot(q)
  BY <1>1, <1>4, <1>5 DEF Sound, IsSnapshot
<1>8. VotesAreValid(q)
  BY <1>4, <1>6 DEF Sound, VotesAreValid
<1>9. TallyCounts(q)
  BY <1>4, <1>6 DEF Sound, TallyCounts
<1>10. Sound(q)
  BY <1>7, <1>8, <1>9 DEF Sound
<1> QED BY <1>3, <1>4, <1>6, <1>10 DEF q

(* apply keeps everything that makes a snapshot good. *)
LEMMA ApplyKeepsGood ==
    ASSUME NEW s, Good(s), NEW h \in Header, ApplyError(s, h) = "nil"
    PROVE  Good(apply(s, h)) /\ apply(s, h).Number = s.Number + 1
<1> DEFINE n == s.Number + 1
           L == Limit(s.Signers)
           q == apply(s, h)
           a == h.Coinbase
           fewer == s.Signers \ {a}
           voted == Standing(s, h) \cup Own(s, h)
<1>1. a \in Addr /\ s.Number \in Nat /\ s.Signers \subseteq Addr
  BY DEF Header, Good, Sound, IsSnapshot
<1>2. /\ L \in Nat /\ L >= 1
      /\ Limit(s.Signers \cup {a}) \in Nat /\ Limit(s.Signers \cup {a}) >= L
      /\ Limit(fewer) \in Nat /\ Limit(fewer) <= L /\ Limit(fewer) >= L - 1
  BY <1>1, LimitFacts, Zenon
<1>3. /\ Sound(q) /\ q.Number = n
      /\ \/ q.Signers = s.Signers /\ q.Recents = Recorded(s, h) /\ q.Votes = voted
         \/ /\ q.Signers = s.Signers \cup {a} /\ q.Recents = Recorded(s, h)
            /\ q.Votes \subseteq voted
         \/ /\ q.Signers = fewer /\ q.Recents = ShiftRecents(Recorded(s, h), fewer, n)
            /\ q.Votes \subseteq voted
  <2>1. Sound(s)
    BY DEF Good
  <2>2. /\ Sound(q) /\ q.Number = n
        /\ \/ q.Signers = s.Signers /\ q.Recents = Recorded(s, h) /\ q.Votes = voted
           \/ /\ q.Signers = s.Signers \cup {a} /\ q.Recents = Recorded(s, h)
              /\ q.Votes = {v \in voted : v.Address # a}
           \/ /\ q.Signers = fewer /\ q.Recents = ShiftRecents(Recorded(s, h), fewer, n)
              /\ q.Votes = {v \in voted : v.Signer # a /\ v.Address # a}
    BY <2>1, ApplyShape, Zenon
  <2> HIDE DEF q, voted, fewer
  <2> QED BY <2>2
<1>4. \A b \in DOMAIN Recorded(s, h) : b \in 1 .. n /\ b > n - L
  <2>1. \A b \in DOMAIN Recorded(s, h) : b = n \/ (b \in DOMAIN s.Recents /\ b # n - L)
    BY DEF Recorded, ShiftRecents
  <2>2. \A b \in DOMAIN s.Recents : b \in 1 .. s.Number /\ b > s.Number - L
    BY DEF Good, BlocksUpTo, RecentsWithin
  <2> HIDE DEF L
  <2> QED BY <1>1, <1>2, <2>1, <2>2
<1>5. \A x \in voted : x.Block \in 1 .. n
  <2>1. \A x \in s.Votes : x.Block \in 1 .. s.Number
    BY DEF Good, BlocksUpTo
  <2>2. \A x \in voted : x \in s.Votes \/ x.Block = n
    BY DEF Standing, Own, Ballot
  <2> HIDE DEF voted
  <2> QED BY <1>1, <2>1, <2>2
<1>6. \A b \in DOMAIN ShiftRecents(Recorded(s, h), fewer, n) :
          b \in DOMAIN Recorded(s, h) /\ b # n - Limit(fewer)
  BY DEF ShiftRecents
<1> HIDE DEF q, L, fewer, voted
<1>7. BlocksUpTo(q, n)
  BY <1>3, <1>4, <1>5, <1>6 DEF BlocksUpTo
<1>8. RecentsWithin(q, n)
  <2>1. CASE q.Recents = Recorded(s, h) /\ Limit(q.Signers) \in Nat /\ Limit(q.Signers) >= L
    BY <1>1, <1>2, <1>4, <2>1 DEF RecentsWithin
  <2>2. CASE q.Signers = fewer /\ q.Recents = ShiftRecents(Recorded(s, h), fewer, n)
    BY <1>1, <1>2, <1>4, <1>6, <2>2 DEF RecentsWithin
  <2>3. L = Limit(s.Signers)
    BY DEF L
  <2>4. L >= L
    BY <1>2
  <2> QED BY <1>2, <1>3, <2>1, <2>2, <2>3, <2>4, Zenon
<1> QED BY <1>3, <1>7, <1>8 DEF Good, q
(* Which blocks stay in Recents when the window moves. *)
LEMMA ShiftDomain ==
    ASSUME NEW recents, NEW signers, NEW block
    PROVE  \A b \in DOMAIN ShiftRecents(recents, signers, block) :
               b \in DOMAIN recents /\ b # block - Limit(signers)
BY DEF ShiftRecents

(* A window holds fewer blocks than there are signers, so one of them is not in it. *)
LEMMA GoodLetsSomeoneSign ==
    ASSUME NEW s, Good(s), s.Signers # {}
    PROVE  \E x \in s.Signers :
               ApplyError(s, [Signer |-> x, Coinbase |-> ZeroAddr, Authorize |-> FALSE]) = "nil"
<1> DEFINE R == Shifted(s).Recents
           L == Limit(s.Signers)
           T == (s.Number + 2 - L) .. s.Number
<1>1. /\ s.Number \in Nat /\ s.Signers \subseteq Addr /\ IsFiniteSet(s.Signers)
      /\ Cardinality(s.Signers) \in Nat /\ L \in Nat /\ L >= 1
  BY LimitFacts, Zenon DEF Good, Sound, IsSnapshot
<1>2. R = ShiftRecents(s.Recents, s.Signers, s.Number + 1)
  <2>1. IsSnapshot(s)
    BY DEF Good, Sound
  <2> QED BY <2>1, SnapshotReshift DEF Shifted
<1>3. DOMAIN R \subseteq T
  <2>1. \A b \in DOMAIN R : b \in DOMAIN s.Recents /\ b # s.Number + 1 - L
    BY <1>1, <1>2, ShiftDomain
  <2>2. \A b \in DOMAIN s.Recents : b \in 1 .. s.Number /\ b > s.Number - L
    BY DEF Good, BlocksUpTo, RecentsWithin
  <2> HIDE DEF R, L
  <2> QED BY <1>1, <2>1, <2>2
<1>4. Cardinality(s.Signers) # 0
  BY <1>1, FS_EmptySet
<1>5. IsFiniteSet(T) /\ Cardinality(T) < Cardinality(s.Signers)
  <2>1. L = (Cardinality(s.Signers) \div 2) + 1
    BY DEF Limit
  <2> HIDE DEF L
  <2>2. IsFiniteSet(T) /\ Cardinality(T) = L - 1
    <3> DEFINE lo == s.Number + 2 - L
    <3>1. lo \in Int /\ s.Number \in Int /\ T = lo .. s.Number
      BY <1>1
    <3> HIDE DEF lo, T
    <3>2. IsFiniteSet(T) /\ Cardinality(T) = IF lo > s.Number THEN 0 ELSE s.Number - lo + 1
      BY <3>1, FS_Interval
    <3> QED BY <1>1, <3>2 DEF lo
  <2> HIDE DEF T
  <2> QED BY <1>1, <1>4, <2>1, <2>2
<1> SUFFICES ASSUME \A x \in s.Signers :
                        ApplyError(s, [Signer |-> x, Coinbase |-> ZeroAddr, Authorize |-> FALSE]) # "nil"
             PROVE  FALSE
  BY Zenon
<1>6. \A x \in s.Signers : \E b \in DOMAIN R : R[b] = x
  <2> SUFFICES ASSUME NEW x \in s.Signers, \A b \in DOMAIN R : R[b] # x
               PROVE  FALSE
    OBVIOUS
  <2> DEFINE h == [Signer |-> x, Coinbase |-> ZeroAddr, Authorize |-> FALSE]
  <2>1. h.Signer = x
    OBVIOUS
  <2>2. ApplyError(s, h) = "nil"
    <3> HIDE DEF h
    <3> QED BY <2>1 DEF ApplyError
  <2> QED BY <2>2
<1> DEFINE g == [x \in s.Signers |-> CHOOSE b \in DOMAIN R : R[b] = x]
<1>7. \A x \in s.Signers : g[x] \in DOMAIN R /\ R[g[x]] = x
  BY <1>6
<1>8. g \in [s.Signers -> T]
  BY <1>3, <1>7, Zenon
<1> HIDE DEF g, T
<1>9. \E x, y \in s.Signers : x # y /\ g[x] = g[y]
  BY <1>1, <1>5, <1>8, FS_PigeonHole
<1> QED BY <1>7, <1>9

-----------------------------------------------------------------------------
(***************************************************************************)
(* The inductive invariant: the type of the state, and a good snapshot at  *)
(* the head of the chain.                                                  *)
(***************************************************************************)
IInv == TypeOK /\ Good(snap)

LEMMA InitIInv == Init => IInv
<1> SUFFICES ASSUME Init PROVE IInv
  OBVIOUS
<1> DEFINE empty == [a \in Addr |-> NoTally]
           none == [b \in {} |-> ZeroAddr]
<1>1. snap = [Number |-> 0, Signers |-> GenesisSigners, Recents |-> none,
              Votes |-> {}, Tally |-> empty]
  BY DEF Init, newSnapshot
<1>2. empty \in [Addr -> [Authorize : BOOLEAN, Votes : Nat]]
  BY DEF NoTally
<1>3. DOMAIN none = {} /\ none \in [DOMAIN none -> Addr]
  OBVIOUS
<1> HIDE DEF none
<1>4. IsSnapshot(snap)
  BY <1>1, <1>2, <1>3, GenesisAssumption, FS_EmptySet DEF IsSnapshot
<1>5. Sound(snap)
  BY <1>1, <1>4, NoVotesSound, Zenon
<1>6. BlocksUpTo(snap, snap.Number) /\ RecentsWithin(snap, snap.Number)
  BY <1>1, <1>3 DEF BlocksUpTo, RecentsWithin
<1>7. TypeOK
  BY <1>1, <1>4, <1>6, MaxNumberAssumption DEF TypeOK, Init
<1> QED BY <1>5, <1>6, <1>7 DEF IInv, Good

LEMMA NextIInv == IInv /\ [Next]_vars => IInv'
<1> SUFFICES ASSUME IInv, [Next]_vars PROVE IInv'
  OBVIOUS
<1>1. ASSUME NEW signer \in Addr, NEW ballot \in Ballots,
             Apply([Signer |-> signer, Coinbase |-> ballot[1], Authorize |-> ballot[2]])
      PROVE  IInv'
  <2> DEFINE h == [Signer |-> signer, Coinbase |-> ballot[1], Authorize |-> ballot[2]]
  <2>1. h \in Header
    BY BallotsAssumption DEF Header
  <2> HIDE DEF h
  <2>2. /\ snap.Number < MaxNumber /\ ApplyError(snap, h) = "nil" /\ snap' = apply(snap, h)
        /\ chain' = Append(chain, h) /\ history' = Append(history, snap.Signers)
    BY <1>1 DEF Apply, h
  <2>3. Good(snap') /\ snap'.Number = snap.Number + 1
    BY <2>1, <2>2, ApplyKeepsGood DEF IInv
  <2>4. snap.Number \in Nat /\ snap.Signers \subseteq Addr
    BY DEF IInv, TypeOK, IsSnapshot
  <2>5. chain' \in Seq(Header) /\ Len(chain') = snap'.Number
    BY <2>1, <2>2, <2>3, <2>4 DEF IInv, TypeOK
  <2>6. history' \in Seq(SUBSET Addr) /\ Len(history') = snap'.Number
    BY <2>2, <2>3, <2>4 DEF IInv, TypeOK
  <2>7. snap'.Number <= MaxNumber
    BY <2>2, <2>3, <2>4, MaxNumberAssumption
  <2>8. IsSnapshot(snap') /\ BlocksUpTo(snap', snap'.Number)
    BY <2>3 DEF Good, Sound
  <2>9. TypeOK'
    BY <2>5, <2>6, <2>7, <2>8 DEF TypeOK, IsSnapshot, BlocksUpTo
  <2>10. Good(snap)'
    BY <2>3, Zenon DEF Good, Sound, IsSnapshot, VotesAreValid, TallyCounts, BlocksUpTo, RecentsWithin, VotesOn, validVote, Limit
  <2> QED BY <2>9, <2>10 DEF IInv
<1>2. CASE UNCHANGED vars
  BY <1>2 DEF vars, IInv, TypeOK, Good, Sound, IsSnapshot, VotesAreValid, TallyCounts, BlocksUpTo, RecentsWithin
<1> QED BY <1>1, <1>2, Zenon DEF Next

LEMMA AlwaysIInv == Spec => []IInv
<1> QED BY InitIInv, NextIInv, PTL DEF Spec

(***************************************************************************)
(* Type correctness of the voting state machine: Snapshot.apply keeps the  *)
(* types of the snapshot, and Recents and Votes only name blocks that are  *)
(* on the chain.                                                           *)
(***************************************************************************)
THEOREM TypeCorrect == Spec => []TypeOK
<1>1. IInv => TypeOK
  BY DEF IInv
<1> QED BY <1>1, AlwaysIInv, PTL

(***************************************************************************)
(* Snapshot.apply keeps at most one vote of a signer on an account, and    *)
(* only votes of signers still authorized.                                 *)
(***************************************************************************)
THEOREM VotesStayWellFormed == Spec => []VotesWellFormed
<1>1. IInv => VotesWellFormed
  BY DEF IInv, Good, Sound, VotesWellFormed
<1> QED BY <1>1, AlwaysIInv, PTL

(***************************************************************************)
(* The cached tally is always the count of the votes in the list.          *)
(***************************************************************************)
THEOREM TallyStaysExact == Spec => []TallyCountsVotes
<1>1. IInv => TallyCountsVotes
  BY DEF IInv, Good, Sound, TallyCountsVotes
<1> QED BY <1>1, AlwaysIInv, PTL

(***************************************************************************)
(* Recents stays inside the window of the signers in force, also when a    *)
(* dropped signer shrinks it.                                              *)
(***************************************************************************)
THEOREM RecentsStayInWindow == Spec => []RecentsInWindow
<1>1. IInv => RecentsInWindow
  BY DEF IInv, Good, RecentsInWindow
<1> QED BY <1>1, AlwaysIInv, PTL

(***************************************************************************)
(* As long as a signer is left, some signer may sign the next block: the   *)
(* spacing rule of errRecentlySigned never stops the chain.                *)
(***************************************************************************)
THEOREM ChainCanGrow == Spec => []SomeoneMaySign
<1>1. IInv => SomeoneMaySign
  BY GoodLetsSomeoneSign DEF IInv, SomeoneMaySign
<1> QED BY <1>1, AlwaysIInv, PTL

(***************************************************************************)
(* Votes, Tally and Recents of a snapshot agree with its signers after     *)
(* every header that apply accepts, for every set of accounts and epoch.   *)
(***************************************************************************)
THEOREM SnapshotStaysConsistent == Spec => []SnapshotConsistent
<1>1. VotesWellFormed /\ TallyCountsVotes /\ RecentsInWindow => SnapshotConsistent
  BY DEF SnapshotConsistent
<1> QED BY <1>1, VotesStayWellFormed, TallyStaysExact, RecentsStayInWindow, PTL

-------------------------------------------------------------------------------
(* What the snapshot says about the chain it was carried over: the spacing   *)
(* of the signers, the recount of the votes from the headers, and the         *)
(* majority behind every change of the signers.                               *)

(* Every number of blocks has a window, and windows are at least one block. *)
LEMMA LimitType ==
    ASSUME NEW S, S \subseteq Addr
    PROVE  Limit(S) \in Nat /\ Limit(S) >= 1
<1>1. ZeroAddr \in Addr
  BY AddrAssumption DEF ZeroAddr
<1> QED BY <1>1, LimitFacts, Zenon

(* apply keeps the entries of Recents but those two windows end at, and adds the signer. *)
LEMMA ApplyRecents ==
    ASSUME NEW s, Good(s), NEW h \in Header, ApplyError(s, h) = "nil"
    PROVE  LET q == apply(s, h)
               n == s.Number + 1
           IN  /\ n \in DOMAIN q.Recents /\ q.Recents[n] = h.Signer
               /\ \A i \in DOMAIN s.Recents :
                      \/ i \in DOMAIN q.Recents /\ q.Recents[i] = s.Recents[i]
                      \/ n - i = Limit(s.Signers)
                      \/ n - i = Limit(q.Signers)
<1> DEFINE q == apply(s, h)
           n == s.Number + 1
           r == Recorded(s, h)
<1>1. Sound(s) /\ s.Number \in Nat /\ s.Signers \subseteq Addr
  BY DEF Good, Sound, IsSnapshot
<1>2. /\ Sound(q)
      /\ q.Recents = r \/ q.Recents = ShiftRecents(r, q.Signers, n)
  BY <1>1, ApplyShape, Zenon
<1>3. Limit(s.Signers) \in Nat /\ Limit(q.Signers) \in Nat /\ Limit(q.Signers) >= 1
  BY <1>1, <1>2, LimitType DEF Sound, IsSnapshot
<1>4. DOMAIN s.Recents \subseteq 1 .. s.Number
  BY DEF Good, BlocksUpTo
<1>5. /\ n \in DOMAIN r /\ r[n] = h.Signer
      /\ \A i \in DOMAIN s.Recents :
             i # n /\ i # n - Limit(s.Signers) => i \in DOMAIN r /\ r[i] = s.Recents[i]
  BY DEF Recorded, ShiftRecents
<1>6. \A i \in DOMAIN r : i # n - Limit(q.Signers) => i \in DOMAIN q.Recents /\ q.Recents[i] = r[i]
  <2>1. \A i \in DOMAIN r : i # n - Limit(q.Signers) =>
            /\ i \in DOMAIN ShiftRecents(r, q.Signers, n)
            /\ ShiftRecents(r, q.Signers, n)[i] = r[i]
    BY DEF ShiftRecents
  <2> HIDE DEF r, q
  <2> QED BY <1>2, <2>1
<1> HIDE DEF q, r
<1>7. n # n - Limit(q.Signers)
  BY <1>1, <1>3
<1>8. \A i \in DOMAIN s.Recents :
          /\ i \in Nat /\ i # n
          /\ i = n - Limit(s.Signers) => n - i = Limit(s.Signers)
          /\ i = n - Limit(q.Signers) => n - i = Limit(q.Signers)
  BY <1>1, <1>3, <1>4
<1>9. n \in DOMAIN q.Recents /\ q.Recents[n] = h.Signer
  BY <1>5, <1>6, <1>7
<1>10. ASSUME NEW i \in DOMAIN s.Recents, n - i # Limit(s.Signers), n - i # Limit(q.Signers)
       PROVE  i \in DOMAIN q.Recents /\ q.Recents[i] = s.Recents[i]
  <2> HIDE DEF n
  <2> QED BY <1>5, <1>6, <1>8, <1>10
<1> QED BY <1>9, <1>10 DEF q

(* The votes that survive apply: those of signers, on accounts that keep their status. *)
LEMMA ApplyVotes ==
    ASSUME NEW s, Sound(s), NEW h \in Header, ApplyError(s, h) = "nil"
    PROVE  LET q == apply(s, h)
           IN  q.Votes = {v \in Standing(s, h) \cup Own(s, h) :
                             /\ v.Signer \in q.Signers
                             /\ (v.Address \in q.Signers) = (v.Address \in s.Signers)}
<1> DEFINE q == apply(s, h)
           a == h.Coinbase
           voted == Standing(s, h) \cup Own(s, h)
<1>1. \/ q.Signers = s.Signers /\ q.Votes = voted
      \/ /\ a \notin s.Signers /\ q.Signers = s.Signers \cup {a}
         /\ q.Votes = {v \in voted : v.Address # a}
      \/ /\ a \in s.Signers /\ q.Signers = s.Signers \ {a}
         /\ q.Votes = {v \in voted : v.Signer # a /\ v.Address # a}
  BY ApplyShape, ZenonT(60)
<1>2. \A v \in voted : v.Signer \in s.Signers
  <2>1. \A v \in Standing(s, h) : v.Signer \in s.Signers
    BY DEF Standing, Sound, VotesAreValid
  <2>2. \A v \in Own(s, h) : v.Signer = h.Signer
    BY DEF Own, Ballot
  <2>3. h.Signer \in s.Signers
    BY DEF ApplyError
  <2> QED BY <2>1, <2>2, <2>3
<1> HIDE DEF q, voted, a
<1>3. q.Votes = {v \in voted : v.Signer \in q.Signers
                                /\ (v.Address \in q.Signers) = (v.Address \in s.Signers)}
  BY <1>1, <1>2
<1> QED BY <1>3 DEF q, voted

-----------------------------------------------------------------------------
(* What one block adds to the chain and to the history of the signers. *)
LEMMA ChainGrows ==
    ASSUME IInv, NEW h \in Header, Apply(h)
    PROVE  /\ Len(chain) = snap.Number /\ Len(chain) \in Nat
           /\ Len(chain') = Len(chain) + 1 /\ chain'[Len(chain) + 1] = h
           /\ \A i \in 1 .. Len(chain) : chain'[i] = chain[i] /\ chain[i] \in Header
           /\ SignersInForce(Len(chain) + 1) = snap.Signers
           /\ \A k \in 1 .. Len(chain) + 1 : SignersInForce(k)' = SignersInForce(k)
           /\ \A k \in Nat : k > Len(chain) + 1 => SignersInForce(k)' = snap'.Signers
           /\ snap' = apply(snap, h) /\ ApplyError(snap, h) = "nil" /\ Good(snap)
<1>1. /\ chain \in Seq(Header) /\ Len(chain) = snap.Number /\ snap.Number \in Nat
      /\ history \in Seq(SUBSET Addr) /\ Len(history) = snap.Number /\ snap.Signers \subseteq Addr
  BY DEF IInv, TypeOK, IsSnapshot
<1>2. /\ chain' = Append(chain, h) /\ history' = Append(history, snap.Signers)
      /\ snap' = apply(snap, h) /\ ApplyError(snap, h) = "nil"
  BY DEF Apply
<1>3. /\ Len(chain') = Len(chain) + 1 /\ chain'[Len(chain) + 1] = h
      /\ \A i \in 1 .. Len(chain) : chain'[i] = chain[i] /\ chain[i] \in Header
  BY <1>1, <1>2
<1>4. /\ Len(history') = Len(history) + 1 /\ history'[Len(history) + 1] = snap.Signers
      /\ \A i \in 1 .. Len(history) : history'[i] = history[i]
  BY <1>1, <1>2
<1>5. SignersInForce(Len(chain) + 1) = snap.Signers
  BY <1>1 DEF SignersInForce
<1>6. \A k \in 1 .. Len(chain) + 1 : SignersInForce(k)' = SignersInForce(k)
  BY <1>1, <1>4 DEF SignersInForce
<1>7. \A k \in Nat : k > Len(chain) + 1 => SignersInForce(k)' = snap'.Signers
  BY <1>1, <1>4 DEF SignersInForce
<1> QED BY <1>1, <1>2, <1>3, <1>5, <1>6, <1>7 DEF IInv

(* A header the chain may grow by. *)
LEMMA NextApplies ==
    ASSUME Next
    PROVE  \E h \in Header : Apply(h)
<1>1. PICK signer \in Addr, ballot \in Ballots :
          Apply([Signer |-> signer, Coinbase |-> ballot[1], Authorize |-> ballot[2]])
  BY Zenon DEF Next
<1>2. [Signer |-> signer, Coinbase |-> ballot[1], Authorize |-> ballot[2]] \in Header
  BY BallotsAssumption DEF Header
<1> QED BY <1>1, <1>2

-----------------------------------------------------------------------------
(***************************************************************************)
(* Spacing.  A block is in Recents, with its signer, until a window that   *)
(* was in force at or after the next block has passed over it.             *)
(***************************************************************************)
RecentsExact ==
    \A i \in 1 .. Len(chain) :
        \/ i \in DOMAIN snap.Recents /\ snap.Recents[i] = chain[i].Signer
        \/ \E k \in i + 1 .. Len(chain) + 1 : Len(chain) - i >= Limit(SignersInForce(k))

LEMMA RecentsExactStep ==
    ASSUME IInv, RecentsExact, NEW h \in Header, Apply(h)
    PROVE  RecentsExact'
<1> DEFINE q == snap'
<1>0. PICK n \in Nat : n = Len(chain) + 1
  BY ChainGrows
<1>1. /\ n = Len(chain) + 1 /\ n = snap.Number + 1 /\ n \in Nat /\ n >= 1 /\ Len(chain') = n /\ chain'[n] = h
      /\ \A i \in 1 .. Len(chain) : chain'[i] = chain[i]
      /\ SignersInForce(n)' = snap.Signers
      /\ \A k \in 1 .. n : SignersInForce(k)' = SignersInForce(k)
      /\ SignersInForce(n + 1)' = q.Signers
  BY <1>0, ChainGrows
<1>2. Good(snap) /\ ApplyError(snap, h) = "nil" /\ q = apply(snap, h)
  BY ChainGrows
<1>3. /\ n \in DOMAIN q.Recents /\ q.Recents[n] = h.Signer
      /\ \A i \in DOMAIN snap.Recents :
             \/ i \in DOMAIN q.Recents /\ q.Recents[i] = snap.Recents[i]
             \/ n - i = Limit(snap.Signers)
             \/ n - i = Limit(q.Signers)
  BY <1>1, <1>2, ApplyRecents
<1>4. snap.Signers \subseteq Addr /\ q.Signers \subseteq Addr
  BY <1>2, ApplyKeepsGood DEF Good, Sound, IsSnapshot
<1>5. Limit(snap.Signers) \in Nat /\ Limit(q.Signers) \in Nat
  BY <1>4, LimitType
<1> SUFFICES ASSUME NEW i \in 1 .. n
             PROVE  \/ i \in DOMAIN q.Recents /\ q.Recents[i] = chain'[i].Signer
                    \/ \E k \in i + 1 .. n + 1 : n - i >= Limit(SignersInForce(k)')
  BY <1>1 DEF RecentsExact, Limit
<1>6. CASE i = n
  BY <1>1, <1>3, <1>6
<1>7. CASE i # n
  <2>1. i \in 1 .. Len(chain) /\ chain'[i] = chain[i] /\ n - i \in Nat
    BY <1>1, <1>7
  <2>2. CASE i \in DOMAIN snap.Recents /\ snap.Recents[i] = chain[i].Signer
    <3>1. CASE n - i = Limit(snap.Signers)
      <4>1. n \in i + 1 .. n + 1 /\ n - i >= Limit(SignersInForce(n)')
        BY <1>1, <1>5, <2>1, <3>1
      <4> QED BY <4>1
    <3>2. CASE n - i = Limit(q.Signers)
      <4>1. n + 1 \in i + 1 .. n + 1 /\ n - i >= Limit(SignersInForce(n + 1)')
        BY <1>1, <1>5, <2>1, <3>2
      <4> QED BY <4>1
    <3> QED BY <1>3, <2>1, <2>2, <3>1, <3>2
  <2>3. CASE \E k \in i + 1 .. n : Len(chain) - i >= Limit(SignersInForce(k))
    <3>1. PICK k \in i + 1 .. n : Len(chain) - i >= Limit(SignersInForce(k))
      BY <2>3
    <3>2. SignersInForce(k)' = SignersInForce(k) /\ k \in i + 1 .. n + 1
      BY <1>1, <2>1
    <3>3. Limit(SignersInForce(k)) \in Nat
      <4>1. SignersInForce(k) \subseteq Addr
        BY <1>4, <2>1 DEF SignersInForce, IInv, TypeOK
      <4> QED BY <4>1, LimitType
    <3>4. n - i >= Limit(SignersInForce(k)')
      BY <1>1, <2>1, <3>1, <3>2, <3>3
    <3> QED BY <3>2, <3>4
  <2> QED BY <1>0, <2>1, <2>2, <2>3 DEF RecentsExact
<1> QED BY <1>6, <1>7

(* errRecentlySigned keeps the blocks of a signer apart. *)
LEMMA SpacedStep ==
    ASSUME IInv, RecentsExact, SigningIsSpaced, NEW h \in Header, Apply(h)
    PROVE  SigningIsSpaced'
<1>0. PICK n \in Nat : n = Len(chain) + 1
  BY ChainGrows
<1>1. /\ n = Len(chain) + 1 /\ n = snap.Number + 1 /\ n \in Nat /\ n >= 1 /\ Len(chain') = n /\ chain'[n] = h
      /\ \A i \in 1 .. Len(chain) : chain'[i] = chain[i]
      /\ SignersInForce(n) = snap.Signers
      /\ \A k \in 1 .. n : SignersInForce(k)' = SignersInForce(k)
      /\ IsSnapshot(snap) /\ ApplyError(snap, h) = "nil"
  BY <1>0, ChainGrows DEF Good, Sound
<1>2. Limit(snap.Signers) \in Nat
  BY <1>1, LimitType DEF IsSnapshot
<1> SUFFICES ASSUME NEW i \in 1 .. n, NEW j \in 1 .. n, i < j,
                    chain'[i].Signer = chain'[j].Signer
             PROVE  \E k \in i + 1 .. j : j - i >= Limit(SignersInForce(k)')
  BY <1>1 DEF SigningIsSpaced, Limit
<1>3. i \in 1 .. Len(chain) /\ chain'[i] = chain[i]
  BY <1>1
<1>4. CASE j # n
  <2>1. j \in 1 .. Len(chain) /\ chain'[j] = chain[j]
    BY <1>1, <1>4
  <2>2. PICK k \in i + 1 .. j : j - i >= Limit(SignersInForce(k))
    BY <1>3, <2>1 DEF SigningIsSpaced
  <2>3. SignersInForce(k)' = SignersInForce(k)
    BY <1>1, <1>3, <2>1
  <2> QED BY <2>2, <2>3
<1>5. CASE j = n
  <2>1. chain[i].Signer = h.Signer
    BY <1>1, <1>3, <1>5
  <2>2. CASE i \in DOMAIN snap.Recents /\ snap.Recents[i] = h.Signer
    <3> DEFINE r == ShiftRecents(snap.Recents, snap.Signers, n)
    <3>1. Shifted(snap).Recents = r
      BY <1>1, SnapshotReshift DEF Shifted
    <3>2. ~(i \in DOMAIN r /\ r[i] = h.Signer)
      BY <1>1, <3>1, Zenon DEF ApplyError
    <3>3. i = n - Limit(snap.Signers)
      BY <2>2, <3>2 DEF ShiftRecents
    <3>4. n \in i + 1 .. j /\ j - i >= Limit(SignersInForce(n)')
      BY <1>1, <1>2, <1>3, <1>5, <3>3
    <3> QED BY <3>4
  <2>3. CASE \E k \in i + 1 .. n : Len(chain) - i >= Limit(SignersInForce(k))
    <3>1. PICK k \in i + 1 .. n : Len(chain) - i >= Limit(SignersInForce(k))
      BY <2>3
    <3>2. SignersInForce(k)' = SignersInForce(k) /\ k \in i + 1 .. j
      BY <1>1, <1>3, <1>5
    <3>3. Limit(SignersInForce(k)) \in Nat
      <4>1. SignersInForce(k) \subseteq Addr
        BY <1>1, <1>3 DEF SignersInForce, IInv, TypeOK, IsSnapshot
      <4> QED BY <4>1, LimitType
    <3>4. j - i >= Limit(SignersInForce(k)')
      BY <1>1, <1>3, <1>5, <3>1, <3>2, <3>3, SMTT(30)
    <3> QED BY <3>2, <3>4
  <2> QED BY <1>0, <1>3, <2>1, <2>2, <2>3 DEF RecentsExact
<1> QED BY <1>4, <1>5

-----------------------------------------------------------------------------
(***************************************************************************)
(* The recount.  The votes of the snapshot are the ballots of the headers  *)
(* that still speak.                                                       *)
(***************************************************************************)
VotesExact ==
    /\ \A v \in snap.Votes :
           /\ v.Block \in 1 .. Len(chain) /\ v = Ballot(v.Block, chain[v.Block])
           /\ Speaks(v.Block, v.Address)
    /\ \A n \in 1 .. Len(chain), a \in Addr :
           Speaks(n, a) => Ballot(n, chain[n]) \in snap.Votes

(* What a block does to the headers that speak. *)
LEMMA SpeaksStep ==
    ASSUME IInv, NEW h \in Header, Apply(h), NEW n \in Nat, n = Len(chain) + 1, NEW a \in Addr
    PROVE  /\ \A m \in 1 .. Len(chain) :
                  Speaks(m, a)' <=>
                      /\ Speaks(m, a)
                      /\ n % Epoch # 0
                      /\ ~(h.Signer = chain[m].Signer /\ h.Coinbase = a)
                      /\ chain[m].Signer \in snap'.Signers
                      /\ (a \in snap'.Signers) = (a \in snap.Signers)
           /\ Speaks(n, a)' <=>
                  /\ h.Coinbase = a
                  /\ validVote(snap.Signers, a, h.Authorize)
                  /\ h.Signer \in snap'.Signers
                  /\ (a \in snap'.Signers) = (a \in snap.Signers)
<1>1. /\ Len(chain) \in Nat /\ Len(chain') = n /\ chain'[n] = h
      /\ \A i \in 1 .. Len(chain) : chain'[i] = chain[i]
      /\ SignersInForce(n)' = snap.Signers /\ SignersInForce(n) = snap.Signers
      /\ \A k \in 1 .. n : SignersInForce(k)' = SignersInForce(k)
      /\ SignersInForce(n + 1)' = snap'.Signers
  BY ChainGrows, SMTT(30)
<1>2. ASSUME NEW m \in 1 .. Len(chain)
      PROVE  Speaks(m, a)' <=>
                 /\ Speaks(m, a)
                 /\ n % Epoch # 0
                 /\ ~(h.Signer = chain[m].Signer /\ h.Coinbase = a)
                 /\ chain[m].Signer \in snap'.Signers
                 /\ (a \in snap'.Signers) = (a \in snap.Signers)
  <2> DEFINE V == validVote(SignersInForce(m), a, chain[m].Authorize)
             F(k) == k % Epoch # 0 /\ ~(chain[k].Signer = chain[m].Signer /\ chain[k].Coinbase = a)
             G(k) == chain[m].Signer \in SignersInForce(k)
                     /\ (a \in SignersInForce(k)) = (a \in SignersInForce(m))
  <2>1. Speaks(m, a) <=> /\ chain[m].Coinbase = a /\ V
                         /\ \A k \in m + 1 .. Len(chain) : F(k)
                         /\ \A k \in m + 1 .. n : G(k)
    BY DEF Speaks
  <2>2. Speaks(m, a)' <=> /\ chain[m].Coinbase = a /\ V
                          /\ \A k \in m + 1 .. n : F(k)'
                          /\ \A k \in m + 1 .. n + 1 : G(k)'
    BY <1>1 DEF Speaks, validVote
  <2>3. \A k \in m + 1 .. Len(chain) : F(k)' <=> F(k)
    BY <1>1
  <2>4. F(n)' <=> n % Epoch # 0 /\ ~(h.Signer = chain[m].Signer /\ h.Coinbase = a)
    BY <1>1
  <2>5. \A k \in m + 1 .. n : G(k)' <=> G(k)
    BY <1>1
  <2>6. G(n + 1)' <=> chain[m].Signer \in snap'.Signers
                      /\ (a \in snap'.Signers) = (a \in SignersInForce(m))
    BY <1>1
  <2>7. G(n) => (a \in snap.Signers) = (a \in SignersInForce(m))
    BY <1>1
  <2>8. /\ n \in m + 1 .. n
        /\ \A k : k \in m + 1 .. n <=> (k \in m + 1 .. Len(chain) \/ k = n)
        /\ \A k : k \in m + 1 .. n + 1 <=> (k \in m + 1 .. n \/ k = n + 1)
    BY <1>1
  <2> HIDE DEF V, F, G
  <2> QED BY <2>1, <2>2, <2>3, <2>4, <2>5, <2>6, <2>7, <2>8, Zenon
<1>3. Speaks(n, a)' <=> /\ h.Coinbase = a
                        /\ validVote(snap.Signers, a, h.Authorize)
                        /\ h.Signer \in snap'.Signers
                        /\ (a \in snap'.Signers) = (a \in snap.Signers)
  <2>1. (\A k : k \notin n + 1 .. n) /\ \A k : k \in n + 1 .. n + 1 <=> k = n + 1
    OBVIOUS
  <2> QED BY <1>1, <2>1 DEF Speaks, validVote
<1> QED BY <1>2, <1>3

LEMMA VotesExactStep ==
    ASSUME IInv, VotesExact, NEW h \in Header, Apply(h)
    PROVE  VotesExact'
<1> DEFINE q == snap'
<1>1. PICK n \in Nat : n = Len(chain) + 1
  BY ChainGrows
<1>2. /\ Len(chain) \in Nat /\ n = snap.Number + 1 /\ Len(chain') = n /\ chain'[n] = h
      /\ \A i \in 1 .. Len(chain) : chain'[i] = chain[i] /\ chain[i] \in Header
      /\ q = apply(snap, h) /\ ApplyError(snap, h) = "nil" /\ Sound(snap)
  BY <1>1, ChainGrows DEF Good
<1>3. q.Votes = {v \in Standing(snap, h) \cup Own(snap, h) :
                    /\ v.Signer \in q.Signers
                    /\ (v.Address \in q.Signers) = (v.Address \in snap.Signers)}
  BY <1>2, ApplyVotes
<1>4. h.Coinbase \in Addr
  BY DEF Header
<1>5. ASSUME NEW v \in q.Votes
      PROVE  v.Block \in 1 .. n /\ v = Ballot(v.Block, chain'[v.Block]) /\ Speaks(v.Block, v.Address)'
  <2>1. v.Signer \in q.Signers /\ (v.Address \in q.Signers) = (v.Address \in snap.Signers)
    BY <1>3, Zenon
  <2>2. CASE v \in Standing(snap, h)
    <3>1. v \in snap.Votes /\ n % Epoch # 0 /\ ~(v.Signer = h.Signer /\ v.Address = h.Coinbase)
      BY <1>2, <2>2 DEF Standing
    <3>2. PICK m \in 1 .. Len(chain) : m = v.Block /\ v = Ballot(m, chain[m]) /\ Speaks(m, v.Address)
      BY <3>1 DEF VotesExact
    <3>3. v.Signer = chain[m].Signer /\ v.Address = chain[m].Coinbase /\ v.Address \in Addr
      <4>1. v.Signer = chain[m].Signer /\ v.Address = chain[m].Coinbase
        BY <3>2 DEF Ballot
      <4>2. chain[m] \in Header
        BY <1>2
      <4>3. chain[m].Coinbase \in Addr
        BY <4>2 DEF Header
      <4> QED BY <4>1, <4>3
    <3>4. Speaks(m, v.Address)'
      <4>1. PICK a \in Addr : a = v.Address
        BY <3>3
      <4>2. Speaks(m, a)' <=> /\ Speaks(m, a)
                              /\ n % Epoch # 0
                              /\ ~(h.Signer = chain[m].Signer /\ h.Coinbase = a)
                              /\ chain[m].Signer \in q.Signers
                              /\ (a \in q.Signers) = (a \in snap.Signers)
        BY <1>1, SpeaksStep, SMTT(30)
      <4>3. Speaks(m, a)'
        BY <2>1, <3>1, <3>2, <3>3, <4>1, <4>2, Zenon
      <4> QED BY <4>1, <4>3
    <3> QED BY <1>1, <1>2, <3>2, <3>4, SMTT(30)
  <2>3. CASE v \in Own(snap, h)
    <3>1. v = Ballot(n, h) /\ validVote(snap.Signers, h.Coinbase, h.Authorize)
      BY <1>2, <2>3 DEF Own
    <3>2. v.Signer = h.Signer /\ v.Address = h.Coinbase /\ v.Block = n
      BY <3>1, Zenon DEF Ballot
    <3>3. Speaks(n, v.Address)'
      BY <1>1, <1>4, <2>1, <3>1, <3>2, SpeaksStep, Zenon
    <3> QED BY <1>1, <1>2, <3>1, <3>2, <3>3
  <2> QED BY <1>3, <2>2, <2>3
<1>6. ASSUME NEW m \in 1 .. n, NEW a \in Addr, Speaks(m, a)'
      PROVE  Ballot(m, chain'[m]) \in q.Votes
  <2>1. CASE m = n
    <3>1. /\ h.Coinbase = a /\ validVote(snap.Signers, a, h.Authorize)
          /\ h.Signer \in q.Signers /\ (a \in q.Signers) = (a \in snap.Signers)
      BY <1>1, <1>6, <2>1, SpeaksStep
    <3>2. Ballot(n, h) \in Own(snap, h)
      BY <1>2, <3>1 DEF Own
    <3>3. Ballot(n, h).Signer = h.Signer /\ Ballot(n, h).Address = a
      BY <3>1 DEF Ballot
    <3> QED BY <1>2, <1>3, <2>1, <3>1, <3>2, <3>3, Zenon
  <2>2. CASE m # n
    <3>1. m \in 1 .. Len(chain) /\ chain'[m] = chain[m]
      BY <1>1, <1>2, <2>2
    <3>2. /\ Speaks(m, a) /\ n % Epoch # 0
          /\ ~(h.Signer = chain[m].Signer /\ h.Coinbase = a)
          /\ chain[m].Signer \in q.Signers /\ (a \in q.Signers) = (a \in snap.Signers)
      BY <1>1, <1>6, <3>1, SpeaksStep
    <3>3. chain[m].Coinbase = a
      BY <3>2 DEF Speaks
    <3> DEFINE v == Ballot(m, chain[m])
    <3>4. v \in snap.Votes
      BY <3>1, <3>2, Zenon DEF VotesExact
    <3>5. v.Signer = chain[m].Signer /\ v.Address = a
      BY <3>3 DEF Ballot
    <3>6. v \in Standing(snap, h)
      BY <1>2, <3>2, <3>4, <3>5 DEF Standing
    <3> HIDE DEF v
    <3>7. v \in q.Votes
      BY <1>3, <3>2, <3>5, <3>6
    <3> QED BY <3>1, <3>7 DEF v
  <2> QED BY <2>1, <2>2, Zenon
<1> QED BY <1>2, <1>5, <1>6 DEF VotesExact, Ballot

(* A set that another is indexed by, one to one, has as many elements. *)
LEMMA SameSize ==
    ASSUME NEW S, NEW T, IsFiniteSet(S), NEW f \in [S -> T],
           \A x, y \in S : f[x] = f[y] => x = y,
           \A t \in T : \E x \in S : f[x] = t
    PROVE  IsFiniteSet(T) /\ Cardinality(T) = Cardinality(S)
<1>1. ExistsBijection(S, T)
  BY DEF ExistsBijection, Bijection, Injection, Surjection, IsInjective
<1> QED BY <1>1, FS_Bijection

LEMMA RecountFromVotes ==
    ASSUME IInv, VotesExact
    PROVE  TallyIsRecount
<1> SUFFICES ASSUME NEW a \in Addr
             PROVE  snap.Tally[a].Votes = Cardinality(Recount(a))
  BY DEF TallyIsRecount
<1> DEFINE S == Recount(a)
           T == VotesOn(snap.Votes, a)
           f == [n \in S |-> Ballot(n, chain[n])]
<1>1. Len(chain) \in Nat /\ snap.Tally[a].Votes = Cardinality(T)
  BY DEF IInv, TypeOK, IsSnapshot, Good, Sound, TallyCounts
<1>2. IsFiniteSet(S)
  <2>1. S \subseteq 1 .. Len(chain) /\ IsFiniteSet(1 .. Len(chain))
    BY <1>1, FS_Interval DEF Recount
  <2> QED BY <2>1, FS_Subset
<1>3. \A n \in S : f[n] \in T
  <2> SUFFICES ASSUME NEW n \in S PROVE Ballot(n, chain[n]) \in T
    OBVIOUS
  <2>1. n \in 1 .. Len(chain) /\ Speaks(n, a)
    BY DEF Recount
  <2>2. Ballot(n, chain[n]) \in snap.Votes
    BY <2>1 DEF VotesExact
  <2>3. Ballot(n, chain[n]).Address = a
    BY <2>1 DEF Speaks, Ballot
  <2> QED BY <2>2, <2>3 DEF VotesOn
<1>4. f \in [S -> T]
  BY <1>3
<1>5. \A x, y \in S : f[x] = f[y] => x = y
  <2>1. \A x \in S : f[x].Block = x
    BY DEF Ballot
  <2> QED BY <2>1
<1>6. \A t \in T : \E x \in S : f[x] = t
  <2> SUFFICES ASSUME NEW t \in T PROVE \E x \in S : f[x] = t
    OBVIOUS
  <2>1. t \in snap.Votes /\ t.Address = a
    BY DEF VotesOn
  <2>2. t.Block \in 1 .. Len(chain) /\ t = Ballot(t.Block, chain[t.Block]) /\ Speaks(t.Block, a)
    BY <2>1 DEF VotesExact
  <2>3. t.Block \in S
    BY <2>2 DEF Recount
  <2> QED BY <2>2, <2>3
<1> HIDE DEF f, S, T
<1>7. Cardinality(T) = Cardinality(S)
  BY <1>2, <1>4, <1>5, <1>6, SameSize
<1> QED BY <1>1, <1>7 DEF S

-----------------------------------------------------------------------------
(***************************************************************************)
(* The inductive invariant about the chain: it adds to the one about the   *)
(* snapshot how Recents and Votes follow from the headers.                 *)
(***************************************************************************)
HInv == IInv /\ RecentsExact /\ SigningIsSpaced /\ VotesExact

LEMMA InitHInv == Init => HInv
<1> SUFFICES ASSUME Init PROVE HInv
  OBVIOUS
<1>1. chain = <<>> /\ Len(chain) = 0 /\ snap.Votes = {}
  BY DEF Init, newSnapshot
<1>2. \A i : i \notin 1 .. Len(chain)
  BY <1>1
<1> QED BY <1>1, <1>2, InitIInv DEF HInv, RecentsExact, SigningIsSpaced, VotesExact

LEMMA NextHInv == HInv /\ [Next]_vars => HInv'
<1> SUFFICES ASSUME HInv, [Next]_vars PROVE HInv'
  OBVIOUS
<1>1. IInv'
  BY NextIInv DEF HInv
<1>2. CASE Next
  <2>1. PICK h \in Header : Apply(h)
    BY <1>2, NextApplies
  <2> QED BY <1>1, <2>1, RecentsExactStep, SpacedStep, VotesExactStep DEF HInv
<1>3. CASE UNCHANGED vars
  <2>1. snap' = snap /\ chain' = chain /\ history' = history
    BY <1>3 DEF vars
  <2>2. \A k : SignersInForce(k)' = SignersInForce(k)
    BY <2>1 DEF SignersInForce
  <2>3. \A n, a : Speaks(n, a)' = Speaks(n, a)
    BY <2>1, <2>2 DEF Speaks, validVote
  <2>4. RecentsExact' /\ SigningIsSpaced'
    BY <2>1, <2>2 DEF HInv, RecentsExact, SigningIsSpaced, Limit
  <2>5. VotesExact'
    BY <2>1, <2>3 DEF HInv, VotesExact, Ballot
  <2> QED BY <1>1, <2>4, <2>5 DEF HInv
<1> QED BY <1>2, <1>3

LEMMA AlwaysHInv == Spec => []HInv
<1> QED BY InitHInv, NextHInv, PTL DEF Spec

(***************************************************************************)
(* Between two blocks of one signer lies the smallest window in force      *)
(* since the first of them, however often Snapshot.apply moved and shrank  *)
(* Recents in between.                                                     *)
(***************************************************************************)
THEOREM SigningStaysSpaced == Spec => []SigningIsSpaced
<1>1. HInv => SigningIsSpaced
  BY DEF HInv
<1> QED BY <1>1, AlwaysHInv, PTL

(***************************************************************************)
(* The tally that cast and uncast maintain is the recount of the headers:  *)
(* no voided vote is counted and no standing one is lost.                  *)
(***************************************************************************)
THEOREM TallyStaysRecount == Spec => []TallyIsRecount
<1>1. HInv => TallyIsRecount
  BY RecountFromVotes, Zenon DEF HInv
<1> QED BY <1>1, AlwaysHInv, PTL

-----------------------------------------------------------------------------
(* The votes counted when header h is applied are one for each signer that stands for the change. *)
LEMMA VotersCounted ==
    ASSUME NEW s, Sound(s), NEW h \in Header, h.Signer \in s.Signers, NEW a, a = h.Coinbase
    PROVE  LET earlier  == IF (s.Number + 1) % Epoch = 0 THEN {} ELSE VotesOn(s.Votes, a)
               standing == {v.Signer : v \in earlier} \ {h.Signer}
               own      == IF validVote(s.Signers, a, h.Authorize) THEN {h.Signer} ELSE {}
           IN  /\ standing \subseteq s.Signers
               /\ Cardinality(standing \cup own)
                      = Cardinality(VotesOn(Standing(s, h) \cup Own(s, h), a))
<1> DEFINE earlier  == IF (s.Number + 1) % Epoch = 0 THEN {} ELSE VotesOn(s.Votes, a)
           standing == {v.Signer : v \in earlier} \ {h.Signer}
           own      == IF validVote(s.Signers, a, h.Authorize) THEN {h.Signer} ELSE {}
           voted    == Standing(s, h) \cup Own(s, h)
           S == VotesOn(voted, a)
           T == standing \cup own
           f == [v \in S |-> v.Signer]
<1>1. standing \subseteq s.Signers
  BY DEF VotesOn, Sound, VotesAreValid
<1>2. /\ \A v, w \in voted : v.Signer = w.Signer /\ v.Address = w.Address => v = w
      /\ IsFiniteSet(voted)
  <2>1. Sound(Voted(s, h)) /\ Voted(s, h).Votes = voted
    BY VotedStage
  <2> HIDE DEF voted
  <2> QED BY <2>1 DEF Sound, VotesAreValid, IsSnapshot
<1>3. \A v \in Own(s, h) : v.Signer = h.Signer /\ v.Address = a /\ own = {h.Signer}
  BY DEF Own, Ballot
<1>4. own = {h.Signer} => Ballot(s.Number + 1, h) \in Own(s, h)
  BY DEF Own
<1>5. \A v \in Standing(s, h) : v.Address = a => v \in earlier /\ v.Signer # h.Signer
  BY DEF Standing, VotesOn
<1>6. \A v \in earlier : v.Signer # h.Signer => v \in Standing(s, h) /\ v.Address = a
  BY DEF Standing, VotesOn
<1>7. \A v \in S : v.Signer \in T
  BY <1>3, <1>5 DEF VotesOn
<1>8. \A x, y \in S : x.Signer = y.Signer => x = y
  BY <1>2, Zenon DEF VotesOn
<1>9. \A t \in T : \E x \in S : x.Signer = t
  <2>1. ASSUME NEW t \in standing PROVE \E x \in S : x.Signer = t
    BY <1>6, <2>1 DEF VotesOn
  <2>2. ASSUME NEW t \in own PROVE \E x \in S : x.Signer = t
    <3>1. Ballot(s.Number + 1, h) \in Own(s, h) /\ t = h.Signer
      BY <1>4, <2>2
    <3> QED BY <1>3, <3>1 DEF VotesOn
  <2> QED BY <2>1, <2>2, Zenon
<1>10. IsFiniteSet(S)
  BY <1>2, FS_Subset DEF VotesOn
<1> HIDE DEF S, T
<1>11. /\ f \in [S -> T] /\ \A x, y \in S : f[x] = f[y] => x = y
       /\ \A t \in T : \E x \in S : f[x] = t
  BY <1>7, <1>8, <1>9
<1> HIDE DEF f
<1>12. Cardinality(T) = Cardinality(S)
  BY <1>10, <1>11, SameSize
<1> QED BY <1>1, <1>12 DEF S, T

(***************************************************************************)
(* No block changes the signers without a majority: when apply admits or   *)
(* drops an account, it is the header's Coinbase, and more than half of    *)
(* the signers stand for the change.                                       *)
(***************************************************************************)
THEOREM MajorityAlwaysDecides == Spec => MajorityDecides
<1> DEFINE decided(a) ==
        LET h        == chain'[Len(chain')]
            earlier  == IF (snap.Number + 1) % Epoch = 0 THEN {} ELSE VotesOn(snap.Votes, a)
            standing == {v.Signer : v \in earlier} \ {h.Signer}
            own      == IF validVote(snap.Signers, a, h.Authorize)
                        THEN {h.Signer} ELSE {}
        IN  /\ a = h.Coinbase
            /\ standing \subseteq snap.Signers
            /\ 2 * Cardinality(standing \cup own) > Cardinality(snap.Signers)
           step == \A a \in Addr : (a \in snap.Signers) # (a \in snap'.Signers) => decided(a)
<1>1. ASSUME IInv, [Next]_vars PROVE [step]_vars
  <2>1. CASE UNCHANGED vars
    BY <2>1
  <2>2. CASE Next
    <3> SUFFICES ASSUME NEW a \in Addr, (a \in snap.Signers) # (a \in snap'.Signers)
                 PROVE  decided(a)
      BY Zenon
    <3>1. PICK h \in Header : Apply(h)
      BY <2>2, NextApplies
    <3>2. /\ chain'[Len(chain')] = h /\ snap' = apply(snap, h)
          /\ ApplyError(snap, h) = "nil" /\ Sound(snap)
      BY <1>1, <3>1, ChainGrows DEF Good
    <3>3. /\ a = h.Coinbase
          /\ 2 * Cardinality(VotesOn(Standing(snap, h) \cup Own(snap, h), h.Coinbase))
                 > Cardinality(snap.Signers)
      <4> DEFINE big == 2 * Cardinality(VotesOn(Standing(snap, h) \cup Own(snap, h), h.Coinbase))
                           > Cardinality(snap.Signers)
      <4>1. \/ apply(snap, h).Signers = snap.Signers
            \/ apply(snap, h).Signers = snap.Signers \cup {h.Coinbase} /\ big
            \/ apply(snap, h).Signers = snap.Signers \ {h.Coinbase} /\ big
        BY <3>2, ApplyShape, ZenonT(60)
      <4> HIDE DEF big
      <4>2. a = h.Coinbase /\ big
        BY <3>2, <4>1
      <4> QED BY <4>2 DEF big
    <3>4. h.Signer \in snap.Signers
      BY <3>2 DEF ApplyError
    <3> QED BY <3>2, <3>3, <3>4, VotersCounted, Zenon
  <2> QED BY <1>1, <2>1, <2>2, Zenon
<1>2. Spec => [][step]_vars
  <2> HIDE DEF step
  <2> QED BY <1>1, AlwaysIInv, PTL DEF Spec
<1> QED BY <1>2, Zenon DEF MajorityDecides
=============================================================================
