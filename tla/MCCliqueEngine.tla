--------------------------- MODULE MCCliqueEngine ---------------------------
(* CliqueEngine for TLC: four signers, so that the window of recent signers is *)
(* three blocks; nobody votes.                                                 *)
EXTENDS CliqueEngine

MCFourSigners == 1 .. 4

MCNoVote == {<<0, FALSE>>}
=============================================================================
