--------------------------- MODULE MCCliqueRewards ---------------------------
(* CliqueRewards for TLC: two signers and one more receiver. *)
EXTENDS CliqueRewards

MCAddr == 0 .. 3

MCSigners == {1, 2}
=============================================================================
