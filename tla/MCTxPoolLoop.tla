---------------------------- MODULE MCTxPoolLoop ----------------------------
(* TxPoolLoop for TLC. *)
EXTENDS TxPoolLoop
=============================================================================
