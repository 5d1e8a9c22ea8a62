----------------------------- MODULE MCBlockChain -----------------------------
(***************************************************************************)
(* A short chain with one fork right above the freezer.                    *)
(***************************************************************************)
EXTENDS BlockChain

MCForkAt == <<2>>
===============================================================================
