---------------------------- MODULE MCTlosToken -----------------------------
(***************************************************************************)
(* Small instances of the token contract.                                  *)
(***************************************************************************)
EXTENDS TlosToken, TLC

CONSTANTS tlostoken, alice, bob, ghost, TOK

MCAmounts  == -1..(MaxAmount + 1)
=============================================================================
