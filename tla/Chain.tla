------------------------------- MODULE Chain --------------------------------
(***************************************************************************)
(* What all the contracts share: the names, accounts, symbols and amounts  *)
(* of the chain they run on.                                               *)
(***************************************************************************)
EXTENDS Tables

CONSTANTS
  Name,       \* account names, whether or not an account has that name
  Account,    \* the names that are accounts (is_account)
  Code,       \* symbol codes
  Precision,  \* decimal places a symbol may have
  Amount,     \* the amounts a caller may put in a quantity, of any sign
  MaxAmount   \* the largest amount the chain's asset type holds

ASSUME ChainAssumption ==
  /\ IsFiniteSet(Name)
  /\ Account \subseteq Name
  /\ Amount \subseteq Int
  /\ MaxAmount \in Nat

Symbol == [code : Code, precision : Precision]
Asset  == [symbol : Symbol, amount : Amount]

\* asset::is_valid, for a symbol that is itself valid.
IsValid(quantity) == quantity.amount \in -MaxAmount..MaxAmount
=============================================================================
