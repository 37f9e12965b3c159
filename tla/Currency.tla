------------------------------ MODULE Currency ------------------------------
(***************************************************************************)
(* What a ledger of fungible units promises, whatever tables it is kept    *)
(* in: units come into being only in a holder's hands, move from one       *)
(* holder to another without loss, and cease to exist only when the holder *)
(* had them.  The token contract implements it with its balances, and the  *)
(* registry with the deposits it credits to its users.                     *)
(***************************************************************************)
EXTENDS Integers

CONSTANTS
  Token,    \* kinds of units
  Holder,   \* who can hold units
  Limit     \* no holder, and no token, ever counts more than Limit units

VARIABLES
  held,     \* held[t][h]: the units of t that h holds
  issued    \* issued[t]: the units of t in existence

vars == <<held, issued>>

Init ==
  /\ held = [t \in Token |-> [h \in Holder |-> 0]]
  /\ issued = [t \in Token |-> 0]

Mint(t, h, n) ==
  /\ issued[t] + n <= Limit
  /\ held' = [held EXCEPT ![t][h] = @ + n]
  /\ issued' = [issued EXCEPT ![t] = @ + n]

Burn(t, h, n) ==
  /\ held[t][h] >= n
  /\ held' = [held EXCEPT ![t][h] = @ - n]
  /\ issued' = [issued EXCEPT ![t] = @ - n]

Move(t, from, to, n) ==
  /\ from # to
  /\ held[t][from] >= n
  /\ held' = [held EXCEPT ![t][from] = @ - n, ![t][to] = @ + n]
  /\ UNCHANGED issued

Next ==
  \E t \in Token, n \in 1..Limit :
    \/ \E h \in Holder : Mint(t, h, n) \/ Burn(t, h, n)
    \/ \E from, to \in Holder : Move(t, from, to, n)

Spec == Init /\ [][Next]_vars
=============================================================================
