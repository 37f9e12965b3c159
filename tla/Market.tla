------------------------------- MODULE Market -------------------------------
(***************************************************************************)
(* What an exchange promises those who keep units with it: units arrive    *)
(* and leave one holder at a time, and the exchange's custody with them;   *)
(* two holders swap units in one indivisible step while it is open.  The   *)
(* operator may close it and declare the units of some holders forfeit,    *)
(* and may pay for its expenses out of custody.                            *)
(***************************************************************************)
EXTENDS Integers

CONSTANTS
  Token,    \* kinds of units
  Holder,   \* who can hold units
  Limit     \* the most that is accounted for, on either side of zero

VARIABLES
  held,     \* held[t][h]: the units of t that are h's
  custody,  \* custody[t]: the units of t the exchange keeps
  open      \* whether the exchange is in business

vars == <<held, custody, open>>

Init ==
  /\ held = [t \in Token |-> [h \in Holder |-> 0]]
  /\ custody = [t \in Token |-> 0]
  /\ open = FALSE

\* What each holder gains of each kind in a step; which kinds move, and whose.
Gains         == [t \in Token |-> [h \in Holder |-> held'[t][h] - held[t][h]]]
Kinds(gain)   == {t \in Token : \E h \in Holder : gain[t][h] # 0}
Parties(gain) == {h \in Holder : \E t \in Token : gain[t][h] # 0}

\* One holder deposits units of a kind, or withdraws some of what it holds.
Carry(gain) ==
  /\ \E t \in Token, h \in Holder :
       /\ Kinds(gain) = {t} /\ Parties(gain) = {h}
       /\ custody'[t] - custody[t] = gain[t][h]
       /\ gain[t][h] < 0 => held'[t][h] >= 0
  /\ UNCHANGED open

\* Two holders exchange units of two kinds: what one gives, the other gets.
Swap(gain) ==
  /\ open
  /\ \E t, u \in Token : Kinds(gain) \subseteq {t, u}
  /\ \E a, b \in Holder :
       /\ a # b /\ Parties(gain) \subseteq {a, b}
       /\ \A k \in Token : gain[k][a] + gain[k][b] = 0
  /\ UNCHANGED <<custody, open>>

\* The exchange is closed, and some holders lose what they hold or owe.
Forfeit(gain) ==
  /\ ~open'
  /\ \A h \in Parties(gain), t \in Token : held'[t][h] = 0
  /\ UNCHANGED custody

\* The operator opens or closes the exchange, or pays for something.
Operate ==
  /\ UNCHANGED held
  /\ \A t \in Token : custody'[t] <= custody[t]

\* Once somebody is too far in debt nothing is promised.
Broken == \E t \in Token, h \in Holder : held[t][h] < -Limit

Next ==
  \/ Operate
  \/ \E gain \in {Gains} : Carry(gain) \/ Swap(gain) \/ Forfeit(gain)
  \/ Broken

Steps == [][Next]_vars

Spec == Init /\ Steps
=============================================================================
