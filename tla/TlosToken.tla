----------------------------- MODULE TlosToken ------------------------------
(***************************************************************************)
(* src/src/tlostoken.cpp: the fungible token contract.  Several accounts   *)
(* may deploy it, so every table is indexed by the deploying contract.     *)
(*                                                                         *)
(* A transaction is atomic and a failed check undoes it, so one action of  *)
(* this module is one action of the contract whose checks all pass: its    *)
(* guard is the conjunction of the checks, wherever the code makes them.   *)
(* The account that signs the transaction is a parameter of the action.    *)
(* Left out: memo texts and who pays for memory.  The symbol stored in a   *)
(* balance row always equals the one in the token's stat row, and is not   *)
(* kept twice.                                                             *)
(***************************************************************************)
EXTENDS Chain

CONSTANT Contract   \* the accounts that run the token contract

ASSUME TokenAssumption == Contract \subseteq Account

VARIABLES
  stat,       \* <<contract, code>> -> the token's row in the stat table
  accounts    \* <<contract, code>> -> owner -> balance (table accounts)

tokenVars == <<stat, accounts>>

TokenId == Contract \X Code

StatRow == [symbol : Symbol, supply : 0..MaxAmount, max_supply : 0..MaxAmount, issuer : Name]

\* Type correctness: every balance of every token is an amount of zero or more
\* that an asset can hold, and every stat row names a supply in the same range.
TokenTypeOK ==
  /\ IsTable(stat, TokenId, StatRow)
  /\ DOMAIN accounts = TokenId
  /\ \A t \in TokenId : IsTable(accounts[t], Account, 0..MaxAmount)

TokenInit ==
  /\ stat = NoRows
  /\ accounts = [t \in TokenId |-> NoRows]

----------------------------------------------------------------------------
(***************************************************************************)
(* The helpers on one table of balances.  The "Can" operators are the      *)
(* checks the helper makes; asset's += fails when the sum leaves the range *)
(* of amounts an asset can hold.                                           *)
(***************************************************************************)
\* Faulty variants of CanSub, without the comparison, and of Sub, not written.
CanSubAnything(rows, owner, amount) == owner \in DOMAIN rows
SubForgotten(rows, owner, amount)   == rows

CanSub(rows, owner, amount) == owner \in DOMAIN rows /\ rows[owner] >= amount
Sub(rows, owner, amount)    == Put(rows, owner, rows[owner] - amount)

CanAdd(rows, owner, amount) == At(rows, owner) + amount \in -MaxAmount..MaxAmount
Add(rows, owner, amount)    == Put(rows, owner, At(rows, owner) + amount)

\* The stat row of quantity's code exists and carries exactly its symbol.
Known(c, symbol) ==
  /\ <<c, symbol.code>> \in DOMAIN stat
  /\ stat[<<c, symbol.code>>].symbol = symbol

----------------------------------------------------------------------------
(* The actions of the contract deployed at c, signed by signer. *)

Create(signer, c, issuer, maximum_supply) ==
  LET t == <<c, maximum_supply.symbol.code>> IN
  /\ signer = c
  /\ IsValid(maximum_supply)
  /\ maximum_supply.amount > 0
  /\ t \notin DOMAIN stat
  /\ stat' = Put(stat, t, [symbol     |-> maximum_supply.symbol,
                           supply     |-> 0,
                           max_supply |-> maximum_supply.amount,
                           issuer     |-> issuer])
  /\ UNCHANGED accounts

\* A faulty variant of Issue: the check forgets what is in circulation.
IssueUpToMaximum(signer, c, to, quantity) ==
  LET t == <<c, quantity.symbol.code>> IN
  /\ Known(c, quantity.symbol)
  /\ to = stat[t].issuer
  /\ signer = stat[t].issuer
  /\ IsValid(quantity)
  /\ quantity.amount > 0
  /\ quantity.amount <= stat[t].max_supply
  /\ CanAdd(accounts[t], to, quantity.amount)
  /\ stat' = [stat EXCEPT ![t].supply = @ + quantity.amount]
  /\ accounts' = [accounts EXCEPT ![t] = Add(@, to, quantity.amount)]

Issue(signer, c, to, quantity) ==
  LET t == <<c, quantity.symbol.code>> IN
  /\ Known(c, quantity.symbol)
  /\ to = stat[t].issuer
  /\ signer = stat[t].issuer
  /\ IsValid(quantity)
  /\ quantity.amount > 0
  /\ quantity.amount <= stat[t].max_supply - stat[t].supply
  /\ CanAdd(accounts[t], to, quantity.amount)
  /\ stat' = [stat EXCEPT ![t].supply = @ + quantity.amount]
  /\ accounts' = [accounts EXCEPT ![t] = Add(@, to, quantity.amount)]

\* supply is lowered before the issuer's balance is checked; both or none.
Retire(signer, c, quantity) ==
  LET t == <<c, quantity.symbol.code>> IN
  /\ Known(c, quantity.symbol)
  /\ signer = stat[t].issuer
  /\ IsValid(quantity)
  /\ quantity.amount > 0
  /\ CanSub(accounts[t], signer, quantity.amount)
  /\ stat' = [stat EXCEPT ![t].supply = @ - quantity.amount]
  /\ accounts' = [accounts EXCEPT ![t] = Sub(@, signer, quantity.amount)]

\* A faulty variant of Transfer: the token is found by its code alone.
TransferByCode(signer, c, from, to, quantity) ==
  LET t == <<c, quantity.symbol.code>> IN
  /\ from # to
  /\ signer = from
  /\ to \in Account
  /\ IsValid(quantity)
  /\ quantity.amount > 0
  /\ CanSub(accounts[t], from, quantity.amount)
  /\ CanAdd(accounts[t], to, quantity.amount)
  /\ accounts' = [accounts EXCEPT ![t] = Add(Sub(@, from, quantity.amount), to, quantity.amount)]
  /\ UNCHANGED stat

Transfer(signer, c, from, to, quantity) ==
  LET t == <<c, quantity.symbol.code>> IN
  /\ from # to
  /\ signer = from
  /\ to \in Account
  /\ Known(c, quantity.symbol)
  /\ IsValid(quantity)
  /\ quantity.amount > 0
  /\ CanSub(accounts[t], from, quantity.amount)
  /\ CanAdd(accounts[t], to, quantity.amount)
  /\ accounts' = [accounts EXCEPT ![t] = Add(Sub(@, from, quantity.amount), to, quantity.amount)]
  /\ UNCHANGED stat

\* A faulty variant of Open: it writes a row that is there already.
OpenAgain(signer, c, owner, symbol) ==
  LET t == <<c, symbol.code>> IN
  /\ owner \in Account
  /\ Known(c, symbol)
  /\ accounts' = [accounts EXCEPT ![t] = Put(@, owner, 0)]
  /\ UNCHANGED stat

Open(signer, c, owner, symbol) ==
  LET t == <<c, symbol.code>> IN
  /\ owner \in Account
  /\ Known(c, symbol)
  /\ accounts' = [accounts EXCEPT ![t] = Put(@, owner, At(@, owner))]
  /\ UNCHANGED stat

\* A faulty variant of Close: a balance is dropped with its units.
CloseAnyway(signer, c, owner, symbol) ==
  LET t == <<c, symbol.code>> IN
  /\ signer = owner
  /\ owner \in DOMAIN accounts[t]
  /\ accounts' = [accounts EXCEPT ![t] = Erase(@, owner)]
  /\ UNCHANGED stat

\* Only the code of symbol is used: its precision is not checked.
Close(signer, c, owner, symbol) ==
  LET t == <<c, symbol.code>> IN
  /\ signer = owner
  /\ owner \in DOMAIN accounts[t]
  /\ accounts[t][owner] = 0
  /\ accounts' = [accounts EXCEPT ![t] = Erase(@, owner)]
  /\ UNCHANGED stat

TokenNext ==
  \E signer \in Account, c \in Contract :
    \/ \E issuer \in Name, maximum_supply \in Asset : Create(signer, c, issuer, maximum_supply)
    \/ \E to \in Name, quantity \in Asset : Issue(signer, c, to, quantity)
    \/ \E quantity \in Asset : Retire(signer, c, quantity)
    \/ \E from \in Name, to \in Name, quantity \in Asset : Transfer(signer, c, from, to, quantity)
    \/ \E owner \in Name, symbol \in Symbol : Open(signer, c, owner, symbol)
    \/ \E owner \in Name, symbol \in Symbol : Close(signer, c, owner, symbol)

TokenSpec == TokenInit /\ [][TokenNext]_tokenVars

----------------------------------------------------------------------------
(* What the contract promises. *)

Supply(t) == IF t \in DOMAIN stat THEN stat[t].supply ELSE 0

(***************************************************************************)
(* The supply a token's stat row reports is the sum of all its balances,   *)
(* and an uncreated token has no units: issue, retire, transfer and close  *)
(* each update two rows, or drop one, and must do both halves alike.       *)
(***************************************************************************)
Conservation == \A t \in TokenId : Supply(t) = Total(accounts[t])

(***************************************************************************)
(* issue checks a difference of two stored amounts, and only at issue      *)
(* time: no sequence of issues and retires takes supply above max_supply,  *)
(* and the maximum itself never moves.                                     *)
(***************************************************************************)
SupplyWithinMax == \A t \in DOMAIN stat : stat[t].supply <= stat[t].max_supply

(***************************************************************************)
(* No two balances of a token add up to more than an asset can hold: the   *)
(* overflow check inside add_balance never fails, so a transfer within the *)
(* sender's means always succeeds.                                         *)
(***************************************************************************)
CreditsNeverOverflow ==
  \A t \in TokenId : \A a, b \in DOMAIN accounts[t] :
    a # b => accounts[t][a] + accounts[t][b] <= MaxAmount

(***************************************************************************)
(* The token as its users see it, an instance of the abstract currency:    *)
(* every action mints, burns or moves units, or changes nothing visible.   *)
(***************************************************************************)
Visible == INSTANCE Currency WITH
  Token  <- TokenId,
  Holder <- Account,
  Limit  <- MaxAmount,
  held   <- [t \in TokenId |-> [a \in Account |-> At(accounts[t], a)]],
  issued <- [t \in TokenId |-> Supply(t)]

ImplementsCurrency == Visible!Spec
=============================================================================
