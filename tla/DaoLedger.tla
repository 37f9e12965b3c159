----------------------------- MODULE DaoLedger ------------------------------
(***************************************************************************)
(* The registry as a custodian: the token contract and the register of     *)
(* organizations composed through the deposits users keep with daoreg.     *)
(*                                                                         *)
(* A deposit is one transaction of two contracts: the token's transfer and *)
(* the registry's notification handler.  So is a withdrawal (the registry  *)
(* debits, then its inline action transfers) and the creation of an        *)
(* organization that is an account (inline actions pay for its resources). *)
(* If either half fails the chain undoes both, so each is one action.      *)
(*                                                                         *)
(* The registry's account signs only what its code sends: no person uses   *)
(* its key to call the token contract.  Registered tokens run the token    *)
(* contract of this repository, or one that behaves like it, as            *)
(* eosio.token does.                                                       *)
(***************************************************************************)
EXTENDS TlosToken, DaoRegistry

CONSTANTS
  Eosio,    \* the system accounts that are paid for resources
  RamPrice  \* what the system may charge for the configured bytes of memory

ASSUME LedgerAssumption ==
  /\ TokenContract \subseteq Contract
  /\ Self \notin Contract
  /\ SystemContract \in Contract
  /\ Eosio \in Account \ {Self}
  /\ RamPrice \subseteq Nat

VARIABLES
  balances, \* <<token contract, symbol>> -> account -> available (table balances)
  spent     \* what create has paid for resources, of the system token

ledgerVars == <<tokenVars, registryVars, balances, spent>>

BalanceKey == Contract \X Symbol
SystemKey  == <<SystemContract, SystemSymbol>>

\* The token a kind of balance is a claim on.
TokenOf(key) == <<key[1], key[2].code>>

\* Type correctness of the composition: no available balance is ever negative.
LedgerTypeOK ==
  /\ TokenTypeOK
  /\ RegistryTypeOK
  /\ DOMAIN balances = BalanceKey
  /\ \A key \in BalanceKey : IsTable(balances[key], Account, 0..MaxAmount)
  /\ spent \in Nat

LedgerInit ==
  /\ TokenInit
  /\ RegistryInit
  /\ balances = [key \in BalanceKey |-> NoRows]
  /\ spent = 0

----------------------------------------------------------------------------
(* The token contract used by everybody, with nothing for the registry to  *)
(* do: nobody pays the registry and the registry does not sign.            *)

TokenActivity ==
  /\ \E signer \in Account \ {Self}, c \in Contract :
       \/ \E issuer \in Name, maximum_supply \in Asset : Create(signer, c, issuer, maximum_supply)
       \/ \E to \in Name, quantity \in Asset : Issue(signer, c, to, quantity)
       \/ \E quantity \in Asset : Retire(signer, c, quantity)
       \/ \E to \in Name \ {Self}, quantity \in Asset : Transfer(signer, c, signer, to, quantity)
       \/ \E owner \in Name, symbol \in Symbol : Open(signer, c, owner, symbol)
       \/ \E symbol \in Symbol : Close(signer, c, signer, symbol)
  /\ UNCHANGED <<registryVars, balances, spent>>

(***************************************************************************)
(* What a deposit may be made of: the system token under dao id zero, else *)
(* a token the organization lists, from the contract that sent it.         *)
(***************************************************************************)
Accepts(dao_id, c, symbol) ==
  \/ dao_id = 0 /\ <<c, symbol>> = SystemKey
  \/ /\ dao_id \in DOMAIN daos
     /\ [account |-> c, symbol |-> symbol] \in ToSet(daos[dao_id].tokens)

(***************************************************************************)
(* A transfer to the registry and the deposit handler it notifies.  dao_id *)
(* is the number in the transfer's memo.                                   *)
(***************************************************************************)
Deposit(from, c, quantity, dao_id) ==
  LET key == <<c, quantity.symbol>> IN
  /\ Transfer(from, c, from, Self, quantity)
  /\ Accepts(dao_id, c, quantity.symbol)
  /\ CanAdd(balances[key], from, quantity.amount)
  /\ balances' = [balances EXCEPT ![key] = Add(@, from, quantity.amount)]
  /\ UNCHANGED <<registryVars, spent>>

\* A faulty variant of Withdraw: nothing is taken off the balance.
WithdrawForFree(account, c, quantity) ==
  /\ quantity.amount > 0
  /\ CanSub(balances[<<c, quantity.symbol>>], account, quantity.amount)
  /\ Transfer(Self, c, Self, account, quantity)
  /\ UNCHANGED <<registryVars, spent, balances>>

Withdraw(account, c, quantity) ==
  LET key == <<c, quantity.symbol>> IN
  /\ quantity.amount > 0
  /\ CanSub(balances[key], account, quantity.amount)
  /\ balances' = [balances EXCEPT ![key] = Sub(@, account, quantity.amount)]
  /\ Transfer(Self, c, Self, account, quantity)
  /\ UNCHANGED <<registryVars, spent>>

(***************************************************************************)
(* create, with what it pays when the organization is an account: memory   *)
(* at the price of the day if any is configured, and the stake for network *)
(* and processor time.  The system contract takes both out of the          *)
(* registry's system tokens, where the deposits are.                       *)
(***************************************************************************)
StakeDue == config["d.net"].amount + config["d.cpu"].amount

ResourceBills(dao) ==
  IF dao \notin Account THEN {0}
  ELSE IF config["b.rambytes"].amount = 0 THEN {StakeDue}
  ELSE {StakeDue + price : price \in RamPrice}

PayEosio(amount) ==
  LET t == TokenOf(SystemKey) IN
  \/ amount = 0 /\ UNCHANGED tokenVars
  \/ /\ amount > 0
     /\ Known(SystemContract, SystemSymbol)
     /\ CanSub(accounts[t], Self, amount)
     /\ CanAdd(accounts[t], Eosio, amount)
     /\ accounts' = [accounts EXCEPT ![t] = Add(Sub(@, Self, amount), Eosio, amount)]
     /\ UNCHANGED stat

FoundDao(signer, dao, creator, ipfs, bill) ==
  /\ CreateDao(signer, dao, creator, ipfs)
  /\ bill \in ResourceBills(dao)
  /\ PayEosio(bill)
  /\ spent' = spent + bill
  /\ UNCHANGED balances

\* reset erases the organizations and every balance of the accounts listed.
Reset(signer, users) ==
  /\ ResetDaos(signer)
  /\ balances' = [key \in BalanceKey |->
                    Restrict(balances[key], DOMAIN balances[key] \ users)]
  /\ UNCHANGED <<tokenVars, spent>>

LedgerNext ==
  \/ TokenActivity
  \/ /\ EditDao \/ SetConfig
     /\ UNCHANGED <<tokenVars, balances, spent>>
  \/ \E signer \in Account, users \in SUBSET Name : Reset(signer, users)
  \/ \E signer \in Account, dao, creator \in Name, ipfs \in Ipfs :
       \E bill \in ResourceBills(dao) : FoundDao(signer, dao, creator, ipfs, bill)
  \/ \E account \in Account, c \in Contract, quantity \in Asset :
       \/ \E dao_id \in 0..MaxDaoId : Deposit(account, c, quantity, dao_id)
       \/ Withdraw(account, c, quantity)

LedgerSpec == LedgerInit /\ [][LedgerNext]_ledgerVars

----------------------------------------------------------------------------
(* What users of the registry rely on. *)

\* What the registry's own account holds of the token behind a balance.
Custody(key) == At(accounts[TokenOf(key)], Self)

(***************************************************************************)
(* Everything credited to users is in the registry's own account, but for  *)
(* what create has paid out for resources: deposits, withdrawals and       *)
(* resets keep the two contracts' tables in step, for each token of each   *)
(* contract and symbol.                                                    *)
(***************************************************************************)
Backing ==
  \A key \in BalanceKey :
    Total(balances[key]) <= Custody(key) + (IF key = SystemKey THEN spent ELSE 0)

(***************************************************************************)
(* A balance is kept under a full symbol, the token's own table under the  *)
(* bare code: whoever holds a balance, the token exists with exactly that  *)
(* symbol, so two precisions of one code never claim the same units.       *)
(***************************************************************************)
BalancesAreOfKnownTokens ==
  \A key \in BalanceKey : DOMAIN balances[key] # {} => Known(key[1], key[2])

(***************************************************************************)
(* A withdrawal that passes the registry's own checks also passes the      *)
(* token contract's, as long as nothing has been spent on resources: no    *)
(* balance a user has been credited is stuck.                              *)
(***************************************************************************)
Payable(key, account) ==
  LET amount == At(balances[key], account) IN
  /\ Known(key[1], key[2])
  /\ CanSub(accounts[TokenOf(key)], Self, amount)
  /\ CanAdd(accounts[TokenOf(key)], account, amount)

WithdrawalsHonoured ==
  \A key \in BalanceKey : (key = SystemKey => spent = 0) =>
    \A account \in DOMAIN balances[key] \ {Self} :
      At(balances[key], account) > 0 => Payable(key, account)
=============================================================================
