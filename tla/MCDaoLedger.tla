---------------------------- MODULE MCDaoLedger -----------------------------
(***************************************************************************)
(* Small instances of the registry with its deposits.  The token contract  *)
(* eosio.token is deployed at tlos, where create's bills are paid too.     *)
(***************************************************************************)
EXTENDS DaoLedger

daoreg == 1
tlos   == 2
alice  == 3
bob    == 4
ghost  == 9

TLOS4 == [code |-> "TLOS", precision |-> 4]
TLOS2 == [code |-> "TLOS", precision |-> 2]

Uint(n)   == [type |-> "uint64", amount |-> n]
Assets(n) == [type |-> "asset", amount |-> n]

MCConfig == {Uint(0), Uint(1), Assets(0), Assets(1)}

Settings(bytes, net) == [k \in ConfigKey |-> CASE k = "b.rambytes" -> Uint(bytes)
                                              [] k = "d.net"      -> Assets(net)
                                              [] k = "d.cpu"      -> Assets(0)]

(***************************************************************************)
(* The parameters are set once; attributes and descriptions, which no      *)
(* balance depends on, do not change.  Organizations are named alice, an   *)
(* account, or ghost, which is none, and create may pay MaxAmount in all.  *)
(***************************************************************************)
CustodyInit ==
  /\ TokenInit
  /\ daos = NoRows
  /\ tokens = [d \in DaoId |-> NoRows]
  /\ config \in {Settings(1, 0), Settings(0, 1)}
  /\ balances = [key \in BalanceKey |-> NoRows]
  /\ spent = 0

CustodyNext ==
  \/ TokenActivity
  \/ /\ \E signer \in Account, dao_id \in DaoId :
          \/ DelOrg(signer, dao_id)
          \/ \E token_contract \in TokenContract, token_symbol \in Symbol :
               AddToken(signer, dao_id, token_contract, token_symbol)
     /\ UNCHANGED <<tokenVars, balances, spent>>
  \/ \E signer \in Account, users \in SUBSET Name : Reset(signer, users)
  \/ \E signer \in Account, dao \in {alice, ghost}, ipfs \in Ipfs :
       \E bill \in ResourceBills(dao) :
         spent + bill <= MaxAmount /\ FoundDao(signer, dao, alice, ipfs, bill)
  \/ \E account \in Account, c \in Contract, quantity \in Asset :
       \/ \E dao_id \in 0..MaxDaoId : Deposit(account, c, quantity, dao_id)
       \/ Withdraw(account, c, quantity)

CustodySpec == CustodyInit /\ [][CustodyNext]_ledgerVars
=============================================================================
