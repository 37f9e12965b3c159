-------------------------- MODULE DaoLedgerProofs ---------------------------
(***************************************************************************)
(* The registry's custody of its users' tokens: proofs for any number of   *)
(* tokens, organizations and users.                                        *)
(*                                                                         *)
(* Backing alone is not inductive.  Two balances of different precision    *)
(* are claims on one row of the token contract, so that a withdrawal of    *)
(* one would leave the other without backing; that there never are two,    *)
(* is BalancesAreOfKnownTokens.  That the registry's row can pay needs the *)
(* books of the token contract, TokenInv.                                  *)
(***************************************************************************)
EXTENDS DaoLedger, TlosTokenProofs, DaoRegistryProofs

LedgerInv ==
  /\ LedgerTypeOK
  /\ TokenInv
  /\ RegistryInv
  /\ Backing
  /\ BalancesAreOfKnownTokens

----------------------------------------------------------------------------
(* What the token contract's actions leave alone. *)

\* No units of account a change.
Untouched(a) == \A t \in TokenId : At(accounts'[t], a) = At(accounts[t], a)

KnownStays == \A c \in Contract, symbol \in Symbol : Known(c, symbol) => Known(c, symbol)'

(* A balance is kept under a token of a contract. *)
LEMMA KeysAreOfTokens ==
  ASSUME NEW key \in BalanceKey
  PROVE  /\ key = <<key[1], key[2]>> /\ key[1] \in Contract /\ key[2] \in Symbol
         /\ TokenOf(key) \in TokenId
BY DEF BalanceKey, TokenOf, TokenId, Symbol

LEMMA SystemKeyIsKey == SystemKey \in BalanceKey
BY LedgerAssumption, RegistryAssumption DEF SystemKey, BalanceKey

(* Replacing the row of one account leaves the others as they were. *)
LEMMA OthersUntouched ==
  ASSUME TokenTypeOK, NEW t \in TokenId, NEW owner, NEW n, NEW a, a # owner,
         accounts' = [accounts EXCEPT ![t] = Put(@, owner, n)]
  PROVE  Untouched(a)
<1> SUFFICES ASSUME NEW u \in TokenId PROVE At(accounts'[u], a) = At(accounts[u], a)
  BY DEF Untouched
<1>1. CASE u = t
  BY <1>1, AtPut DEF TokenTypeOK
<1>2. CASE u # t
  BY <1>2 DEF TokenTypeOK
<1> QED BY <1>1, <1>2

(* Changing a supply keeps every symbol known. *)
LEMMA SupplyKeepsKnown ==
  ASSUME TokenTypeOK, NEW t, NEW n, stat' = [stat EXCEPT ![t].supply = n]
  PROVE  KnownStays
BY DEF TokenTypeOK, IsTable, StatRow, Known, KnownStays

(***************************************************************************)
(* What others do with the token contract touches none of the registry's   *)
(* units and forgets no token.                                             *)
(***************************************************************************)
LEMMA TokenActivityEffect ==
  ASSUME TokenInv, TokenActivity
  PROVE  TokenInv' /\ Untouched(Self) /\ KnownStays
<1>1. TokenTypeOK
  BY DEF TokenInv
<1>2. ASSUME NEW signer \in Account \ {Self}, NEW c \in Contract, NEW issuer \in Name,
             NEW maximum_supply \in Asset, Create(signer, c, issuer, maximum_supply)
      PROVE  TokenInv' /\ Untouched(Self) /\ KnownStays
  <2>1. TokenInv'
    BY <1>2, CreateKeeps
  <2>2. Untouched(Self) /\ KnownStays
    BY <1>2 DEF Create, Untouched, KnownStays, Known, Put
  <2> QED BY <2>1, <2>2
<1>3. ASSUME NEW signer \in Account \ {Self}, NEW c \in Contract, NEW to \in Name,
             NEW quantity \in Asset, Issue(signer, c, to, quantity)
      PROVE  TokenInv' /\ Untouched(Self) /\ KnownStays
  <2> DEFINE t == <<c, quantity.symbol.code>>
  <2>1. TokenInv'
    BY <1>3, IssueKeeps
  <2>2. t \in TokenId
    BY <1>1, <1>3, KnownToken DEF Issue, Asset
  <2>3. Untouched(Self)
    <3>1. /\ to # Self
          /\ accounts' = [accounts EXCEPT ![t] = Put(@, to, At(@, to) + quantity.amount)]
      BY <1>3 DEF Issue, Add
    <3> DEFINE n == At(accounts[t], to) + quantity.amount
    <3>2. accounts' = [accounts EXCEPT ![t] = Put(@, to, n)]
      BY <3>1
    <3> HIDE DEF t, n
    <3> QED BY <1>1, <2>2, <3>1, <3>2, OthersUntouched
  <2>4. KnownStays
    <3> DEFINE n == stat[t].supply + quantity.amount
    <3>1. stat' = [stat EXCEPT ![t].supply = n]
      BY <1>3 DEF Issue
    <3> HIDE DEF t, n
    <3> QED BY <1>1, <3>1, SupplyKeepsKnown
  <2> QED BY <2>1, <2>3, <2>4
<1>4. ASSUME NEW signer \in Account \ {Self}, NEW c \in Contract,
             NEW quantity \in Asset, Retire(signer, c, quantity)
      PROVE  TokenInv' /\ Untouched(Self) /\ KnownStays
  <2> DEFINE t == <<c, quantity.symbol.code>>
  <2>1. TokenInv'
    BY <1>4, RetireKeeps
  <2>2. t \in TokenId
    BY <1>1, <1>4, KnownToken DEF Retire, Asset
  <2>3. Untouched(Self)
    <3> DEFINE n == accounts[t][signer] - quantity.amount
    <3>1. accounts' = [accounts EXCEPT ![t] = Put(@, signer, n)]
      BY <1>4 DEF Retire, Sub
    <3> HIDE DEF t, n
    <3> QED BY <1>1, <2>2, <3>1, OthersUntouched
  <2>4. KnownStays
    <3> DEFINE n == stat[t].supply - quantity.amount
    <3>1. stat' = [stat EXCEPT ![t].supply = n]
      BY <1>4 DEF Retire
    <3> HIDE DEF t, n
    <3> QED BY <1>1, <3>1, SupplyKeepsKnown
  <2> QED BY <2>1, <2>3, <2>4
<1>5. ASSUME NEW signer \in Account \ {Self}, NEW c \in Contract, NEW to \in Name \ {Self},
             NEW quantity \in Asset, Transfer(signer, c, signer, to, quantity)
      PROVE  TokenInv' /\ Untouched(Self) /\ KnownStays
  <2> DEFINE t == <<c, quantity.symbol.code>>
             n == quantity.amount
  <2>1. UnitsMove(t, signer, to, n) /\ signer # Self /\ to # Self
    BY <1>5, TransferMoves, ChainAssumption
  <2> HIDE DEF t, n
  <2>2. /\ TokenInv'
        /\ \A a : a # signer /\ a # to => At(accounts'[t], a) = At(accounts[t], a)
        /\ \A u \in TokenId : u # t => accounts'[u] = accounts[u]
    BY <2>1, UnitsMoved
  <2>3. KnownStays
    BY <2>1 DEF UnitsMove, KnownStays, Known
  <2> QED BY <2>1, <2>2, <2>3 DEF Untouched
<1>6. ASSUME NEW signer \in Account \ {Self}, NEW c \in Contract, NEW owner \in Name,
             NEW symbol \in Symbol, Open(signer, c, owner, symbol)
      PROVE  TokenInv' /\ Untouched(Self) /\ KnownStays
  <2> DEFINE t == <<c, symbol.code>>
  <2>1. TokenInv'
    BY <1>6, OpenKeeps
  <2>2. UNCHANGED stat /\ accounts' = [accounts EXCEPT ![t] = Put(@, owner, At(@, owner))]
    BY <1>6 DEF Open
  <2> HIDE DEF t
  <2>3. Untouched(Self)
    BY <1>1, <2>2, AtPut DEF TokenTypeOK, Untouched
  <2>4. KnownStays
    BY <2>2 DEF KnownStays, Known
  <2> QED BY <2>1, <2>3, <2>4
<1>7. ASSUME NEW signer \in Account \ {Self}, NEW c \in Contract,
             NEW symbol \in Symbol, Close(signer, c, signer, symbol)
      PROVE  TokenInv' /\ Untouched(Self) /\ KnownStays
  <2> DEFINE t == <<c, symbol.code>>
  <2>1. TokenInv'
    BY <1>7, CloseKeeps, ChainAssumption
  <2>2. UNCHANGED stat /\ accounts' = [accounts EXCEPT ![t] = Erase(@, signer)]
    BY <1>7 DEF Close
  <2> HIDE DEF t
  <2>3. Untouched(Self)
    BY <1>1, <2>2, AtErase DEF TokenTypeOK, Untouched
  <2>4. KnownStays
    BY <2>2 DEF KnownStays, Known
  <2> QED BY <2>1, <2>3, <2>4
<1> QED BY <1>2, <1>3, <1>4, <1>5, <1>6, <1>7 DEF TokenActivity

----------------------------------------------------------------------------
(* What an action of the composition has to respect. *)

(* The registry's row of a token is an amount. *)
LEMMA CustodyNatural ==
  ASSUME TokenInv, NEW key \in BalanceKey
  PROVE  Custody(key) \in Nat
<1>1. Summable(accounts[TokenOf(key)])
  BY KeysAreOfTokens, AccountsSummable DEF TokenInv
<1> QED BY <1>1, TotalSplit DEF Custody

(* A balance is a table of amounts, and so is the registry's row. *)
LEMMA BalancesTyped ==
  ASSUME LedgerInv, NEW key \in BalanceKey
  PROVE  /\ IsTable(balances[key], Account, 0..MaxAmount)
         /\ Summable(balances[key])
         /\ Total(balances[key]) \in Nat
         /\ Custody(key) \in Nat
<1>1. IsTable(balances[key], Account, 0..MaxAmount)
  BY DEF LedgerInv, LedgerTypeOK
<1>2. Summable(balances[key])
  BY <1>1, BalancesSummable
<1>3. Custody(key) \in Nat
  BY CustodyNatural DEF LedgerInv
<1> QED BY <1>1, <1>2, <1>3, RowWithinTotal

(***************************************************************************)
(* No other balance is a claim on the units of a token that is known by    *)
(* its full symbol.                                                        *)
(***************************************************************************)
LEMMA NoOtherClaim ==
  ASSUME LedgerInv, NEW key \in BalanceKey, Known(key[1], key[2]),
         NEW other \in BalanceKey, other # key, TokenOf(other) = TokenOf(key)
  PROVE  Total(balances[other]) = 0
<1>1. ~Known(other[1], other[2])
  BY KeysAreOfTokens DEF Known, TokenOf
<1>2. DOMAIN balances[other] = {}
  BY <1>1 DEF LedgerInv, BalancesAreOfKnownTokens
<1>3. Units(balances[other]) = {}
  BY <1>2 DEF Units
<1> QED BY <1>3, FS_EmptySet DEF Total

(* Replacing the rows of one kind of balance. *)
LEMMA BalancesReplaced ==
  ASSUME LedgerInv, NEW key \in BalanceKey, NEW rows,
         IsTable(rows, Account, 0..MaxAmount), balances' = [balances EXCEPT ![key] = rows]
  PROVE  /\ DOMAIN balances' = BalanceKey
         /\ \A k \in BalanceKey : IsTable(balances'[k], Account, 0..MaxAmount)
         /\ balances'[key] = rows
         /\ \A k \in BalanceKey : k # key => balances'[k] = balances[k]
<1>1. DOMAIN balances = BalanceKey
  BY DEF LedgerInv, LedgerTypeOK
<1>2. balances'[key] = rows /\ \A k \in BalanceKey : k # key => balances'[k] = balances[k]
  BY <1>1
<1>3. DOMAIN balances' = BalanceKey
  BY <1>1
<1>4. \A k \in BalanceKey : IsTable(balances'[k], Account, 0..MaxAmount)
  BY <1>2 DEF LedgerInv, LedgerTypeOK
<1> QED BY <1>2, <1>3, <1>4

----------------------------------------------------------------------------
(* One lemma per action. *)

LEMMA TokenActivityKeeps ==
  ASSUME LedgerInv, TokenActivity
  PROVE  LedgerInv'
<1>1. TokenInv' /\ Untouched(Self) /\ KnownStays
  BY TokenActivityEffect DEF LedgerInv
<1>2. RegistryInv' /\ balances' = balances /\ spent' = spent
  BY RegistryUnchanged DEF LedgerInv, TokenActivity
<1>3. LedgerTypeOK'
  BY <1>1, <1>2 DEF LedgerInv, LedgerTypeOK, TokenInv, RegistryInv
<1>4. \A key \in BalanceKey : Custody(key)' = Custody(key)
  BY <1>1, KeysAreOfTokens DEF Untouched, Custody
<1>5. Backing'
  BY <1>2, <1>4 DEF LedgerInv, Backing
<1>6. BalancesAreOfKnownTokens'
  <2> SUFFICES ASSUME NEW key \in BalanceKey, DOMAIN balances[key] # {}
               PROVE  Known(key[1], key[2])'
    BY <1>2 DEF BalancesAreOfKnownTokens
  <2>1. Known(key[1], key[2])
    BY DEF LedgerInv, BalancesAreOfKnownTokens
  <2> QED BY <1>1, <2>1, KeysAreOfTokens DEF KnownStays
<1> QED BY <1>1, <1>2, <1>3, <1>5, <1>6 DEF LedgerInv

(* Editing organizations and parameters moves no units. *)
LEMMA EditKeeps ==
  ASSUME LedgerInv, EditDao \/ SetConfig, UNCHANGED <<tokenVars, balances, spent>>
  PROVE  LedgerInv'
<1>1. RegistryInv'
  BY EditDaoKeeps, SetConfigKeeps DEF LedgerInv
<1>2. UNCHANGED stat /\ UNCHANGED accounts /\ UNCHANGED balances /\ UNCHANGED spent
  BY DEF tokenVars
<1>3. TokenInv'
  BY <1>2 DEF LedgerInv, TokenInv, TokenTypeOK, Conservation, Supply, SupplyWithinMax
<1>4. LedgerTypeOK' /\ Backing' /\ BalancesAreOfKnownTokens'
  BY <1>1, <1>2, <1>3
     DEF LedgerInv, LedgerTypeOK, TokenInv, RegistryInv, Backing, Custody,
         BalancesAreOfKnownTokens, Known
<1> QED BY <1>1, <1>3, <1>4 DEF LedgerInv

LEMMA ResetKeeps ==
  ASSUME LedgerInv, NEW signer, NEW users, Reset(signer, users)
  PROVE  LedgerInv'
<1>1. RegistryInv'
  BY ResetDaosKeeps DEF LedgerInv, Reset
<1>2. UNCHANGED stat /\ UNCHANGED accounts /\ UNCHANGED spent
  BY DEF Reset, tokenVars
<1>3. TokenInv'
  BY <1>2 DEF LedgerInv, TokenInv, TokenTypeOK, Conservation, Supply, SupplyWithinMax
<1>4. /\ DOMAIN balances' = BalanceKey
      /\ \A key \in BalanceKey :
           balances'[key] = Restrict(balances[key], DOMAIN balances[key] \ users)
  BY DEF Reset
<1>5. ASSUME NEW key \in BalanceKey
      PROVE  /\ IsTable(balances'[key], Account, 0..MaxAmount)
             /\ DOMAIN balances'[key] \subseteq DOMAIN balances[key]
             /\ Total(balances'[key]) <= Total(balances[key])
             /\ Total(balances'[key]) \in Nat
  <2> DEFINE rows == balances[key]
             kept == DOMAIN rows \ users
  <2>1. IsTable(rows, Account, 0..MaxAmount) /\ Summable(rows)
    BY BalancesTyped
  <2>2. balances'[key] = Restrict(rows, kept) /\ kept \in SUBSET DOMAIN rows
    BY <1>4
  <2> HIDE DEF rows
  <2>3. DOMAIN Restrict(rows, kept) = kept /\ IsTable(Restrict(rows, kept), Account, 0..MaxAmount)
    BY <2>1 DEF Restrict, IsTable
  <2>4. Summable(Restrict(rows, kept)) /\ Total(Restrict(rows, kept)) <= Total(rows)
    BY <2>1, <2>2, TotalRestrict
  <2>5. Total(Restrict(rows, kept)) \in Nat
    BY <2>4, RowWithinTotal
  <2> QED BY <2>2, <2>3, <2>4, <2>5 DEF rows
<1>6. LedgerTypeOK'
  BY <1>1, <1>2, <1>3, <1>4, <1>5 DEF LedgerInv, LedgerTypeOK, TokenInv, RegistryInv
<1>7. Backing'
  <2> SUFFICES ASSUME NEW key \in BalanceKey
               PROVE  Total(balances'[key]) <= Custody(key) + IF key = SystemKey THEN spent ELSE 0
    BY <1>2 DEF Backing, Custody
  <2>1. Total(balances[key]) <= Custody(key) + IF key = SystemKey THEN spent ELSE 0
    BY DEF LedgerInv, Backing
  <2>2. spent \in Nat /\ Custody(key) \in Nat /\ Total(balances[key]) \in Nat
    BY BalancesTyped DEF LedgerInv, LedgerTypeOK
  <2> QED BY <1>5, <2>1, <2>2
<1>8. BalancesAreOfKnownTokens'
  BY <1>2, <1>5 DEF LedgerInv, BalancesAreOfKnownTokens, Known
<1> QED BY <1>1, <1>3, <1>6, <1>7, <1>8 DEF LedgerInv

LEMMA DepositKeeps ==
  ASSUME LedgerInv, NEW from \in Account, NEW c \in Contract, NEW quantity \in Asset,
         NEW dao_id, Deposit(from, c, quantity, dao_id)
  PROVE  LedgerInv'
<1> DEFINE key == <<c, quantity.symbol>>
           n == quantity.amount
           rows == Add(balances[key], from, n)
<1>1. /\ key \in BalanceKey /\ n \in Nat /\ Known(key[1], key[2])
      /\ TokenOf(key) = <<c, quantity.symbol.code>>
  <2>1. key \in BalanceKey /\ key[1] = c /\ key[2] = quantity.symbol
    BY DEF BalanceKey, Asset
  <2>2. Known(c, quantity.symbol) /\ n > 0
    BY DEF Deposit, Transfer
  <2>3. n \in Int
    BY ChainAssumption DEF Asset
  <2> QED BY <2>1, <2>2, <2>3 DEF TokenOf
<1>2. UnitsMove(TokenOf(key), from, Self, n)
  BY <1>1, TransferMoves, ChainAssumption, RegistryAssumption DEF Deposit, LedgerInv
<1>3. /\ CanAdd(balances[key], from, n)
      /\ balances' = [balances EXCEPT ![key] = rows]
      /\ UNCHANGED registryVars /\ UNCHANGED spent
  BY DEF Deposit
<1> HIDE DEF key, n
<1>4. /\ TokenInv'
      /\ At(accounts'[TokenOf(key)], Self) = At(accounts[TokenOf(key)], Self) + n
      /\ \A u \in TokenId : u # TokenOf(key) => accounts'[u] = accounts[u]
      /\ stat' = stat
  <2>1. stat' = stat /\ TokenInv
    BY <1>2 DEF LedgerInv, UnitsMove
  <2> QED BY <1>2, <2>1, UnitsMoved
<1>5. RegistryInv'
  BY <1>3, RegistryUnchanged DEF LedgerInv
<1>6. IsTable(rows, Account, 0..MaxAmount) /\ Total(rows) = Total(balances[key]) + n
  BY <1>1, <1>3, BalancesTyped, AddEffect
<1>7. /\ DOMAIN balances' = BalanceKey
      /\ \A k \in BalanceKey : IsTable(balances'[k], Account, 0..MaxAmount)
      /\ balances'[key] = rows
      /\ \A k \in BalanceKey : k # key => balances'[k] = balances[k]
  <2> HIDE DEF rows
  <2> QED BY <1>1, <1>3, <1>6, BalancesReplaced
<1> HIDE DEF rows
<1>8. LedgerTypeOK'
  BY <1>3, <1>4, <1>5, <1>7 DEF LedgerInv, LedgerTypeOK, TokenInv, RegistryInv
<1>9. Backing'
  <2> SUFFICES ASSUME NEW k \in BalanceKey
               PROVE  Total(balances'[k]) <= Custody(k)' + IF k = SystemKey THEN spent ELSE 0
    BY <1>3 DEF Backing
  <2>1. Total(balances[k]) <= Custody(k) + IF k = SystemKey THEN spent ELSE 0
    BY DEF LedgerInv, Backing
  <2>2. spent \in Nat /\ Custody(k) \in Nat /\ Total(balances[k]) \in Nat
    BY BalancesTyped DEF LedgerInv, LedgerTypeOK
  <2>3. Custody(k)' = Custody(k) + IF TokenOf(k) = TokenOf(key) THEN n ELSE 0
    BY <1>4, <2>2, KeysAreOfTokens DEF Custody
  <2>4. Total(balances'[k]) = Total(balances[k]) + IF k = key THEN n ELSE 0
    BY <1>6, <1>7, <2>2
  <2>5. CASE k = key
    BY <1>1, <2>1, <2>2, <2>3, <2>4, <2>5
  <2>6. CASE k # key
    BY <1>1, <2>1, <2>2, <2>3, <2>4, <2>6
  <2> QED BY <2>5, <2>6
<1>10. BalancesAreOfKnownTokens'
  BY <1>1, <1>4, <1>7 DEF LedgerInv, BalancesAreOfKnownTokens, Known
<1> QED BY <1>4, <1>5, <1>8, <1>9, <1>10 DEF LedgerInv

LEMMA WithdrawKeeps ==
  ASSUME LedgerInv, NEW account \in Account, NEW c \in Contract, NEW quantity \in Asset,
         Withdraw(account, c, quantity)
  PROVE  LedgerInv'
<1> DEFINE key == <<c, quantity.symbol>>
           n == quantity.amount
           rows == Sub(balances[key], account, n)
<1>1. /\ key \in BalanceKey /\ n \in Nat /\ Known(key[1], key[2])
      /\ TokenOf(key) = <<c, quantity.symbol.code>>
  <2>1. key \in BalanceKey /\ key[1] = c /\ key[2] = quantity.symbol
    BY DEF BalanceKey, Asset
  <2>2. Known(c, quantity.symbol) /\ n > 0
    BY DEF Withdraw, Transfer
  <2>3. n \in Int
    BY ChainAssumption DEF Asset
  <2> QED BY <2>1, <2>2, <2>3 DEF TokenOf
<1>2. UnitsMove(TokenOf(key), Self, account, n)
  BY <1>1, TransferMoves, ChainAssumption, RegistryAssumption DEF Withdraw, LedgerInv
<1>3. /\ CanSub(balances[key], account, n)
      /\ balances' = [balances EXCEPT ![key] = rows]
      /\ UNCHANGED registryVars /\ UNCHANGED spent
  BY DEF Withdraw
<1> HIDE DEF key, n
<1>4. /\ TokenInv'
      /\ At(accounts'[TokenOf(key)], Self) = At(accounts[TokenOf(key)], Self) - n
      /\ \A u \in TokenId : u # TokenOf(key) => accounts'[u] = accounts[u]
      /\ stat' = stat
  <2>1. stat' = stat /\ TokenInv
    BY <1>2 DEF LedgerInv, UnitsMove
  <2> QED BY <1>2, <2>1, UnitsMoved
<1>5. RegistryInv'
  BY <1>3, RegistryUnchanged DEF LedgerInv
<1>6. IsTable(rows, Account, 0..MaxAmount) /\ Total(rows) = Total(balances[key]) - n
  BY <1>1, <1>3, BalancesTyped, SubEffect
<1>7. /\ DOMAIN balances' = BalanceKey
      /\ \A k \in BalanceKey : IsTable(balances'[k], Account, 0..MaxAmount)
      /\ balances'[key] = rows
      /\ \A k \in BalanceKey : k # key => balances'[k] = balances[k]
  <2> HIDE DEF rows
  <2> QED BY <1>1, <1>3, <1>6, BalancesReplaced
<1> HIDE DEF rows
<1>8. LedgerTypeOK'
  BY <1>3, <1>4, <1>5, <1>7 DEF LedgerInv, LedgerTypeOK, TokenInv, RegistryInv
<1>9. Backing'
  <2> SUFFICES ASSUME NEW k \in BalanceKey
               PROVE  Total(balances'[k]) <= Custody(k)' + IF k = SystemKey THEN spent ELSE 0
    BY <1>3 DEF Backing
  <2>1. Total(balances[k]) <= Custody(k) + IF k = SystemKey THEN spent ELSE 0
    BY DEF LedgerInv, Backing
  <2>2. spent \in Nat /\ Custody(k) \in Nat /\ Total(balances[k]) \in Nat
    BY BalancesTyped DEF LedgerInv, LedgerTypeOK
  <2>3. CASE k = key
    <3>1. Custody(k)' = Custody(k) - n
      BY <1>4, <2>3 DEF Custody
    <3> QED BY <1>1, <1>6, <1>7, <2>1, <2>2, <2>3, <3>1
  <2>4. CASE k # key /\ TokenOf(k) = TokenOf(key)
    <3>1. Total(balances'[k]) = 0
      BY <1>1, <1>7, <2>4, NoOtherClaim
    <3>2. Custody(k)' \in Nat
      <4>1. n <= At(accounts[TokenOf(key)], Self)
        BY <1>2 DEF UnitsMove, CanSub, At
      <4> QED BY <1>1, <1>4, <2>2, <2>4, <4>1 DEF Custody
    <3> QED BY <2>2, <3>1, <3>2
  <2>5. CASE k # key /\ TokenOf(k) # TokenOf(key)
    <3>1. Custody(k)' = Custody(k) /\ balances'[k] = balances[k]
      BY <1>4, <1>7, <2>5, KeysAreOfTokens DEF Custody
    <3> QED BY <2>1, <3>1
  <2> QED BY <2>3, <2>4, <2>5
<1>10. BalancesAreOfKnownTokens'
  BY <1>1, <1>4, <1>7 DEF LedgerInv, BalancesAreOfKnownTokens, Known
<1> QED BY <1>4, <1>5, <1>8, <1>9, <1>10 DEF LedgerInv

(* A bill is a number: create aborts unless the parameters it reads are there. *)
LEMMA BillIsNat ==
  ASSUME RegistryInv, NEW dao, dao \in Account => ResourcesConfigured,
         NEW bill \in ResourceBills(dao)
  PROVE  bill \in Nat
<1>1. CASE dao \notin Account
  BY <1>1 DEF ResourceBills
<1>2. CASE dao \in Account
  <2>1. \A k \in DOMAIN config : config[k].amount \in Nat
    BY RegistryAssumption DEF RegistryInv, RegistryTypeOK, IsTable
  <2>2. StakeDue \in Nat
    BY <1>2, <2>1 DEF ResourcesConfigured, HasConfig, StakeDue
  <2>3. RamPrice \subseteq Nat
    BY LedgerAssumption
  <2> QED BY <1>2, <2>2, <2>3 DEF ResourceBills
<1> QED BY <1>1, <1>2

(***************************************************************************)
(* A bill leaves the registry's units of the system token, and no other    *)
(* token's, lower by as much.                                              *)
(***************************************************************************)
LEMMA PayEosioEffect ==
  ASSUME TokenInv, NEW amount \in Nat, PayEosio(amount)
  PROVE  /\ TokenInv'
         /\ stat' = stat
         /\ At(accounts'[TokenOf(SystemKey)], Self)
              = At(accounts[TokenOf(SystemKey)], Self) - amount
         /\ At(accounts'[TokenOf(SystemKey)], Self) \in Nat
         /\ \A u \in TokenId : u # TokenOf(SystemKey) => accounts'[u] = accounts[u]
         /\ amount = 0 \/ Known(SystemKey[1], SystemKey[2])
<1> DEFINE t == TokenOf(SystemKey)
<1>1. Custody(SystemKey) = At(accounts[t], Self) /\ Custody(SystemKey) \in Nat
  BY SystemKeyIsKey, CustodyNatural DEF Custody
<1>2. CASE amount = 0 /\ UNCHANGED tokenVars
  <2>1. UNCHANGED stat /\ UNCHANGED accounts
    BY <1>2 DEF tokenVars
  <2>2. TokenInv'
    BY <2>1 DEF TokenInv, TokenTypeOK, Conservation, Supply, SupplyWithinMax
  <2> QED BY <1>1, <1>2, <2>1, <2>2
<1>3. CASE /\ amount > 0
           /\ Known(SystemContract, SystemSymbol)
           /\ CanSub(accounts[t], Self, amount)
           /\ CanAdd(accounts[t], Eosio, amount)
           /\ accounts' = [accounts EXCEPT ![t] = Add(Sub(@, Self, amount), Eosio, amount)]
           /\ UNCHANGED stat
  <2>1. t \in TokenId /\ Eosio \in Account /\ Self # Eosio
    BY SystemKeyIsKey, KeysAreOfTokens, LedgerAssumption
  <2>2. amount <= At(accounts[t], Self)
    BY <1>3 DEF CanSub, At
  <2>3. Known(SystemKey[1], SystemKey[2])
    BY <1>3 DEF SystemKey
  <2> HIDE DEF t
  <2>4. UnitsMove(t, Self, Eosio, amount)
    BY <1>3, <2>1 DEF UnitsMove
  <2>5. /\ TokenInv'
        /\ At(accounts'[t], Self) = At(accounts[t], Self) - amount
        /\ \A u \in TokenId : u # t => accounts'[u] = accounts[u]
    BY <2>4, UnitsMoved
  <2>6. At(accounts'[t], Self) \in Nat
    BY <1>1, <2>2, <2>5
  <2> QED BY <1>3, <2>3, <2>5, <2>6 DEF t
<1> QED BY <1>2, <1>3 DEF PayEosio

LEMMA FoundDaoKeeps ==
  ASSUME LedgerInv, NEW signer, NEW dao \in Name, NEW creator \in Name, NEW ipfs \in Ipfs,
         NEW bill, FoundDao(signer, dao, creator, ipfs, bill)
  PROVE  LedgerInv'
<1>1. RegistryInv'
  BY CreateDaoKeeps DEF LedgerInv, FoundDao
<1>2. /\ bill \in ResourceBills(dao)
      /\ dao \in Account => ResourcesConfigured
      /\ PayEosio(bill) /\ spent' = spent + bill /\ UNCHANGED balances
  BY DEF FoundDao, CreateDao
<1>3. bill \in Nat /\ spent \in Nat
  BY <1>2, BillIsNat DEF LedgerInv, LedgerTypeOK
<1>4. /\ TokenInv'
      /\ stat' = stat
      /\ At(accounts'[TokenOf(SystemKey)], Self)
           = At(accounts[TokenOf(SystemKey)], Self) - bill
      /\ At(accounts'[TokenOf(SystemKey)], Self) \in Nat
      /\ \A u \in TokenId : u # TokenOf(SystemKey) => accounts'[u] = accounts[u]
      /\ bill = 0 \/ Known(SystemKey[1], SystemKey[2])
  BY <1>2, <1>3, PayEosioEffect DEF LedgerInv
<1>5. LedgerTypeOK'
  BY <1>1, <1>2, <1>3, <1>4 DEF LedgerInv, LedgerTypeOK, TokenInv, RegistryInv
<1>6. Backing'
  <2> SUFFICES ASSUME NEW k \in BalanceKey
               PROVE  Total(balances[k]) <= Custody(k)' + IF k = SystemKey THEN spent' ELSE 0
    BY <1>2 DEF Backing
  <2>1. Total(balances[k]) <= Custody(k) + IF k = SystemKey THEN spent ELSE 0
    BY DEF LedgerInv, Backing
  <2>2. Custody(k) \in Nat /\ Total(balances[k]) \in Nat
    BY BalancesTyped
  <2>3. CASE k = SystemKey
    BY <1>2, <1>3, <1>4, <2>1, <2>2, <2>3 DEF Custody
  <2>4. CASE k # SystemKey /\ TokenOf(k) # TokenOf(SystemKey)
    <3>1. Custody(k)' = Custody(k)
      BY <1>4, <2>4, KeysAreOfTokens DEF Custody
    <3> QED BY <2>1, <2>4, <3>1
  <2>5. CASE k # SystemKey /\ TokenOf(k) = TokenOf(SystemKey)
    <3>1. Custody(k)' = Custody(k) - bill /\ Custody(k)' \in Nat
      BY <1>4, <2>5 DEF Custody
    <3>2. CASE bill = 0
      BY <2>1, <2>2, <2>5, <3>1, <3>2
    <3>3. CASE bill # 0
      <4>1. Total(balances[k]) = 0
        BY <1>4, <2>5, <3>3, SystemKeyIsKey, NoOtherClaim
      <4> QED BY <2>5, <3>1, <4>1
    <3> QED BY <3>2, <3>3
  <2> QED BY <2>3, <2>4, <2>5
<1>7. BalancesAreOfKnownTokens'
  BY <1>2, <1>4 DEF LedgerInv, BalancesAreOfKnownTokens, Known
<1> QED BY <1>1, <1>4, <1>5, <1>6, <1>7 DEF LedgerInv

----------------------------------------------------------------------------

LEMMA LedgerInvInit == LedgerInit => LedgerInv
<1> SUFFICES ASSUME LedgerInit PROVE LedgerInv
  OBVIOUS
<1>1. TokenInv /\ RegistryInv
  BY TokenInvInit, RegistryInvInit DEF LedgerInit
<1>2. \A key \in BalanceKey : balances[key] = NoRows
  BY DEF LedgerInit
<1>3. IsTable(NoRows, Account, 0..MaxAmount)
  BY DEF IsTable, NoRows
<1>4. LedgerTypeOK
  BY <1>1, <1>2, <1>3 DEF LedgerInit, LedgerTypeOK, TokenInv, RegistryInv
<1>5. Backing
  <2> SUFFICES ASSUME NEW key \in BalanceKey
               PROVE  Total(balances[key]) <= Custody(key) + IF key = SystemKey THEN spent ELSE 0
    BY DEF Backing
  <2>1. At(accounts[TokenOf(key)], Self) = 0
    BY KeysAreOfTokens DEF LedgerInit, TokenInit, At, NoRows
  <2> QED BY <1>2, <2>1, TotalNoRows DEF LedgerInit, Custody
<1>6. BalancesAreOfKnownTokens
  BY <1>2 DEF BalancesAreOfKnownTokens, NoRows
<1> QED BY <1>1, <1>4, <1>5, <1>6 DEF LedgerInv

LEMMA LedgerInvStep == LedgerInv /\ [LedgerNext]_ledgerVars => LedgerInv'
<1> SUFFICES ASSUME LedgerInv, [LedgerNext]_ledgerVars PROVE LedgerInv'
  OBVIOUS
<1>1. CASE LedgerNext
  BY <1>1, TokenActivityKeeps, EditKeeps, ResetKeeps, FoundDaoKeeps, DepositKeeps, WithdrawKeeps
     DEF LedgerNext
<1>2. CASE UNCHANGED ledgerVars
  <2>1. RegistryInv'
    BY <1>2, RegistryUnchanged DEF LedgerInv, ledgerVars
  <2>2. UNCHANGED stat /\ UNCHANGED accounts /\ UNCHANGED balances /\ UNCHANGED spent
    BY <1>2 DEF ledgerVars, tokenVars
  <2>3. TokenInv'
    BY <2>2 DEF LedgerInv, TokenInv, TokenTypeOK, Conservation, Supply, SupplyWithinMax
  <2>4. LedgerTypeOK' /\ Backing' /\ BalancesAreOfKnownTokens'
    BY <2>1, <2>2, <2>3
       DEF LedgerInv, LedgerTypeOK, TokenInv, RegistryInv, Backing, Custody,
           BalancesAreOfKnownTokens, Known
  <2> QED BY <2>1, <2>3, <2>4 DEF LedgerInv
<1> QED BY <1>1, <1>2

LEMMA LedgerInvariant == LedgerSpec => []LedgerInv
<1> QED BY LedgerInvInit, LedgerInvStep, PTL DEF LedgerSpec

(***************************************************************************)
(* In the composition too every table keeps its types: no balance kept for *)
(* a user is ever negative or more than an asset holds.                    *)
(***************************************************************************)
THEOREM LedgerTypeCorrect == LedgerSpec => []LedgerTypeOK
<1>1. LedgerInv => LedgerTypeOK
  BY DEF LedgerInv
<1> QED BY <1>1, LedgerInvariant, PTL

(***************************************************************************)
(* What users are credited is in the registry's account, but for what      *)
(* create has paid for resources, whatever deposits, withdrawals,          *)
(* creations and resets happen in whatever order, for any number of tokens *)
(* and symbols.                                                            *)
(***************************************************************************)
THEOREM LedgerBacked == LedgerSpec => []Backing
<1>1. LedgerInv => Backing
  BY DEF LedgerInv
<1> QED BY <1>1, LedgerInvariant, PTL

(***************************************************************************)
(* Every balance is kept under the one symbol its token has, so that no    *)
(* two balances claim the same units.                                      *)
(***************************************************************************)
THEOREM LedgerBalancesKnown == LedgerSpec => []BalancesAreOfKnownTokens
<1>1. LedgerInv => BalancesAreOfKnownTokens
  BY DEF LedgerInv
<1> QED BY <1>1, LedgerInvariant, PTL

(***************************************************************************)
(* A balance can be withdrawn in one piece: the token contract's checks on *)
(* the registry's funds and on the receiver's new balance both pass, while *)
(* nothing of the token has been spent on resources.                       *)
(***************************************************************************)
THEOREM LedgerWithdrawalsHonoured == LedgerSpec => []WithdrawalsHonoured
<1>1. ASSUME LedgerInv PROVE WithdrawalsHonoured
  <2> SUFFICES ASSUME NEW key \in BalanceKey, key = SystemKey => spent = 0,
                      NEW account \in DOMAIN balances[key] \ {Self},
                      At(balances[key], account) > 0
               PROVE  Payable(key, account)
    BY DEF WithdrawalsHonoured
  <2> DEFINE amount == At(balances[key], account)
             rows == accounts[TokenOf(key)]
  <2>1. /\ Summable(balances[key]) /\ Total(balances[key]) \in Nat
        /\ Custody(key) \in Nat /\ Custody(key) = At(rows, Self)
    BY <1>1, BalancesTyped DEF Custody
  <2>2. amount <= Total(balances[key]) /\ amount \in Nat
    BY <2>1, RowWithinTotal, TotalSplit
  <2>3. Total(balances[key]) <= At(rows, Self)
    BY <1>1, <2>1 DEF LedgerInv, Backing
  <2>4. Known(key[1], key[2])
    BY <1>1 DEF LedgerInv, BalancesAreOfKnownTokens
  <2>5. TokenOf(key) \in TokenId /\ TokenInv
    BY <1>1, KeysAreOfTokens DEF LedgerInv
  <2>6. Summable(rows) /\ Total(rows) \in Nat
    BY <2>5, AccountsSummable, RowWithinTotal DEF TokenInv
  <2>7. Total(rows) <= MaxAmount
    <3>1. Total(rows) = Supply(TokenOf(key))
      BY <2>5 DEF TokenInv, Conservation
    <3>2. Supply(TokenOf(key)) <= MaxAmount
      BY <2>5, ChainAssumption DEF TokenInv, TokenTypeOK, IsTable, StatRow, Supply
    <3> QED BY <3>1, <3>2
  <2>8. At(rows, account) + At(rows, Self) <= Total(rows)
    <3> HIDE DEF rows
    <3> QED BY <2>6, TwoRowsWithinTotal
  <2>9. At(rows, account) \in Nat
    <3> HIDE DEF rows
    <3> QED BY <2>6, TotalSplit
  <2> HIDE DEF amount, rows
  <2>10. amount <= At(rows, Self) /\ amount > 0
    BY <2>1, <2>2, <2>3 DEF amount
  <2>11. CanSub(rows, Self, amount)
    BY <2>1, <2>2, <2>10 DEF CanSub, At
  <2>12. CanAdd(rows, account, amount)
    BY <2>1, <2>2, <2>6, <2>7, <2>8, <2>9, <2>10, ChainAssumption DEF CanAdd
  <2> QED BY <2>4, <2>11, <2>12 DEF Payable, amount, rows
<1> QED BY <1>1, LedgerInvariant, PTL
=============================================================================
