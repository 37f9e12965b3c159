-------------------------- MODULE TlosTokenProofs ---------------------------
(***************************************************************************)
(* The token contract keeps its books: proofs for every set of accounts,   *)
(* contracts and symbols and every bound on amounts.                       *)
(*                                                                         *)
(* Neither the type invariant nor SupplyWithinMax is inductive alone: that *)
(* retire leaves a supply of zero or more follows from the issuer's        *)
(* balance being part of the total, that is from Conservation.             *)
(***************************************************************************)
EXTENDS TlosToken, TableTheorems

TokenInv == TokenTypeOK /\ Conservation /\ SupplyWithinMax

(* A table of the balances of accounts can be added up. *)
LEMMA BalancesSummable ==
  ASSUME NEW rows, IsTable(rows, Account, 0..MaxAmount)
  PROVE  Summable(rows)
<1>1. DOMAIN rows \in SUBSET Name
  BY ChainAssumption DEF IsTable
<1>2. IsFiniteSet(DOMAIN rows)
  BY <1>1, ChainAssumption, FS_Subset
<1>3. rows \in [DOMAIN rows -> Nat]
  BY ChainAssumption DEF IsTable
<1> QED BY <1>2, <1>3 DEF Summable

LEMMA AccountsSummable ==
  ASSUME TokenTypeOK, NEW t \in TokenId
  PROVE  Summable(accounts[t])
BY BalancesSummable DEF TokenTypeOK

(* What adding to a balance and taking from it do to the amounts. *)
LEMMA AddEffect ==
  ASSUME NEW rows, IsTable(rows, Account, 0..MaxAmount),
         NEW owner \in Account, NEW n \in Nat, CanAdd(rows, owner, n)
  PROVE  /\ IsTable(Add(rows, owner, n), Account, 0..MaxAmount)
         /\ Total(Add(rows, owner, n)) = Total(rows) + n
         /\ At(Add(rows, owner, n), owner) = At(rows, owner) + n
         /\ \A a : a # owner => At(Add(rows, owner, n), a) = At(rows, a)
<1> DEFINE balance == At(rows, owner)
<1>1. Summable(rows) /\ Total(rows) \in Nat
  BY BalancesSummable, RowWithinTotal
<1>2. balance \in Nat /\ balance + n \in Nat /\ balance + n \in 0..MaxAmount
  BY <1>1, TotalSplit, ChainAssumption DEF CanAdd
<1>3. Add(rows, owner, n) = Put(rows, owner, balance + n)
  BY DEF Add
<1> HIDE DEF balance
<1>4. IsTable(Put(rows, owner, balance + n), Account, 0..MaxAmount)
  BY <1>2, PutTyped
<1>5. Total(Put(rows, owner, balance + n)) = Total(rows) - At(rows, owner) + (balance + n)
  BY <1>1, <1>2, TotalPut
<1> QED BY <1>1, <1>2, <1>3, <1>4, <1>5, AtPut DEF balance

LEMMA SubEffect ==
  ASSUME NEW rows, IsTable(rows, Account, 0..MaxAmount),
         NEW owner, NEW n \in Nat, CanSub(rows, owner, n)
  PROVE  /\ IsTable(Sub(rows, owner, n), Account, 0..MaxAmount)
         /\ Total(Sub(rows, owner, n)) = Total(rows) - n
         /\ At(Sub(rows, owner, n), owner) = At(rows, owner) - n
         /\ \A a : a # owner => At(Sub(rows, owner, n), a) = At(rows, a)
<1> DEFINE balance == At(rows, owner)
<1>1. Summable(rows) /\ Total(rows) \in Nat
  BY BalancesSummable, RowWithinTotal
<1>2. /\ owner \in Account /\ rows[owner] = balance /\ balance \in 0..MaxAmount
      /\ balance >= n
  BY DEF CanSub, At, IsTable
<1>3. balance \in Nat /\ balance - n \in Nat /\ balance - n \in 0..MaxAmount
  BY <1>2, ChainAssumption
<1>4. Sub(rows, owner, n) = Put(rows, owner, balance - n)
  BY <1>2 DEF Sub
<1> HIDE DEF balance
<1>5. IsTable(Put(rows, owner, balance - n), Account, 0..MaxAmount)
  BY <1>2, <1>3, PutTyped
<1>6. Total(Put(rows, owner, balance - n)) = Total(rows) - At(rows, owner) + (balance - n)
  BY <1>1, <1>3, TotalPut
<1> QED BY <1>1, <1>3, <1>4, <1>5, <1>6, AtPut DEF balance

(* A known symbol names a token that exists, with a well typed row. *)
LEMMA KnownToken ==
  ASSUME TokenTypeOK, NEW c \in Contract, NEW symbol \in Symbol, Known(c, symbol)
  PROVE  /\ <<c, symbol.code>> \in TokenId
         /\ <<c, symbol.code>> \in DOMAIN stat
         /\ stat[<<c, symbol.code>>] \in StatRow
BY DEF Known, TokenTypeOK, IsTable, TokenId, Symbol

(* Replacing the balances of one token by well typed ones. *)
LEMMA AccountsTyped ==
  ASSUME TokenTypeOK, NEW t \in TokenId, NEW rows, IsTable(rows, Account, 0..MaxAmount),
         accounts' = [accounts EXCEPT ![t] = rows]
  PROVE  /\ DOMAIN accounts' = TokenId
         /\ \A u \in TokenId : IsTable(accounts'[u], Account, 0..MaxAmount)
         /\ accounts'[t] = rows
         /\ \A u \in TokenId : u # t => accounts'[u] = accounts[u]
<1>1. DOMAIN accounts = TokenId
  BY DEF TokenTypeOK
<1>2. accounts'[t] = rows /\ \A u \in TokenId : u # t => accounts'[u] = accounts[u]
  BY <1>1
<1>3. DOMAIN accounts' = TokenId
  BY <1>1
<1> QED BY <1>2, <1>3 DEF TokenTypeOK

(* Changing the supply of one token. *)
LEMMA StatTyped ==
  ASSUME TokenTypeOK, NEW t \in DOMAIN stat, NEW n \in 0..MaxAmount,
         stat' = [stat EXCEPT ![t].supply = n]
  PROVE  /\ IsTable(stat', TokenId, StatRow)
         /\ DOMAIN stat' = DOMAIN stat
         /\ stat'[t].supply = n /\ stat'[t].max_supply = stat[t].max_supply
         /\ \A u \in DOMAIN stat : u # t => stat'[u] = stat[u]
<1>1. stat \in [DOMAIN stat -> StatRow] /\ DOMAIN stat \subseteq TokenId
  BY DEF TokenTypeOK, IsTable
<1>2. [stat[t] EXCEPT !.supply = n] \in StatRow
  BY <1>1 DEF StatRow
<1>3. stat' = [stat EXCEPT ![t] = [stat[t] EXCEPT !.supply = n]]
  BY <1>1
<1>4. stat[t] \in StatRow
  BY <1>1
<1>5. stat'[t] = [stat[t] EXCEPT !.supply = n]
  BY <1>1, <1>3
<1>6. stat'[t].supply = n /\ stat'[t].max_supply = stat[t].max_supply
  BY <1>4, <1>5 DEF StatRow
<1> QED BY <1>1, <1>2, <1>3, <1>6 DEF IsTable

----------------------------------------------------------------------------
(* One lemma per action of the contract. *)

LEMMA CreateKeeps ==
  ASSUME TokenInv, NEW signer \in Account, NEW c \in Contract, NEW issuer \in Name,
         NEW maximum_supply \in Asset, Create(signer, c, issuer, maximum_supply)
  PROVE  TokenInv'
<1> DEFINE t == <<c, maximum_supply.symbol.code>>
           row == [symbol |-> maximum_supply.symbol, supply |-> 0,
                   max_supply |-> maximum_supply.amount, issuer |-> issuer]
<1>1. t \in TokenId /\ t \notin DOMAIN stat /\ accounts' = accounts
  BY DEF Create, TokenId, Asset, Symbol
<1>2. row \in StatRow
  BY ChainAssumption DEF Create, IsValid, StatRow, Asset
<1>3. stat' = Put(stat, t, row)
  BY DEF Create
<1>4. /\ IsTable(stat', TokenId, StatRow)
      /\ DOMAIN stat' = DOMAIN stat \cup {t}
      /\ stat'[t] = row
      /\ \A u \in DOMAIN stat : stat'[u] = stat[u]
  <2>1. IsTable(stat, TokenId, StatRow)
    BY DEF TokenInv, TokenTypeOK
  <2> HIDE DEF t, row
  <2>2. /\ IsTable(Put(stat, t, row), TokenId, StatRow)
        /\ DOMAIN Put(stat, t, row) = DOMAIN stat \cup {t}
        /\ Put(stat, t, row)[t] = row
        /\ \A u \in DOMAIN stat : u # t => Put(stat, t, row)[u] = stat[u]
    BY <1>1, <1>2, <2>1, PutTyped
  <2> QED BY <1>1, <1>3, <2>2
<1>5. TokenTypeOK'
  BY <1>1, <1>4 DEF TokenInv, TokenTypeOK
<1>6. Conservation'
  <2> SUFFICES ASSUME NEW u \in TokenId PROVE Supply(u)' = Total(accounts[u])
    BY <1>1 DEF Conservation
  <2>1. Supply(u)' = Supply(u)
    BY <1>1, <1>4 DEF Supply
  <2> QED BY <2>1 DEF TokenInv, Conservation
<1>7. SupplyWithinMax'
  BY <1>1, <1>2, <1>4 DEF SupplyWithinMax, TokenInv, StatRow
<1> QED BY <1>5, <1>6, <1>7 DEF TokenInv

LEMMA IssueKeeps ==
  ASSUME TokenInv, NEW signer \in Account, NEW c \in Contract, NEW to \in Name,
         NEW quantity \in Asset, Issue(signer, c, to, quantity)
  PROVE  TokenInv'
<1> DEFINE t == <<c, quantity.symbol.code>>
           n == quantity.amount
           rows == Add(accounts[t], to, n)
<1>1. TokenTypeOK /\ quantity.symbol \in Symbol /\ n \in Nat /\ to \in Account
  BY DEF TokenInv, Issue, Asset, IsValid
<1>2. t \in TokenId /\ t \in DOMAIN stat /\ stat[t] \in StatRow
  BY <1>1, KnownToken DEF Issue
<1>3. IsTable(rows, Account, 0..MaxAmount) /\ Total(rows) = Total(accounts[t]) + n
  <2>1. IsTable(accounts[t], Account, 0..MaxAmount) /\ CanAdd(accounts[t], to, n)
    BY <1>2 DEF TokenInv, TokenTypeOK, Issue
  <2> HIDE DEF t, n
  <2> QED BY <1>1, <2>1, AddEffect
<1>4. /\ stat[t].supply + n \in 0..MaxAmount
      /\ stat[t].supply + n <= stat[t].max_supply
  BY <1>1, <1>2, ChainAssumption DEF Issue, StatRow
<1>5. /\ IsTable(stat', TokenId, StatRow)
      /\ DOMAIN stat' = DOMAIN stat
      /\ stat'[t].supply = stat[t].supply + n /\ stat'[t].max_supply = stat[t].max_supply
      /\ \A u \in DOMAIN stat : u # t => stat'[u] = stat[u]
  <2>1. stat' = [stat EXCEPT ![t].supply = stat[t].supply + n]
    BY DEF Issue
  <2> HIDE DEF t, n
  <2> QED BY <1>1, <1>2, <1>4, <2>1, StatTyped
<1>6. /\ DOMAIN accounts' = TokenId
      /\ \A u \in TokenId : IsTable(accounts'[u], Account, 0..MaxAmount)
      /\ accounts'[t] = rows
      /\ \A u \in TokenId : u # t => accounts'[u] = accounts[u]
  <2>1. accounts' = [accounts EXCEPT ![t] = rows]
    BY DEF Issue
  <2> HIDE DEF t, rows
  <2> QED BY <1>1, <1>2, <1>3, <2>1, AccountsTyped
<1> HIDE DEF t, n, rows
<1>7. TokenTypeOK'
  BY <1>5, <1>6 DEF TokenTypeOK
<1>8. Conservation'
  BY <1>2, <1>3, <1>5, <1>6 DEF TokenInv, Conservation, Supply
<1>9. SupplyWithinMax'
  BY <1>4, <1>5 DEF SupplyWithinMax, TokenInv
<1> QED BY <1>7, <1>8, <1>9 DEF TokenInv

LEMMA RetireKeeps ==
  ASSUME TokenInv, NEW signer \in Account, NEW c \in Contract,
         NEW quantity \in Asset, Retire(signer, c, quantity)
  PROVE  TokenInv'
<1> DEFINE t == <<c, quantity.symbol.code>>
           n == quantity.amount
           rows == Sub(accounts[t], signer, n)
<1>1. TokenTypeOK /\ quantity.symbol \in Symbol /\ n \in Nat
  BY DEF TokenInv, Retire, Asset, IsValid
<1>2. t \in TokenId /\ t \in DOMAIN stat /\ stat[t] \in StatRow
  BY <1>1, KnownToken DEF Retire
<1>3. /\ IsTable(accounts[t], Account, 0..MaxAmount) /\ Summable(accounts[t])
      /\ CanSub(accounts[t], signer, n)
  BY <1>1, <1>2, AccountsSummable DEF TokenTypeOK, Retire
<1>4. IsTable(rows, Account, 0..MaxAmount) /\ Total(rows) = Total(accounts[t]) - n
  <2> HIDE DEF t, n
  <2> QED BY <1>1, <1>3, SubEffect
<1>5. stat[t].supply - n \in 0..MaxAmount /\ stat[t].supply - n <= stat[t].max_supply
  <2>1. n <= At(accounts[t], signer) /\ At(accounts[t], signer) \in Nat
    BY <1>1, <1>3 DEF CanSub, At, IsTable
  <2>2. At(accounts[t], signer) <= Total(accounts[t])
    BY <1>3, RowWithinTotal
  <2>3. stat[t].supply = Total(accounts[t]) /\ stat[t].supply <= stat[t].max_supply
    BY <1>2 DEF TokenInv, Conservation, Supply, SupplyWithinMax
  <2> QED BY <1>1, <1>2, <2>1, <2>2, <2>3, ChainAssumption DEF StatRow
<1>6. /\ IsTable(stat', TokenId, StatRow)
      /\ DOMAIN stat' = DOMAIN stat
      /\ stat'[t].supply = stat[t].supply - n /\ stat'[t].max_supply = stat[t].max_supply
      /\ \A u \in DOMAIN stat : u # t => stat'[u] = stat[u]
  <2>1. stat' = [stat EXCEPT ![t].supply = stat[t].supply - n]
    BY DEF Retire
  <2> HIDE DEF t, n
  <2> QED BY <1>1, <1>2, <1>5, <2>1, StatTyped
<1>7. /\ DOMAIN accounts' = TokenId
      /\ \A u \in TokenId : IsTable(accounts'[u], Account, 0..MaxAmount)
      /\ accounts'[t] = rows
      /\ \A u \in TokenId : u # t => accounts'[u] = accounts[u]
  <2>1. accounts' = [accounts EXCEPT ![t] = rows]
    BY DEF Retire
  <2> HIDE DEF t, rows
  <2> QED BY <1>1, <1>2, <1>4, <2>1, AccountsTyped
<1> HIDE DEF t, n, rows
<1>8. TokenTypeOK'
  BY <1>6, <1>7 DEF TokenTypeOK
<1>9. Conservation'
  BY <1>2, <1>4, <1>6, <1>7 DEF TokenInv, Conservation, Supply
<1>10. SupplyWithinMax'
  BY <1>5, <1>6 DEF SupplyWithinMax, TokenInv
<1> QED BY <1>8, <1>9, <1>10 DEF TokenInv

(***************************************************************************)
(* Units that move from one account to another, in a transfer or however   *)
(* else they are moved: the books stay right, and nobody else is affected. *)
(***************************************************************************)
UnitsMove(t, from, to, n) ==
  /\ t \in TokenId /\ to \in Account /\ from # to /\ n \in Nat
  /\ CanSub(accounts[t], from, n)
  /\ CanAdd(accounts[t], to, n)
  /\ UNCHANGED stat
  /\ accounts' = [accounts EXCEPT ![t] = Add(Sub(@, from, n), to, n)]

LEMMA UnitsMoved ==
  ASSUME TokenInv, NEW t, NEW from, NEW to, NEW n, UnitsMove(t, from, to, n)
  PROVE  /\ TokenInv'
         /\ At(accounts'[t], from) = At(accounts[t], from) - n
         /\ At(accounts'[t], to) = At(accounts[t], to) + n
         /\ \A a : a # from /\ a # to => At(accounts'[t], a) = At(accounts[t], a)
         /\ \A u \in TokenId : u # t => accounts'[u] = accounts[u]
<1> DEFINE rows == accounts[t]
           paid == Sub(rows, from, n)
           moved == Add(paid, to, n)
<1>0. /\ t \in TokenId /\ to \in Account /\ from # to /\ n \in Nat
      /\ CanSub(accounts[t], from, n) /\ CanAdd(accounts[t], to, n)
      /\ UNCHANGED stat
      /\ accounts' = [accounts EXCEPT ![t] = moved]
  BY DEF UnitsMove
<1>1. IsTable(rows, Account, 0..MaxAmount) /\ Total(rows) \in Nat
  BY <1>0, AccountsSummable, RowWithinTotal DEF TokenInv, TokenTypeOK
<1>2. /\ IsTable(paid, Account, 0..MaxAmount)
      /\ Total(paid) = Total(rows) - n
      /\ At(paid, from) = At(rows, from) - n
      /\ \A a : a # from => At(paid, a) = At(rows, a)
  <2> HIDE DEF rows
  <2>1. CanSub(rows, from, n)
    BY <1>0 DEF rows
  <2> QED BY <1>0, <1>1, <2>1, SubEffect
<1>3. /\ IsTable(moved, Account, 0..MaxAmount)
      /\ Total(moved) = Total(paid) + n
      /\ At(moved, to) = At(paid, to) + n
      /\ \A a : a # to => At(moved, a) = At(paid, a)
  <2>1. CanAdd(paid, to, n)
    BY <1>0, <1>2 DEF CanAdd
  <2> HIDE DEF paid
  <2> QED BY <1>0, <1>2, <2>1, AddEffect
<1>4. /\ DOMAIN accounts' = TokenId
      /\ \A u \in TokenId : IsTable(accounts'[u], Account, 0..MaxAmount)
      /\ accounts'[t] = moved
      /\ \A u \in TokenId : u # t => accounts'[u] = accounts[u]
  <2>1. TokenTypeOK
    BY DEF TokenInv
  <2> HIDE DEF moved
  <2> QED BY <1>0, <1>3, <2>1, AccountsTyped
<1> HIDE DEF paid, moved
<1>5. TokenTypeOK'
  BY <1>0, <1>4 DEF TokenInv, TokenTypeOK
<1>6. Conservation'
  <2>1. Total(moved) = Total(rows)
    BY <1>0, <1>1, <1>2, <1>3
  <2> QED BY <1>0, <1>4, <2>1 DEF TokenInv, Conservation, Supply
<1>7. SupplyWithinMax'
  BY <1>0 DEF TokenInv, SupplyWithinMax
<1>8. TokenInv'
  BY <1>5, <1>6, <1>7 DEF TokenInv
<1> QED BY <1>0, <1>2, <1>3, <1>4, <1>8

LEMMA TransferMoves ==
  ASSUME TokenInv, NEW signer \in Account, NEW c \in Contract, NEW from \in Name,
         NEW to \in Name, NEW quantity \in Asset, Transfer(signer, c, from, to, quantity)
  PROVE  UnitsMove(<<c, quantity.symbol.code>>, from, to, quantity.amount)
<1> DEFINE t == <<c, quantity.symbol.code>>
           n == quantity.amount
<1>1. TokenTypeOK /\ quantity.symbol \in Symbol /\ n \in Nat /\ to \in Account
  BY DEF TokenInv, Transfer, Asset, IsValid
<1>2. t \in TokenId
  BY <1>1, KnownToken DEF Transfer
<1>3. /\ from # to /\ CanSub(accounts[t], from, n) /\ CanAdd(accounts[t], to, n)
      /\ UNCHANGED stat
      /\ accounts' = [accounts EXCEPT ![t] = Add(Sub(@, from, n), to, n)]
  BY DEF Transfer
<1> HIDE DEF t, n
<1>4. UnitsMove(t, from, to, n)
  BY <1>1, <1>2, <1>3 DEF UnitsMove
<1> QED BY <1>4 DEF t, n

LEMMA TransferKeeps ==
  ASSUME TokenInv, NEW signer \in Account, NEW c \in Contract, NEW from \in Name,
         NEW to \in Name, NEW quantity \in Asset, Transfer(signer, c, from, to, quantity)
  PROVE  TokenInv'
<1>1. UnitsMove(<<c, quantity.symbol.code>>, from, to, quantity.amount)
  BY TransferMoves
<1> QED BY <1>1, UnitsMoved

LEMMA OpenKeeps ==
  ASSUME TokenInv, NEW signer \in Account, NEW c \in Contract, NEW owner \in Name,
         NEW symbol \in Symbol, Open(signer, c, owner, symbol)
  PROVE  TokenInv'
<1> DEFINE t == <<c, symbol.code>>
           opened == Put(accounts[t], owner, At(accounts[t], owner))
<1>1. TokenTypeOK /\ owner \in Account /\ stat' = stat
  BY DEF TokenInv, Open
<1>2. t \in TokenId
  BY <1>1, KnownToken DEF Open
<1>3. Summable(accounts[t]) /\ IsTable(accounts[t], Account, 0..MaxAmount)
  BY <1>1, <1>2, AccountsSummable DEF TokenTypeOK
<1>4. At(accounts[t], owner) \in 0..MaxAmount
  BY <1>3, ChainAssumption DEF At, IsTable
<1>5. IsTable(opened, Account, 0..MaxAmount)
  <2> HIDE DEF t
  <2> QED BY <1>1, <1>3, <1>4, PutTyped
<1>6. Total(opened) = Total(accounts[t])
  <2>1. At(accounts[t], owner) \in Nat /\ Total(accounts[t]) \in Nat
    BY <1>3, RowWithinTotal, TotalSplit
  <2> HIDE DEF t
  <2> QED BY <1>3, <2>1, TotalPut
<1>7. /\ DOMAIN accounts' = TokenId
      /\ \A u \in TokenId : IsTable(accounts'[u], Account, 0..MaxAmount)
      /\ accounts'[t] = opened
      /\ \A u \in TokenId : u # t => accounts'[u] = accounts[u]
  <2>1. accounts' = [accounts EXCEPT ![t] = opened]
    BY DEF Open
  <2> HIDE DEF t, opened
  <2> QED BY <1>1, <1>2, <1>5, <2>1, AccountsTyped
<1> QED BY <1>1, <1>2, <1>6, <1>7
        DEF TokenInv, TokenTypeOK, Conservation, Supply, SupplyWithinMax

LEMMA CloseKeeps ==
  ASSUME TokenInv, NEW signer \in Account, NEW c \in Contract, NEW owner \in Name,
         NEW symbol \in Symbol, Close(signer, c, owner, symbol)
  PROVE  TokenInv'
<1> DEFINE t == <<c, symbol.code>>
           closed == Erase(accounts[t], owner)
<1>1. TokenTypeOK /\ stat' = stat /\ t \in TokenId
  BY DEF TokenInv, Close, TokenId, Symbol
<1>2. Summable(accounts[t]) /\ IsTable(accounts[t], Account, 0..MaxAmount)
  BY <1>1, AccountsSummable DEF TokenTypeOK
<1>3. At(accounts[t], owner) = 0
  BY DEF Close, At
<1>4. IsTable(closed, Account, 0..MaxAmount)
  <2> HIDE DEF t
  <2> QED BY <1>2, EraseTyped
<1>5. Total(closed) = Total(accounts[t])
  <2>1. Total(accounts[t]) \in Nat
    BY <1>2, RowWithinTotal
  <2> HIDE DEF t
  <2> QED BY <1>2, <1>3, <2>1, TotalErase
<1>6. /\ DOMAIN accounts' = TokenId
      /\ \A u \in TokenId : IsTable(accounts'[u], Account, 0..MaxAmount)
      /\ accounts'[t] = closed
      /\ \A u \in TokenId : u # t => accounts'[u] = accounts[u]
  <2>1. accounts' = [accounts EXCEPT ![t] = closed]
    BY DEF Close
  <2> HIDE DEF t, closed
  <2> QED BY <1>1, <1>4, <2>1, AccountsTyped
<1> QED BY <1>1, <1>5, <1>6
        DEF TokenInv, TokenTypeOK, Conservation, Supply, SupplyWithinMax

----------------------------------------------------------------------------

LEMMA TokenInvInit == TokenInit => TokenInv
<1> SUFFICES ASSUME TokenInit PROVE TokenInv
  OBVIOUS
<1>1. TokenTypeOK
  BY DEF TokenInit, TokenTypeOK, IsTable, NoRows
<1>2. Conservation
  BY TotalNoRows DEF TokenInit, Conservation, Supply, NoRows
<1>3. SupplyWithinMax
  BY DEF TokenInit, SupplyWithinMax, NoRows
<1> QED BY <1>1, <1>2, <1>3 DEF TokenInv

LEMMA TokenInvStep == TokenInv /\ [TokenNext]_tokenVars => TokenInv'
<1> SUFFICES ASSUME TokenInv, [TokenNext]_tokenVars PROVE TokenInv'
  OBVIOUS
<1>1. CASE TokenNext
  BY <1>1, CreateKeeps, IssueKeeps, RetireKeeps, TransferKeeps, OpenKeeps, CloseKeeps
     DEF TokenNext
<1>2. CASE UNCHANGED tokenVars
  BY <1>2 DEF tokenVars, TokenInv, TokenTypeOK, Conservation, Supply, SupplyWithinMax
<1> QED BY <1>1, <1>2

LEMMA TokenInvariant == TokenSpec => []TokenInv
<1> QED BY TokenInvInit, TokenInvStep, PTL DEF TokenSpec

(***************************************************************************)
(* Every stored supply, maximum and balance lies within what an asset can  *)
(* hold, in every state of every deployment.                               *)
(***************************************************************************)
THEOREM TokenTypeCorrect == TokenSpec => []TokenTypeOK
<1>1. TokenInv => TokenTypeOK
  BY DEF TokenInv
<1> QED BY <1>1, TokenInvariant, PTL

(***************************************************************************)
(* The reported supply of a token is always the sum of its balances.       *)
(***************************************************************************)
THEOREM TokenConserved == TokenSpec => []Conservation
<1>1. TokenInv => Conservation
  BY DEF TokenInv
<1> QED BY <1>1, TokenInvariant, PTL

(***************************************************************************)
(* No sequence of issues and retires takes a supply above its maximum.     *)
(***************************************************************************)
THEOREM TokenSupplyBounded == TokenSpec => []SupplyWithinMax
<1>1. TokenInv => SupplyWithinMax
  BY DEF TokenInv
<1> QED BY <1>1, TokenInvariant, PTL

(***************************************************************************)
(* The overflow check of asset += inside add_balance never fails, so it is *)
(* never the reason a transfer is refused: both balances are part of one   *)
(* supply, and that is within the maximum.                                 *)
(***************************************************************************)
THEOREM TokenCreditsNeverOverflow == TokenSpec => []CreditsNeverOverflow
<1>1. TokenInv => CreditsNeverOverflow
  <2> SUFFICES ASSUME TokenInv, NEW t \in TokenId,
                      NEW a \in DOMAIN accounts[t], NEW b \in DOMAIN accounts[t], a # b
               PROVE  accounts[t][a] + accounts[t][b] <= MaxAmount
    BY DEF CreditsNeverOverflow
  <2>1. Summable(accounts[t])
    BY AccountsSummable DEF TokenInv
  <2>2. accounts[t][a] + accounts[t][b] <= Total(accounts[t])
    BY <2>1, TwoRowsWithinTotal DEF At
  <2>3. Total(accounts[t]) = Supply(t)
    BY DEF TokenInv, Conservation
  <2>4. Supply(t) \in 0..MaxAmount
    BY ChainAssumption DEF TokenInv, TokenTypeOK, IsTable, StatRow, Supply
  <2>5. accounts[t][a] \in Nat /\ accounts[t][b] \in Nat
    BY <2>1 DEF Summable
  <2> QED BY <2>2, <2>3, <2>4, <2>5, ChainAssumption
<1> QED BY <1>1, TokenInvariant, PTL

----------------------------------------------------------------------------
(***************************************************************************)
(* The contract implements the abstract currency: issue mints, retire      *)
(* burns, transfer moves, and create, open and close change nothing that a *)
(* holder can see.                                                         *)
(***************************************************************************)

\* The two variables of the currency, as the refinement defines them.
HeldIn(acc) == [t \in TokenId |-> [a \in Account |-> At(acc[t], a)]]

VisibleSupply == [t \in TokenId |-> Supply(t)]

(* One holder's units change. *)
LEMMA HeldChange ==
  ASSUME NEW t \in TokenId, NEW h \in Account, NEW n,
         At(accounts'[t], h) = n,
         \A a : a # h => At(accounts'[t], a) = At(accounts[t], a),
         \A u \in TokenId : u # t => accounts'[u] = accounts[u]
  PROVE  HeldIn(accounts') = [HeldIn(accounts) EXCEPT ![t][h] = n]
<1>1. [HeldIn(accounts) EXCEPT ![t][h] = n]
        = [u \in TokenId |-> IF u = t THEN [HeldIn(accounts)[t] EXCEPT ![h] = n]
                                      ELSE HeldIn(accounts)[u]]
  BY DEF HeldIn
<1>2. [HeldIn(accounts)[t] EXCEPT ![h] = n] = [a \in Account |-> At(accounts'[t], a)]
  BY DEF HeldIn
<1> QED BY <1>1, <1>2 DEF HeldIn

(* The supply of one token changes. *)
LEMMA SupplyChange ==
  ASSUME TokenTypeOK, NEW t \in DOMAIN stat, NEW n \in 0..MaxAmount,
         stat' = [stat EXCEPT ![t].supply = n]
  PROVE  VisibleSupply' = [VisibleSupply EXCEPT ![t] = n]
<1>1. /\ DOMAIN stat' = DOMAIN stat
      /\ stat'[t].supply = n
      /\ \A u \in DOMAIN stat : u # t => stat'[u] = stat[u]
  BY StatTyped
<1> QED BY <1>1 DEF VisibleSupply, Supply

LEMMA IssueMints ==
  ASSUME TokenInv, NEW signer \in Account, NEW c \in Contract, NEW to \in Name,
         NEW quantity \in Asset, Issue(signer, c, to, quantity)
  PROVE  Visible!Next
<1> DEFINE t == <<c, quantity.symbol.code>>
           n == quantity.amount
           supply == stat[t].supply + n
           balance == At(accounts[t], to) + n
<1>1. /\ TokenTypeOK /\ quantity.symbol \in Symbol /\ n \in 1..MaxAmount /\ to \in Account
      /\ Known(c, quantity.symbol)
  BY ChainAssumption DEF TokenInv, Issue, Asset, IsValid
<1>2. t \in TokenId /\ t \in DOMAIN stat /\ stat[t] \in StatRow
  BY <1>1, KnownToken
<1>3. /\ CanAdd(accounts[t], to, n) /\ supply <= stat[t].max_supply
      /\ stat' = [stat EXCEPT ![t].supply = supply]
      /\ accounts' = [accounts EXCEPT ![t] = Add(accounts[t], to, n)]
  BY <1>1, <1>2 DEF Issue, StatRow
<1>4. supply \in 0..MaxAmount
  BY <1>1, <1>2, <1>3, ChainAssumption DEF StatRow
<1>5. /\ At(accounts'[t], to) = balance
      /\ \A a : a # to => At(accounts'[t], a) = At(accounts[t], a)
      /\ \A u \in TokenId : u # t => accounts'[u] = accounts[u]
  <2> DEFINE rows == Add(accounts[t], to, n)
  <2>1. IsTable(accounts[t], Account, 0..MaxAmount)
    BY <1>1, <1>2 DEF TokenTypeOK
  <2> HIDE DEF t, n
  <2>2. /\ IsTable(rows, Account, 0..MaxAmount)
        /\ At(rows, to) = At(accounts[t], to) + n
        /\ \A a : a # to => At(rows, a) = At(accounts[t], a)
    BY <1>1, <1>3, <2>1, AddEffect
  <2> HIDE DEF rows
  <2>3. accounts'[t] = rows /\ \A u \in TokenId : u # t => accounts'[u] = accounts[u]
    <3>1. accounts' = [accounts EXCEPT ![t] = rows]
      BY <1>3 DEF rows
    <3> QED BY <1>1, <1>2, <2>2, <3>1, AccountsTyped
  <2> QED BY <2>2, <2>3
<1>6. HeldIn(accounts') = [HeldIn(accounts) EXCEPT ![t][to] = balance]
  <2> HIDE DEF t, balance
  <2> QED BY <1>1, <1>2, <1>5, HeldChange
<1>7. VisibleSupply' = [VisibleSupply EXCEPT ![t] = supply]
  <2> HIDE DEF t, supply
  <2> QED BY <1>1, <1>2, <1>3, <1>4, SupplyChange
<1>8. HeldIn(accounts)[t][to] = At(accounts[t], to) /\ VisibleSupply[t] = stat[t].supply
  BY <1>1, <1>2 DEF HeldIn, VisibleSupply, Supply
<1>9. Visible!Mint(t, to, n)
  <2> HIDE DEF t, n
  <2>1. VisibleSupply[t] + n <= MaxAmount
    BY <1>4, <1>8 DEF n
  <2> QED BY <1>6, <1>7, <1>8, <2>1 DEF Visible!Mint, HeldIn, VisibleSupply
<1> QED BY <1>1, <1>2, <1>9 DEF Visible!Next

LEMMA RetireBurns ==
  ASSUME TokenInv, NEW signer \in Account, NEW c \in Contract,
         NEW quantity \in Asset, Retire(signer, c, quantity)
  PROVE  Visible!Next
<1> DEFINE t == <<c, quantity.symbol.code>>
           n == quantity.amount
           supply == stat[t].supply - n
           balance == At(accounts[t], signer) - n
<1>1. /\ TokenTypeOK /\ quantity.symbol \in Symbol /\ n \in 1..MaxAmount
      /\ Known(c, quantity.symbol)
  BY ChainAssumption DEF TokenInv, Retire, Asset, IsValid
<1>2. t \in TokenId /\ t \in DOMAIN stat /\ stat[t] \in StatRow
  BY <1>1, KnownToken
<1>3. /\ CanSub(accounts[t], signer, n)
      /\ stat' = [stat EXCEPT ![t].supply = supply]
      /\ accounts' = [accounts EXCEPT ![t] = Sub(accounts[t], signer, n)]
  BY <1>1, <1>2 DEF Retire
<1>4. n <= At(accounts[t], signer) /\ supply \in 0..MaxAmount
  <2>1. n <= At(accounts[t], signer)
    BY <1>3 DEF CanSub, At
  <2>2. Summable(accounts[t])
    BY <1>1, <1>2, AccountsSummable
  <2>3. At(accounts[t], signer) <= Total(accounts[t]) /\ At(accounts[t], signer) \in Nat
    BY <2>2, RowWithinTotal, TotalSplit
  <2>4. stat[t].supply = Total(accounts[t])
    BY <1>2 DEF TokenInv, Conservation, Supply
  <2> QED BY <1>1, <1>2, <2>1, <2>3, <2>4, ChainAssumption DEF StatRow
<1>5. /\ At(accounts'[t], signer) = balance
      /\ \A a : a # signer => At(accounts'[t], a) = At(accounts[t], a)
      /\ \A u \in TokenId : u # t => accounts'[u] = accounts[u]
  <2> DEFINE rows == Sub(accounts[t], signer, n)
  <2>1. IsTable(accounts[t], Account, 0..MaxAmount)
    BY <1>1, <1>2 DEF TokenTypeOK
  <2> HIDE DEF t, n
  <2>2. /\ IsTable(rows, Account, 0..MaxAmount)
        /\ At(rows, signer) = At(accounts[t], signer) - n
        /\ \A a : a # signer => At(rows, a) = At(accounts[t], a)
    BY <1>1, <1>3, <2>1, SubEffect
  <2> HIDE DEF rows
  <2>3. accounts'[t] = rows /\ \A u \in TokenId : u # t => accounts'[u] = accounts[u]
    <3>1. accounts' = [accounts EXCEPT ![t] = rows]
      BY <1>3 DEF rows
    <3> QED BY <1>1, <1>2, <2>2, <3>1, AccountsTyped
  <2> QED BY <2>2, <2>3
<1>6. HeldIn(accounts') = [HeldIn(accounts) EXCEPT ![t][signer] = balance]
  <2> HIDE DEF t, balance
  <2> QED BY <1>2, <1>5, HeldChange
<1>7. VisibleSupply' = [VisibleSupply EXCEPT ![t] = supply]
  <2> HIDE DEF t, supply
  <2> QED BY <1>1, <1>2, <1>3, <1>4, SupplyChange
<1>8. HeldIn(accounts)[t][signer] = At(accounts[t], signer) /\ VisibleSupply[t] = stat[t].supply
  BY <1>2 DEF HeldIn, VisibleSupply, Supply
<1>9. Visible!Burn(t, signer, n)
  <2> HIDE DEF t, n
  <2>1. HeldIn(accounts)[t][signer] >= n
    <3>1. n \in Int /\ At(accounts[t], signer) \in Int
      <4>1. Summable(accounts[t])
        BY <1>1, <1>2, AccountsSummable
      <4> QED BY <1>1, <4>1, TotalSplit
    <3> QED BY <1>4, <1>8, <3>1
  <2> QED BY <1>6, <1>7, <1>8, <2>1 DEF Visible!Burn, HeldIn, VisibleSupply
<1> QED BY <1>1, <1>2, <1>9 DEF Visible!Next

LEMMA TransferIsMove ==
  ASSUME TokenInv, NEW signer \in Account, NEW c \in Contract, NEW from \in Name,
         NEW to \in Name, NEW quantity \in Asset, Transfer(signer, c, from, to, quantity)
  PROVE  Visible!Next
<1> DEFINE t == <<c, quantity.symbol.code>>
           n == quantity.amount
<1>1. n \in 1..MaxAmount /\ from \in Account
  BY ChainAssumption DEF Transfer, Asset, IsValid
<1>2. UnitsMove(t, from, to, n)
  BY TransferMoves
<1> HIDE DEF t, n
<1>3. /\ t \in TokenId /\ to \in Account /\ from # to /\ CanSub(accounts[t], from, n)
      /\ stat' = stat
  BY <1>2 DEF UnitsMove
<1>4. /\ At(accounts'[t], from) = At(accounts[t], from) - n
      /\ At(accounts'[t], to) = At(accounts[t], to) + n
      /\ \A a : a # from /\ a # to => At(accounts'[t], a) = At(accounts[t], a)
      /\ \A u \in TokenId : u # t => accounts'[u] = accounts[u]
  BY <1>2, UnitsMoved
<1>5. HeldIn(accounts') = [HeldIn(accounts) EXCEPT ![t][from] = @ - n, ![t][to] = @ + n]
  <2> DEFINE held == HeldIn(accounts)
             row == held[t]
             moved == [row EXCEPT ![from] = @ - n, ![to] = @ + n]
  <2>1. row = [a \in Account |-> At(accounts[t], a)]
    BY <1>3 DEF HeldIn
  <2>2. moved = [a \in Account |-> At(accounts'[t], a)]
    BY <1>1, <1>3, <1>4, <2>1
  <2>3. DOMAIN held = TokenId
    BY DEF HeldIn
  <2>4. [held EXCEPT ![t][from] = @ - n, ![t][to] = @ + n] = [held EXCEPT ![t] = moved]
    <3> HIDE DEF held
    <3> QED BY <1>3, <2>3
  <2>5. HeldIn(accounts') = [held EXCEPT ![t] = moved]
    <3> HIDE DEF moved
    <3> QED BY <1>3, <1>4, <2>2 DEF HeldIn
  <2> QED BY <2>4, <2>5
<1>6. HeldIn(accounts)[t][from] >= n
  <2>1. At(accounts[t], from) >= n
    BY <1>3 DEF CanSub, At
  <2> QED BY <1>1, <1>3, <2>1 DEF HeldIn
<1>7. VisibleSupply' = VisibleSupply
  BY <1>3 DEF VisibleSupply, Supply
<1>8. Visible!Move(t, from, to, n)
  BY <1>3, <1>5, <1>6, <1>7 DEF Visible!Move, HeldIn, VisibleSupply
<1> QED BY <1>1, <1>3, <1>8 DEF Visible!Next

(* What nobody can see: no holder's units and no supply change. *)
LEMMA NothingVisible ==
  ASSUME \A t \in TokenId : /\ \A a \in Account : At(accounts'[t], a) = At(accounts[t], a)
                            /\ Supply(t)' = Supply(t)
  PROVE  UNCHANGED Visible!vars
<1>1. HeldIn(accounts') = HeldIn(accounts) /\ VisibleSupply' = VisibleSupply
  BY DEF HeldIn, VisibleSupply
<1> QED BY <1>1 DEF Visible!vars, HeldIn, VisibleSupply

LEMMA CreateInvisible ==
  ASSUME TokenInv, NEW signer \in Account, NEW c \in Contract, NEW issuer \in Name,
         NEW maximum_supply \in Asset, Create(signer, c, issuer, maximum_supply)
  PROVE  UNCHANGED Visible!vars
<1> DEFINE t == <<c, maximum_supply.symbol.code>>
           row == [symbol |-> maximum_supply.symbol, supply |-> 0,
                   max_supply |-> maximum_supply.amount, issuer |-> issuer]
<1>1. t \notin DOMAIN stat /\ stat' = Put(stat, t, row) /\ accounts' = accounts
  BY DEF Create
<1>2. row.supply = 0
  OBVIOUS
<1> HIDE DEF t, row
<1>3. \A u \in TokenId : Supply(u)' = Supply(u)
  BY <1>1, <1>2 DEF Supply, Put
<1> QED BY <1>1, <1>3, NothingVisible

(* A row that is there with nothing in it counts as no row. *)
LEMMA OpenInvisible ==
  ASSUME TokenInv, NEW signer \in Account, NEW c \in Contract, NEW owner \in Name,
         NEW symbol \in Symbol, Open(signer, c, owner, symbol)
  PROVE  UNCHANGED Visible!vars
<1> DEFINE t == <<c, symbol.code>>
<1>1. /\ stat' = stat /\ DOMAIN accounts = TokenId
      /\ accounts' = [accounts EXCEPT ![t] = Put(@, owner, At(@, owner))]
  BY DEF Open, TokenInv, TokenTypeOK
<1> HIDE DEF t
<1>2. \A u \in TokenId, a \in Account : At(accounts'[u], a) = At(accounts[u], a)
  BY <1>1, AtPut
<1> QED BY <1>1, <1>2, NothingVisible DEF Supply

LEMMA CloseInvisible ==
  ASSUME TokenInv, NEW signer \in Account, NEW c \in Contract, NEW owner \in Name,
         NEW symbol \in Symbol, Close(signer, c, owner, symbol)
  PROVE  UNCHANGED Visible!vars
<1> DEFINE t == <<c, symbol.code>>
<1>1. /\ stat' = stat /\ DOMAIN accounts = TokenId /\ At(accounts[t], owner) = 0
      /\ accounts' = [accounts EXCEPT ![t] = Erase(@, owner)]
  BY DEF Close, TokenInv, TokenTypeOK, At
<1> HIDE DEF t
<1>2. \A u \in TokenId, a \in Account : At(accounts'[u], a) = At(accounts[u], a)
  BY <1>1, AtErase
<1> QED BY <1>1, <1>2, NothingVisible DEF Supply

LEMMA InitIsCurrencyInit == TokenInit => Visible!Init
<1> SUFFICES ASSUME TokenInit PROVE Visible!Init
  OBVIOUS
<1>1. \A t \in TokenId : Supply(t) = 0 /\ \A a \in Account : At(accounts[t], a) = 0
  BY DEF TokenInit, Supply, At, NoRows
<1> QED BY <1>1 DEF Visible!Init

LEMMA StepIsCurrencyStep == TokenInv /\ [TokenNext]_tokenVars => [Visible!Next]_Visible!vars
<1> SUFFICES ASSUME TokenInv, [TokenNext]_tokenVars PROVE [Visible!Next]_Visible!vars
  OBVIOUS
<1>1. CASE TokenNext
  BY <1>1, CreateInvisible, IssueMints, RetireBurns, TransferIsMove, OpenInvisible, CloseInvisible
     DEF TokenNext
<1>2. CASE UNCHANGED tokenVars
  BY <1>2, NothingVisible DEF tokenVars, Supply
<1> QED BY <1>1, <1>2

(***************************************************************************)
(* Whatever its users do, the contract is the currency its users expect:   *)
(* for any number of tokens and holders and any limit on amounts.          *)
(***************************************************************************)
THEOREM TokenIsCurrency == TokenSpec => ImplementsCurrency
<1> QED BY TokenInvariant, InitIsCurrencyInit, StepIsCurrencyStep, PTL
        DEF TokenSpec, ImplementsCurrency, Visible!Spec
=============================================================================
