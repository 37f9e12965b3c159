-------------------------- MODULE DaoOffersProofs ---------------------------
(***************************************************************************)
(* The market of offers: proofs for any number of organizations, tokens,   *)
(* offers and users, and for quantities and prices of any sign.            *)
(*                                                                         *)
(* The first part is about the tables of offers, the second about the      *)
(* balances they settle, the third about the tokens an offer was made in.  *)
(***************************************************************************)
EXTENDS DaoTerms, DaoLedgerProofs

\* The tables of offers keep their types.
OffersTabled ==
  /\ DOMAIN offers = DaoId
  /\ \A d \in DaoId : IsTable(offers[d], 0..MaxOfferId, OfferRow)
  /\ now \in 0..MaxTime

\* An offer names a row of the tokens table, also when its organization is gone.
OfferedTokensKept ==
  \A d \in DaoId : \A id \in DOMAIN offers[d] : offers[d][id].token_idx \in DOMAIN tokens[d]

(***************************************************************************)
(* SingleBuyOffer is kept by the search of a buy order running on into the *)
(* buy offers, whose ranks are compared by the tokens they are for: that   *)
(* they are rows of the tokens table, OfferedTokensKept, is needed to know *)
(* that the token indices are small.                                       *)
(***************************************************************************)
BookInv ==
  /\ RegistryInv
  /\ OffersTabled
  /\ OfferedTokensKept
  /\ AllOrNothing
  /\ SingleBuyOffer

----------------------------------------------------------------------------
(* What the actions of the ledger do to the registry. *)

LEMMA LedgerIsRegistryStep == LedgerNext => [RegistryNext]_registryVars
<1> SUFFICES ASSUME LedgerNext PROVE [RegistryNext]_registryVars
  OBVIOUS
<1>1. CASE TokenActivity
  BY <1>1 DEF TokenActivity
<1>2. CASE EditDao \/ SetConfig
  BY <1>2 DEF RegistryNext
<1>3. ASSUME NEW signer \in Account, NEW users \in SUBSET Name, Reset(signer, users)
      PROVE  RegistryNext
  BY <1>3 DEF Reset, RegistryNext
<1>4. ASSUME NEW signer \in Account, NEW dao \in Name, NEW creator \in Name, NEW ipfs \in Ipfs,
             NEW bill \in ResourceBills(dao), FoundDao(signer, dao, creator, ipfs, bill)
      PROVE  RegistryNext
  BY <1>4 DEF FoundDao, RegistryNext
<1>5. ASSUME NEW account \in Account, NEW c \in Contract, NEW quantity \in Asset,
             \/ \E dao_id \in 0..MaxDaoId : Deposit(account, c, quantity, dao_id)
             \/ Withdraw(account, c, quantity)
      PROVE  UNCHANGED registryVars
  BY <1>5 DEF Deposit, Withdraw
<1> QED BY <1>1, <1>2, <1>3, <1>4, <1>5 DEF LedgerNext

(* Rows of the tokens table are never erased. *)
LEMMA TokensGrow ==
  ASSUME RegistryInv, [RegistryNext]_registryVars
  PROVE  \A d \in DaoId : DOMAIN tokens[d] \subseteq DOMAIN tokens'[d]
<1>1. DOMAIN tokens = DaoId
  BY DEF RegistryInv, RegistryTypeOK
<1>2. ASSUME NEW signer, NEW dao_id, NEW token_contract, NEW token_symbol,
             AddToken(signer, dao_id, token_contract, token_symbol)
      PROVE  \A d \in DaoId : DOMAIN tokens[d] \subseteq DOMAIN tokens'[d]
  BY <1>1, <1>2 DEF AddToken, Put
<1>3. CASE UNCHANGED tokens
  BY <1>3
<1>4. [RegistryNext]_registryVars =>
        \/ UNCHANGED tokens
        \/ \E signer, dao_id, token_contract, token_symbol :
             AddToken(signer, dao_id, token_contract, token_symbol)
  BY DEF RegistryNext, EditDao, SetConfig, ResetDaos, CreateDao, Update, DelOrg, UpsertAttrs,
         DelAttrs, SetParam, ResetSttngs, registryVars
<1> QED BY <1>2, <1>3, <1>4

----------------------------------------------------------------------------
(* What the actions of the market do to the tables of offers: they store a *)
(* new active offer for which no match was found, close an active offer,   *)
(* or remove one.                                                          *)

Stores(d, id, row) ==
  /\ d \in DaoId /\ id \in 0..MaxOfferId /\ id \notin DOMAIN offers[d]
  /\ row \in OfferRow
  /\ row.status = Active /\ row.available_quantity = row.total_quantity
  /\ row.token_idx \in DOMAIN tokens[d]
  /\ Candidates(d, row.type, row.token_idx, row.price) = {}
  /\ offers' = [offers EXCEPT ![d] = Put(@, id, row)]

Closes(d, id) == d \in DaoId /\ IsActive(d, id) /\ CloseOffer(d, id)

Removes(d, id) ==
  /\ d \in DaoId /\ id \in DOMAIN offers[d]
  /\ offers' = [offers EXCEPT ![d] = Erase(@, id)]

LEMMA AcceptCloses ==
  ASSUME NEW signer, NEW d \in DaoId, NEW account, NEW offer_id,
         AcceptOffer(signer, d, account, offer_id)
  PROVE  Closes(d, Resolved(offer_id)) /\ UNCHANGED registryVars /\ UNCHANGED now
BY DEF AcceptOffer, ResolveBuyOffer, ResolveSellOffer, Closes

(* createoffer's token is a row of the tokens table. *)
LEMMA TokenIdxOf ==
  ASSUME RegistryInv, NEW d \in DaoId, NEW symbol, TokenIds(d, symbol) # {}
  PROVE  /\ Min(TokenIds(d, symbol)) \in DOMAIN tokens[d]
         /\ Min(TokenIds(d, symbol)) \in TokenIdx
<1>1. DOMAIN tokens[d] \subseteq TokenIdx /\ TokenIdx \subseteq Nat
  BY RegistryAssumption DEF RegistryInv, RegistryTypeOK, IsTable, TokenIdx
<1>2. TokenIds(d, symbol) \subseteq DOMAIN tokens[d]
  BY DEF TokenIds
<1>3. Min(TokenIds(d, symbol)) \in TokenIds(d, symbol)
  BY <1>1, <1>2, MinIsLeast
<1> QED BY <1>1, <1>2, <1>3

LEMMA CreateStoresOrCloses ==
  ASSUME RegistryInv, OffersTabled, NEW signer, NEW d \in DaoId, NEW creator \in Account,
         NEW quantity \in OfferAsset, NEW price_per_unit \in OfferAsset, NEW type \in {Sell, Buy},
         CreateOffer(signer, d, creator, quantity, price_per_unit, type)
  PROVE  /\ (\E id, row : Stores(d, id, row)) \/ (\E id : Closes(d, id))
         /\ UNCHANGED registryVars /\ UNCHANGED now
<1> DEFINE token_idx == Min(TokenIds(d, quantity.symbol))
           candidates == Candidates(d, type, token_idx, price_per_unit.amount)
           rows == offers[d]
           id == NextKey(rows)
           row == [creator |-> creator, symbol |-> quantity.symbol,
                   price_symbol |-> price_per_unit.symbol,
                   available_quantity |-> quantity.amount, total_quantity |-> quantity.amount,
                   price |-> price_per_unit.amount, status |-> Active, type |-> type,
                   token_idx |-> token_idx, creation_date |-> now]
<1>1. token_idx \in DOMAIN tokens[d] /\ token_idx \in TokenIdx
  BY TokenIdxOf DEF CreateOffer
<1>2. CASE candidates = {} /\ StoreOffer(d, creator, quantity, price_per_unit, token_idx, type)
  <2>1. /\ id <= MaxOfferId /\ offers' = [offers EXCEPT ![d] = Put(@, id, row)]
        /\ UNCHANGED ledgerVars /\ UNCHANGED now
    BY <1>2 DEF StoreOffer
  <2>2. /\ quantity.symbol \in Symbol /\ price_per_unit.symbol \in Symbol
        /\ quantity.amount \in OfferAmount /\ price_per_unit.amount \in OfferAmount
        /\ quantity.amount \in Int /\ now \in 0..MaxTime
    <3>1. OfferAmount \subseteq Int
      BY OffersAssumption DEF Word
    <3>2. now \in 0..MaxTime
      BY DEF OffersTabled
    <3>3. /\ quantity.symbol \in Symbol /\ price_per_unit.symbol \in Symbol
          /\ quantity.amount \in OfferAmount /\ price_per_unit.amount \in OfferAmount
      BY DEF OfferAsset
    <3> QED BY <3>1, <3>2, <3>3
  <2>3. row \in OfferRow
    <3> HIDE DEF token_idx
    <3> QED BY <1>1, <2>2 DEF OfferRow, Active
  <2>4. id \in 0..MaxOfferId /\ id \notin DOMAIN rows
    <3>1. DOMAIN rows \subseteq 0..MaxOfferId
      BY DEF OffersTabled, IsTable
    <3> HIDE DEF rows
    <3>2. id \in 0..MaxOfferId + 1 /\ \A j \in DOMAIN rows : j < id
      BY <3>1, OffersAssumption, NextKeyFresh
    <3>3. \A j \in DOMAIN rows : j \in Int
      BY <3>1
    <3> QED BY <2>1, <3>2, <3>3, OffersAssumption
  <2>5. /\ row.status = Active /\ row.available_quantity = row.total_quantity
        /\ row.token_idx = token_idx /\ row.type = type /\ row.price = price_per_unit.amount
    OBVIOUS
  <2> HIDE DEF token_idx, id, row
  <2>6. Stores(d, id, row)
    BY <1>1, <1>2, <2>1, <2>3, <2>4, <2>5 DEF Stores
  <2> QED BY <2>1, <2>6 DEF ledgerVars
<1>3. CASE AcceptOffer(creator, d, creator, First(offers[d], candidates))
  BY <1>3, AcceptCloses
<1> QED BY <1>2, <1>3 DEF CreateOffer

(* Every step of the composition, for the tables of offers and the registry. *)
LEMMA StepOfBook ==
  ASSUME RegistryInv, OffersTabled, [OffersNext]_offersVars
  PROVE  /\ \/ \E d, id, row : Stores(d, id, row)
            \/ \E d, id : Closes(d, id) \/ Removes(d, id)
            \/ UNCHANGED offers
         /\ [RegistryNext]_registryVars
         /\ now' \in 0..MaxTime
<1>1. now \in 0..MaxTime /\ MaxTime \in Nat
  BY OffersAssumption DEF OffersTabled
<1>2. ASSUME NEW signer \in Account, NEW d \in DaoId,
             NEW quantity \in OfferAsset, NEW price_per_unit \in OfferAsset,
             NEW type \in {Sell, Buy}, CreateOffer(signer, d, signer, quantity, price_per_unit, type)
      PROVE  /\ (\E id, row : Stores(d, id, row)) \/ (\E id : Closes(d, id))
             /\ UNCHANGED registryVars /\ UNCHANGED now
  BY <1>2, CreateStoresOrCloses
<1>3. ASSUME NEW signer \in Account, NEW d \in DaoId, NEW offer_id,
             RemoveOffer(signer, d, offer_id)
      PROVE  Removes(d, offer_id) /\ UNCHANGED registryVars /\ UNCHANGED now
  BY <1>3 DEF RemoveOffer, Removes, ledgerVars
<1>4. CASE Tick
  BY <1>1, <1>4 DEF Tick, ledgerVars
<1>5. CASE LedgerNext /\ UNCHANGED <<offers, now>>
  BY <1>1, <1>5, LedgerIsRegistryStep
<1>6. CASE UNCHANGED offersVars
  BY <1>1, <1>6 DEF offersVars, ledgerVars
<1>7. CASE \E signer \in Account, dao_id \in DaoId :
             \/ \E quantity, price_per_unit \in OfferAsset, type \in {Sell, Buy} :
                  CreateOffer(signer, dao_id, signer, quantity, price_per_unit, type)
             \/ \E offer_id \in 0..MaxOfferId :
                  \/ RemoveOffer(signer, dao_id, offer_id)
                  \/ AcceptOffer(signer, dao_id, signer, offer_id)
  BY <1>1, <1>2, <1>3, <1>7, AcceptCloses
<1> QED BY <1>4, <1>5, <1>6, <1>7 DEF OffersNext, MarketNext

----------------------------------------------------------------------------
(* What those three do to the offers that were there. *)

LEMMA StoresEffect ==
  ASSUME OffersTabled, NEW d, NEW id, NEW row, Stores(d, id, row)
  PROVE  /\ DOMAIN offers' = DaoId
         /\ \A e \in DaoId : IsTable(offers'[e], 0..MaxOfferId, OfferRow)
         /\ DOMAIN offers'[d] = DOMAIN offers[d] \cup {id} /\ offers'[d][id] = row
         /\ \A i \in DOMAIN offers[d] : offers'[d][i] = offers[d][i]
         /\ \A e \in DaoId : e # d => offers'[e] = offers[e]
<1> DEFINE rows == offers[d]
           new == Put(rows, id, row)
<1>1. /\ d \in DaoId /\ id \in 0..MaxOfferId /\ id \notin DOMAIN rows /\ row \in OfferRow
      /\ offers' = [offers EXCEPT ![d] = new]
      /\ DOMAIN offers = DaoId /\ IsTable(rows, 0..MaxOfferId, OfferRow)
  BY DEF Stores, OffersTabled
<1> HIDE DEF rows
<1>2. IsTable(new, 0..MaxOfferId, OfferRow)
  BY <1>1, PutTyped
<1>3. DOMAIN new = DOMAIN rows \cup {id} /\ new[id] = row /\ \A i \in DOMAIN rows : new[i] = rows[i]
  BY <1>1 DEF Put
<1> HIDE DEF new
<1>4. /\ offers'[d] = new /\ DOMAIN offers' = DaoId
      /\ \A e \in DaoId : e # d => offers'[e] = offers[e]
  BY <1>1
<1> QED BY <1>2, <1>3, <1>4 DEF OffersTabled, rows

\* An offer as it is left when it is settled.
Shut(row) == [row EXCEPT !.available_quantity = 0, !.status = Closed]

LEMMA ShutRow ==
  ASSUME NEW row \in OfferRow
  PROVE  /\ Shut(row) \in OfferRow
         /\ Shut(row).available_quantity = 0 /\ Shut(row).status = Closed
         /\ Shut(row).type = row.type /\ Shut(row).token_idx = row.token_idx
<1>1. [row EXCEPT !.available_quantity = 0] \in OfferRow
  BY DEF OfferRow
<1>2. Shut(row) = [[row EXCEPT !.available_quantity = 0] EXCEPT !.status = Closed]
  BY DEF Shut
<1> QED BY <1>1, <1>2 DEF OfferRow

LEMMA ClosesEffect ==
  ASSUME OffersTabled, NEW d, NEW id, Closes(d, id)
  PROVE  /\ DOMAIN offers' = DaoId
         /\ \A e \in DaoId : IsTable(offers'[e], 0..MaxOfferId, OfferRow)
         /\ DOMAIN offers'[d] = DOMAIN offers[d] /\ id \in DOMAIN offers[d]
         /\ offers[d][id].status = Active
         /\ offers'[d][id] = Shut(offers[d][id])
         /\ offers'[d][id] \in OfferRow /\ offers[d][id] \in OfferRow
         /\ \A i \in DOMAIN offers[d] : i # id => offers'[d][i] = offers[d][i]
         /\ \A e \in DaoId : e # d => offers'[e] = offers[e]
<1> DEFINE rows == offers[d]
           old == rows[id]
           row == Shut(old)
           new == [rows EXCEPT ![id] = row]
<1>1. /\ d \in DaoId /\ id \in DOMAIN rows /\ old.status = Active
      /\ DOMAIN offers = DaoId /\ IsTable(rows, 0..MaxOfferId, OfferRow)
  BY DEF Closes, IsActive, OffersTabled
<1>2. offers' = [offers EXCEPT ![d] = new]
  <2>1. offers' = [offers EXCEPT ![d][id].available_quantity = 0, ![d][id].status = Closed]
    BY DEF Closes, CloseOffer
  <2> QED BY <1>1, <2>1 DEF Shut
<1>3. rows \in [DOMAIN rows -> OfferRow] /\ old \in OfferRow
  BY <1>1 DEF IsTable
<1> HIDE DEF old
<1>4. row \in OfferRow
  BY <1>3, ShutRow
<1> HIDE DEF row, rows
<1>5. /\ new \in [DOMAIN rows -> OfferRow] /\ DOMAIN new = DOMAIN rows
      /\ new[id] = row /\ \A i \in DOMAIN rows : i # id => new[i] = rows[i]
  BY <1>1, <1>3, <1>4
<1>6. IsTable(new, 0..MaxOfferId, OfferRow)
  BY <1>1, <1>5 DEF IsTable
<1> HIDE DEF new
<1>7. /\ offers'[d] = new /\ DOMAIN offers' = DaoId
      /\ \A e \in DaoId : e # d => offers'[e] = offers[e]
  BY <1>1, <1>2
<1> QED BY <1>1, <1>3, <1>4, <1>5, <1>6, <1>7 DEF OffersTabled, rows, old, row

LEMMA RemovesEffect ==
  ASSUME OffersTabled, NEW d, NEW id, Removes(d, id)
  PROVE  /\ DOMAIN offers' = DaoId
         /\ \A e \in DaoId : IsTable(offers'[e], 0..MaxOfferId, OfferRow)
         /\ \A e \in DaoId : \A i \in DOMAIN offers'[e] :
              i \in DOMAIN offers[e] /\ offers'[e][i] = offers[e][i]
<1> DEFINE rows == offers[d]
           new == Erase(rows, id)
<1>1. /\ d \in DaoId /\ offers' = [offers EXCEPT ![d] = new]
      /\ DOMAIN offers = DaoId /\ IsTable(rows, 0..MaxOfferId, OfferRow)
  BY DEF Removes, OffersTabled
<1> HIDE DEF rows
<1>2. IsTable(new, 0..MaxOfferId, OfferRow)
  BY <1>1, EraseTyped
<1>3. \A i \in DOMAIN new : i \in DOMAIN rows /\ new[i] = rows[i]
  BY DEF Erase, Restrict
<1> HIDE DEF new
<1>4. /\ offers'[d] = new /\ DOMAIN offers' = DaoId
      /\ \A e \in DaoId : e # d => offers'[e] = offers[e]
  BY <1>1
<1> QED BY <1>2, <1>3, <1>4 DEF OffersTabled, rows

----------------------------------------------------------------------------

(***************************************************************************)
(* A buy order of a token with a small index finds every buy offer there   *)
(* is, closed ones too.                                                    *)
(***************************************************************************)
LEMMA BuyOrderFindsBuyOffers ==
  ASSUME OffersTabled, NEW d \in DaoId, NEW id \in DOMAIN offers[d], offers[d][id].type = Buy,
         NEW token_idx \in 1..11, NEW price
  PROVE  id \in Candidates(d, Buy, token_idx, price)
<1> DEFINE row == offers[d][id]
           key == MatchKey(row)
           bound == <<Rank(Sell, Active, token_idx), PriceBits(price), 0>>
<1>1. row \in OfferRow
  BY DEF OffersTabled, IsTable
<1>2. row.status \in {0, 1} /\ row.token_idx \in Nat /\ row.type = 1
  BY <1>1, RegistryAssumption DEF OfferRow, Closed, Active, TokenIdx, Buy
<1>3. key[1] = 16 * row.type + 4 * row.status + (row.token_idx % 16)
  BY DEF MatchKey, Rank
<1>4. key[1] \in Int /\ key[1] >= 16
  BY <1>2, <1>3
<1>5. bound[1] = 4 + token_idx
  BY DEF Rank, Sell, Active
<1>6. DOMAIN key = 1..3
  BY DEF MatchKey
<1> HIDE DEF key, bound
<1>7. ~Before(key, bound)
  <2> SUFFICES ASSUME NEW i \in 1..3, key[i] < bound[i],
                      \A j \in 1..(i - 1) : key[j] = bound[j]
               PROVE  FALSE
    BY <1>6 DEF Before
  <2>1. CASE i = 1
    BY <1>4, <1>5, <2>1
  <2>2. CASE i # 1
    <3>1. key[1] = bound[1]
      BY <2>2
    <3> QED BY <1>4, <1>5, <3>1
  <2> QED BY <2>1, <2>2
<1> QED BY <1>7 DEF Candidates, AtOrAfter, Counterpart, Buy, Sell, key, bound

LEMMA StoresKeeps ==
  ASSUME BookInv, [RegistryNext]_registryVars, NEW d, NEW id, NEW row, Stores(d, id, row)
  PROVE  OfferedTokensKept' /\ AllOrNothing' /\ SingleBuyOffer'
<1>1. RegistryInv /\ OffersTabled /\ OfferedTokensKept /\ AllOrNothing /\ SingleBuyOffer
  BY DEF BookInv
<1>2. /\ DOMAIN offers'[d] = DOMAIN offers[d] \cup {id} /\ offers'[d][id] = row
      /\ \A i \in DOMAIN offers[d] : offers'[d][i] = offers[d][i]
      /\ \A e \in DaoId : e # d => offers'[e] = offers[e]
  BY <1>1, StoresEffect
<1>3. \A e \in DaoId : DOMAIN tokens[e] \subseteq DOMAIN tokens'[e]
  BY <1>1, TokensGrow
<1>4. /\ d \in DaoId /\ row.token_idx \in DOMAIN tokens[d]
      /\ row.status = Active /\ row.available_quantity = row.total_quantity
      /\ Candidates(d, row.type, row.token_idx, row.price) = {}
  BY DEF Stores
<1>5. OfferedTokensKept'
  BY <1>1, <1>2, <1>3, <1>4 DEF OfferedTokensKept
<1>6. AllOrNothing'
  BY <1>1, <1>2, <1>4 DEF AllOrNothing
<1>7. SingleBuyOffer'
  <2> SUFFICES ASSUME NEW e \in DaoId, DOMAIN tokens'[e] \subseteq 1..11,
                      NEW i \in DOMAIN offers'[e], NEW j \in DOMAIN offers'[e],
                      offers'[e][i].type = Buy, offers'[e][j].type = Buy
               PROVE  i = j
    BY DEF SingleBuyOffer
  <2>1. DOMAIN tokens[e] \subseteq 1..11
    BY <1>3
  <2>2. CASE e # d \/ (i # id /\ j # id)
    BY <1>1, <1>2, <2>1, <2>2 DEF SingleBuyOffer
  <2>3. ASSUME e = d, row.type = Buy, NEW k \in DOMAIN offers[d], offers[d][k].type = Buy
        PROVE  FALSE
    <3>1. row.token_idx \in 1..11
      BY <1>4, <2>1, <2>3
    <3>2. k \in Candidates(d, Buy, row.token_idx, row.price)
      BY <1>1, <1>4, <2>3, <3>1, BuyOrderFindsBuyOffers
    <3> QED BY <1>4, <2>3, <3>2
  <2> QED BY <1>2, <2>2, <2>3
<1> QED BY <1>5, <1>6, <1>7

LEMMA ClosesKeeps ==
  ASSUME BookInv, [RegistryNext]_registryVars, NEW d, NEW id, Closes(d, id)
  PROVE  OfferedTokensKept' /\ AllOrNothing' /\ SingleBuyOffer'
<1>1. RegistryInv /\ OffersTabled /\ OfferedTokensKept /\ AllOrNothing /\ SingleBuyOffer
  BY DEF BookInv
<1> DEFINE old == offers[d][id]
           new == offers'[d][id]
<1>2. /\ DOMAIN offers'[d] = DOMAIN offers[d] /\ id \in DOMAIN offers[d]
      /\ new = Shut(old) /\ old \in OfferRow
      /\ \A i \in DOMAIN offers[d] : i # id => offers'[d][i] = offers[d][i]
      /\ \A e \in DaoId : e # d => offers'[e] = offers[e]
  BY <1>1, ClosesEffect
<1>3. /\ new.token_idx = old.token_idx /\ new.type = old.type
      /\ new.available_quantity = 0 /\ new.status # Active
  <2> HIDE DEF old, new
  <2> QED BY <1>2, ShutRow DEF Active, Closed
<1>4. \A e \in DaoId : DOMAIN tokens[e] \subseteq DOMAIN tokens'[e]
  BY <1>1, TokensGrow
<1>5. \A e \in DaoId : /\ DOMAIN offers'[e] = DOMAIN offers[e]
                       /\ \A i \in DOMAIN offers[e] :
                            /\ offers'[e][i].token_idx = offers[e][i].token_idx
                            /\ offers'[e][i].type = offers[e][i].type
  <2> HIDE DEF old, new
  <2>1. \A i \in DOMAIN offers[d] : \/ i = id /\ offers'[d][i] = new /\ offers[d][i] = old
                                    \/ offers'[d][i] = offers[d][i]
    BY <1>2 DEF old, new
  <2> QED BY <1>2, <1>3, <2>1
<1>6. OfferedTokensKept'
  BY <1>1, <1>4, <1>5 DEF OfferedTokensKept
<1>7. AllOrNothing'
  BY <1>1, <1>2, <1>3 DEF AllOrNothing
<1>8. SingleBuyOffer'
  BY <1>1, <1>4, <1>5 DEF SingleBuyOffer
<1> QED BY <1>6, <1>7, <1>8

LEMMA RemovesKeeps ==
  ASSUME BookInv, [RegistryNext]_registryVars,
         \A e \in DaoId : \A i \in DOMAIN offers'[e] :
           i \in DOMAIN offers[e] /\ offers'[e][i] = offers[e][i]
  PROVE  OfferedTokensKept' /\ AllOrNothing' /\ SingleBuyOffer'
<1>1. RegistryInv /\ OffersTabled /\ OfferedTokensKept /\ AllOrNothing /\ SingleBuyOffer
  BY DEF BookInv
<1>2. \A e \in DaoId : DOMAIN tokens[e] \subseteq DOMAIN tokens'[e]
  BY <1>1, TokensGrow
<1>3. OfferedTokensKept'
  BY <1>1, <1>2 DEF OfferedTokensKept
<1>4. AllOrNothing'
  BY <1>1 DEF AllOrNothing
<1>5. SingleBuyOffer'
  BY <1>1, <1>2 DEF SingleBuyOffer
<1> QED BY <1>3, <1>4, <1>5

LEMMA BookInvInit == OffersInit => BookInv
<1> SUFFICES ASSUME OffersInit PROVE BookInv
  OBVIOUS
<1>1. RegistryInv
  BY RegistryInvInit DEF OffersInit, LedgerInit
<1>2. \A d \in DaoId : DOMAIN offers[d] = {} /\ IsTable(offers[d], 0..MaxOfferId, OfferRow)
  BY DEF OffersInit, NoRows, IsTable
<1>3. OffersTabled
  BY <1>2, OffersAssumption DEF OffersInit, OffersTabled
<1> QED BY <1>1, <1>2, <1>3 DEF BookInv, OfferedTokensKept, AllOrNothing, SingleBuyOffer

LEMMA BookInvStep == BookInv /\ [OffersNext]_offersVars => BookInv'
<1> SUFFICES ASSUME BookInv, [OffersNext]_offersVars PROVE BookInv'
  OBVIOUS
<1>1. RegistryInv /\ OffersTabled
  BY DEF BookInv
<1>2. /\ \/ \E d, id, row : Stores(d, id, row)
         \/ \E d, id : Closes(d, id) \/ Removes(d, id)
         \/ UNCHANGED offers
      /\ [RegistryNext]_registryVars
      /\ now' \in 0..MaxTime
  BY <1>1, StepOfBook
<1>3. RegistryInv'
  BY <1>1, <1>2, RegistryInvStep
<1>4. ASSUME NEW d, NEW id, NEW row, Stores(d, id, row) PROVE BookInv'
  <2>1. OffersTabled'
    BY <1>1, <1>2, <1>4, StoresEffect DEF OffersTabled
  <2> QED BY <1>2, <1>3, <1>4, <2>1, StoresKeeps DEF BookInv
<1>5. ASSUME NEW d, NEW id, Closes(d, id) PROVE BookInv'
  <2>1. OffersTabled'
    BY <1>1, <1>2, <1>5, ClosesEffect DEF OffersTabled
  <2> QED BY <1>2, <1>3, <1>5, <2>1, ClosesKeeps DEF BookInv
<1>6. ASSUME NEW d, NEW id, Removes(d, id) PROVE BookInv'
  <2>1. /\ OffersTabled'
        /\ \A e \in DaoId : \A i \in DOMAIN offers'[e] :
             i \in DOMAIN offers[e] /\ offers'[e][i] = offers[e][i]
    BY <1>1, <1>2, <1>6, RemovesEffect DEF OffersTabled
  <2> QED BY <1>2, <1>3, <2>1, RemovesKeeps DEF BookInv
<1>7. ASSUME UNCHANGED offers PROVE BookInv'
  <2>1. OffersTabled'
    BY <1>1, <1>2, <1>7 DEF OffersTabled
  <2> QED BY <1>2, <1>3, <1>7, <2>1, RemovesKeeps DEF BookInv
<1> QED BY <1>2, <1>4, <1>5, <1>6, <1>7

LEMMA BookInvariant == OffersSpec => []BookInv
<1> QED BY BookInvInit, BookInvStep, PTL DEF OffersSpec

(***************************************************************************)
(* Offers are settled in full or not at all, for any ids, also those whose *)
(* acceptance settles another offer.                                       *)
(***************************************************************************)
THEOREM OffersAllOrNothing == OffersSpec => []AllOrNothing
<1>1. BookInv => AllOrNothing
  BY DEF BookInv
<1> QED BY <1>1, BookInvariant, PTL

(***************************************************************************)
(* An organization with at most eleven rows of tokens never has a second   *)
(* buy offer, whatever orders are placed, accepted and removed.            *)
(***************************************************************************)
THEOREM OffersSingleBuyOffer == OffersSpec => []SingleBuyOffer
<1>1. BookInv => SingleBuyOffer
  BY DEF BookInv
<1> QED BY <1>1, BookInvariant, PTL

Triples == Nat \X Nat \X Nat

(* The order of keys, spelled out for keys of three numbers. *)
LEMMA BeforeTriple ==
  ASSUME NEW k \in Triples, NEW l \in Triples
  PROVE  Before(k, l) <=> \/ k[1] < l[1]
                          \/ k[1] = l[1] /\ k[2] < l[2]
                          \/ k[1] = l[1] /\ k[2] = l[2] /\ k[3] < l[3]
<1>1. DOMAIN k = 1..3
  BY DEF Triples
<1>2. ASSUME Before(k, l)
      PROVE  \/ k[1] < l[1]
             \/ k[1] = l[1] /\ k[2] < l[2]
             \/ k[1] = l[1] /\ k[2] = l[2] /\ k[3] < l[3]
  <2>1. PICK i \in 1..3 : k[i] < l[i] /\ \A j \in 1..(i - 1) : k[j] = l[j]
    BY <1>1, <1>2 DEF Before
  <2>2. CASE i = 1
    BY <2>1, <2>2
  <2>3. CASE i = 2
    BY <2>1, <2>3
  <2>4. CASE i = 3
    BY <2>1, <2>4
  <2> QED BY <2>2, <2>3, <2>4
<1>3. ASSUME k[1] < l[1] PROVE Before(k, l)
  BY <1>1, <1>3 DEF Before
<1>4. ASSUME k[1] = l[1], k[2] < l[2] PROVE Before(k, l)
  <2>1. \A j \in 1..(2 - 1) : k[j] = l[j]
    BY <1>4
  <2> QED BY <1>1, <1>4, <2>1 DEF Before
<1>5. ASSUME k[1] = l[1], k[2] = l[2], k[3] < l[3] PROVE Before(k, l)
  <2>1. \A j \in 1..(3 - 1) : k[j] = l[j]
    BY <1>5
  <2> QED BY <1>1, <1>5, <2>1 DEF Before
<1> QED BY <1>2, <1>3, <1>4, <1>5

\* id comes first in the index byoffermatch of all ids.
IsFirst(rows, ids, id) ==
  \A other \in ids \ {id} :
    \/ Before(MatchKey(rows[id]), MatchKey(rows[other]))
    \/ MatchKey(rows[id]) = MatchKey(rows[other]) /\ id < other

(* There is a first offer: of the lowest ranks the lowest prices, and so on. *)
LEMMA FirstIsFirst ==
  ASSUME NEW rows, NEW ids, ids # {}, ids \subseteq Nat,
         \A id \in ids : MatchKey(rows[id]) \in Triples
  PROVE  First(rows, ids) \in ids /\ IsFirst(rows, ids, First(rows, ids))
<1> DEFINE key(id) == MatchKey(rows[id])
           ranks == {key(id)[1] : id \in ids}
<1>1. PICK r \in ranks : \A m \in ranks : r <= m
  <2>1. ranks \subseteq Nat /\ ranks # {}
    BY DEF Triples
  <2> HIDE DEF ranks
  <2> QED BY <2>1, LeastNatural
<1> DEFINE ids1 == {id \in ids : key(id)[1] = r}
           prices == {key(id)[2] : id \in ids1}
<1>2. PICK p \in prices : \A m \in prices : p <= m
  <2>1. prices \subseteq Nat /\ prices # {}
    BY DEF Triples
  <2> HIDE DEF prices
  <2> QED BY <2>1, LeastNatural
<1> DEFINE ids2 == {id \in ids1 : key(id)[2] = p}
           ages == {key(id)[3] : id \in ids2}
<1>3. PICK a \in ages : \A m \in ages : a <= m
  <2>1. ages \subseteq Nat /\ ages # {}
    BY DEF Triples
  <2> HIDE DEF ages
  <2> QED BY <2>1, LeastNatural
<1> DEFINE ids3 == {id \in ids2 : key(id)[3] = a}
<1>4. PICK first \in ids3 : \A m \in ids3 : first <= m
  <2>1. ids3 \subseteq Nat /\ ids3 # {}
    OBVIOUS
  <2> HIDE DEF ids3
  <2> QED BY <2>1, LeastNatural
<1>5. first \in ids /\ key(first)[1] = r /\ key(first)[2] = p /\ key(first)[3] = a
  OBVIOUS
<1>6. ASSUME NEW other \in ids \ {first}
      PROVE  Before(key(first), key(other)) \/ (key(first) = key(other) /\ first < other)
  <2>1. key(first) \in Triples /\ key(other) \in Triples
    BY <1>5
  <2>2. r <= key(other)[1]
    BY <1>1
  <2>3. key(other)[1] = r => p <= key(other)[2]
    BY <1>2
  <2>4. key(other)[1] = r /\ key(other)[2] = p => a <= key(other)[3]
    BY <1>3
  <2>5. key(other)[1] = r /\ key(other)[2] = p /\ key(other)[3] = a => first <= other
    BY <1>4
  <2> HIDE DEF key, ranks, ids1, prices, ids2, ages, ids3
  <2>6. CASE key(other)[1] = r /\ key(other)[2] = p /\ key(other)[3] = a
    <3>1. key(first) = key(other)
      BY <1>5, <2>1, <2>6 DEF Triples
    <3>2. first \in Nat /\ other \in Nat
      BY <1>5
    <3> QED BY <2>5, <2>6, <3>1, <3>2
  <2>7. CASE ~(key(other)[1] = r /\ key(other)[2] = p /\ key(other)[3] = a)
    <3>1. /\ key(first)[1] \in Nat /\ key(first)[2] \in Nat /\ key(first)[3] \in Nat
          /\ key(other)[1] \in Nat /\ key(other)[2] \in Nat /\ key(other)[3] \in Nat
      BY <2>1 DEF Triples
    <3>2. \/ key(first)[1] < key(other)[1]
          \/ key(first)[1] = key(other)[1] /\ key(first)[2] < key(other)[2]
          \/ /\ key(first)[1] = key(other)[1] /\ key(first)[2] = key(other)[2]
             /\ key(first)[3] < key(other)[3]
      BY <1>5, <2>2, <2>3, <2>4, <2>7, <3>1
    <3> QED BY <2>1, <3>2, BeforeTriple
  <2> QED BY <2>6, <2>7
<1>7. IsFirst(rows, ids, first)
  BY <1>6 DEF IsFirst
<1> QED BY <1>5, <1>7 DEF First, IsFirst

LEMMA PriceBitsNatural ==
  ASSUME NEW price \in OfferAmount
  PROVE  PriceBits(price) \in Nat
<1>1. HalfWord \in Nat /\ HalfWord > 0
  BY ChainAssumption DEF HalfWord
<1>2. price \in Int
  BY <1>1, OffersAssumption DEF Word
<1> QED BY <1>1, <1>2 DEF PriceBits

LEMMA OfferFields ==
  ASSUME NEW row \in OfferRow
  PROVE  /\ row.type \in {0, 1} /\ row.status \in {0, 1}
         /\ row.price \in OfferAmount /\ PriceBits(row.price) \in Nat
         /\ row.creation_date \in 0..MaxTime
<1>1. row.price \in OfferAmount
  BY DEF OfferRow
<1>2. row.type \in {0, 1} /\ row.status \in {0, 1} /\ row.creation_date \in 0..MaxTime
  BY DEF OfferRow, Sell, Buy, Closed, Active
<1> QED BY <1>1, <1>2, PriceBitsNatural

(* The key of an offer for a token with a small index. *)
LEMMA KeyOfOffer ==
  ASSUME NEW row \in OfferRow, row.token_idx \in 1..4
  PROVE  /\ MatchKey(row) \in Triples
         /\ MatchKey(row)[1] = 16 * row.type + 4 * row.status + row.token_idx
         /\ MatchKey(row)[2] = PriceBits(row.price)
         /\ MatchKey(row)[3] = MaxTime - row.creation_date
<1>1. /\ row.type \in {0, 1} /\ row.status \in {0, 1} /\ PriceBits(row.price) \in Nat
      /\ row.creation_date \in 0..MaxTime
  BY OfferFields
<1>2. row.token_idx % 16 = row.token_idx
  OBVIOUS
<1>3. MaxTime - row.creation_date \in Nat
  BY <1>1, OffersAssumption
<1> QED BY <1>1, <1>2, <1>3 DEF MatchKey, Rank, Triples

(* What an order finds, when token indices are small. *)
LEMMA CandidatesAre ==
  ASSUME OffersTabled, NEW d \in DaoId, NEW type \in {Sell, Buy},
         NEW token_idx \in 1..4, NEW price \in OfferAmount, NEW id \in DOMAIN offers[d],
         offers[d][id].token_idx \in 1..4
  PROVE  LET row  == offers[d][id]
             rank == 16 * Counterpart(type) + 4 + token_idx
         IN  id \in Candidates(d, type, token_idx, price) <=>
               \/ MatchKey(row)[1] > rank
               \/ MatchKey(row)[1] = rank /\ PriceBits(row.price) >= PriceBits(price)
<1> DEFINE row == offers[d][id]
           rank == 16 * Counterpart(type) + 4 + token_idx
           key == MatchKey(row)
           bound == <<Rank(Counterpart(type), Active, token_idx), PriceBits(price), 0>>
<1>1. row \in OfferRow
  BY DEF OffersTabled, IsTable
<1>2. key \in Triples /\ key[2] = PriceBits(row.price)
  BY <1>1, KeyOfOffer
<1>3. PriceBits(price) \in Nat
  BY PriceBitsNatural
<1>4. rank \in Nat /\ Rank(Counterpart(type), Active, token_idx) = rank
  BY DEF Rank, Active, Counterpart, Sell, Buy
<1> HIDE DEF row, rank, key
<1>5. bound \in Triples /\ bound[1] = rank /\ bound[2] = PriceBits(price) /\ bound[3] = 0
  BY <1>3, <1>4 DEF Triples
<1> HIDE DEF bound
<1>6. ~Before(key, bound) <=> key[1] > rank \/ (key[1] = rank /\ PriceBits(row.price) >= PriceBits(price))
  <2>1. key[1] \in Nat /\ key[2] \in Nat /\ key[3] \in Nat
    BY <1>2 DEF Triples
  <2> QED BY <1>2, <1>3, <1>4, <1>5, <2>1, BeforeTriple
<1> QED BY <1>6 DEF Candidates, AtOrAfter, row, rank, key, bound

(* An order is matched as MatchIsNextAbove says, in any table of offers. *)
LEMMA MatchesAreNextAbove ==
  ASSUME BookInv
  PROVE  MatchIsNextAbove
<1> SUFFICES ASSUME NEW d \in DaoId, NEW type \in {Sell, Buy}, NEW price \in OfferAmount,
                    NEW token_idx \in DOMAIN tokens[d], DOMAIN tokens[d] \subseteq 1..4
             PROVE  LET rows       == offers[d]
                        candidates == Candidates(d, type, token_idx, price)
                        match      == rows[First(rows, candidates)]
                        above      == {id \in Opposite(d, type, token_idx) :
                                         PriceBits(rows[id].price) >= PriceBits(price)}
                    IN  /\ above # {} =>
                             /\ First(rows, candidates) \in above
                             /\ \A id \in above :
                                  \/ PriceBits(match.price) < PriceBits(rows[id].price)
                                  \/ /\ PriceBits(match.price) = PriceBits(rows[id].price)
                                     /\ match.creation_date >= rows[id].creation_date
                        /\ type = Sell /\ candidates # {} =>
                             match.type = Buy /\ match.status = Active
  BY DEF MatchIsNextAbove
<1> DEFINE rows == offers[d]
           bits(id) == PriceBits(rows[id].price)
           least == PriceBits(price)
           candidates == Candidates(d, type, token_idx, price)
           first == First(rows, candidates)
           match == rows[first]
           side == Counterpart(type)
           rank == 16 * side + 4 + token_idx
           above == {id \in DOMAIN rows : /\ rows[id].type = side
                                          /\ rows[id].status = Active
                                          /\ rows[id].token_idx = token_idx
                                          /\ bits(id) >= least}
           keyOf(id) == MatchKey(rows[id])
<1>0. {id \in Opposite(d, type, token_idx) : bits(id) >= least} = above
  BY DEF Opposite
<1>1. OffersTabled /\ token_idx \in 1..4 /\ side \in {0, 1} /\ least \in Nat
  BY PriceBitsNatural DEF BookInv, Counterpart, Sell, Buy
<1>2. ASSUME NEW id \in DOMAIN rows
      PROVE  /\ rows[id].type \in {0, 1} /\ rows[id].status \in {0, 1}
             /\ rows[id].token_idx \in 1..4 /\ bits(id) \in Nat
             /\ rows[id].creation_date \in 0..MaxTime
             /\ keyOf(id) \in Triples
             /\ keyOf(id)[1] = 16 * rows[id].type + 4 * rows[id].status + rows[id].token_idx
             /\ keyOf(id)[2] = bits(id)
             /\ keyOf(id)[3] = MaxTime - rows[id].creation_date
             /\ id \in candidates <=> \/ keyOf(id)[1] > rank
                                      \/ keyOf(id)[1] = rank /\ bits(id) >= least
  <2>1. rows[id] \in OfferRow
    BY <1>1 DEF OffersTabled, IsTable
  <2>2. rows[id].token_idx \in 1..4
    BY DEF BookInv, OfferedTokensKept
  <2>3. /\ rows[id].type \in {0, 1} /\ rows[id].status \in {0, 1}
        /\ bits(id) \in Nat /\ rows[id].creation_date \in 0..MaxTime
    BY <2>1, OfferFields
  <2>4. /\ keyOf(id) \in Triples
        /\ keyOf(id)[1] = 16 * rows[id].type + 4 * rows[id].status + rows[id].token_idx
        /\ keyOf(id)[2] = bits(id)
        /\ keyOf(id)[3] = MaxTime - rows[id].creation_date
    BY <2>1, <2>2, KeyOfOffer
  <2>5. id \in candidates <=> \/ keyOf(id)[1] > rank
                              \/ keyOf(id)[1] = rank /\ bits(id) >= least
    BY <1>1, <2>2, CandidatesAre
  <2> QED BY <2>2, <2>3, <2>4, <2>5
<1>3. candidates \subseteq DOMAIN rows /\ DOMAIN rows \subseteq Nat
  BY <1>1 DEF Candidates, AtOrAfter, OffersTabled, IsTable
<1>4. candidates # {} => first \in candidates /\ IsFirst(rows, candidates, first)
  <2>1. \A id \in candidates : MatchKey(rows[id]) \in Triples
    BY <1>2, <1>3
  <2> HIDE DEF candidates, rows
  <2> QED BY <1>3, <2>1, FirstIsFirst
<1> HIDE DEF candidates, rows, first, side
(* Offers of this rank are the offers of this side and token, still active. *)
<1>5. ASSUME NEW id \in DOMAIN rows
      PROVE  keyOf(id)[1] = rank <=> /\ rows[id].type = side
                                     /\ rows[id].status = Active
                                     /\ rows[id].token_idx = token_idx
  BY <1>1, <1>2 DEF Active
<1>6. above \subseteq candidates
  <2> SUFFICES ASSUME NEW id \in above PROVE id \in candidates
    OBVIOUS
  <2>1. id \in DOMAIN rows /\ keyOf(id)[1] = rank /\ bits(id) >= least
    BY <1>5
  <2> QED BY <1>2, <2>1
<1>7. ASSUME NEW id \in above
      PROVE  /\ first \in above
             /\ \/ bits(first) < bits(id)
                \/ bits(first) = bits(id) /\ match.creation_date >= rows[id].creation_date
  <2>1. first \in candidates /\ first \in DOMAIN rows /\ id \in DOMAIN rows
    BY <1>3, <1>4, <1>6
  <2>2. keyOf(id)[1] = rank /\ keyOf(id)[2] = bits(id)
    BY <1>2, <1>5
  <2>3. \/ keyOf(first)[1] > rank
        \/ keyOf(first)[1] = rank /\ bits(first) >= least
    BY <1>2, <2>1
  <2>4. \/ first = id
        \/ Before(keyOf(first), keyOf(id))
        \/ keyOf(first) = keyOf(id)
    BY <1>4, <1>6, <2>1 DEF IsFirst
  <2>5. /\ keyOf(first)[1] \in Nat /\ keyOf(first)[2] \in Nat /\ keyOf(first)[3] \in Nat
        /\ keyOf(id)[1] \in Nat /\ keyOf(id)[2] \in Nat /\ keyOf(id)[3] \in Nat
        /\ keyOf(first) \in Triples /\ keyOf(id) \in Triples
    <3>1. keyOf(first) \in Triples /\ keyOf(id) \in Triples
      BY <1>2, <2>1
    <3> QED BY <3>1 DEF Triples
  <2>6. \/ keyOf(first)[1] < keyOf(id)[1]
        \/ keyOf(first)[1] = keyOf(id)[1] /\ keyOf(first)[2] < keyOf(id)[2]
        \/ /\ keyOf(first)[1] = keyOf(id)[1] /\ keyOf(first)[2] = keyOf(id)[2]
           /\ keyOf(first)[3] <= keyOf(id)[3]
    <3>1. CASE Before(keyOf(first), keyOf(id))
      BY <2>5, <3>1, BeforeTriple
    <3>2. CASE keyOf(first) = keyOf(id)
      BY <2>5, <3>2
    <3> QED BY <2>4, <2>5, <3>1, <3>2
  <2>7. rank \in Nat
    BY <1>1
  <2>8. keyOf(first)[1] = rank /\ bits(first) >= least
    <3> HIDE DEF rank, keyOf
    <3> QED BY <2>2, <2>3, <2>5, <2>6, <2>7
  <2>9. first \in above
    BY <1>5, <2>1, <2>8
  <2>10. /\ keyOf(first)[2] = bits(first)
         /\ keyOf(first)[3] = MaxTime - match.creation_date
         /\ keyOf(id)[3] = MaxTime - rows[id].creation_date
         /\ match.creation_date \in 0..MaxTime /\ rows[id].creation_date \in 0..MaxTime
    BY <1>2, <2>1
  <2>11. \/ bits(first) < bits(id)
         \/ bits(first) = bits(id) /\ match.creation_date >= rows[id].creation_date
    <3>1. \/ keyOf(first)[2] < keyOf(id)[2]
          \/ keyOf(first)[2] = keyOf(id)[2] /\ keyOf(first)[3] <= keyOf(id)[3]
      <4> HIDE DEF keyOf, rank
      <4> QED BY <2>2, <2>6, <2>7, <2>8
    <3> HIDE DEF keyOf, match
    <3> QED BY <2>2, <2>10, <3>1, OffersAssumption
  <2> QED BY <2>9, <2>11
<1>8. ASSUME type = Sell, candidates # {}
      PROVE  match.type = Buy /\ match.status = Active
  <2>1. first \in candidates /\ first \in DOMAIN rows
    BY <1>3, <1>4, <1>8
  <2>2. side = 1
    BY <1>8 DEF side, Counterpart, Sell, Buy
  <2>3. \/ keyOf(first)[1] > rank
        \/ keyOf(first)[1] = rank /\ bits(first) >= least
    BY <1>2, <2>1
  <2>4. /\ match.type \in {0, 1} /\ match.status \in {0, 1} /\ match.token_idx \in 1..4
        /\ keyOf(first)[1] = 16 * match.type + 4 * match.status + match.token_idx
    BY <1>2, <2>1
  <2>5. match.type = 1 /\ match.status = 1
    <3> HIDE DEF match, keyOf
    <3> QED BY <1>1, <2>2, <2>3, <2>4
  <2> QED BY <2>5 DEF Buy, Active
<1> QED BY <1>0, <1>7, <1>8 DEF rows, candidates, first, side


(***************************************************************************)
(* For any prices, of any sign, and in any table of offers the search by   *)
(* lower bound finds what MatchIsNextAbove says: the next price at the     *)
(* order's own or above it, and there the youngest offer.                  *)
(***************************************************************************)
THEOREM OffersMatchIsNextAbove == OffersSpec => []MatchIsNextAbove
<1>1. BookInv => MatchIsNextAbove
  BY MatchesAreNextAbove
<1> QED BY <1>1, BookInvariant, PTL

----------------------------------------------------------------------------
(* The arithmetic of assets.  A quantity is any word, a balance is up to   *)
(* what an asset holds; below, it is a word.                               *)

Amounts == -HalfWord..MaxAmount

LEMMA Widths ==
  /\ MaxAmount \in Nat /\ HalfWord = 2 * (MaxAmount + 1) /\ HalfWord \in Nat
  /\ Amounts \subseteq Int /\ Word \subseteq Int /\ OfferAmount \subseteq Word
<1>1. MaxAmount \in Nat /\ HalfWord = 2 * (MaxAmount + 1)
  BY ChainAssumption DEF HalfWord
<1>2. HalfWord \in Nat
  BY <1>1
<1> QED BY <1>1, <1>2, OffersAssumption DEF Amounts, Word

(* What a number is as a word. *)
LEMMA WrapMeaning ==
  ASSUME NEW n \in Int
  PROVE  /\ Wrap(n) \in Word
         /\ n \in Word => Wrap(n) = n
<1> DEFINE size == 2 * HalfWord
           sum == n + HalfWord
<1>1. HalfWord \in Nat /\ HalfWord > 0
  BY Widths
<1>2. size \in Nat /\ size > 0 /\ sum \in Int
  BY <1>1
<1>3. Wrap(n) = (sum % size) - HalfWord
  BY DEF Wrap
<1>4. sum % size \in 0..(size - 1)
  <2> HIDE DEF size, sum
  <2> QED BY <1>2
<1>5. sum \in 0..(size - 1) => sum % size = sum
  <2> HIDE DEF size, sum
  <2> QED BY <1>2
<1>6. Wrap(n) \in Word
  BY <1>1, <1>3, <1>4 DEF Word
<1>7. n \in Word => Wrap(n) = n
  BY <1>1, <1>3, <1>5 DEF Word
<1> QED BY <1>6, <1>7

(* A word that a sum wraps round to differs from it by whole words. *)
LEMMA WrapDiffers ==
  ASSUME NEW n \in Int
  PROVE  \E q \in Int : Wrap(n) = n + q * (2 * HalfWord)
<1> DEFINE size == 2 * HalfWord
           sum == n + HalfWord
<1>1. HalfWord \in Nat /\ HalfWord > 0
  BY Widths
<1>2. size \in Nat /\ size > 0 /\ sum \in Int
  BY <1>1
<1>3. Wrap(n) = (sum % size) - HalfWord
  BY DEF Wrap
<1>4. sum \div size \in Int /\ sum = size * (sum \div size) + (sum % size)
  <2> HIDE DEF size, sum
  <2> QED BY <1>2
<1> DEFINE q == -(sum \div size)
<1>5. q \in Int /\ q * size = -(size * (sum \div size))
  <2> HIDE DEF size, sum
  <2> QED BY <1>2, <1>4
<1>6. sum % size \in Int
  <2> HIDE DEF size, sum
  <2> QED BY <1>2
<1>7. Wrap(n) = n + q * size
  <2> DEFINE x == size * (sum \div size)
             r == sum % size
  <2>1. x \in Int /\ sum = x + r /\ q * size = -x /\ r \in Int /\ Wrap(n) = r - HalfWord
    <3> HIDE DEF q
    <3>1. x \in Int
      <4> HIDE DEF size, sum
      <4> QED BY <1>2, <1>4
    <3> QED BY <1>3, <1>4, <1>5, <1>6, <3>1
  <2> HIDE DEF x, r, q, size
  <2> QED BY <1>1, <2>1
<1> QED BY <1>5, <1>7

(***************************************************************************)
(* The sum of an asset and a word, when it passes the check of the range,  *)
(* is the sum: words have room for four times what assets hold.            *)
(***************************************************************************)
LEMMA SumsInRange ==
  ASSUME NEW old \in -MaxAmount..MaxAmount, NEW n \in Int, n >= -HalfWord, n <= HalfWord,
         Wrap(old + n) \in -MaxAmount..MaxAmount
  PROVE  Wrap(old + n) = old + n
<1>1. MaxAmount \in Nat /\ HalfWord = 2 * (MaxAmount + 1)
  BY Widths
<1>2. old \in Int /\ old + n \in Int
  BY <1>1
<1>3. PICK q \in Int : Wrap(old + n) = old + n + q * (2 * HalfWord)
  BY <1>2, WrapDiffers
<1>4. /\ old + n <= 3 * MaxAmount + 2 /\ old + n >= -(3 * MaxAmount + 2)
      /\ 2 * HalfWord = 4 * MaxAmount + 4
  BY <1>1, <1>2
<1>5. q <= 0
  <2> SUFFICES ASSUME q >= 1 PROVE FALSE
    OBVIOUS
  <2>1. q * (2 * HalfWord) >= 2 * HalfWord
    BY <1>1
  <2> QED BY <1>1, <1>2, <1>3, <1>4, <2>1
<1>6. q >= 0
  <2> SUFFICES ASSUME q <= -1 PROVE FALSE
    OBVIOUS
  <2>1. q * (2 * HalfWord) <= -(2 * HalfWord)
    BY <1>1
  <2> QED BY <1>1, <1>2, <1>3, <1>4, <2>1
<1>7. q = 0
  BY <1>5, <1>6
<1>8. q * (2 * HalfWord) = 0
  BY <1>1, <1>7
<1> QED BY <1>2, <1>3, <1>8

(* A number divided by the units of a token, the fraction dropped. *)
LEMMA TruncatedMeaning ==
  ASSUME NEW n \in Int
  PROVE  /\ Truncated(n, Unit) \in Int /\ IsRounded(Truncated(n, Unit), n)
<1>1. Unit \in Nat /\ Unit > 2
  BY OffersAssumption
<1>2. CASE n >= 0
  <2> DEFINE c == n \div Unit
  <2>1. Truncated(n, Unit) = c
    BY <1>2 DEF Truncated
  <2>2. c \in Int /\ c * Unit <= n /\ n < (c + 1) * Unit
    BY <1>1, <1>2
  <2> HIDE DEF c
  <2> QED BY <1>2, <2>1, <2>2 DEF IsRounded
<1>3. CASE n < 0
  <2> DEFINE c == (-n) \div Unit
  <2>1. Truncated(n, Unit) = -c
    BY <1>3 DEF Truncated
  <2>2. -n \in Nat
    BY <1>3
  <2>3. c \in Int /\ c * Unit <= -n /\ -n < (c + 1) * Unit
    <3> DEFINE m == -n
    <3>1. m \in Nat
      BY <2>2
    <3> HIDE DEF m
    <3>2. (m \div Unit) \in Int /\ (m \div Unit) * Unit <= m /\ m < (m \div Unit + 1) * Unit
      BY <1>1, <3>1
    <3> QED BY <3>2 DEF m
  <2> HIDE DEF c
  <2>4. (-c) * Unit = -(c * Unit) /\ (-c - 1) * Unit = -((c + 1) * Unit)
    BY <1>1, <2>3
  <2>5. c * Unit \in Int /\ (c + 1) * Unit \in Int
    BY <1>1, <2>3
  <2>6. n <= -(c * Unit) /\ -((c + 1) * Unit) < n
    <3> DEFINE x == c * Unit
               y == (c + 1) * Unit
    <3>1. x \in Int /\ y \in Int /\ x <= -n /\ -n < y
      BY <2>3, <2>5
    <3> HIDE DEF x, y
    <3>2. n <= -x /\ -y < n
      BY <3>1
    <3> QED BY <3>2 DEF x, y
  <2> QED BY <1>3, <2>1, <2>3, <2>4, <2>6 DEF IsRounded
<1> QED BY <1>2, <1>3

(* A cost is always an amount an asset can have: at least three go into a word. *)
LEMMA CostMeaning ==
  ASSUME NEW n \in Word, NEW p \in Word
  PROVE  /\ Cost(n, p) \in -MaxAmount..MaxAmount
         /\ n * p \in Word => IsRounded(Cost(n, p), n * p)
<1> DEFINE product == n * p
           word == Wrap(product)
           cost == Truncated(word, Unit)
<1>1. product \in Int
  BY Widths
<1>2. Cost(n, p) = cost
  BY DEF Cost
<1> HIDE DEF product
<1>3. word \in Word /\ (product \in Word => word = product)
  BY <1>1, WrapMeaning
<1>4. word \in Int /\ word >= -HalfWord /\ word <= HalfWord - 1
  BY <1>3, Widths DEF Word
<1> HIDE DEF word
<1>5. cost \in Int /\ IsRounded(cost, word)
  BY <1>4, TruncatedMeaning
<1> HIDE DEF cost
<1>6. cost \in -MaxAmount..MaxAmount
  <2>1. Unit \in Nat /\ Unit >= 3 /\ MaxAmount \in Nat /\ HalfWord = 2 * MaxAmount + 2
    BY OffersAssumption, Widths
  <2>2. CASE word >= 0
    <3>1. cost * Unit <= word /\ word < (cost + 1) * Unit
      BY <1>4, <1>5, <2>2 DEF IsRounded
    <3>2. cost >= 0
      <4> SUFFICES ASSUME cost + 1 <= 0 PROVE FALSE
        BY <1>5
      <4>1. (cost + 1) * Unit <= 0
        BY <1>5, <2>1
      <4> QED BY <1>4, <1>5, <2>1, <2>2, <3>1, <4>1
    <3>3. cost * Unit >= cost * 3
      BY <1>5, <2>1, <3>2
    <3>4. cost * 3 <= 2 * MaxAmount + 1
      BY <1>4, <1>5, <2>1, <3>1, <3>3
    <3> QED BY <1>5, <2>1, <3>2, <3>4
  <2>3. CASE word < 0
    <3>1. word <= cost * Unit /\ (cost - 1) * Unit < word
      BY <1>4, <1>5, <2>3 DEF IsRounded
    <3>2. cost <= 0
      <4> SUFFICES ASSUME cost - 1 >= 0 PROVE FALSE
        BY <1>5
      <4>1. (cost - 1) * Unit >= 0
        BY <1>5, <2>1
      <4> QED BY <1>4, <1>5, <2>1, <2>3, <3>1, <4>1
    <3>3. cost * Unit <= cost * 3
      BY <1>5, <2>1, <3>2
    <3>4. -(cost * 3) <= 2 * MaxAmount + 2
      BY <1>4, <1>5, <2>1, <3>1, <3>3
    <3> QED BY <1>5, <2>1, <3>2, <3>4
  <2> QED BY <1>4, <2>2, <2>3
<1> QED BY <1>2, <1>3, <1>5, <1>6 DEF product

----------------------------------------------------------------------------
(* The balances, through the four steps of a settlement. *)

\* A state of all the balances, with what settlements may leave below zero.
IsBook(b) ==
  /\ DOMAIN b = BalanceKey
  /\ \A key \in BalanceKey : IsTable(b[key], Account, Amounts)

\* No balance is one that an asset cannot hold.
Fits(b) == \A key \in BalanceKey : \A a \in DOMAIN b[key] : b[key][a] >= -MaxAmount

\* The row of account under key is now n.
Written(b, c, key, account, n) ==
  /\ IsBook(c)
  /\ \A k \in BalanceKey : k # key => c[k] = b[k]
  /\ account \in DOMAIN c[key] /\ c[key][account] = n
  /\ \A a : a # account => At(c[key], a) = At(b[key], a)
  /\ DOMAIN c[key] = DOMAIN b[key] \cup {account}
  /\ \A a \in DOMAIN b[key] : a # account => c[key][a] = b[key][a]

LEMMA RowWritten ==
  ASSUME NEW b, IsBook(b), NEW key \in BalanceKey, NEW account \in Account, NEW n \in Amounts
  PROVE  Written(b, [b EXCEPT ![key] = Put(@, account, n)], key, account, n)
<1> DEFINE rows == Put(b[key], account, n)
           c == [b EXCEPT ![key] = rows]
<1>1. IsTable(b[key], Account, Amounts) /\ DOMAIN b = BalanceKey
  BY DEF IsBook
<1>2. /\ IsTable(rows, Account, Amounts) /\ rows[account] = n
      /\ DOMAIN rows = DOMAIN b[key] \cup {account}
      /\ \A a \in DOMAIN b[key] : a # account => rows[a] = b[key][a]
  <2> DEFINE old == b[key]
  <2>1. IsTable(old, Account, Amounts)
    BY <1>1
  <2> HIDE DEF old
  <2>2. /\ IsTable(Put(old, account, n), Account, Amounts)
        /\ DOMAIN Put(old, account, n) = DOMAIN old \cup {account}
        /\ Put(old, account, n)[account] = n
        /\ \A x \in DOMAIN old : x # account => Put(old, account, n)[x] = old[x]
    BY <2>1, PutTyped
  <2> QED BY <2>2 DEF old
<1>3. \A a : a # account => At(rows, a) = At(b[key], a)
  BY AtPut
<1> HIDE DEF rows
<1>4. DOMAIN c = BalanceKey /\ c[key] = rows /\ \A k \in BalanceKey : k # key => c[k] = b[k]
  BY <1>1
<1> HIDE DEF c
<1>5. IsBook(c)
  BY <1>2, <1>4 DEF IsBook
<1>6. Written(b, c, key, account, n)
  BY <1>2, <1>3, <1>4, <1>5 DEF Written
<1> QED BY <1>6 DEF c, rows

(* A balance is a number, and at most what an asset holds. *)
LEMMA BookNumbers ==
  ASSUME NEW b, IsBook(b), NEW key \in BalanceKey, NEW a
  PROVE  /\ At(b[key], a) \in Amounts /\ At(b[key], a) \in Int /\ At(b[key], a) <= MaxAmount
         /\ Fits(b) => At(b[key], a) >= -MaxAmount
<1>1. IsTable(b[key], Account, Amounts)
  BY DEF IsBook
<1>2. 0 \in Amounts /\ MaxAmount \in Nat
  BY Widths DEF Amounts
<1>3. At(b[key], a) \in Amounts
  BY <1>1, <1>2 DEF IsTable, At
<1>4. At(b[key], a) \in Int
  BY <1>3, Widths
<1>5. At(b[key], a) <= MaxAmount
  BY <1>3, <1>4, Widths DEF Amounts
<1>6. ASSUME Fits(b) PROVE At(b[key], a) >= -MaxAmount
  BY <1>2, <1>6 DEF Fits, At
<1> QED BY <1>2, <1>3, <1>4, <1>5, <1>6

\* Between two states of the balances, account's under key changes by n.
Changed(b, c, key, account, n) ==
  /\ At(c[key], account) = At(b[key], account) + n
  /\ \A a : a # account => At(c[key], a) = At(b[key], a)

\* From b to c, n is added to account's balance under key, or taken off for a negative n.
Stepped(b, c, key, account, n) ==
  /\ IsBook(c)
  /\ \A k \in BalanceKey : k # key => c[k] = b[k]
  /\ \A k \in BalanceKey : DOMAIN b[k] \subseteq DOMAIN c[k]
  /\ At(b[key], account) >= -MaxAmount => Changed(b, c, key, account, n)
  /\ Fits(b) /\ n \in -MaxAmount..MaxAmount => Fits(c)
  /\ Fits(b) /\ account \in DOMAIN b[key] => Fits(c)

(***************************************************************************)
(* Both checks let an amount through only when the row that is there stays *)
(* within the range of an asset; a row that add_balance inserts is as low  *)
(* as the quantity is, but never higher than what somebody has.            *)
(***************************************************************************)
LEMMA AddBalanceSteps ==
  ASSUME NEW b, IsBook(b), NEW account \in Account, NEW key \in BalanceKey,
         NEW n \in Word, n <= MaxAmount, MayAdd(b, account, key, n)
  PROVE  Stepped(b, AddBalance(b, account, key, n), key, account, n)
<1> DEFINE old == At(b[key], account)
           new == Wrap(old + n)
           c == AddBalance(b, account, key, n)
<1>1. /\ n \in Int /\ n >= -HalfWord /\ n <= HalfWord
      /\ MaxAmount \in Nat /\ HalfWord \in Nat /\ HalfWord = 2 * (MaxAmount + 1)
  BY Widths DEF Word
<1>2. old \in Int /\ old \in Amounts /\ old <= MaxAmount
  BY BookNumbers
<1>3. account \in DOMAIN b[key] => new \in -MaxAmount..MaxAmount
  BY DEF MayAdd, At
<1>4. account \notin DOMAIN b[key] => old = 0 /\ new = n
  <2>1. Wrap(n) = n
    BY <1>1, WrapMeaning
  <2> QED BY <1>1, <2>1 DEF At
<1> HIDE DEF old
<1>5. new \in Amounts
  <2>1. CASE account \in DOMAIN b[key]
    <3> HIDE DEF new
    <3>1. new \in -MaxAmount..MaxAmount
      BY <1>3, <2>1
    <3> QED BY <1>1, <3>1 DEF Amounts
  <2>2. CASE account \notin DOMAIN b[key]
    <3> HIDE DEF new
    <3> QED BY <1>1, <1>4, <2>2 DEF Amounts
  <2> QED BY <2>1, <2>2
<1>6. old >= -MaxAmount => new = old + n
  <2> SUFFICES ASSUME old \in -MaxAmount..MaxAmount PROVE new = old + n
    BY <1>1, <1>2
  <2>1. CASE account \in DOMAIN b[key]
    BY <1>1, <1>3, <2>1, SumsInRange
  <2>2. CASE account \notin DOMAIN b[key]
    <3> HIDE DEF new
    <3> QED BY <1>1, <1>4, <2>2
  <2> QED BY <2>1, <2>2
<1>7. Written(b, c, key, account, new)
  <2>1. c = [b EXCEPT ![key] = Put(@, account, new)]
    <3>1. DOMAIN b = BalanceKey
      BY DEF IsBook
    <3> QED BY <3>1 DEF AddBalance, old
  <2> HIDE DEF c, new
  <2> QED BY <1>5, <2>1, RowWritten
<1> HIDE DEF c
<1>8. At(c[key], account) = new
  BY <1>7 DEF Written, At
<1> HIDE DEF new
<1>9. Fits(b) /\ new \in -MaxAmount..MaxAmount => Fits(c)
  <2> SUFFICES ASSUME Fits(b), new \in -MaxAmount..MaxAmount,
                      NEW k \in BalanceKey, NEW a \in DOMAIN c[k]
               PROVE  c[k][a] >= -MaxAmount
    BY DEF Fits
  <2>1. CASE k = key /\ a = account
    BY <1>1, <1>7, <2>1 DEF Written
  <2>2. CASE k = key /\ a # account
    BY <1>7, <2>2 DEF Written, Fits
  <2>3. CASE k # key
    BY <1>7, <2>3 DEF Written, Fits
  <2> QED BY <2>1, <2>2, <2>3
<1>10. old >= -MaxAmount => Changed(b, c, key, account, n)
  BY <1>6, <1>7, <1>8 DEF Changed, Written, old
<1>11. /\ IsBook(c)
       /\ \A k \in BalanceKey : k # key => c[k] = b[k]
       /\ \A k \in BalanceKey : DOMAIN b[k] \subseteq DOMAIN c[k]
  BY <1>7 DEF Written
<1>12. Fits(b) /\ n \in -MaxAmount..MaxAmount => Fits(c)
  BY <1>3, <1>4, <1>9
<1>13. Fits(b) /\ account \in DOMAIN b[key] => Fits(c)
  BY <1>3, <1>9
<1>14. Stepped(b, c, key, account, n)
  BY <1>10, <1>11, <1>12, <1>13 DEF Stepped, old
<1> QED BY <1>14 DEF c

LEMMA RemoveBalanceSteps ==
  ASSUME NEW b, IsBook(b), NEW account, NEW key \in BalanceKey, NEW n \in Word,
         MayRemove(b, account, key, n)
  PROVE  Stepped(b, RemoveBalance(b, account, key, n), key, account, -n)
<1> DEFINE old == b[key][account]
           new == Wrap(old - n)
           c == RemoveBalance(b, account, key, n)
           m == -n
<1>1. /\ n \in Int /\ n >= -HalfWord /\ n <= HalfWord
      /\ MaxAmount \in Nat /\ HalfWord \in Nat /\ HalfWord = 2 * (MaxAmount + 1)
  BY Widths DEF Word
<1>2. account \in DOMAIN b[key] /\ new \in -MaxAmount..MaxAmount
  BY DEF MayRemove, CanSub
<1>3. account \in Account
  BY <1>2 DEF IsBook, IsTable
<1>4. At(b[key], account) = old
  BY <1>2 DEF At
<1>5. old \in Int /\ old <= MaxAmount
  BY <1>4, BookNumbers
<1> HIDE DEF old
<1>6. m \in Int /\ m >= -HalfWord /\ m <= HalfWord /\ old + m = old - n
  BY <1>1, <1>5
<1>7. old >= -MaxAmount => new = old + m
  <2> HIDE DEF m
  <2>1. Wrap(old + m) \in -MaxAmount..MaxAmount
    BY <1>2, <1>6
  <2>2. ASSUME old >= -MaxAmount PROVE Wrap(old + m) = old + m
    <3>1. old \in -MaxAmount..MaxAmount
      BY <1>1, <1>5, <2>2
    <3> QED BY <1>6, <2>1, <3>1, SumsInRange
  <2> QED BY <1>6, <2>2
<1>8. new \in Amounts
  <2> HIDE DEF new
  <2> QED BY <1>1, <1>2 DEF Amounts
<1>9. Written(b, c, key, account, new)
  <2>1. c = [b EXCEPT ![key] = Put(@, account, new)]
    <3>1. DOMAIN b = BalanceKey
      BY DEF IsBook
    <3> QED BY <3>1 DEF RemoveBalance, old
  <2> HIDE DEF c, new
  <2> QED BY <1>3, <1>8, <2>1, RowWritten
<1> HIDE DEF c
<1>10. At(c[key], account) = new
  BY <1>9 DEF Written, At
<1> HIDE DEF new, m
<1>11. Fits(b) => Fits(c)
  <2> SUFFICES ASSUME Fits(b), NEW k \in BalanceKey, NEW a \in DOMAIN c[k]
               PROVE  c[k][a] >= -MaxAmount
    BY DEF Fits
  <2>1. CASE k = key /\ a = account
    BY <1>1, <1>2, <1>9, <2>1 DEF Written
  <2>2. CASE k = key /\ a # account
    BY <1>9, <2>2 DEF Written, Fits
  <2>3. CASE k # key
    BY <1>9, <2>3 DEF Written, Fits
  <2> QED BY <2>1, <2>2, <2>3
<1>12. old >= -MaxAmount => Changed(b, c, key, account, m)
  BY <1>4, <1>7, <1>9, <1>10 DEF Changed, Written
<1>13. /\ IsBook(c)
       /\ \A k \in BalanceKey : k # key => c[k] = b[k]
       /\ \A k \in BalanceKey : DOMAIN b[k] \subseteq DOMAIN c[k]
  BY <1>9 DEF Written
<1>14. Stepped(b, c, key, account, m)
  BY <1>4, <1>11, <1>12, <1>13 DEF Stepped
<1> QED BY <1>14 DEF c, m

When(condition, n) == IF condition THEN n ELSE 0

\* Four changes, two under each of two keys, that cancel out in total.
FourChanges(b0, b1, b2, b3, b4, system, x1, m1, x2, m2, token, x3, n1, x4, n2) ==
  /\ IsBook(b0) /\ IsBook(b1) /\ IsBook(b2) /\ IsBook(b3)
  /\ system \in BalanceKey /\ token \in BalanceKey
  /\ m1 \in Int /\ m2 \in Int /\ n1 \in Int /\ n2 \in Int
  /\ Changed(b0, b1, system, x1, m1) /\ Changed(b1, b2, system, x2, m2)
  /\ Changed(b2, b3, token, x3, n1) /\ Changed(b3, b4, token, x4, n2)
  /\ \A k \in BalanceKey \ {system} : b1[k] = b0[k] /\ b2[k] = b1[k]
  /\ \A k \in BalanceKey \ {token} : b3[k] = b2[k] /\ b4[k] = b3[k]

LEMMA FourChangesEffect ==
  ASSUME NEW b0, NEW b1, NEW b2, NEW b3, NEW b4, NEW system, NEW token,
         NEW m1, NEW m2, NEW n1, NEW n2, NEW x1, NEW x2, NEW x3, NEW x4,
         FourChanges(b0, b1, b2, b3, b4, system, x1, m1, x2, m2, token, x3, n1, x4, n2),
         NEW k \in BalanceKey, NEW h
  PROVE  At(b4[k], h) = At(b0[k], h)
           + When(k = system, When(h = x1, m1) + When(h = x2, m2))
           + When(k = token, When(h = x3, n1) + When(h = x4, n2))
<1>0. /\ m1 \in Int /\ m2 \in Int /\ n1 \in Int /\ n2 \in Int
      /\ Changed(b0, b1, system, x1, m1) /\ Changed(b1, b2, system, x2, m2)
      /\ Changed(b2, b3, token, x3, n1) /\ Changed(b3, b4, token, x4, n2)
      /\ k # system => b1[k] = b0[k] /\ b2[k] = b1[k]
      /\ k # token => b3[k] = b2[k] /\ b4[k] = b3[k]
  BY DEF FourChanges
<1>1. At(b0[k], h) \in Int /\ At(b1[k], h) \in Int /\ At(b2[k], h) \in Int /\ At(b3[k], h) \in Int
  BY BookNumbers DEF FourChanges
<1>2. At(b1[k], h) = At(b0[k], h) + When(k = system, When(h = x1, m1))
  BY <1>0, <1>1 DEF Changed, When
<1>3. At(b2[k], h) = At(b1[k], h) + When(k = system, When(h = x2, m2))
  BY <1>0, <1>1 DEF Changed, When
<1>4. At(b3[k], h) = At(b2[k], h) + When(k = token, When(h = x3, n1))
  BY <1>0, <1>1 DEF Changed, When
<1>5. At(b4[k], h) = At(b3[k], h) + When(k = token, When(h = x4, n2))
  BY <1>0, <1>1 DEF Changed, When
<1>6. /\ When(h = x1, m1) \in Int /\ When(h = x2, m2) \in Int
      /\ When(h = x3, n1) \in Int /\ When(h = x4, n2) \in Int
  BY <1>0 DEF When
<1> QED BY <1>1, <1>2, <1>3, <1>4, <1>5, <1>6 DEF When

(***************************************************************************)
(* seller gives amount of token to buyer for cost of system, and no other  *)
(* balance changes.                                                        *)
(***************************************************************************)
SwappedAt(before, after, k, h, token, system, seller, buyer, amount, cost) ==
  after = before
    + When(k = system, When(h = seller, cost) - When(h = buyer, cost))
    + When(k = token, When(h = buyer, amount) - When(h = seller, amount))

Swapped(token, system, seller, buyer, amount, cost) ==
  \A k \in BalanceKey : \A h :
    SwappedAt(At(balances[k], h), At(balances'[k], h), k, h, token, system, seller, buyer, amount, cost)

\* The balances after the four steps of a settlement.
Resolves(token, system, seller, buyer, amount, cost) ==
  /\ token \in BalanceKey /\ system \in BalanceKey
  /\ IsBook(balances')
  /\ \A k \in BalanceKey \ {token, system} : balances'[k] = balances[k]
  /\ Fits(balances) => Swapped(token, system, seller, buyer, amount, cost)

MarketInv ==
  /\ TokenInv
  /\ BookInv
  /\ IsBook(balances)
  /\ spent \in Nat

(* An offer whose symbol resolves is one of a token that can be deposited. *)
LEMMA KeysResolve ==
  ASSUME RegistryInv, NEW d, NEW symbol \in Symbol, HasTokenAccount(d, symbol)
  PROVE  KeyOf(d, symbol) \in BalanceKey
<1> DEFINE list == daos[d].tokens
           positions == Positions(d, symbol)
<1>1. list \in Seq(TokenRow)
  BY DEF RegistryInv, RegistryTypeOK, IsTable, DaoRow, HasTokenAccount
<1>2. TokenAccount(d, symbol) \in Contract
  <2>1. CASE positions # {}
    <3>1. positions \subseteq DOMAIN list /\ DOMAIN list \subseteq Nat
      BY <1>1 DEF Positions
    <3> HIDE DEF positions, list
    <3>2. Min(positions) \in DOMAIN list
      BY <2>1, <3>1, MinIsLeast
    <3>3. list[Min(positions)] \in TokenRow
      BY <1>1, <3>2
    <3>4. list[Min(positions)].account \in TokenContract
      BY <3>3 DEF TokenRow
    <3> QED BY <2>1, <3>4, LedgerAssumption DEF TokenAccount, positions, list
  <2>2. CASE positions = {}
    BY <2>2, LedgerAssumption DEF TokenAccount
  <2> QED BY <2>1, <2>2
<1> QED BY <1>2 DEF KeyOf, BalanceKey

(* What is on offer. *)
LEMMA ActiveOffer ==
  ASSUME MarketInv, NEW d \in DaoId, NEW id, IsActive(d, id)
  PROVE  /\ offers[d][id] \in OfferRow
         /\ offers[d][id].available_quantity = offers[d][id].total_quantity
         /\ offers[d][id].total_quantity \in Word /\ offers[d][id].price \in Word
         /\ offers[d][id].creator \in Account
         /\ offers[d][id].symbol \in Symbol /\ offers[d][id].price_symbol \in Symbol
<1>1. id \in DOMAIN offers[d] /\ offers[d][id].status = Active
  BY DEF IsActive
<1>2. offers[d][id] \in OfferRow
  BY <1>1 DEF MarketInv, BookInv, OffersTabled, IsTable
<1>3. offers[d][id].available_quantity = offers[d][id].total_quantity
  BY <1>1 DEF MarketInv, BookInv, AllOrNothing
<1>4. /\ offers[d][id].total_quantity \in OfferAmount /\ offers[d][id].price \in OfferAmount
      /\ offers[d][id].creator \in Account
      /\ offers[d][id].symbol \in Symbol /\ offers[d][id].price_symbol \in Symbol
  BY <1>2 DEF OfferRow
<1> QED BY <1>2, <1>3, <1>4, Widths

(* Whoever has enough has at most what an asset holds. *)
LEMMA EnoughIsLittle ==
  ASSUME NEW b, IsBook(b), NEW key \in BalanceKey, NEW account, NEW n \in Word,
         CanSub(b[key], account, n)
  PROVE  n <= MaxAmount /\ account \in DOMAIN b[key]
<1>1. account \in DOMAIN b[key] /\ b[key][account] >= n
  BY DEF CanSub
<1>2. At(b[key], account) \in Amounts /\ At(b[key], account) \in Int
  BY BookNumbers
<1>3. At(b[key], account) <= MaxAmount
  BY <1>2, Widths DEF Amounts
<1> QED BY <1>1, <1>2, <1>3, Widths DEF At

LEMMA ResolveBuySwaps ==
  ASSUME MarketInv, NEW d \in DaoId, NEW id, NEW seller \in Account,
         ResolveBuyOffer(d, id, seller)
  PROVE  LET offer == offers[d][id] IN
         Resolves(KeyOf(d, offer.symbol), KeyOf(d, offer.price_symbol), seller, offer.creator,
                  offer.total_quantity, Cost(offer.total_quantity, offer.price))
<1> DEFINE offer == offers[d][id]
           amount == offer.total_quantity
           cost == Cost(amount, offer.price)
           buyer == offer.creator
           token == KeyOf(d, offer.symbol)
           system == KeyOf(d, offer.price_symbol)
           b1 == RemoveBalance(balances, buyer, system, cost)
           b2 == AddBalance(b1, seller, system, cost)
           b3 == AddBalance(b2, buyer, token, amount)
           b4 == RemoveBalance(b3, seller, token, amount)
<1>1. /\ offer.available_quantity = amount /\ amount \in Word
      /\ buyer \in Account /\ offer.symbol \in Symbol /\ offer.price_symbol \in Symbol
      /\ cost \in -MaxAmount..MaxAmount
  <2>1. /\ offer.available_quantity = amount /\ amount \in Word /\ offer.price \in Word
        /\ buyer \in Account /\ offer.symbol \in Symbol /\ offer.price_symbol \in Symbol
    BY ActiveOffer DEF ResolveBuyOffer
  <2> QED BY <2>1, CostMeaning
<1>2. /\ HasEnough(d, seller, offer.symbol, amount)
      /\ HasTokenAccount(d, offer.price_symbol)
      /\ MayRemove(balances, buyer, system, cost)
      /\ MayAdd(b1, seller, system, cost)
      /\ MayAdd(b2, buyer, token, amount)
      /\ MayRemove(b3, seller, token, amount)
      /\ balances' = b4
  BY <1>1 DEF ResolveBuyOffer
<1>3. token \in BalanceKey /\ system \in BalanceKey
  BY <1>1, <1>2, KeysResolve DEF HasEnough, MarketInv, BookInv
<1>4. CanSub(balances[token], seller, amount) /\ IsBook(balances)
  BY <1>2 DEF HasEnough, MarketInv
<1> HIDE DEF offer, amount, cost, buyer, token, system
<1>5. /\ cost \in Word /\ cost <= MaxAmount /\ cost \in Int /\ -cost \in Int
      /\ amount \in Int /\ -amount \in Int /\ -cost \in -MaxAmount..MaxAmount
  BY <1>1, Widths DEF Word
<1>6. amount <= MaxAmount /\ seller \in DOMAIN balances[token]
  BY <1>1, <1>3, <1>4, EnoughIsLittle
<1>7. Stepped(balances, b1, system, buyer, -cost)
  BY <1>2, <1>3, <1>4, <1>5, RemoveBalanceSteps
<1> HIDE DEF b1
<1>8. Stepped(b1, b2, system, seller, cost)
  BY <1>2, <1>3, <1>5, <1>7, AddBalanceSteps DEF Stepped
<1> HIDE DEF b2
<1>9. Stepped(b2, b3, token, buyer, amount)
  BY <1>1, <1>2, <1>3, <1>6, <1>8, AddBalanceSteps DEF Stepped
<1> HIDE DEF b3
<1>10. Stepped(b3, b4, token, seller, -amount)
  BY <1>1, <1>2, <1>3, <1>9, RemoveBalanceSteps DEF Stepped
<1> HIDE DEF b4
<1>11. /\ IsBook(b1) /\ IsBook(b2) /\ IsBook(b3) /\ IsBook(b4)
       /\ \A k \in BalanceKey \ {system} : b1[k] = balances[k] /\ b2[k] = b1[k]
       /\ \A k \in BalanceKey \ {token} : b3[k] = b2[k] /\ b4[k] = b3[k]
  BY <1>7, <1>8, <1>9, <1>10 DEF Stepped
<1>12. ASSUME Fits(balances)
       PROVE  Swapped(token, system, seller, buyer, amount, cost)
  <2>1. Changed(balances, b1, system, buyer, -cost) /\ Fits(b1)
    BY <1>3, <1>4, <1>5, <1>7, <1>12, BookNumbers DEF Stepped
  <2>2. Changed(b1, b2, system, seller, cost) /\ Fits(b2)
    BY <1>1, <1>3, <1>8, <1>11, <2>1, BookNumbers DEF Stepped
  <2>3. Changed(b2, b3, token, buyer, amount)
    BY <1>3, <1>9, <1>11, <2>2, BookNumbers DEF Stepped
  <2>4. At(b3[token], seller) >= -MaxAmount
    <3>1. CASE seller = buyer
      <4>1. Fits(b3)
        BY <1>6, <1>7, <1>8, <1>9, <2>2, <3>1, <1>3 DEF Stepped
      <4> QED BY <1>3, <1>11, <4>1, BookNumbers
    <3>2. CASE seller # buyer
      <4>1. At(b3[token], seller) = At(b2[token], seller)
        BY <2>3, <3>2 DEF Changed
      <4> QED BY <1>3, <1>11, <2>2, <4>1, BookNumbers
    <3> QED BY <3>1, <3>2
  <2>5. Changed(b3, b4, token, seller, -amount)
    BY <1>10, <2>4 DEF Stepped
  <2>6. FourChanges(balances, b1, b2, b3, b4, system, buyer, -cost, seller, cost,
                    token, buyer, amount, seller, -amount)
    BY <1>3, <1>4, <1>5, <1>11, <2>1, <2>2, <2>3, <2>5 DEF FourChanges
  <2> SUFFICES ASSUME NEW k \in BalanceKey, NEW h
               PROVE  SwappedAt(At(balances[k], h), At(b4[k], h), k, h,
                                token, system, seller, buyer, amount, cost)
    BY <1>2 DEF Swapped
  <2>7. At(b4[k], h) = At(balances[k], h)
          + When(k = system, When(h = buyer, -cost) + When(h = seller, cost))
          + When(k = token, When(h = buyer, amount) + When(h = seller, -amount))
    BY <2>6, FourChangesEffect
  <2>8. At(balances[k], h) \in Int
    BY <1>4, BookNumbers
  <2> QED BY <1>5, <2>7, <2>8 DEF When, SwappedAt
<1>13. \A k \in BalanceKey \ {token, system} : b4[k] = balances[k]
  BY <1>11
<1>14. Resolves(token, system, seller, buyer, amount, cost)
  BY <1>2, <1>3, <1>11, <1>12, <1>13 DEF Resolves
<1> QED BY <1>14 DEF offer, amount, cost, buyer, token, system

LEMMA ResolveSellSwaps ==
  ASSUME MarketInv, NEW d \in DaoId, NEW id, NEW buyer \in Account,
         ResolveSellOffer(d, id, buyer)
  PROVE  LET offer == offers[d][id] IN
         Resolves(KeyOf(d, offer.symbol), KeyOf(d, offer.price_symbol), offer.creator, buyer,
                  offer.total_quantity, Cost(offer.total_quantity, offer.price))
<1> DEFINE offer == offers[d][id]
           amount == offer.total_quantity
           cost == Cost(amount, offer.price)
           seller == offer.creator
           token == KeyOf(d, offer.symbol)
           system == KeyOf(d, offer.price_symbol)
           b1 == AddBalance(balances, seller, system, cost)
           b2 == RemoveBalance(b1, buyer, system, cost)
           b3 == RemoveBalance(b2, seller, token, amount)
           b4 == AddBalance(b3, buyer, token, amount)
<1>1. /\ offer.available_quantity = amount /\ amount \in Word
      /\ seller \in Account /\ offer.symbol \in Symbol /\ offer.price_symbol \in Symbol
      /\ cost \in -MaxAmount..MaxAmount
  <2>1. /\ offer.available_quantity = amount /\ amount \in Word /\ offer.price \in Word
        /\ seller \in Account /\ offer.symbol \in Symbol /\ offer.price_symbol \in Symbol
    BY ActiveOffer DEF ResolveSellOffer
  <2> QED BY <2>1, CostMeaning
<1>2. /\ HasEnough(d, buyer, offer.price_symbol, cost)
      /\ HasTokenAccount(d, offer.symbol)
      /\ MayAdd(balances, seller, system, cost)
      /\ MayRemove(b1, buyer, system, cost)
      /\ MayRemove(b2, seller, token, amount)
      /\ MayAdd(b3, buyer, token, amount)
      /\ balances' = b4
  BY <1>1 DEF ResolveSellOffer
<1>3. token \in BalanceKey /\ system \in BalanceKey
  BY <1>1, <1>2, KeysResolve DEF HasEnough, MarketInv, BookInv
<1>4. IsBook(balances)
  BY DEF MarketInv
<1> HIDE DEF offer, amount, cost, seller, token, system
<1>5. /\ cost \in Word /\ cost <= MaxAmount /\ cost \in Int /\ -cost \in Int
      /\ amount \in Int /\ -amount \in Int
  BY <1>1, Widths DEF Word
<1>6. Stepped(balances, b1, system, seller, cost)
  BY <1>1, <1>2, <1>3, <1>4, <1>5, AddBalanceSteps
<1> HIDE DEF b1
<1>7. Stepped(b1, b2, system, buyer, -cost)
  BY <1>2, <1>3, <1>5, <1>6, RemoveBalanceSteps DEF Stepped
<1>8. CanSub(b2[token], seller, amount)
  BY <1>2 DEF MayRemove
<1>9. MayRemove(b2, seller, token, amount)
  BY <1>2
<1> HIDE DEF b2
<1>10. amount <= MaxAmount /\ seller \in DOMAIN b2[token]
  BY <1>1, <1>3, <1>7, <1>8, EnoughIsLittle DEF Stepped
<1>11. Stepped(b2, b3, token, seller, -amount)
  BY <1>1, <1>3, <1>7, <1>9, RemoveBalanceSteps DEF Stepped
<1> HIDE DEF b3
<1>12. Stepped(b3, b4, token, buyer, amount)
  BY <1>1, <1>2, <1>3, <1>10, <1>11, AddBalanceSteps DEF Stepped
<1> HIDE DEF b4
<1>13. /\ IsBook(b1) /\ IsBook(b2) /\ IsBook(b3) /\ IsBook(b4)
       /\ \A k \in BalanceKey \ {system} : b1[k] = balances[k] /\ b2[k] = b1[k]
       /\ \A k \in BalanceKey \ {token} : b3[k] = b2[k] /\ b4[k] = b3[k]
  BY <1>6, <1>7, <1>11, <1>12 DEF Stepped
<1>14. ASSUME Fits(balances)
       PROVE  Swapped(token, system, seller, buyer, amount, cost)
  <2>1. Fits(b1) /\ At(balances[system], seller) >= -MaxAmount
    BY <1>1, <1>3, <1>4, <1>6, <1>14, BookNumbers DEF Stepped
  <2>2. -cost \in -MaxAmount..MaxAmount
    BY <1>1, Widths
  <2>3. Fits(b2) /\ At(b1[system], buyer) >= -MaxAmount
    BY <1>3, <1>7, <1>13, <2>1, <2>2, BookNumbers DEF Stepped
  <2>4. Fits(b3) /\ At(b2[token], seller) >= -MaxAmount
    BY <1>3, <1>10, <1>11, <1>13, <2>3, BookNumbers DEF Stepped
  <2>5. At(b3[token], buyer) >= -MaxAmount
    BY <1>3, <1>13, <2>4, BookNumbers
  <2>6. /\ Changed(balances, b1, system, seller, cost) /\ Changed(b1, b2, system, buyer, -cost)
        /\ Changed(b2, b3, token, seller, -amount) /\ Changed(b3, b4, token, buyer, amount)
    BY <1>6, <1>7, <1>11, <1>12, <2>1, <2>3, <2>4, <2>5 DEF Stepped
  <2>7. FourChanges(balances, b1, b2, b3, b4, system, seller, cost, buyer, -cost,
                    token, seller, -amount, buyer, amount)
    BY <1>3, <1>4, <1>5, <1>13, <2>6 DEF FourChanges
  <2> SUFFICES ASSUME NEW k \in BalanceKey, NEW h
               PROVE  SwappedAt(At(balances[k], h), At(b4[k], h), k, h,
                                token, system, seller, buyer, amount, cost)
    BY <1>2 DEF Swapped
  <2>8. At(b4[k], h) = At(balances[k], h)
          + When(k = system, When(h = seller, cost) + When(h = buyer, -cost))
          + When(k = token, When(h = seller, -amount) + When(h = buyer, amount))
    BY <2>7, FourChangesEffect
  <2>9. At(balances[k], h) \in Int
    BY <1>4, BookNumbers
  <2> QED BY <1>5, <2>8, <2>9 DEF When, SwappedAt
<1>15. \A k \in BalanceKey \ {token, system} : b4[k] = balances[k]
  BY <1>13
<1>16. Resolves(token, system, seller, buyer, amount, cost)
  BY <1>2, <1>3, <1>13, <1>14, <1>15 DEF Resolves
<1> QED BY <1>16 DEF offer, amount, cost, seller, token, system

----------------------------------------------------------------------------
(* What the actions of the composition do to balances and custody. *)

(* What the market's actions do to the ledger: only accepting an offer changes it. *)
LEMMA StepOfLedger ==
  ASSUME [OffersNext]_offersVars
  PROVE  \/ LedgerNext
         \/ UNCHANGED ledgerVars
         \/ \E d \in DaoId, account \in Account : \E offer_id :
              AcceptOffer(account, d, account, offer_id)
<1>1. ASSUME NEW d \in DaoId, NEW creator \in Account, NEW quantity, NEW price_per_unit, NEW type,
             CreateOffer(creator, d, creator, quantity, price_per_unit, type)
      PROVE  UNCHANGED ledgerVars \/ \E offer_id : AcceptOffer(creator, d, creator, offer_id)
  BY <1>1 DEF CreateOffer, StoreOffer
<1>2. CASE \E signer \in Account, d \in DaoId : \E offer_id : RemoveOffer(signer, d, offer_id)
  BY <1>2 DEF RemoveOffer
<1>3. CASE Tick
  BY <1>3 DEF Tick
<1>4. CASE UNCHANGED offersVars
  BY <1>4 DEF offersVars
<1> QED BY <1>1, <1>2, <1>3, <1>4 DEF OffersNext, MarketNext

LEMMA AcceptResolves ==
  ASSUME MarketInv, NEW signer, NEW d \in DaoId, NEW account \in Account, NEW offer_id,
         AcceptOffer(signer, d, account, offer_id)
  PROVE  /\ \E token, system, seller, buyer, amount, cost :
              /\ seller \in Account /\ buyer \in Account /\ amount \in Int /\ cost \in Int
              /\ Resolves(token, system, seller, buyer, amount, cost)
         /\ d \in DOMAIN daos
         /\ UNCHANGED <<tokenVars, registryVars, spent>>
<1> DEFINE id == Resolved(offer_id)
           offer == offers[d][id]
           amount == offer.total_quantity
           cost == Cost(amount, offer.price)
           token == KeyOf(d, offer.symbol)
           system == KeyOf(d, offer.price_symbol)
<1>1. /\ ResolveSellOffer(d, id, account) \/ ResolveBuyOffer(d, id, account)
      /\ UNCHANGED <<tokenVars, registryVars, spent>>
  BY DEF AcceptOffer
<1>2. IsActive(d, id)
  BY <1>1 DEF ResolveSellOffer, ResolveBuyOffer
<1>3. amount \in Word /\ offer.price \in Word /\ offer.creator \in Account
  BY <1>2, ActiveOffer
<1>4. amount \in Int /\ cost \in Int
  <2>1. cost \in -MaxAmount..MaxAmount
    BY <1>3, CostMeaning
  <2>2. Word \subseteq Int /\ -MaxAmount..MaxAmount \subseteq Int
    BY Widths
  <2> HIDE DEF cost, amount
  <2> QED BY <1>3, <2>1, <2>2
<1>5. d \in DOMAIN daos
  BY <1>1 DEF ResolveSellOffer, ResolveBuyOffer, HasEnough, HasTokenAccount
<1>6. \/ Resolves(token, system, offer.creator, account, amount, cost)
      \/ Resolves(token, system, account, offer.creator, amount, cost)
  BY <1>1, ResolveSellSwaps, ResolveBuySwaps
<1> HIDE DEF offer, amount, cost, token, system
<1> QED BY <1>1, <1>3, <1>4, <1>5, <1>6

\* account's balance under key and the custody of that token change by n.
Carried(key, account, n) ==
  /\ key \in BalanceKey /\ account \in Account /\ n \in Int /\ n # 0
  /\ IsBook(balances')
  /\ \A k \in BalanceKey : k # key => balances'[k] = balances[k]
  /\ At(balances'[key], account) = At(balances[key], account) + n
  /\ \A a : a # account => At(balances'[key], a) = At(balances[key], a)
  /\ Custody(key) \in Nat /\ Custody(key)' = Custody(key) + n
  /\ n < 0 => At(balances'[key], account) >= 0

LEMMA DepositCarries ==
  ASSUME MarketInv, NEW from \in Account, NEW c \in Contract, NEW quantity \in Asset,
         NEW dao_id, Deposit(from, c, quantity, dao_id)
  PROVE  /\ TokenInv' /\ UNCHANGED registryVars /\ UNCHANGED spent
         /\ Carried(<<c, quantity.symbol>>, from, quantity.amount)
<1> DEFINE key == <<c, quantity.symbol>>
           n == quantity.amount
           new == At(balances[key], from) + n
<1>1. /\ key \in BalanceKey /\ n \in Nat /\ n > 0
      /\ TokenOf(key) = <<c, quantity.symbol.code>>
  <2>1. key \in BalanceKey /\ key[1] = c /\ key[2] = quantity.symbol
    BY DEF BalanceKey, Asset
  <2>2. n > 0 /\ n \in Int
    BY ChainAssumption DEF Deposit, Transfer, Asset
  <2> QED BY <2>1, <2>2 DEF TokenOf
<1>2. UnitsMove(TokenOf(key), from, Self, n)
  BY <1>1, TransferMoves, ChainAssumption, RegistryAssumption DEF Deposit, MarketInv
<1>3. /\ new \in -MaxAmount..MaxAmount
      /\ balances' = [balances EXCEPT ![key] = Put(@, from, new)]
      /\ UNCHANGED registryVars /\ UNCHANGED spent
  <2>1. /\ CanAdd(balances[key], from, n)
        /\ balances' = [balances EXCEPT ![key] = Add(@, from, n)]
        /\ UNCHANGED registryVars /\ UNCHANGED spent
    BY DEF Deposit
  <2>2. DOMAIN balances = BalanceKey
    BY DEF MarketInv, IsBook
  <2> HIDE DEF key, n
  <2> QED BY <1>1, <2>1, <2>2 DEF CanAdd, Add
<1> HIDE DEF key, n, new
<1>4. TokenInv' /\ At(accounts'[TokenOf(key)], Self) = At(accounts[TokenOf(key)], Self) + n
  BY <1>2, UnitsMoved DEF MarketInv
<1>5. Custody(key) \in Nat /\ Custody(key)' = Custody(key) + n
  BY <1>1, <1>4, CustodyNatural DEF MarketInv, Custody
<1>6. new \in Amounts
  BY <1>3, Widths DEF Amounts
<1>7. Written(balances, balances', key, from, new)
  BY <1>1, <1>3, <1>6, RowWritten DEF MarketInv
<1>8. At(balances'[key], from) = At(balances[key], from) + n
  BY <1>7 DEF Written, At, new
<1>9. Carried(key, from, n)
  BY <1>1, <1>5, <1>7, <1>8 DEF Carried, Written
<1> QED BY <1>3, <1>4, <1>9 DEF key, n

LEMMA WithdrawCarries ==
  ASSUME MarketInv, NEW account \in Account, NEW c \in Contract, NEW quantity \in Asset,
         Withdraw(account, c, quantity)
  PROVE  /\ TokenInv' /\ UNCHANGED registryVars /\ UNCHANGED spent
         /\ Carried(<<c, quantity.symbol>>, account, -quantity.amount)
<1> DEFINE key == <<c, quantity.symbol>>
           n == quantity.amount
           old == At(balances[key], account)
           new == old - n
<1>1. /\ key \in BalanceKey /\ n \in Nat /\ n > 0
      /\ TokenOf(key) = <<c, quantity.symbol.code>>
  <2>1. key \in BalanceKey /\ key[1] = c /\ key[2] = quantity.symbol
    BY DEF BalanceKey, Asset
  <2>2. n > 0 /\ n \in Int
    BY ChainAssumption DEF Withdraw, Transfer, Asset
  <2> QED BY <2>1, <2>2 DEF TokenOf
<1>2. UnitsMove(TokenOf(key), Self, account, n)
  BY <1>1, TransferMoves, ChainAssumption, RegistryAssumption DEF Withdraw, MarketInv
<1>3. /\ old >= n
      /\ balances' = [balances EXCEPT ![key] = Put(@, account, new)]
      /\ UNCHANGED registryVars /\ UNCHANGED spent
  <2>1. /\ CanSub(balances[key], account, n)
        /\ balances' = [balances EXCEPT ![key] = Sub(@, account, n)]
        /\ UNCHANGED registryVars /\ UNCHANGED spent
    BY DEF Withdraw
  <2>2. DOMAIN balances = BalanceKey
    BY DEF MarketInv, IsBook
  <2> HIDE DEF key, n
  <2> QED BY <1>1, <2>1, <2>2 DEF CanSub, Sub, At
<1>4. old \in Int /\ old <= MaxAmount
  BY <1>1, BookNumbers DEF MarketInv
<1> HIDE DEF key, n, old
<1>5. new \in Amounts /\ new >= 0
  BY <1>1, <1>3, <1>4, Widths DEF Amounts
<1> HIDE DEF new
<1>6. TokenInv' /\ At(accounts'[TokenOf(key)], Self) = At(accounts[TokenOf(key)], Self) - n
  BY <1>2, UnitsMoved DEF MarketInv
<1>7. Custody(key) \in Nat /\ Custody(key)' = Custody(key) + (-n)
  <2>1. Custody(key) \in Nat
    BY <1>1, CustodyNatural DEF MarketInv
  <2> QED BY <1>1, <1>6, <2>1 DEF Custody
<1>8. Written(balances, balances', key, account, new)
  BY <1>1, <1>3, <1>5, RowWritten DEF MarketInv
<1>9. At(balances'[key], account) = new
  BY <1>8 DEF Written, At
<1>10. At(balances'[key], account) = At(balances[key], account) + (-n)
  BY <1>1, <1>4, <1>9 DEF old, new
<1>11. Carried(key, account, -n)
  BY <1>1, <1>5, <1>7, <1>8, <1>9, <1>10 DEF Carried, Written
<1> QED BY <1>3, <1>6, <1>11 DEF key, n

(* reset leaves the rows of accounts it does not list, and no organization. *)
LEMMA ResetForfeits ==
  ASSUME MarketInv, NEW signer, NEW users, Reset(signer, users)
  PROVE  /\ IsBook(balances')
         /\ \A k \in BalanceKey : \A a :
              At(balances'[k], a) = IF a \in users THEN 0 ELSE At(balances[k], a)
         /\ daos' = NoRows
         /\ UNCHANGED tokenVars /\ UNCHANGED spent
<1>1. /\ \A k \in BalanceKey :
           balances'[k] = Restrict(balances[k], DOMAIN balances[k] \ users)
      /\ DOMAIN balances' = BalanceKey
      /\ daos' = NoRows /\ UNCHANGED tokenVars /\ UNCHANGED spent
  BY DEF Reset, ResetDaos
<1>2. \A k \in BalanceKey : IsTable(balances[k], Account, Amounts)
  BY DEF MarketInv, IsBook
<1>3. ASSUME NEW k \in BalanceKey PROVE IsTable(balances'[k], Account, Amounts)
  <2> DEFINE rows == balances[k]
             kept == DOMAIN rows \ users
  <2>1. balances'[k] = Restrict(rows, kept) /\ IsTable(rows, Account, Amounts)
    BY <1>1, <1>2
  <2>2. kept \subseteq DOMAIN rows
    OBVIOUS
  <2> HIDE DEF rows, kept
  <2>3. IsTable(Restrict(rows, kept), Account, Amounts)
    BY <2>1, <2>2 DEF IsTable, Restrict
  <2> QED BY <2>1, <2>3
<1>4. ASSUME NEW k \in BalanceKey, NEW a
      PROVE  At(balances'[k], a) = IF a \in users THEN 0 ELSE At(balances[k], a)
  <2> DEFINE rows == balances[k]
  <2>1. balances'[k] = Restrict(rows, DOMAIN rows \ users)
    BY <1>1
  <2> HIDE DEF rows
  <2>2. At(Restrict(rows, DOMAIN rows \ users), a) = IF a \in users THEN 0 ELSE At(rows, a)
    BY DEF At, Restrict
  <2> QED BY <2>1, <2>2 DEF rows
<1> QED BY <1>1, <1>3, <1>4 DEF IsBook

(* The other actions leave the balances, and raise no custody. *)
BalancesKept ==
  /\ UNCHANGED balances
  /\ TokenInv'
  /\ spent' \in Nat
  /\ \A key \in BalanceKey : Custody(key) \in Nat /\ Custody(key)' \in Nat /\ Custody(key)' <= Custody(key)

LEMMA TokenUnchanged ==
  ASSUME TokenInv, UNCHANGED tokenVars
  PROVE  TokenInv' /\ accounts' = accounts /\ \A key \in BalanceKey : Custody(key)' = Custody(key)
<1>1. UNCHANGED stat /\ UNCHANGED accounts
  BY DEF tokenVars
<1> QED BY <1>1 DEF TokenInv, TokenTypeOK, Conservation, Supply, SupplyWithinMax, Custody

LEMMA OthersKeepBalances ==
  ASSUME MarketInv,
         \/ TokenActivity
         \/ UNCHANGED <<tokenVars, balances, spent>>
         \/ \E signer \in Account, dao, creator \in Name, ipfs \in Ipfs :
              \E bill \in ResourceBills(dao) : FoundDao(signer, dao, creator, ipfs, bill)
  PROVE  BalancesKept
<1>1. TokenInv /\ RegistryInv /\ spent \in Nat /\ \A key \in BalanceKey : Custody(key) \in Nat
  BY CustodyNatural DEF MarketInv, BookInv
<1>2. CASE UNCHANGED <<tokenVars, balances, spent>>
  BY <1>1, <1>2, TokenUnchanged DEF BalancesKept
<1>3. CASE TokenActivity
  <2>1. TokenInv' /\ Untouched(Self)
    BY <1>1, <1>3, TokenActivityEffect
  <2>2. \A key \in BalanceKey : Custody(key)' = Custody(key)
    BY <2>1, KeysAreOfTokens DEF Untouched, Custody
  <2>3. UNCHANGED <<balances, spent>>
    BY <1>3 DEF TokenActivity
  <2> QED BY <1>1, <2>1, <2>2, <2>3 DEF BalancesKept
<1>4. ASSUME NEW signer \in Account, NEW dao \in Name, NEW creator \in Name, NEW ipfs \in Ipfs,
             NEW bill \in ResourceBills(dao), FoundDao(signer, dao, creator, ipfs, bill)
      PROVE  BalancesKept
  <2>1. /\ dao \in Account => ResourcesConfigured
        /\ PayEosio(bill) /\ spent' = spent + bill /\ UNCHANGED balances
    BY <1>4 DEF FoundDao, CreateDao
  <2>2. bill \in Nat
    BY <1>1, <2>1, BillIsNat
  <2>3. /\ TokenInv'
        /\ At(accounts'[TokenOf(SystemKey)], Self)
             = At(accounts[TokenOf(SystemKey)], Self) - bill
        /\ At(accounts'[TokenOf(SystemKey)], Self) \in Nat
        /\ \A u \in TokenId : u # TokenOf(SystemKey) => accounts'[u] = accounts[u]
    BY <1>1, <2>1, <2>2, PayEosioEffect
  <2>4. ASSUME NEW key \in BalanceKey
        PROVE  Custody(key)' \in Nat /\ Custody(key)' <= Custody(key)
    <3>1. Custody(key) \in Nat
      BY <1>1
    <3>2. CASE TokenOf(key) = TokenOf(SystemKey)
      BY <2>2, <2>3, <3>1, <3>2 DEF Custody
    <3>3. CASE TokenOf(key) # TokenOf(SystemKey)
      BY <2>3, <3>1, <3>3, KeysAreOfTokens DEF Custody
    <3> QED BY <3>2, <3>3
  <2> QED BY <1>1, <2>1, <2>2, <2>3, <2>4 DEF BalancesKept
<1> QED BY <1>2, <1>3, <1>4

(***************************************************************************)
(* The kinds of steps there are: a step leaves the balances, carries units *)
(* in or out, forfeits them, or settles an offer.                          *)
(***************************************************************************)
StepKinds ==
  \/ BalancesKept
  \/ /\ TokenInv' /\ UNCHANGED registryVars /\ UNCHANGED spent
     /\ \E key, account, n : Carried(key, account, n)
  \/ \E signer, users : Reset(signer, users)
  \/ \E d \in DaoId, account \in Account : \E offer_id :
       AcceptOffer(account, d, account, offer_id)

LEMMA StepIsOfAKind == ASSUME MarketInv, [OffersNext]_offersVars PROVE StepKinds
<1>1. CASE UNCHANGED ledgerVars
  <2>1. UNCHANGED <<tokenVars, balances, spent>>
    BY <1>1 DEF ledgerVars
  <2> QED BY <2>1, OthersKeepBalances DEF StepKinds
<1>2. ASSUME NEW account \in Account, NEW c \in Contract, NEW quantity \in Asset,
             \/ \E dao_id \in 0..MaxDaoId : Deposit(account, c, quantity, dao_id)
             \/ Withdraw(account, c, quantity)
      PROVE  StepKinds
  <2>1. ASSUME NEW dao_id, Deposit(account, c, quantity, dao_id) PROVE StepKinds
    BY <2>1, DepositCarries DEF StepKinds
  <2>2. ASSUME Withdraw(account, c, quantity) PROVE StepKinds
    BY <2>2, WithdrawCarries DEF StepKinds
  <2> QED BY <1>2, <2>1, <2>2
<1>3. ASSUME NEW signer, NEW users, Reset(signer, users) PROVE StepKinds
  BY <1>3 DEF StepKinds
<1>4. ASSUME \/ TokenActivity
             \/ UNCHANGED <<tokenVars, balances, spent>>
             \/ \E signer \in Account, dao, creator \in Name, ipfs \in Ipfs :
                  \E bill \in ResourceBills(dao) : FoundDao(signer, dao, creator, ipfs, bill)
      PROVE  StepKinds
  BY <1>4, OthersKeepBalances DEF StepKinds
<1>5. CASE LedgerNext
  BY <1>2, <1>3, <1>4, <1>5 DEF LedgerNext
<1>6. ASSUME NEW d \in DaoId, NEW account \in Account, NEW offer_id,
             AcceptOffer(account, d, account, offer_id)
      PROVE  StepKinds
  BY <1>6 DEF StepKinds
<1> QED BY <1>1, <1>5, <1>6, StepOfLedger

LEMMA MarketInvInit == OffersInit => MarketInv
<1> SUFFICES ASSUME OffersInit PROVE MarketInv
  OBVIOUS
<1>1. TokenInv /\ BookInv
  BY TokenInvInit, BookInvInit DEF OffersInit, LedgerInit
<1>2. IsBook(balances) /\ spent \in Nat
  BY DEF OffersInit, LedgerInit, IsBook, IsTable, NoRows
<1> QED BY <1>1, <1>2 DEF MarketInv

LEMMA MarketInvStep == MarketInv /\ [OffersNext]_offersVars => MarketInv'
<1> SUFFICES ASSUME MarketInv, [OffersNext]_offersVars PROVE MarketInv'
  OBVIOUS
<1>1. BookInv'
  BY BookInvStep DEF MarketInv
<1>2. StepKinds
  BY StepIsOfAKind
<1>3. TokenInv /\ IsBook(balances) /\ spent \in Nat
  BY DEF MarketInv
<1>4. ASSUME NEW signer, NEW users, Reset(signer, users)
      PROVE  TokenInv' /\ IsBook(balances') /\ spent' \in Nat
  BY <1>3, <1>4, ResetForfeits, TokenUnchanged
<1>5. ASSUME NEW d \in DaoId, NEW account \in Account, NEW offer_id,
             AcceptOffer(account, d, account, offer_id)
      PROVE  TokenInv' /\ IsBook(balances') /\ spent' \in Nat
  <2>1. IsBook(balances') /\ UNCHANGED tokenVars /\ UNCHANGED spent
    BY <1>5, AcceptResolves DEF Resolves
  <2> QED BY <1>3, <2>1, TokenUnchanged
<1>6. TokenInv' /\ IsBook(balances') /\ spent' \in Nat
  <2>1. BalancesKept => TokenInv' /\ IsBook(balances') /\ spent' \in Nat
    BY <1>3 DEF BalancesKept, IsBook
  <2>2. ASSUME TokenInv', UNCHANGED spent, NEW key, NEW account, NEW n, Carried(key, account, n)
        PROVE  TokenInv' /\ IsBook(balances') /\ spent' \in Nat
    BY <1>3, <2>2 DEF Carried
  <2> QED BY <1>2, <1>4, <1>5, <2>1, <2>2 DEF StepKinds
<1> QED BY <1>1, <1>6 DEF MarketInv

LEMMA MarketInvariant == OffersSpec => []MarketInv
BY MarketInvInit, MarketInvStep, PTL DEF OffersSpec

(***************************************************************************)
(* The tables of the composition keep their types, for orders of any sign  *)
(* and size: what a settlement inserts or adds is never more than somebody *)
(* had, so no balance exceeds what an asset holds.                         *)
(***************************************************************************)
THEOREM OffersTypeCorrect == OffersSpec => []OffersTypeOK
<1>1. MarketInv => OffersTypeOK
  BY DEF MarketInv, TokenInv, BookInv, RegistryInv, OffersTabled, IsBook, Amounts, OffersTypeOK
<1> QED BY <1>1, MarketInvariant, PTL

----------------------------------------------------------------------------
(* What users see: an exchange. *)

LEMMA GainsAre ==
  \A k \in BalanceKey, h \in Account :
    Exchange!Gains[k][h] = At(balances'[k], h) - At(balances[k], h)
BY DEF Exchange!Gains

LEMMA KeptIsOperation == ASSUME BalancesKept PROVE Exchange!Next
<1>1. /\ \A key \in BalanceKey : Custody(key)' <= Custody(key)
      /\ balances' = balances
  BY DEF BalancesKept
<1>2. Exchange!Operate
  BY <1>1 DEF Exchange!Operate
<1> QED BY <1>2 DEF Exchange!Next

LEMMA CarriedIsCarry ==
  ASSUME MarketInv, UNCHANGED registryVars, NEW key, NEW account, NEW n, Carried(key, account, n)
  PROVE  Exchange!Next
<1> DEFINE gain == Exchange!Gains
<1>1. /\ key \in BalanceKey /\ account \in Account /\ n \in Int /\ n # 0
      /\ \A k \in BalanceKey : k # key => balances'[k] = balances[k]
      /\ At(balances'[key], account) = At(balances[key], account) + n
      /\ \A a : a # account => At(balances'[key], a) = At(balances[key], a)
      /\ Custody(key) \in Nat /\ Custody(key)' = Custody(key) + n
      /\ n < 0 => At(balances'[key], account) >= 0
  BY DEF Carried
<1>2. \A k \in BalanceKey, h \in Account : At(balances[k], h) \in Int
  BY BookNumbers DEF MarketInv
<1>3. /\ gain[key][account] = n
      /\ \A k \in BalanceKey, h \in Account : k # key \/ h # account => gain[k][h] = 0
  BY <1>1, <1>2, GainsAre
<1>4. daos' = daos
  BY DEF registryVars
<1> HIDE DEF gain
<1>5. Exchange!Kinds(gain) = {key} /\ Exchange!Parties(gain) = {account}
  BY <1>1, <1>3 DEF Exchange!Kinds, Exchange!Parties
<1>6. Exchange!Carry(gain)
  BY <1>1, <1>3, <1>4, <1>5 DEF Exchange!Carry
<1> QED BY <1>6 DEF Exchange!Next, gain

LEMMA SwappedIsSwap ==
  ASSUME MarketInv, NEW d \in DOMAIN daos, UNCHANGED <<tokenVars, registryVars>>,
         NEW token \in BalanceKey, NEW system \in BalanceKey,
         NEW seller \in Account, NEW buyer \in Account, NEW amount \in Int, NEW cost \in Int,
         Swapped(token, system, seller, buyer, amount, cost)
  PROVE  Exchange!Next
<1> DEFINE gain == Exchange!Gains
<1>1. \A k \in BalanceKey, h \in Account : At(balances[k], h) \in Int
  BY BookNumbers DEF MarketInv
<1>2. \A k \in BalanceKey, h \in Account :
        gain[k][h] = When(k = system, When(h = seller, cost) - When(h = buyer, cost))
                       + When(k = token, When(h = buyer, amount) - When(h = seller, amount))
  <2> SUFFICES ASSUME NEW k \in BalanceKey, NEW h \in Account
               PROVE  gain[k][h] =
                        When(k = system, When(h = seller, cost) - When(h = buyer, cost))
                          + When(k = token, When(h = buyer, amount) - When(h = seller, amount))
    OBVIOUS
  <2>1. SwappedAt(At(balances[k], h), At(balances'[k], h), k, h,
                  token, system, seller, buyer, amount, cost)
    BY DEF Swapped
  <2>2. gain[k][h] = At(balances'[k], h) - At(balances[k], h)
    BY GainsAre
  <2> HIDE DEF gain
  <2> QED BY <1>1, <2>1, <2>2 DEF When, SwappedAt
<1>3. /\ DOMAIN daos' = DOMAIN daos /\ DOMAIN daos # {}
      /\ \A key \in BalanceKey : Custody(key)' = Custody(key)
  BY TokenUnchanged DEF MarketInv, registryVars
<1> HIDE DEF gain
<1>4. CASE seller = buyer
  <2>1. \A k \in BalanceKey, h \in Account : gain[k][h] = 0
    BY <1>2, <1>4 DEF When
  <2>2. \A k \in BalanceKey, h \in Account : At(balances'[k], h) = At(balances[k], h)
    <3> SUFFICES ASSUME NEW k \in BalanceKey, NEW h \in Account
                 PROVE  At(balances'[k], h) = At(balances[k], h)
      OBVIOUS
    <3>1. SwappedAt(At(balances[k], h), At(balances'[k], h), k, h,
                    token, system, seller, buyer, amount, cost)
      BY DEF Swapped
    <3> QED BY <1>1, <1>4, <3>1 DEF When, SwappedAt
  <2>3. \A key \in BalanceKey : Custody(key)' <= Custody(key)
    BY <1>3, CustodyNatural DEF MarketInv
  <2>4. Exchange!Operate
    BY <2>2, <2>3 DEF Exchange!Operate
  <2> QED BY <2>4 DEF Exchange!Next
<1>5. CASE seller # buyer
  <2>1. Exchange!Kinds(gain) \subseteq {token, system}
    BY <1>2 DEF Exchange!Kinds, When
  <2>2. Exchange!Parties(gain) \subseteq {seller, buyer}
    BY <1>2 DEF Exchange!Parties, When
  <2>3. \A k \in BalanceKey : gain[k][seller] + gain[k][buyer] = 0
    BY <1>2, <1>5 DEF When
  <2>4. Exchange!Swap(gain)
    BY <1>3, <1>5, <2>1, <2>2, <2>3 DEF Exchange!Swap
  <2> QED BY <2>4 DEF Exchange!Next, gain
<1> QED BY <1>4, <1>5

LEMMA ResetIsForfeit ==
  ASSUME MarketInv, NEW signer, NEW users, Reset(signer, users)
  PROVE  Exchange!Next
<1> DEFINE gain == Exchange!Gains
<1>1. /\ \A k \in BalanceKey : \A a :
           At(balances'[k], a) = IF a \in users THEN 0 ELSE At(balances[k], a)
      /\ DOMAIN daos' = {}
      /\ \A key \in BalanceKey : Custody(key)' = Custody(key)
  BY ResetForfeits, TokenUnchanged DEF MarketInv, NoRows
<1>2. \A k \in BalanceKey, h \in Account : At(balances[k], h) \in Int
  BY BookNumbers DEF MarketInv
<1>3. \A k \in BalanceKey, h \in Account : gain[k][h] # 0 => h \in users
  BY <1>1, <1>2, GainsAre
<1> HIDE DEF gain
<1>4. Exchange!Parties(gain) \subseteq users \cap Account
  BY <1>3 DEF Exchange!Parties
<1>5. Exchange!Forfeit(gain)
  BY <1>1, <1>4 DEF Exchange!Forfeit
<1> QED BY <1>5 DEF Exchange!Next, gain

LEMMA NothingIsPromised == ASSUME MarketInv, ~Fits(balances) PROVE Exchange!Next
<1>1. PICK key \in BalanceKey : \E a \in DOMAIN balances[key] : ~(balances[key][a] >= -MaxAmount)
  BY DEF Fits
<1> PICK a \in DOMAIN balances[key] : ~(balances[key][a] >= -MaxAmount)
  BY <1>1
<1>2. a \in Account /\ At(balances[key], a) = balances[key][a]
  BY DEF MarketInv, IsBook, IsTable, At
<1>3. At(balances[key], a) \in Int /\ MaxAmount \in Nat
  BY BookNumbers, Widths DEF MarketInv
<1>4. At(balances[key], a) < -MaxAmount
  BY <1>1, <1>2, <1>3
<1>5. Exchange!Broken
  BY <1>2, <1>4 DEF Exchange!Broken
<1> QED BY <1>5 DEF Exchange!Next

(***************************************************************************)
(* Every step of the composition is one of the exchange's: depositors and  *)
(* traders, of quantities of any sign, see no steps in between.            *)
(***************************************************************************)
THEOREM OffersSettlementIsSwap == OffersSpec => SettlementIsSwap
<1>1. ASSUME MarketInv, [OffersNext]_offersVars PROVE Exchange!Next
  <2>1. StepKinds
    BY <1>1, StepIsOfAKind
  <2>2. ASSUME UNCHANGED registryVars, NEW key, NEW account, NEW n, Carried(key, account, n)
        PROVE  Exchange!Next
    BY <1>1, <2>2, CarriedIsCarry
  <2>3. ASSUME NEW d \in DaoId, NEW account \in Account, NEW offer_id,
               AcceptOffer(account, d, account, offer_id)
        PROVE  Exchange!Next
    <3>1. PICK token, system, seller, buyer, amount, cost :
            /\ seller \in Account /\ buyer \in Account /\ amount \in Int /\ cost \in Int
            /\ Resolves(token, system, seller, buyer, amount, cost)
      BY <1>1, <2>3, AcceptResolves
    <3>2. d \in DOMAIN daos /\ UNCHANGED <<tokenVars, registryVars>>
      BY <1>1, <2>3, AcceptResolves
    <3>3. CASE Fits(balances)
      BY <1>1, <3>1, <3>2, <3>3, SwappedIsSwap DEF Resolves
    <3>4. CASE ~Fits(balances)
      BY <1>1, <3>4, NothingIsPromised
    <3> QED BY <3>3, <3>4
  <2> QED BY <1>1, <2>1, <2>2, <2>3, KeptIsOperation, ResetIsForfeit DEF StepKinds
<1>2. MarketInv /\ [OffersNext]_offersVars => [Exchange!Next]_(Exchange!vars)
  BY <1>1
<1> QED BY <1>2, MarketInvariant, PTL DEF OffersSpec, SettlementIsSwap, Exchange!Steps

----------------------------------------------------------------------------
(* Offers are settled once. *)

(* A step that closes an offer closes no other. *)
LEMMA ClosesSettles ==
  ASSUME OffersTabled, NEW d, NEW id, Closes(d, id)
  PROVE  /\ d \in DaoId /\ id \in 0..MaxOfferId
         /\ \A e \in DaoId : \A i : Settled(e, i) <=> e = d /\ i = id
<1>1. /\ DOMAIN offers'[d] = DOMAIN offers[d] /\ id \in DOMAIN offers[d]
      /\ offers[d][id].status = Active /\ offers'[d][id] = Shut(offers[d][id])
      /\ offers[d][id] \in OfferRow
      /\ \A i \in DOMAIN offers[d] : i # id => offers'[d][i] = offers[d][i]
      /\ \A e \in DaoId : e # d => offers'[e] = offers[e]
  BY ClosesEffect
<1>2. Shut(offers[d][id]).status = Closed
  BY <1>1, ShutRow
<1>3. d \in DaoId /\ id \in 0..MaxOfferId
  BY <1>1 DEF Closes, OffersTabled, IsTable
<1>4. Settled(d, id)
  BY <1>1, <1>2 DEF Settled
<1>5. ASSUME NEW e \in DaoId, NEW i, Settled(e, i) PROVE e = d /\ i = id
  <2>1. i \in DOMAIN offers[e] /\ offers'[e][i] # offers[e][i]
    BY <1>5 DEF Settled, Active, Closed
  <2> QED BY <1>1, <2>1
<1> QED BY <1>3, <1>4, <1>5

LEMMA AcceptSettlesOne ==
  ASSUME OffersTabled, NEW signer, NEW d \in DaoId, NEW account, NEW offer_id,
         AcceptOffer(signer, d, account, offer_id)
  PROVE  Cardinality({p \in DaoId \X (0..MaxOfferId) : Settled(p[1], p[2])}) = 1
<1> DEFINE id == Resolved(offer_id)
           settled == {p \in DaoId \X (0..MaxOfferId) : Settled(p[1], p[2])}
<1>1. Closes(d, id)
  BY AcceptCloses
<1> HIDE DEF id
<1>2. /\ d \in DaoId /\ id \in 0..MaxOfferId
      /\ \A e \in DaoId : \A i : Settled(e, i) <=> e = d /\ i = id
  BY <1>1, ClosesSettles
<1>3. settled = {<<d, id>>}
  BY <1>2
<1> HIDE DEF settled
<1>4. Cardinality(settled) = 1
  BY <1>3, FS_Singleton
<1> QED BY <1>4 DEF settled

LEMMA StaysClosed ==
  ASSUME BookInv, [OffersNext]_offersVars,
         NEW d \in DaoId, NEW id \in DOMAIN offers[d] \cap DOMAIN offers'[d],
         offers[d][id].status = Closed
  PROVE  offers'[d][id].status = Closed
<1>1. RegistryInv /\ OffersTabled
  BY DEF BookInv
<1>2. ASSUME NEW e, NEW i, Closes(e, i) PROVE offers'[d][id] = offers[d][id]
  <2>1. /\ offers[e][i].status = Active
        /\ \A j \in DOMAIN offers[e] : j # i => offers'[e][j] = offers[e][j]
        /\ \A f \in DaoId : f # e => offers'[f] = offers[f]
    BY <1>1, <1>2, ClosesEffect
  <2> QED BY <2>1 DEF Active, Closed
<1>3. ASSUME NEW e, NEW i, NEW row, Stores(e, i, row) PROVE offers'[d][id] = offers[d][id]
  BY <1>1, <1>3, StoresEffect
<1>4. ASSUME NEW e, NEW i, Removes(e, i) PROVE offers'[d][id] = offers[d][id]
  BY <1>1, <1>4, RemovesEffect
<1>5. offers'[d][id] = offers[d][id]
  BY <1>1, <1>2, <1>3, <1>4, StepOfBook
<1> QED BY <1>5

(***************************************************************************)
(* No balance moves but by a deposit, a withdrawal, a reset or with one    *)
(* offer going from active to closed, for good: what nobody can do is to   *)
(* have an offer settled a second time.                                    *)
(***************************************************************************)
THEOREM OffersSettledOnce == OffersSpec => SettledOnce
<1> DEFINE Once ==
      /\ balances' # balances /\ accounts' = accounts /\ daos' # NoRows =>
           Cardinality({p \in DaoId \X (0..MaxOfferId) : Settled(p[1], p[2])}) = 1
      /\ \A d \in DaoId : \A id \in DOMAIN offers[d] \cap DOMAIN offers'[d] :
           offers[d][id].status = Closed => offers'[d][id].status = Closed
<1>1. ASSUME MarketInv, [OffersNext]_offersVars PROVE Once
  <2>1. BookInv /\ OffersTabled /\ StepKinds
    BY <1>1, StepIsOfAKind DEF MarketInv, BookInv
  <2>2. ASSUME balances' # balances, accounts' = accounts, daos' # NoRows
        PROVE  Cardinality({p \in DaoId \X (0..MaxOfferId) : Settled(p[1], p[2])}) = 1
    <3>1. ~BalancesKept
      BY <2>2 DEF BalancesKept
    <3>2. ASSUME NEW key, NEW account, NEW n, Carried(key, account, n) PROVE FALSE
      <4>1. /\ n \in Int /\ n # 0
            /\ Custody(key) \in Nat /\ Custody(key)' = Custody(key) + n
        BY <3>2 DEF Carried
      <4>2. Custody(key)' = Custody(key)
        BY <2>2 DEF Custody
      <4> QED BY <4>1, <4>2
    <3>3. ASSUME NEW signer, NEW users, Reset(signer, users) PROVE FALSE
      BY <1>1, <2>2, <3>3, ResetForfeits
    <3> QED BY <2>1, <3>1, <3>2, <3>3, AcceptSettlesOne DEF StepKinds
  <2> QED BY <1>1, <2>1, <2>2, StaysClosed
<1> QED BY <1>1, MarketInvariant, PTL DEF OffersSpec, SettledOnce

----------------------------------------------------------------------------
(* What offers are settled for. *)

(* A step that settles an offer accepts one, and the low byte of that      *)
(* one's id is the id of the offer settled.                                *)
LEMMA OnlyAcceptSettles ==
  ASSUME RegistryInv, OffersTabled, [OffersNext]_offersVars, NEW d \in DaoId, NEW id, Settled(d, id)
  PROVE  \E account \in Account : \E offer_id :
           AcceptOffer(account, d, account, offer_id) /\ Resolved(offer_id) = id
<1>1. /\ id \in DOMAIN offers[d] /\ id \in DOMAIN offers'[d]
      /\ offers'[d][id] # offers[d][id] /\ offers'[d][id].status = Closed
  BY DEF Settled, Active, Closed
<1>2. ASSUME NEW e \in DaoId, NEW account \in Account, NEW offer_id,
             AcceptOffer(account, e, account, offer_id)
      PROVE  AcceptOffer(account, d, account, offer_id) /\ Resolved(offer_id) = id
  <2>1. Closes(e, Resolved(offer_id))
    BY <1>2, AcceptCloses
  <2>2. /\ \A i \in DOMAIN offers[e] : i # Resolved(offer_id) => offers'[e][i] = offers[e][i]
        /\ \A f \in DaoId : f # e => offers'[f] = offers[f]
    BY <2>1, ClosesEffect
  <2> QED BY <1>1, <1>2, <2>2
<1>3. ASSUME NEW e \in DaoId, NEW creator \in Account,
             NEW quantity \in OfferAsset, NEW price_per_unit \in OfferAsset, NEW type \in {Sell, Buy},
             CreateOffer(creator, e, creator, quantity, price_per_unit, type)
      PROVE  \E offer_id : AcceptOffer(creator, e, creator, offer_id)
  <2>1. ASSUME NEW token_idx, StoreOffer(e, creator, quantity, price_per_unit, token_idx, type)
        PROVE  FALSE
    <3> DEFINE new == NextKey(offers[e])
               row == [creator |-> creator, symbol |-> quantity.symbol,
                       price_symbol |-> price_per_unit.symbol,
                       available_quantity |-> quantity.amount, total_quantity |-> quantity.amount,
                       price |-> price_per_unit.amount, status |-> Active, type |-> type,
                       token_idx |-> token_idx, creation_date |-> now]
    <3>1. offers' = [offers EXCEPT ![e] = Put(@, new, row)] /\ row.status = Active
      BY <2>1 DEF StoreOffer
    <3>2. DOMAIN offers = DaoId
      BY DEF OffersTabled
    <3> HIDE DEF new, row
    <3>3. offers'[e] = Put(offers[e], new, row) /\ \A f \in DaoId : f # e => offers'[f] = offers[f]
      BY <3>1, <3>2
    <3>4. CASE e = d /\ id = new
      <4>1. offers'[d][id] = row
        BY <3>3, <3>4 DEF Put
      <4> QED BY <1>1, <3>1, <4>1 DEF Active, Closed
    <3>5. CASE e = d /\ id # new
      BY <1>1, <3>3, <3>5 DEF Put
    <3> QED BY <1>1, <3>3, <3>4, <3>5
  <2> QED BY <1>3, <2>1 DEF CreateOffer
<1>4. ASSUME NEW signer, NEW e \in DaoId, NEW offer_id, RemoveOffer(signer, e, offer_id) PROVE FALSE
  <2>1. Removes(e, offer_id)
    BY <1>4 DEF RemoveOffer, Removes
  <2> QED BY <1>1, <2>1, RemovesEffect
<1>5. offers' # offers
  BY <1>1
<1>6. ~Tick /\ ~(LedgerNext /\ UNCHANGED <<offers, now>>) /\ ~UNCHANGED offersVars
  BY <1>5 DEF Tick, offersVars
<1> QED BY <1>2, <1>3, <1>4, <1>6 DEF OffersNext, MarketNext

(* An id that fits a byte is the one resolved. *)
LEMMA IdIsResolved ==
  ASSUME NEW id \in 0..(ByteRange - 1)
  PROVE  Resolved(id) = id
<1>1. ByteRange \in Nat /\ id \in Nat /\ id < ByteRange
  BY RegistryAssumption
<1> QED BY <1>1 DEF Resolved

\* When seller gets cost for amount, holder's balance under key becomes what Gain says.
LEMMA SwappedIsGain ==
  ASSUME IsBook(balances), NEW d, NEW offer, NEW seller, NEW buyer, NEW cost \in Int,
         offer.total_quantity \in Int,
         Swapped(KeyOf(d, offer.symbol), KeyOf(d, offer.price_symbol),
                 seller, buyer, offer.total_quantity, cost),
         NEW key \in BalanceKey, NEW holder \in Account
  PROVE  At(balances'[key], holder) - At(balances[key], holder) =
           Gain(offer, cost, d, seller, buyer, key, holder)
<1> DEFINE amount == offer.total_quantity
           token == KeyOf(d, offer.symbol)
           system == KeyOf(d, offer.price_symbol)
           before == At(balances[key], holder)
           after == At(balances'[key], holder)
           side == (IF holder = buyer THEN 1 ELSE 0) - (IF holder = seller THEN 1 ELSE 0)
<1>1. SwappedAt(before, after, key, holder, token, system, seller, buyer, amount, cost)
  BY DEF Swapped
<1>2. before \in Int
  BY BookNumbers
<1>3. Gain(offer, cost, d, seller, buyer, key, holder) =
        (IF key = token THEN side * amount ELSE 0) - (IF key = system THEN side * cost ELSE 0)
  BY DEF Gain
<1>4. amount \in Int
  OBVIOUS
<1> HIDE DEF amount, token, system, before, after
<1>5. after - before =
        (IF key = token THEN side * amount ELSE 0) - (IF key = system THEN side * cost ELSE 0)
  BY <1>1, <1>2, <1>4 DEF When, SwappedAt
<1> QED BY <1>3, <1>5 DEF after, before

LEMMA SettledAsAgreed ==
  ASSUME MarketInv, [OffersNext]_offersVars,
         NEW d \in DaoId, NEW id \in DOMAIN offers[d], Settled(d, id),
         offers[d][id].total_quantity * offers[d][id].price \in Word,
         DOMAIN offers[d] \subseteq 0..(ByteRange - 1), BalancesFit
  PROVE  LET offer == offers[d][id] IN
         \E other \in Account, cost \in -MaxAmount..MaxAmount :
           /\ IsRounded(cost, offer.total_quantity * offer.price)
           /\ \A key \in BalanceKey, holder \in Account :
                At(balances'[key], holder) - At(balances[key], holder) =
                  IF offer.type = Sell
                  THEN Gain(offer, cost, d, offer.creator, other, key, holder)
                  ELSE Gain(offer, cost, d, other, offer.creator, key, holder)
<1> DEFINE offer == offers[d][id]
           cost == Cost(offer.total_quantity, offer.price)
<1>1. RegistryInv /\ OffersTabled /\ IsBook(balances) /\ Fits(balances)
  BY DEF MarketInv, BookInv, BalancesFit, Fits
<1>2. \A i \in DOMAIN offers[d] : Resolved(i) = i
  BY IdIsResolved
<1>3. PICK account \in Account : AcceptOffer(account, d, account, id)
  <2>1. \E account \in Account : \E offer_id :
               AcceptOffer(account, d, account, offer_id) /\ Resolved(offer_id) = id
    BY <1>1, OnlyAcceptSettles
  <2>2. ASSUME NEW account \in Account, NEW offer_id,
               AcceptOffer(account, d, account, offer_id)
        PROVE  Resolved(offer_id) = offer_id
    BY <1>2, <2>2 DEF AcceptOffer, IsActive
  <2> QED BY <2>1, <2>2
<1>4. IsActive(d, id) /\ Resolved(id) = id
  BY <1>2, <1>3 DEF AcceptOffer
<1>5. offer.total_quantity \in Word /\ offer.price \in Word
  BY <1>4, ActiveOffer
<1>6. cost \in -MaxAmount..MaxAmount /\ IsRounded(cost, offer.total_quantity * offer.price)
  BY <1>5, CostMeaning
<1>7. offer.total_quantity \in Int /\ cost \in Int
  <2>1. Word \subseteq Int /\ -MaxAmount..MaxAmount \subseteq Int
    BY Widths
  <2> HIDE DEF offer, cost
  <2> QED BY <1>5, <1>6, <2>1
<1>8. \/ offer.type = Sell /\ ResolveSellOffer(d, id, account)
      \/ offer.type = Buy /\ ResolveBuyOffer(d, id, account)
  BY <1>3, <1>4 DEF AcceptOffer
<1>9. ASSUME offer.type = Sell, ResolveSellOffer(d, id, account)
      PROVE  \A key \in BalanceKey, holder \in Account :
               At(balances'[key], holder) - At(balances[key], holder) =
                 Gain(offer, cost, d, offer.creator, account, key, holder)
  <2>1. Swapped(KeyOf(d, offer.symbol), KeyOf(d, offer.price_symbol),
                offer.creator, account, offer.total_quantity, cost)
    BY <1>1, <1>9, ResolveSellSwaps DEF Resolves
  <2> HIDE DEF offer, cost
  <2> QED BY <1>1, <1>7, <2>1, SwappedIsGain
<1>10. ASSUME offer.type = Buy, ResolveBuyOffer(d, id, account)
       PROVE  \A key \in BalanceKey, holder \in Account :
                At(balances'[key], holder) - At(balances[key], holder) =
                  Gain(offer, cost, d, account, offer.creator, key, holder)
  <2>1. Swapped(KeyOf(d, offer.symbol), KeyOf(d, offer.price_symbol),
                account, offer.creator, offer.total_quantity, cost)
    BY <1>1, <1>10, ResolveBuySwaps DEF Resolves
  <2> HIDE DEF offer, cost
  <2> QED BY <1>1, <1>7, <2>1, SwappedIsGain
<1>11. Buy # Sell
  BY DEF Buy, Sell
<1> HIDE DEF cost
<1> QED BY <1>6, <1>8, <1>9, <1>10, <1>11

(***************************************************************************)
(* Settlements come to what was offered, whichever side signs, for the     *)
(* quantity and the price of any sign the offer was made with.             *)
(***************************************************************************)
THEOREM OffersAgreedPrice == OffersSpec => AgreedPrice
<1> DEFINE Agreed(d, id) ==
      LET offer   == offers[d][id]
          product == offer.total_quantity * offer.price
      IN
      product \in Word /\ DOMAIN offers[d] \subseteq 0..(ByteRange - 1) /\ BalancesFit =>
        \E other \in Account, cost \in -MaxAmount..MaxAmount :
          /\ IsRounded(cost, product)
          /\ \A key \in BalanceKey, holder \in Account :
               At(balances'[key], holder) - At(balances[key], holder) =
                 IF offer.type = Sell
                 THEN Gain(offer, cost, d, offer.creator, other, key, holder)
                 ELSE Gain(offer, cost, d, other, offer.creator, key, holder)
<1>1. MarketInv /\ [OffersNext]_offersVars =>
        [\A d \in DaoId : \A id \in {i \in DOMAIN offers[d] : Settled(d, i)} :
           Agreed(d, id)]_offersVars
  BY SettledAsAgreed
<1> QED BY <1>1, MarketInvariant, PTL DEF OffersSpec, AgreedPrice

----------------------------------------------------------------------------
(* The tokens offers are settled in. *)

\* keys are the tokens symbol stood for once; if it was listed then, it stands for them still.
Noted(d, symbol, keys) ==
  \/ keys = {KeyOf(d, symbol)} /\ Positions(d, symbol) # {}
  \/ keys = {} /\ symbol # SystemSymbol
  \/ keys = {SystemKey} /\ symbol = SystemSymbol

(***************************************************************************)
(* An organization's terms are of offers it has, and are gone with it; a   *)
(* symbol that was listed when an offer was made still stands for the      *)
(* same token, as ResolutionStable says.                                   *)
(***************************************************************************)
TermsOf(d, id) ==
  /\ d \in DOMAIN daos /\ id \in DOMAIN offers[d]
  /\ Noted(d, offers[d][id].symbol, agreed[d][id].token)
  /\ Noted(d, offers[d][id].price_symbol, agreed[d][id].price)

TermsInv ==
  /\ MarketInv
  /\ DOMAIN agreed = DaoId
  /\ \A d \in DaoId : \A id \in DOMAIN agreed[d] : TermsOf(d, id)

LEMMA KeysAreNoted ==
  ASSUME NEW d \in DOMAIN daos, NEW symbol
  PROVE  Noted(d, symbol, KeysOf(d, symbol))
<1>1. CASE Positions(d, symbol) # {}
  BY <1>1 DEF Noted, KeysOf, HasTokenAccount
<1>2. CASE Positions(d, symbol) = {} /\ symbol = SystemSymbol
  BY <1>2 DEF Noted, KeysOf, KeyOf, HasTokenAccount, TokenAccount, SystemKey
<1>3. CASE Positions(d, symbol) = {} /\ symbol # SystemSymbol
  BY <1>3 DEF Noted, KeysOf, HasTokenAccount
<1> QED BY <1>1, <1>2, <1>3

LEMMA NotedStaysSo ==
  ASSUME RegistryInv, [RegistryNext]_registryVars, NEW d \in DOMAIN daos \cap DOMAIN daos',
         NEW symbol \in Symbol, NEW keys, Noted(d, symbol, keys)
  PROVE  Noted(d, symbol, keys)'
<1>1. ListsGrow
  BY StepsGrowLists
<1>2. CASE keys = {KeyOf(d, symbol)} /\ Positions(d, symbol) # {}
  <2>1. Positions(d, symbol)' # {} /\ TokenAccount(d, symbol)' = TokenAccount(d, symbol)
    BY <1>1, <1>2, ListedStaysSo
  <2> QED BY <1>2, <2>1 DEF Noted, KeyOf
<1>3. CASE (keys = {} /\ symbol # SystemSymbol) \/ (keys = {SystemKey} /\ symbol = SystemSymbol)
  BY <1>3 DEF Noted, SystemKey
<1> QED BY <1>2, <1>3 DEF Noted

(* Tables of offers and the registry never change in the same step. *)
LEMMA OffersOrRegistry ==
  ASSUME [OffersNext]_offersVars
  PROVE  UNCHANGED offers \/ UNCHANGED registryVars
<1>1. ASSUME NEW signer, NEW d, NEW creator, NEW quantity, NEW price_per_unit, NEW type,
             CreateOffer(signer, d, creator, quantity, price_per_unit, type)
      PROVE  UNCHANGED registryVars
  BY <1>1 DEF CreateOffer, StoreOffer, AcceptOffer, ledgerVars
<1>2. ASSUME NEW signer, NEW d, NEW account, NEW offer_id,
             RemoveOffer(signer, d, offer_id) \/ AcceptOffer(signer, d, account, offer_id)
      PROVE  UNCHANGED registryVars
  BY <1>2 DEF RemoveOffer, AcceptOffer, ledgerVars
<1>3. CASE UNCHANGED offersVars
  BY <1>3 DEF offersVars
<1> QED BY <1>1, <1>2, <1>3 DEF OffersNext, MarketNext, Tick

(* What an offer is for is written once. *)
LEMMA SymbolsKept ==
  ASSUME BookInv, [OffersNext]_offersVars, NEW d \in DaoId,
         NEW id \in DOMAIN offers[d] \cap DOMAIN offers'[d]
  PROVE  /\ offers'[d][id].symbol = offers[d][id].symbol
         /\ offers'[d][id].price_symbol = offers[d][id].price_symbol
<1>1. RegistryInv /\ OffersTabled
  BY DEF BookInv
<1>2. ASSUME NEW e, NEW i, Closes(e, i)
      PROVE  /\ offers'[d][id].symbol = offers[d][id].symbol
             /\ offers'[d][id].price_symbol = offers[d][id].price_symbol
  <2>1. /\ offers'[e][i] = Shut(offers[e][i]) /\ offers[e][i] \in OfferRow
        /\ \A j \in DOMAIN offers[e] : j # i => offers'[e][j] = offers[e][j]
        /\ \A f \in DaoId : f # e => offers'[f] = offers[f]
    BY <1>1, <1>2, ClosesEffect
  <2>2. CASE d = e /\ id = i
    <3> DEFINE row == offers[e][i]
    <3>1. row \in OfferRow /\ offers'[d][id] = Shut(row) /\ offers[d][id] = row
      BY <2>1, <2>2
    <3> HIDE DEF row
    <3>2. Shut(row).symbol = row.symbol /\ Shut(row).price_symbol = row.price_symbol
      BY <3>1 DEF Shut, OfferRow
    <3> QED BY <3>1, <3>2
  <2>3. CASE ~(d = e /\ id = i)
    BY <2>1, <2>3
  <2> QED BY <2>2, <2>3
<1>3. ASSUME NEW e, NEW i, NEW row, Stores(e, i, row) PROVE offers'[d][id] = offers[d][id]
  BY <1>1, <1>3, StoresEffect
<1>4. ASSUME NEW e, NEW i, Removes(e, i) PROVE offers'[d][id] = offers[d][id]
  BY <1>1, <1>4, RemovesEffect
<1> QED BY <1>1, <1>2, <1>3, <1>4, StepOfBook

LEMMA TermsInvInit == TermsInit => TermsInv
<1> SUFFICES ASSUME TermsInit PROVE TermsInv
  OBVIOUS
<1>1. MarketInv
  BY MarketInvInit DEF TermsInit
<1>2. DOMAIN agreed = DaoId /\ \A d \in DaoId : DOMAIN agreed[d] = {}
  BY DEF TermsInit, NoRows
<1> QED BY <1>1, <1>2 DEF TermsInv

LEMMA TermsInvStep == TermsInv /\ [TermsNext]_termsVars => TermsInv'
<1> SUFFICES ASSUME TermsInv, [TermsNext]_termsVars PROVE TermsInv'
  OBVIOUS
<1>1. [OffersNext]_offersVars
  BY DEF TermsNext, termsVars
<1>2. MarketInv' /\ BookInv /\ RegistryInv
  BY <1>1, MarketInvStep DEF TermsInv, MarketInv, BookInv
<1>3. [RegistryNext]_registryVars /\ (UNCHANGED offers \/ UNCHANGED registryVars)
  BY <1>1, <1>2, StepOfBook, OffersOrRegistry DEF BookInv
<1>4. \A d \in DaoId : \A id \in DOMAIN offers'[d] :
        offers'[d][id].symbol \in Symbol /\ offers'[d][id].price_symbol \in Symbol
  BY <1>2 DEF MarketInv, BookInv, OffersTabled, IsTable, OfferRow
<1>5. \A d \in DaoId : \A id \in DOMAIN offers[d] :
        offers[d][id].symbol \in Symbol /\ offers[d][id].price_symbol \in Symbol
  BY <1>2 DEF BookInv, OffersTabled, IsTable, OfferRow
<1>6. CASE UNCHANGED termsVars
  <2>1. agreed' = agreed /\ offers' = offers /\ daos' = daos
    BY <1>6 DEF termsVars, offersVars, ledgerVars, registryVars
  <2>2. ASSUME NEW d, NEW id PROVE TermsOf(d, id)' <=> TermsOf(d, id)
    BY <2>1 DEF TermsOf, Noted, KeyOf, TokenAccount, Positions, SystemKey
  <2> QED BY <1>2, <2>1, <2>2 DEF TermsInv
<1>7. CASE Remember
  <2>1. DOMAIN agreed' = DaoId
    BY <1>7 DEF Remember
  <2>2. ASSUME NEW d \in DaoId, NEW id \in DOMAIN agreed'[d] PROVE TermsOf(d, id)'
    <3>1. /\ d \in DOMAIN daos' /\ id \in DOMAIN offers'[d]
          /\ id \in DOMAIN offers[d] => id \in DOMAIN agreed[d]
          /\ agreed'[d][id] = IF id \in DOMAIN offers[d] THEN agreed[d][id]
                              ELSE Terms(d, offers'[d][id])
      BY <1>7, <2>2 DEF Remember, NoRows
    <3>2. PICK s, p, t, q :
            /\ s = offers'[d][id].symbol /\ p = offers'[d][id].price_symbol
            /\ t = agreed'[d][id].token /\ q = agreed'[d][id].price
      OBVIOUS
    <3>3. s \in Symbol /\ p \in Symbol
      BY <1>4, <3>1, <3>2
    <3>4. CASE id \in DOMAIN offers[d]
      <4>1. /\ d \in DOMAIN daos /\ agreed'[d][id] = agreed[d][id]
            /\ Noted(d, offers[d][id].symbol, agreed[d][id].token)
            /\ Noted(d, offers[d][id].price_symbol, agreed[d][id].price)
        BY <3>1, <3>4 DEF TermsInv, TermsOf
      <4>2. s = offers[d][id].symbol /\ p = offers[d][id].price_symbol
        BY <1>1, <1>2, <3>1, <3>2, <3>4, SymbolsKept
      <4>3. Noted(d, s, t) /\ Noted(d, p, q)
        BY <3>2, <4>1, <4>2
      <4>4. Noted(d, s, t)' /\ Noted(d, p, q)'
        BY <1>2, <1>3, <3>1, <3>3, <4>1, <4>3, NotedStaysSo
      <4> QED BY <3>1, <3>2, <4>4 DEF TermsOf, Noted, KeyOf, TokenAccount, Positions, SystemKey
    <3>5. CASE id \notin DOMAIN offers[d]
      <4>1. daos' = daos
        BY <1>3, <3>1, <3>5 DEF registryVars
      <4>2. t = KeysOf(d, s) /\ q = KeysOf(d, p)
        BY <3>1, <3>2, <3>5 DEF Terms
      <4>3. Noted(d, s, t) /\ Noted(d, p, q)
        BY <3>1, <4>1, <4>2, KeysAreNoted
      <4>4. Noted(d, s, t)' /\ Noted(d, p, q)'
        BY <4>1, <4>3 DEF Noted, KeyOf, TokenAccount, Positions, SystemKey
      <4> QED BY <3>1, <3>2, <4>4 DEF TermsOf, Noted, KeyOf, TokenAccount, Positions, SystemKey
    <3> QED BY <3>4, <3>5
  <2> QED BY <1>2, <2>1, <2>2 DEF TermsInv
<1> QED BY <1>6, <1>7 DEF TermsNext

LEMMA TermsInvariant == TermsSpec => []TermsInv
BY TermsInvInit, TermsInvStep, PTL DEF TermsSpec

(* A settlement changes balances of the tokens the symbols stand for. *)
LEMMA SettledInTokens ==
  ASSUME MarketInv, [OffersNext]_offersVars, NEW d \in DaoId, NEW id, Settled(d, id),
         NEW key \in BalanceKey, balances'[key] # balances[key]
  PROVE  \E symbol \in {offers[d][id].symbol, offers[d][id].price_symbol} :
           HasTokenAccount(d, symbol) /\ key = KeyOf(d, symbol)
<1>1. RegistryInv /\ OffersTabled
  BY DEF MarketInv, BookInv
<1>2. PICK account \in Account : \E offer_id :
        AcceptOffer(account, d, account, offer_id) /\ Resolved(offer_id) = id
  BY <1>1, OnlyAcceptSettles
<1>3. ResolveSellOffer(d, id, account) \/ ResolveBuyOffer(d, id, account)
  BY <1>2 DEF AcceptOffer
<1>4. HasTokenAccount(d, offers[d][id].symbol) /\ HasTokenAccount(d, offers[d][id].price_symbol)
  BY <1>3 DEF ResolveSellOffer, ResolveBuyOffer, HasEnough
<1>5. \A k \in BalanceKey \ {KeyOf(d, offers[d][id].symbol), KeyOf(d, offers[d][id].price_symbol)} :
        balances'[k] = balances[k]
  <2>1. CASE ResolveSellOffer(d, id, account)
    BY <2>1, ResolveSellSwaps DEF Resolves
  <2>2. CASE ResolveBuyOffer(d, id, account)
    BY <2>2, ResolveBuySwaps DEF Resolves
  <2> QED BY <1>3, <2>1, <2>2
<1> QED BY <1>4, <1>5

LEMMA NotedIsMeant ==
  ASSUME NEW d, NEW symbol, HasTokenAccount(d, symbol), NEW keys, Noted(d, symbol, keys)
  PROVE  StillMeans(d, symbol, keys, KeyOf(d, symbol))
BY DEF HasTokenAccount, Noted, StillMeans, KeyOf, TokenAccount, SystemKey

(***************************************************************************)
(* Whatever organizations, tokens and offers there have been since, an     *)
(* offer is settled in the tokens it was made in, but for the two          *)
(* exceptions that StillMeans names.                                       *)
(***************************************************************************)
THEOREM OffersTermsKept == TermsSpec => TermsKept
<1> DEFINE Kept ==
      \A d \in DaoId : \A id \in {i \in DOMAIN agreed[d] : Settled(d, i)} :
        \A key \in BalanceKey : balances'[key] # balances[key] =>
          \/ StillMeans(d, offers[d][id].symbol, agreed[d][id].token, key)
          \/ StillMeans(d, offers[d][id].price_symbol, agreed[d][id].price, key)
<1>1. ASSUME TermsInv, [TermsNext]_termsVars PROVE Kept
  <2> SUFFICES ASSUME NEW d \in DaoId, NEW id \in DOMAIN agreed[d], Settled(d, id),
                      NEW key \in BalanceKey, balances'[key] # balances[key]
               PROVE  \/ StillMeans(d, offers[d][id].symbol, agreed[d][id].token, key)
                      \/ StillMeans(d, offers[d][id].price_symbol, agreed[d][id].price, key)
    OBVIOUS
  <2>1. MarketInv /\ [OffersNext]_offersVars
    BY <1>1 DEF TermsInv, TermsNext, termsVars
  <2>2. PICK symbol \in {offers[d][id].symbol, offers[d][id].price_symbol} :
          HasTokenAccount(d, symbol) /\ key = KeyOf(d, symbol)
    BY <2>1, SettledInTokens
  <2>3. /\ Noted(d, offers[d][id].symbol, agreed[d][id].token)
        /\ Noted(d, offers[d][id].price_symbol, agreed[d][id].price)
    BY <1>1 DEF TermsInv, TermsOf
  <2> QED BY <2>2, <2>3, NotedIsMeant
<1>2. TermsInv /\ [TermsNext]_termsVars => [Kept]_termsVars
  BY <1>1
<1> QED BY <1>2, TermsInvariant, PTL DEF TermsSpec, TermsKept
=============================================================================
