------------------------------ MODULE DaoOffers -----------------------------
(***************************************************************************)
(* src/src/daoreg.cpp, the market: offers to sell or buy an organization's *)
(* tokens, kept in one table per organization, matched when they are       *)
(* created and settled between the balances of DaoLedger.                  *)
(*                                                                         *)
(* Creating an offer that finds a match sends an inline acceptoffer, which *)
(* runs in the same transaction: both are one action here, and if the      *)
(* acceptance fails the offer is not created either.  An offer locks no    *)
(* funds; only the checks at its creation look at its creator's balance.   *)
(* Nothing checks the sign or the range of quantities and prices, so       *)
(* balances here may be negative, unlike in the contract without a market. *)
(***************************************************************************)
EXTENDS DaoLedger

CONSTANTS
  OfferAmount, \* the amounts callers put in offers and prices, of any sign
  Unit,        \* 10000 in the code: the smallest units of one system token
  MaxOfferId,  \* bound: offer ids are uint64 in the code
  MaxTime      \* bound on the clock, seconds since the epoch in the code

\* int64_t: an asset holds a quarter of the values of a word on each side of zero.
HalfWord == 2 * (MaxAmount + 1)
Word     == -HalfWord..(HalfWord - 1)

ASSUME OffersAssumption ==
  /\ OfferAmount \subseteq Word
  /\ Unit \in Nat /\ Unit > 2
  /\ MaxOfferId \in Nat
  /\ MaxTime \in Nat

VARIABLES
  offers,   \* dao_id -> offer_id -> offer (table offers, scoped by dao_id)
  now       \* the block time

offersVars == <<ledgerVars, offers, now>>

Sell == 0        \* util::type_sell_offer
Buy  == 1        \* util::type_buy_offer
Closed == 0      \* util::status_closed
Active == 1      \* util::status_active

OfferRow == [creator : Account, symbol : Symbol, price_symbol : Symbol,
             available_quantity : Int, total_quantity : OfferAmount, price : OfferAmount,
             status : {Closed, Active}, type : {Sell, Buy},
             token_idx : TokenIdx, creation_date : 0..MaxTime]

(***************************************************************************)
(* Type correctness of the market: rows keep the shape the offers table    *)
(* gives them, and whatever is settled, with amounts of any sign, never    *)
(* takes a balance above what an asset holds.  (Balances below zero, and   *)
(* below what an asset holds, do occur.)                                   *)
(***************************************************************************)
OffersTypeOK ==
  /\ TokenTypeOK
  /\ RegistryTypeOK
  /\ DOMAIN balances = BalanceKey
  /\ \A key \in BalanceKey : IsTable(balances[key], Account, -HalfWord..MaxAmount)
  /\ spent \in Nat
  /\ DOMAIN offers = DaoId
  /\ \A d \in DaoId : IsTable(offers[d], 0..MaxOfferId, OfferRow)
  /\ now \in 0..MaxTime

OffersInit ==
  /\ LedgerInit
  /\ offers = [d \in DaoId |-> NoRows]
  /\ now = 0

----------------------------------------------------------------------------
(* Prices. *)

\* int64_t arithmetic.
Wrap(n) == ((n + HalfWord) % (2 * HalfWord)) - HalfWord

\* Division of signed integers drops the fraction.
Truncated(n, d) == IF n >= 0 THEN n \div d ELSE -((-n) \div d)

\* A faulty variant of Cost: a fraction of the smallest unit is charged whole.
CostRoundedUp(amount, price) == Truncated(Wrap(amount * price) + Unit - 1, Unit)

\* quantity.amount * price.amount / 10000
Cost(amount, price) == Truncated(Wrap(amount * price), Unit)

----------------------------------------------------------------------------
(* The index byoffermatch orders a table of offers by a number of 128 bits *)
(* made of fields: type, status and the low bits of the token index share  *)
(* the topmost, then price, then the age with the youngest first.          *)

\* A faulty variant of Rank: closed offers are not told from active ones.
RankAnyStatus(type, status, token_idx) == 16 * type + (token_idx % 16)

Rank(type, status, token_idx) == 16 * type + 4 * status + (token_idx % 16)

\* A price read as an unsigned number.
PriceBits(price) == price % (2 * HalfWord)

MatchKey(row) == <<Rank(row.type, row.status, row.token_idx), PriceBits(row.price),
                   MaxTime - row.creation_date>>

\* Lexicographic order of keys; the table's primary key settles ties.
Before(k, l) ==
  \E i \in DOMAIN k : k[i] < l[i] /\ \A j \in 1..(i - 1) : k[j] = l[j]

\* The offers at or after a lower bound whose age field is zero.
AtOrAfter(rows, rank, price) ==
  {id \in DOMAIN rows : ~Before(MatchKey(rows[id]), <<rank, PriceBits(price), 0>>)}

\* lower_bound: the first of them.
First(rows, ids) ==
  CHOOSE id \in ids : \A other \in ids \ {id} :
    \/ Before(MatchKey(rows[id]), MatchKey(rows[other]))
    \/ MatchKey(rows[id]) = MatchKey(rows[other]) /\ id < other

\* A faulty variant of Counterpart: orders look for offers of their own type.
SameSide(type) == type

Counterpart(type) == IF type = Buy THEN Sell ELSE Buy

\* What an order of this type for this token at this price is matched with.
Candidates(dao_id, type, token_idx, price) ==
  AtOrAfter(offers[dao_id], Rank(Counterpart(type), Active, token_idx), price)

----------------------------------------------------------------------------
(* Balances, found by the bare symbol through the organization's tokens.   *)

KeyOf(dao_id, symbol) == <<TokenAccount(dao_id, symbol), symbol>>

HasEnough(dao_id, account, symbol, amount) ==
  /\ HasTokenAccount(dao_id, symbol)
  /\ CanSub(balances[KeyOf(dao_id, symbol)], account, amount)

\* A faulty variant of AddBalance: the row is overwritten.
SetBalance(b, account, key, amount) == [b EXCEPT ![key] = Put(@, account, amount)]

(***************************************************************************)
(* add_balance and remove_balance on a state b of the balances, and their  *)
(* checks.  asset's += and -= compute in words, then check the range.  The *)
(* row add_balance inserts for an account without one is not checked.      *)
(***************************************************************************)
AddBalance(b, account, key, amount)    == [b EXCEPT ![key] = Put(@, account, Wrap(At(@, account) + amount))]
RemoveBalance(b, account, key, amount) == [b EXCEPT ![key] = Put(@, account, Wrap(@[account] - amount))]

MayAdd(b, account, key, amount) ==
  account \in DOMAIN b[key] => Wrap(b[key][account] + amount) \in -MaxAmount..MaxAmount

\* A faulty variant of MayRemove: the amounts are subtracted, not the assets.
MayRemoveAmount(b, account, key, amount) == CanSub(b[key], account, amount)

MayRemove(b, account, key, amount) ==
  /\ CanSub(b[key], account, amount)
  /\ Wrap(b[key][account] - amount) \in -MaxAmount..MaxAmount

----------------------------------------------------------------------------
(* Accepting an offer. *)

\* Faulty variants of CloseOffer: the quantity stays on offer, or the whole row as it was.
CloseNothing(dao_id, offer_id) == UNCHANGED offers

CloseStatusOnly(dao_id, offer_id) ==
  offers' = [offers EXCEPT ![dao_id][offer_id].status = Closed]

CloseOffer(dao_id, offer_id) ==
  offers' = [offers EXCEPT ![dao_id][offer_id].available_quantity = 0,
                           ![dao_id][offer_id].status = Closed]

IsActive(dao_id, offer_id) ==
  offer_id \in DOMAIN offers[dao_id] /\ offers[dao_id][offer_id].status = Active

(***************************************************************************)
(* The creator of a buy offer pays, account delivers.  Each of the four    *)
(* steps makes its check on the balances the steps before it left.         *)
(***************************************************************************)
ResolveBuyOffer(dao_id, offer_id, seller) ==
  LET offer  == offers[dao_id][offer_id]
      amount == offer.available_quantity
      cost   == Cost(amount, offer.price)
      token  == KeyOf(dao_id, offer.symbol)
      system == KeyOf(dao_id, offer.price_symbol)
      b1 == RemoveBalance(balances, offer.creator, system, cost)
      b2 == AddBalance(b1, seller, system, cost)
      b3 == AddBalance(b2, offer.creator, token, amount)
  IN
  /\ IsActive(dao_id, offer_id)
  /\ HasEnough(dao_id, seller, offer.symbol, amount)
  /\ HasTokenAccount(dao_id, offer.price_symbol)
  /\ MayRemove(balances, offer.creator, system, cost)
  /\ MayAdd(b1, seller, system, cost)
  /\ MayAdd(b2, offer.creator, token, amount)
  /\ MayRemove(b3, seller, token, amount)
  /\ balances' = RemoveBalance(b3, seller, token, amount)
  /\ CloseOffer(dao_id, offer_id)

\* The creator of a sell offer delivers, account pays.
ResolveSellOffer(dao_id, offer_id, buyer) ==
  LET offer  == offers[dao_id][offer_id]
      amount == offer.available_quantity
      cost   == Cost(amount, offer.price)
      token  == KeyOf(dao_id, offer.symbol)
      system == KeyOf(dao_id, offer.price_symbol)
      b1 == AddBalance(balances, offer.creator, system, cost)
      b2 == RemoveBalance(b1, buyer, system, cost)
      b3 == RemoveBalance(b2, offer.creator, token, amount)
  IN
  /\ IsActive(dao_id, offer_id)
  /\ HasEnough(dao_id, buyer, offer.price_symbol, cost)
  /\ HasTokenAccount(dao_id, offer.symbol)
  /\ MayAdd(balances, offer.creator, system, cost)
  /\ MayRemove(b1, buyer, system, cost)
  /\ MayRemove(b2, offer.creator, token, amount)
  /\ MayAdd(b3, buyer, token, amount)
  /\ balances' = AddBalance(b3, buyer, token, amount)
  /\ CloseOffer(dao_id, offer_id)

(***************************************************************************)
(* acceptoffer looks at the offer it is given to choose who pays; the      *)
(* resolving function receives the offer's id as a uint8_t.                *)
(***************************************************************************)
Resolved(offer_id) == offer_id % ByteRange

AcceptOffer(signer, dao_id, account, offer_id) ==
  /\ signer = account
  /\ IsActive(dao_id, offer_id)
  /\ \/ /\ offers[dao_id][offer_id].type = Sell
        /\ ResolveSellOffer(dao_id, Resolved(offer_id), account)
     \/ /\ offers[dao_id][offer_id].type = Buy
        /\ ResolveBuyOffer(dao_id, Resolved(offer_id), account)
  /\ UNCHANGED <<tokenVars, registryVars, spent, now>>

----------------------------------------------------------------------------
(* Creating and removing offers. *)

StoreOffer(dao_id, creator, quantity, price_per_unit, token_idx, type) ==
  LET offer_id == NextKey(offers[dao_id]) IN
  /\ offer_id <= MaxOfferId
  /\ offers' = [offers EXCEPT ![dao_id] = Put(@, offer_id,
        [creator |-> creator, symbol |-> quantity.symbol, price_symbol |-> price_per_unit.symbol,
         available_quantity |-> quantity.amount, total_quantity |-> quantity.amount,
         price |-> price_per_unit.amount, status |-> Active, type |-> type,
         token_idx |-> token_idx, creation_date |-> now])]
  /\ UNCHANGED <<ledgerVars, now>>

\* The rows of the tokens table for a symbol; the index gives the oldest.
TokenIds(dao_id, symbol) == {k \in DOMAIN tokens[dao_id] : tokens[dao_id][k].symbol = symbol}

\* What the creator must have: the price of the whole order, or the tokens.
CanAfford(dao_id, creator, quantity, price_per_unit, type) ==
  IF type = Buy
  THEN HasEnough(dao_id, creator, price_per_unit.symbol,
                 Cost(quantity.amount, price_per_unit.amount))
  ELSE HasEnough(dao_id, creator, quantity.symbol, quantity.amount)

CreateOffer(signer, dao_id, creator, quantity, price_per_unit, type) ==
  LET token_idx  == Min(TokenIds(dao_id, quantity.symbol))
      candidates == Candidates(dao_id, type, token_idx, price_per_unit.amount)
  IN
  /\ signer = creator
  /\ TokenIds(dao_id, quantity.symbol) # {}
  /\ CanAfford(dao_id, creator, quantity, price_per_unit, type)
  /\ \/ /\ candidates = {}
        /\ StoreOffer(dao_id, creator, quantity, price_per_unit, token_idx, type)
     \/ /\ candidates # {}
        /\ AcceptOffer(creator, dao_id, creator, First(offers[dao_id], candidates))

RemoveOffer(signer, dao_id, offer_id) ==
  /\ offer_id \in DOMAIN offers[dao_id]
  /\ signer \in {offers[dao_id][offer_id].creator, Self}
  /\ offers' = [offers EXCEPT ![dao_id] = Erase(@, offer_id)]
  /\ UNCHANGED <<ledgerVars, now>>

Tick ==
  /\ now < MaxTime
  /\ now' = now + 1
  /\ UNCHANGED <<ledgerVars, offers>>

OfferAsset == [symbol : Symbol, amount : OfferAmount]

MarketNext ==
  \/ \E signer \in Account, dao_id \in DaoId :
       \/ \E quantity, price_per_unit \in OfferAsset, type \in {Sell, Buy} :
            CreateOffer(signer, dao_id, signer, quantity, price_per_unit, type)
       \/ \E offer_id \in 0..MaxOfferId :
            \/ RemoveOffer(signer, dao_id, offer_id)
            \/ AcceptOffer(signer, dao_id, signer, offer_id)
  \/ Tick

OffersNext == MarketNext \/ (LedgerNext /\ UNCHANGED <<offers, now>>)

OffersSpec == OffersInit /\ [][OffersNext]_offersVars

----------------------------------------------------------------------------
(* What the market promises. *)

(***************************************************************************)
(* Whatever happens to offers and deposits, users see an exchange: the     *)
(* four steps of a settlement amount to one swap between two users, of two *)
(* kinds of units at most, that creates and loses nothing; every other     *)
(* change of a balance is one user's deposit or withdrawal and changes the *)
(* registry's custody by as much, or a reset of the register.  That holds  *)
(* for quantities and prices of any sign, until a balance is one that no   *)
(* asset can hold.                                                         *)
(***************************************************************************)
Exchange == INSTANCE Market WITH
  Token   <- BalanceKey,
  Holder  <- Account,
  Limit   <- MaxAmount,
  held    <- [key \in BalanceKey |-> [a \in Account |-> At(balances[key], a)]],
  custody <- [key \in BalanceKey |-> Custody(key)],
  open    <- DOMAIN daos # {}

SettlementIsSwap == Exchange!Steps

(***************************************************************************)
(* An active offer still offers all it was created with, a closed one      *)
(* offers nothing: no order is ever filled in part.                        *)
(***************************************************************************)
AllOrNothing ==
  \A d \in DaoId : \A id \in DOMAIN offers[d] :
    offers[d][id].available_quantity =
      IF offers[d][id].status = Active THEN offers[d][id].total_quantity ELSE 0

\* The offer is closed by the step.
Settled(d, id) ==
  /\ id \in DOMAIN offers[d] \cap DOMAIN offers'[d]
  /\ offers[d][id].status = Active /\ offers'[d][id].status = Closed

(***************************************************************************)
(* An offer moves balances once: whenever balances change and it is not by *)
(* a deposit or withdrawal, which change the token's own accounts, nor by  *)
(* a reset, which leaves no organization, exactly one offer goes from      *)
(* active to closed with it, and while it is kept it is never opened       *)
(* again.  So no balance moves for an offer that is closed already, or     *)
(* for two offers at once, however many orders are matched with it.        *)
(***************************************************************************)
SettledOnce ==
  [][/\ balances' # balances /\ accounts' = accounts /\ daos' # NoRows =>
          Cardinality({p \in DaoId \X (0..MaxOfferId) : Settled(p[1], p[2])}) = 1
     /\ \A d \in DaoId : \A id \in DOMAIN offers[d] \cap DOMAIN offers'[d] :
          offers[d][id].status = Closed => offers'[d][id].status = Closed]_offersVars

\* What holder's balance under key gains when seller gets cost for amount.
Gain(offer, cost, d, seller, buyer, key, holder) ==
  LET When(condition, amount) == IF condition THEN amount ELSE 0
      side == When(holder = buyer, 1) - When(holder = seller, 1)
  IN  When(key = KeyOf(d, offer.symbol), side * offer.total_quantity)
        - When(key = KeyOf(d, offer.price_symbol), side * cost)

\* cost is product divided by Unit, the fraction dropped.
IsRounded(cost, product) ==
  \/ product >= 0 /\ cost * Unit <= product /\ product < (cost + 1) * Unit
  \/ product < 0 /\ product <= cost * Unit /\ (cost - 1) * Unit < product

\* Every balance is one an asset can hold.
BalancesFit == \A key \in BalanceKey : \A a \in DOMAIN balances[key] : balances[key][a] >= -MaxAmount

(***************************************************************************)
(* What a settlement comes to: the offer's creator and one other user      *)
(* exchange the whole quantity for quantity times price, rounded towards   *)
(* zero to the price token's smallest unit, whichever of them signs and    *)
(* however many other offers there are; nobody else's balance changes.     *)
(* The tokens are those the offer's symbols stand for at that moment;      *)
(* which those are is DaoTerms' subject.  The code owes this only while    *)
(* the product fits a word, the organization's offer ids fit a byte and no *)
(* balance is beyond what an asset holds.                                  *)
(***************************************************************************)
AgreedPrice ==
  [][\A d \in DaoId : \A id \in {i \in DOMAIN offers[d] : Settled(d, i)} :
       LET offer   == offers[d][id]
           product == offer.total_quantity * offer.price
       IN
       product \in Word /\ DOMAIN offers[d] \subseteq 0..(ByteRange - 1) /\ BalancesFit =>
         \E other \in Account, cost \in -MaxAmount..MaxAmount :
           /\ IsRounded(cost, product)
           /\ \A key \in BalanceKey, holder \in Account :
                At(balances'[key], holder) - At(balances[key], holder) =
                  IF offer.type = Sell
                  THEN Gain(offer, cost, d, offer.creator, other, key, holder)
                  ELSE Gain(offer, cost, d, other, offer.creator, key, holder)]_offersVars

\* The active offers of the other type for the order's token.
Opposite(d, type, token_idx) ==
  {id \in DOMAIN offers[d] : /\ offers[d][id].type = Counterpart(type)
                             /\ offers[d][id].status = Active
                             /\ offers[d][id].token_idx = token_idx}

(***************************************************************************)
(* What the search by lower bound does find, among closed offers and       *)
(* offers of other tokens: if active offers of the other type for the      *)
(* order's token stand at the order's price or above it, prices read as    *)
(* unsigned numbers, the match is the lowest of those prices and the       *)
(* youngest of that price; and a sell order is never matched with anything *)
(* but an active buy offer.  For a sell order that is the lowest bid which *)
(* is enough; for a buy order it is a seller who asks for the bid or more, *)
(* which is not what a bid is for: an offer at less than the bid is passed *)
(* over.  From token index five on, active and closed offers share ranks.  *)
(***************************************************************************)
MatchIsNextAbove ==
  \A d \in DaoId, type \in {Sell, Buy}, price \in OfferAmount :
    \A token_idx \in DOMAIN tokens[d] :
      LET rows       == offers[d]
          candidates == Candidates(d, type, token_idx, price)
          match      == rows[First(rows, candidates)]
          above      == {id \in Opposite(d, type, token_idx) :
                           PriceBits(rows[id].price) >= PriceBits(price)}
      IN  DOMAIN tokens[d] \subseteq 1..4 =>
            /\ above # {} =>
                 /\ First(rows, candidates) \in above
                 /\ \A id \in above :
                      \/ PriceBits(match.price) < PriceBits(rows[id].price)
                      \/ /\ PriceBits(match.price) = PriceBits(rows[id].price)
                         /\ match.creation_date >= rows[id].creation_date
            /\ type = Sell /\ candidates # {} => match.type = Buy /\ match.status = Active

(***************************************************************************)
(* A table of offers never has two buy offers, active or closed: the range *)
(* a buy order searches for sell offers runs on into the buy offers, so a  *)
(* second buy order always finds a "match" and is not stored.  (Token      *)
(* indices from twelve on reach beyond the closed buy offers.)             *)
(***************************************************************************)
SingleBuyOffer ==
  \A d \in DaoId : DOMAIN tokens[d] \subseteq 1..11 =>
    \A i, j \in DOMAIN offers[d] :
      offers[d][i].type = Buy /\ offers[d][j].type = Buy => i = j

(***************************************************************************)
(* Statements of the code and its tests that the code does not keep.       *)
(***************************************************************************)

(***************************************************************************)
(* daoreg.offers.test.js, "Offer match - sell offer is accepted": what a   *)
(* buy order is matched with is a sell offer.                              *)
(***************************************************************************)
BuyOrdersMatchSellOffers ==
  \A d \in DaoId, k \in TokenIdx, price \in OfferAmount :
    LET candidates == Candidates(d, Buy, k, price) IN
    k \in DOMAIN tokens[d] /\ candidates # {} =>
      offers[d][First(offers[d], candidates)].type = Sell

(***************************************************************************)
(* remove_balance's check, "You do not have enough balance": nobody's      *)
(* balance is ever below zero.                                             *)
(***************************************************************************)
NothingOverdrawn ==
  \A key \in BalanceKey, account \in Account : At(balances[key], account) >= 0

(***************************************************************************)
(* daoreg.hpp, on the price of an offer: "always in TLOS", the system's    *)
(* token: offers priced in it are, as long as they are active.             *)
(***************************************************************************)
PricedInSystemToken ==
  \A d \in DOMAIN daos : \A id \in DOMAIN offers[d] :
    IsActive(d, id) /\ offers[d][id].price_symbol = SystemSymbol =>
      KeyOf(d, offers[d][id].price_symbol) = SystemKey

(***************************************************************************)
(* resolve_sell_offer's comment: its creator "wants system token, has daos *)
(* token", resolve_buy_offer's the reverse: an accepted offer is resolved  *)
(* as what it is.                                                          *)
(***************************************************************************)
ResolvedAsItsType ==
  \A d \in DaoId : \A id \in DOMAIN offers[d] :
    IsActive(d, id) /\ IsActive(d, Resolved(id)) =>
      offers[d][Resolved(id)].type = offers[d][id].type
=============================================================================
