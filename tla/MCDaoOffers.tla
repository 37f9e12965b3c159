---------------------------- MODULE MCDaoOffers -----------------------------
(***************************************************************************)
(* Small instances of the market.  They start where the tests of the       *)
(* offers start: an organization has registered a token, alice and bob     *)
(* have deposited units of it and of the system token.                     *)
(***************************************************************************)
EXTENDS DaoTerms

CONSTANTS
  Offered,   \* the symbols offers are made for
  PricedIn,  \* the symbols prices are named in
  Offering,  \* the quantities alice names
  Asking     \* the prices alice names

daoreg == 1
tlos   == 2
alice  == 3
bob    == 4
other  == 5

TLOS4 == [code |-> "TLOS", precision |-> 4]
DTK4  == [code |-> "DTK", precision |-> 4]
ETK4  == [code |-> "ETK", precision |-> 4]
MCConfig == {[type |-> "asset", amount |-> 0]}
JustTLOS == {TLOS4}
JustDTK  == {DTK4}
DTKorETK == {DTK4, ETK4}
Both     == {DTK4, TLOS4}

\* Amounts alice may name.
Half       == MaxAmount \div 2
EitherSign == {-Half, Half}
WildPrice  == {-Half, 3}
AnyPrice   == {-3, 5}
WildAmount == EitherSign \cup WildPrice
AnyAmount  == EitherSign \cup AnyPrice

Listed(symbol) == [account |-> tlos, symbol |-> symbol]

(***************************************************************************)
(* Half of each supply is alice's, the other bob's, all in daoreg's        *)
(* custody; of the system token nobody is credited with a quarter, so that *)
(* one of them could gain what the other has not got.                      *)
(***************************************************************************)
MarketInit(list, rows) ==
  /\ stat = [t \in TokenId |-> [symbol |-> [code |-> t[2], precision |-> 4],
                                supply |-> MaxAmount, max_supply |-> MaxAmount, issuer |-> tlos]]
  /\ accounts = [t \in TokenId |-> [a \in {daoreg} |-> MaxAmount]]
  /\ daos = [d \in DaoId |-> [dao |-> 10 + d, creator |-> alice, ipfs |-> "Qm",
                              attributes |-> NoRows, tokens |-> list]]
  /\ tokens = [d \in DaoId |-> rows]
  /\ config = NoRows
  /\ balances = [key \in BalanceKey |-> [a \in {alice, bob} |->
                   IF key = SystemKey /\ a = alice THEN MaxAmount \div 4 ELSE MaxAmount \div 2]]
  /\ spent = 0
  /\ offers = [d \in DaoId |-> NoRows]
  /\ agreed = [d \in DaoId |-> NoRows]
  /\ now = 0

OneToken == MarketInit(<<Listed(DTK4)>>, <<Listed(DTK4)>>)

\* The table of tokens begins with rows of two organizations that were deleted.
TwoTokens ==
  MarketInit(<<Listed(DTK4), Listed(ETK4)>>,
             <<Listed(DTK4), Listed(DTK4), Listed(DTK4), Listed(ETK4)>>)

(***************************************************************************)
(* alice names what she likes; bob has one quantity and one price.  Offers *)
(* for the second token and offers priced in the first are bob's.          *)
(***************************************************************************)
Trading ==
  \E signer \in {alice, bob}, dao_id \in DaoId :
    \/ \E quantity \in [symbol : Offered, amount : Offering],
          price_per_unit \in [symbol : PricedIn, amount : Asking],
          type \in {Sell, Buy} :
         /\ quantity.symbol = ETK4 \/ price_per_unit.symbol = DTK4 => signer = bob
         /\ signer = bob => quantity.amount = Half /\ price_per_unit.amount = Half
         /\ CreateOffer(signer, dao_id, signer, quantity, price_per_unit, type)
    \/ \E offer_id \in 0..MaxOfferId :
         \/ RemoveOffer(signer, dao_id, offer_id)
         \/ AcceptOffer(signer, dao_id, signer, offer_id)

(***************************************************************************)
(* The organization is deleted or the registry reset under its offers,     *)
(* another one is founded under its id, and tokens of another contract are *)
(* listed, one of them under the system token's symbol.                    *)
(***************************************************************************)
Reorganization ==
  /\ \/ /\ \E dao_id \in DaoId :
             \/ DelOrg(daoreg, dao_id)
             \/ \E token_symbol \in Symbol : AddToken(alice, dao_id, other, token_symbol)
        /\ UNCHANGED <<tokenVars, balances, spent>>
     \/ Reset(daoreg, {alice, bob})
     \/ FoundDao(alice, 11, alice, "Qm", 0)
  /\ UNCHANGED <<offers, now>>

(***************************************************************************)
(* For the matching of orders; what offers count on leaves by other        *)
(* trades.  Time passes after the first offer.                             *)
(***************************************************************************)
MatchingNext ==
  /\ \/ Trading
     \/ (\A d \in DaoId : Cardinality(DOMAIN offers[d]) = 1) /\ Tick
  /\ Remember

MatchingSpec == TwoTokens /\ [][MatchingNext]_termsVars

\* For what a market of one token does not promise.
TradingSpec == OneToken /\ [][Trading /\ Remember]_termsVars

\* For the settlement of accepted offers.
SettlementNext == (Trading \/ Reorganization) /\ Remember

SettlementSpec == OneToken /\ [][SettlementNext]_termsVars
=============================================================================
