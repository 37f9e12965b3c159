------------------------------ MODULE DaoTerms ------------------------------
(***************************************************************************)
(* The terms of an offer.  The code keeps an offer's symbols and looks up  *)
(* the contracts behind them when the offer is settled.  A history         *)
(* variable remembers here what they stood for when the offer was made, so *)
(* that both can be compared.  It is no part of the program: no action of  *)
(* the market looks at it, and every action can be taken with it.          *)
(***************************************************************************)
EXTENDS DaoOffers

VARIABLE agreed   \* dao_id -> offer_id -> the tokens of the offers its organization has seen made

termsVars == <<offersVars, agreed>>

TermsInit ==
  /\ OffersInit
  /\ agreed = [d \in DaoId |-> NoRows]

\* The token symbol stands for now, if any.
KeysOf(d, symbol) == {key \in {KeyOf(d, symbol)} : HasTokenAccount(d, symbol)}

Terms(d, offer) == [token |-> KeysOf(d, offer.symbol), price |-> KeysOf(d, offer.price_symbol)]

\* With the organization go the terms of its offers, though the offers stay.
Remember ==
  agreed' = [d \in DaoId |->
    IF d \notin DOMAIN daos' THEN NoRows
    ELSE [id \in DOMAIN offers'[d] \ (DOMAIN offers[d] \ DOMAIN agreed[d]) |->
            IF id \in DOMAIN offers[d] THEN agreed[d][id] ELSE Terms(d, offers'[d][id])]]

TermsNext == OffersNext /\ Remember

TermsSpec == TermsInit /\ [][TermsNext]_termsVars

----------------------------------------------------------------------------

(***************************************************************************)
(* The symbol has stood for key since it stood for keys, or it stands for  *)
(* key now because the organization has listed it since: it stood for no   *)
(* token, or it is the system token's, which then was meant by default.    *)
(***************************************************************************)
StillMeans(d, symbol, keys, key) ==
  \/ key \in keys
  \/ /\ keys = {} \/ (symbol = SystemSymbol /\ keys = {SystemKey})
     /\ Positions(d, symbol) # {}
     /\ key = KeyOf(d, symbol)

(***************************************************************************)
(* An offer is settled in the tokens it was made in, whichever tokens of   *)
(* other contracts the organization has listed since and whichever         *)
(* organizations had its id or its offers before: the settlement of an     *)
(* offer made under the organization that is there changes no balance of   *)
(* another token.  The exceptions the code makes are a symbol that stood   *)
(* for nothing when the offer was made, and the system token's symbol when *)
(* the organization has listed it since (PricedInSystemToken).             *)
(***************************************************************************)
TermsKept ==
  [][\A d \in DaoId : \A id \in {i \in DOMAIN agreed[d] : Settled(d, i)} :
       \A key \in BalanceKey : balances'[key] # balances[key] =>
         \/ StillMeans(d, offers[d][id].symbol, agreed[d][id].token, key)
         \/ StillMeans(d, offers[d][id].price_symbol, agreed[d][id].price, key)]_termsVars
=============================================================================
