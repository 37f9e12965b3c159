# llc-daos in TLA+

A model of the contracts of this repository: a token (`tlostoken`), a registry
of organizations that keeps their members' deposits and runs a market for their
tokens (`daoreg`), and a directory of what organizations say about themselves
(`daoinf`), stored as a graph of documents (`document_graph`). TLC checks small
instances of every part; TLAPS proves the properties checked there
for every instance, those about `daoinf`'s tree under one condition the code does not ensure.

Paths below are relative to the repository. `PROJECT.json` maps each definition
to the lines it stands for, lists the runs, and names for every hazard of the
code the properties aimed at it.

## 1. The system

All parts run on an EOSIO chain. A transaction calls one action of a contract;
the action reads and writes tables, may send inline actions and notify other
contracts, and either everything it caused happens or nothing does. Transactions
are executed one after the other. Nothing in this repository is scheduled,
deferred or retried, and no table is shared by two contracts.

That decides where the difficulty lies. There are no races inside an action; the
hazards are long sequences of legal calls by several users, tables that must
agree although different actions write them, checks made at one time for
something done at another, ids that are freed and handed out again, and
arithmetic in fixed widths.

| component | state | operations | correct when |
|---|---|---|---|
| `tlostoken` (`src/tlostoken.cpp`) | `stat`: supply, maximum, issuer per symbol code; `accounts`: balance per owner and code | create, issue, retire, transfer, open, close | reported supply = sum of balances <= maximum; every action mints, burns or moves units |
| `daoreg`, register (`src/daoreg.cpp` 3-212) | `daos`: name, creator, attributes, list of tokens; `tokens`: the same tokens per organization with ids of one byte; `config` | reset, create, update, delorg, setparam, resetsttngs, upsertattrs, delattrs, addtoken | names are unique; the two records of tokens agree; the contract a symbol stands for does not change |
| `daoreg`, deposits (215-300, and the payments of create) | `balances`: available amount per user, token contract and symbol | deposit (a notification of the token's transfer), withdraw, create's inline buyrambytes and delegatebw, reset | what users are credited is in the registry's custody and can be withdrawn |
| `daoreg`, market (302-618) | `offers`: per organization, with an index of 128-bit match keys | createoffer, acceptoffer, removeoffer | an offer is settled at most once, as one swap at its own price and in the tokens it was made in |
| `daoinf` (`src/daoinf.cpp`) | documents and edges | reset, adddao, storeentry, delentry | a tree: root, one node below it, a document per organization; an edit changes one profile |
| `document_graph` (`src/document_graph/`) | documents by hash, edges by 32 bits of the hash of ends and name | a library: store, get or create, merge, update, erase documents; write, find, move, erase edges; `daoinf` uses a part of it | documents and edges are a graph; exchanging a document keeps every edge; a merge does what its delta says |
| `nullcontract`, the `users` table | none; a table nobody uses | `nonce`, with an empty body | - |
| `scripts/`, `test/` | none | deployment, tests | - |

How they interact:

- A user deposits by a `transfer` to the registry; the token contract notifies
  `daoreg::deposit`, which credits the sender for the organization whose id is in
  the memo. `withdraw` debits and sends an inline `transfer`.
- `create`, for an organization that is an account, sends inline actions to the
  system contract that are paid from the registry's own system tokens.
- The market looks at `daos` (which contract a symbol stands for) and at `tokens`
  (the index that goes into the match key), and moves `balances`.
- `createoffer` that finds a match sends an inline `acceptoffer`.
- `daoinf` shares only the numbers of organizations with `daoreg`; it never asks
  whether they exist.

## 2. Modules

| module | models | built on |
|---|---|---|
| `Tables` | multi_index tables as functions; `Total`, the sum of a table of amounts | - |
| `Chain` | names, accounts, symbols, assets | `Tables` |
| `Currency` | abstract: units are minted, burned, moved | - |
| `TlosToken` | `tlostoken` | `Chain`; implements `Currency` |
| `DaoRegistry` | the register of `daoreg` | `Chain` |
| `DaoLedger` | deposits; composes the token and the register | `TlosToken`, `DaoRegistry` |
| `Market` | abstract: an exchange that keeps units for its users | - |
| `DaoOffers` | the market of `daoreg` | `DaoLedger`; its steps are those of `Market` |
| `DaoTerms` | no code: a history variable that remembers which tokens an offer was made in | `DaoOffers` |
| `DocumentGraph` | the library of documents and edges | `Tables` |
| `LabelledGraph` | abstract: nodes and named links | - |
| `GraphClient` | a contract that uses all of the library | `DocumentGraph`; implements `LabelledGraph` |
| `Profiles` | abstract: a register of profiles | - |
| `DaoInfo` | `daoinf` | `DocumentGraph`; implements `Profiles` |
| `TableTheorems` | lemmas about `Put`, `Erase`, `Total`, `NextKey` and folds | `Tables`, TLAPS |
| `TlosTokenProofs` | theorems about `TlosToken` | `TlosToken`, `TableTheorems` |
| `DaoRegistryProofs` | theorems about `DaoRegistry` | `DaoRegistry`, `TableTheorems` |
| `DaoLedgerProofs` | theorems about `DaoLedger` | `DaoLedger` and the two before |
| `DaoOffersProofs` | theorems about `DaoOffers` and `DaoTerms` | `DaoTerms`, `DaoLedgerProofs` |
| `DocumentGraphProofs` | lemmas about the operations of the library | `DocumentGraph`, `TableTheorems` |
| `GraphClientProofs` | theorems about `GraphClient` | `GraphClient`, `DocumentGraphProofs` |
| `DaoInfoProofs` | theorems about `DaoInfo` | `DaoInfo`, `DocumentGraphProofs` |
| `MC...` | the instances TLC checks | the module of that name |

### How to read them

One TLA+ action is one action of a contract all of whose checks pass, with the
inline actions and notifications it causes. Its guard is the conjunction of the
checks, in whatever order the code makes them, since a failed check undoes the
rest. An action is disabled where the code aborts. `signer` is the account whose
authority the transaction carries; where the code accepts either of two
authorities the guard names both. Where no authority is required (`setparam`)
anybody may act.

A table is a function from keys to rows, so `emplace` on a used key must be ruled
out by the action, as the chain does. `NextKey` is `available_primary_key` as the
code uses it: it hands out a freed largest key again. A sum of balances counts
unit coins (`Units`) rather than recursing, which is what lets TLAPS reason about
it from the cardinality theorems.

- **TlosToken**: tables are indexed by the deploying contract, as several accounts
  may deploy it. The symbol of a balance row is not kept: it is the one in `stat`.
- **DaoRegistry**: names are numbers, because the uniqueness check of `create`
  compares them. The token list in the row and the `tokens` table are both kept.
  `ByteRange` is 256 in the code; `NextTokenId` narrows to it.
- **DaoLedger**: a deposit is a transfer and the handler it notifies, one step.
  `balances` is indexed by contract and symbol, then by account; the code scopes by
  account and searches by contract and symbol. `spent` remembers what `create` has
  paid out, and exists only for the properties. The registry's account is assumed to
  sign only what its code sends, and registered contracts to behave like the token
  contract of this repository.
- **DaoOffers**: `MatchKey` is the index key by fields. The type, status and token
  index overlap in it exactly as the shifts in the code make them (`Rank`), and the
  search runs through the whole index. The settlement functions are four changes of
  the balances in the order of the code, each with its check on the result of the
  one before. `createoffer` asks neither the sign nor the range of a quantity or a price,
  so `OfferAmount` is any part of a word, the costs are computed in words that wrap and
  then truncated, and a balance may become negative. `Word` follows from `MaxAmount` as
  64 bits do from 2^62. `asset`'s `+=` and `-=` keep a sum within an asset's range, but
  the row `add_balance` inserts for an account without one is stored as it comes
  (584-590): only so can a balance be below what an asset holds (`BalancesFit`).
- **DaoTerms**: `agreed` notes for each offer which contracts its two symbols stood for
  when it was made, for as long as the organization it was made under is there. No action
  of the market depends on it, and none is ruled out by it.
- **DocumentGraph**: the hash of a document is its text, so that equal texts and
  only they have equal hashes; contents without a value leave no trace in it, as in
  the code. Edges are kept and looked up under three functions that stand for 32
  bits of a hash and are constants of the module, so an instance decides how often
  they collide. The order of edges under one key of an index is left open: `StoreEntry` and
  `DelEntry` take any document the code may find. An operation with checks of its own
  (`RemoveContent`, `Merge`) gives the set of its outcomes, empty when it aborts.
  `getGroup` reads the labels of a group up to the one it looks for, and no further
  (`Readable`).
- **GraphClient**: every operation of the library as an action of one contract; contents
  are removed by their label (`Strip`) or as equal in label and value (`StripEqual`).
  The library leaves two things to its callers, which this contract does as `daoinf`
  does: it links documents it has stored or fetched, and it erases a document
  without its edges only when it has none.
- **DaoInfo**: creators are kept as the name they are; labels and values are a
  few strings, some with a meaning to the code (`content_group_label`).

### Abstract specifications

- `Currency`: `TlosToken` implements it with `held` the balances and `issued` the
  supplies; opening, closing and creating are stutters.
- `Market`: with `held` the available balances, `custody` what the registry's accounts
  hold and `open` whether there is an organization, every step of `DaoOffers` is a
  deposit or withdrawal of one user, which changes custody by as much, one swap between
  two users that leaves custody as it is, a reset, or an expense of the operator. What is
  held may be negative, as in the code. Once a balance is below what an asset can hold
  nothing is promised. The market starts with deposits there, so only the steps
  are compared.
- `Profiles`: with one profile per organization's edge, `DaoInfo` adds blank
  profiles, changes one at a time, keeps its owner and id, and never lets two of one
  owner say the same.
- `LabelledGraph`: with `nodes` the hashes of the documents and `links` the edges,
  `GraphClient` adds nodes and links, drops them, and exchanges a node for a new one
  that takes over all its links at once.

## 3. What is checked

All runs check deadlock except those of `DaoOffers`, whose instances really stop:
offers fill up the ids and funds are spent.

| run | question | instance | distinct states |
|---|---|---|---|
| `token` | Do supply, balances and maximum stay in step, and do users see a currency? | one contract, three accounts and a name that is none, one code with two precisions, amounts -1..4 of at most 3 | 775 |
| `registry` | Are names unique, tokens consistent and batches of attributes meaningful when ids are freed and reused? | names of which one is no account, two ids, two codes, two token contracts, ids of tokens up to 2; attributes and parameters vary while there are no tokens | 63,950 |
| `custody` | Is every balance backed and payable? | a token in two precisions, two users besides the registry, one organization, transfers, deposits, withdrawals, resets, delorg, addtoken, two settings of the parameters | 165,984 |
| `offers_matching` | Does an order get the match the search of the keys promises, and is every offer settled once? | two traders, three offers for two tokens, quantities and prices of both signs with products that leave a word, two moments; the table of tokens holds rows of deleted organizations | 25,054 |
| `offers_settlement` | Is a settlement a swap at the offer's price and in the tokens it was made in, whatever becomes of the organization? | two traders, two offers, quantities and prices of both signs, prices in either token, costs that are rounded; delorg, reset, create and addtoken with tokens of two contracts, one of them under the system token's symbol | 107,340 |
| `offers_buyers` | Is a buy order matched with a sell offer? | two offers | violation |
| `offers_signs` | Does a balance stay at zero or more? | two offers, a quantity of each sign | violation |
| `offers_types` | Is an accepted offer resolved as its own type? | three offers, a byte of two values | violation |
| `offers_prices` | Is an offer priced in the system token paid in it? | as `offers_settlement`, one offer | violation |
| `info` | Does the graph stay a tree of profiles? | two creators, ids 0 to 4 of which two read as edge names the code uses, one entry stored or two labels deleted per call, six documents | 7,790 |
| `info_details` | Can the group of variable details be lost? | the same without entries | violation |
| `graph` | Do documents and edges stay a graph, and does a merge mean what it says? | drafts of up to two groups, two of them with a label that is no text, in one behind a label that is, documents of up to three, two edges, two names, deltas of up to two groups of eight kinds, eight edge keys for all pairs of ends | 9,749 |

The properties, and what would break them:

- `Conservation`, `SupplyWithinMax`, `CreditsNeverOverflow`: one half of a two-row
  update, or a check that forgets what is in circulation.
- `NamesUnique`: no two organizations have one name. The code compares a new name by
  order and not for equality; uniqueness survives the reuse of ids because names grow with
  ids and only the largest id is handed out again.
- `TokensConsistent`: the list in an organization's row is the youngest part of its
  `tokens` table. `delorg` and `reset` leave the table behind, so an organization
  that takes over an id starts with older tokens it does not list.
- `ResolutionStable`: a registered symbol keeps standing for the same contract,
  whatever is added later. (It says nothing of a symbol that was not registered
  and stood for the system token.)
- `UpsertMeaning`: keys are looked up in a copy of the attributes, so for a key
  repeated in one batch the last value wins if the organization had it, the first
  if not.
- `Backing`: for each contract and symbol, the credits of all users are within what
  the registry holds, up to what `create` has spent.
- `BalancesAreOfKnownTokens`: balances are kept by symbol, custody by code; no two
  precisions of one code claim the same units.
- `WithdrawalsHonoured`: as long as nothing has been spent, a withdrawal the
  registry accepts is accepted by the token contract.
- `AllOrNothing`: active offers offer everything, closed ones nothing.
- `SettledOnce`: balances that move otherwise than by a deposit, a withdrawal or a reset
  move for exactly one offer, which is active before and closed after; no offer is opened
  again. A settlement that forgot to close its offer would pay again and again.
- `MatchIsNextAbove`: what the search by `lower_bound` finds among closed offers and
  offers of other tokens: the lowest price at or above the order's, the youngest of that
  price, if there is one on the other side; and a sell order never meets anything but an
  active buy offer. For a sell order that is the lowest bid that is enough for it. For a
  buy order it is a seller who asks the bid or more: whoever bids 3 is not matched with a
  seller who asks 2 (end of section 4). Prices are compared as the key has
  them, unsigned, so negative ones come last. Stated for token indices up to four, where
  the fields of a match key do not run into each other.
- `SingleBuyOffer`: no second buy offer is ever stored, because a buy order's search
  runs on into buy offers. This is what the code does, and the other side of the
  finding `offers_buyers`.
- `SettlementIsSwap`: every step is one of `Market`. The four changes of a settlement
  come to one swap for amounts of any sign, creating and losing nothing. It does not say
  that both sides had the means: with a negative quantity the one who gives may not have
  (`offers_signs`), and `Backing` is promised of the contract without the market only.
- `AgreedPrice`: what changes hands is the offer's whole quantity and its price, rounded
  towards zero, between its creator and one other user, and no other balance moves, in
  the tokens the symbols stand for at that moment. Stated where the code can mean it: the
  product fits a word, the offer ids a byte, and the balances an asset.
- `TermsKept`: those tokens are the ones the symbols stood for when the offer was made,
  although tokens of other contracts are listed in between and organizations come and go.
  Two cases are excepted because the code decides them the other way: a symbol that stood
  for nothing, and the system token's, once the organization has listed them itself (the
  second is the finding `offers_prices`). Offers inherited from a deleted organization are
  not held to the terms of their makers.
- `GraphIsTree`, `ImplementsProfiles`: no edge lost, doubled or left without ends.
- `NothingDangles`, `ImplementsGraph`: no edge leads to a document that is gone, and
  an exchange of a document is one step for whoever looks at the graph, self-loops,
  parallel edges and colliding keys included.
- `MergeMeaning`: merging, as seen through the labels of groups and contents, changes,
  adds, keeps and deletes what the delta says, and aborts exactly when something to
  delete is not there or a group's label is not a text. It is stated for deltas that delete groups after everything
  else: places are looked up before the first change (`src/document_graph/document.cpp:287`),
  so after a deletion a place may be another group's. It is also restricted to
  documents in which no label occurs twice, since merge changes the last group of a
  label and removes the first.

For each of them `PROJECT.json` also names a faulty variant of one definition, such
as a dropped check or a missing half of an update, with which the run does find the
property violated. The variants stand before their originals, and nothing uses them.

### Bounds and why they are enough

Amounts go up to the model's `MaxAmount`, past which an asset's `+=` fails, so all
comparisons of the token see equality, one less and one more. Two ids are enough
for reuse of the largest while a smaller one lives. A table of three offers holds,
for one order, two suitable offers and one that is not, and the search for a match
depends on pairs of keys only. One quantity of each sign, and prices of which one product
leaves the word and one is rounded, tell the cases of a settlement apart. `ByteRange` is 3
in `registry`, so that the end of the
token ids is reached, and two in `offers_types`; the code's 256 needs that many rows for the same
step. `MaxTime`, `MaxDocId`, `MaxEntries`, `MaxLabels`, `MaxBatch`, `MaxOfferId` and
`MaxDaoId` stand for 64-bit values or unbounded input and limit exploration only;
actions that would pass them are not taken. In the runs of `DaoOffers` the
organization, its tokens and the deposits are there from the start, as in the
`before` of `test/daoreg.offers.test.js`; a part of the system token is nobody's, so that
a gain of units another user has not got fits an asset. One of the traders has one quantity
and one price; `registry` and `custody` show how
they come about. `custody` fixes parameters at the start, leaves out
attributes, and lets `create` spend at most `MaxAmount` altogether.

### Fairness and liveness

None is assumed and none is claimed. Every action is a user's decision, so no
fairness is justified for any of them: an offer nobody accepts stays, and a deposit
nobody withdraws stays. No contract of this repository has work of its own, a queue,
a timer or a deferred transaction that must be done eventually; an inline action
happens in the transaction that sends it or undoes it.
What comes nearest, that a withdrawal which should succeed does, is stated as a
safety property (`WithdrawalsHonoured`).

## 4. Where the code does something else than it says

| run | what happens |
|---|---|
| `offers_buyers` | A buy order that finds no sell offer is matched with a buy offer (387). |
| `offers_signs` | `createoffer` accepts a negative quantity or price (302). Settling it runs the four changes backwards: `add_balance` (571) has no lower limit and `remove_balance`'s "You do not have enough balance" (612) does not stop a negative amount, so one user's balance goes below zero and the other is credited units that back other users' balances. |
| `offers_types` | Offer ids are narrowed to eight bits between the check of an offer's type and its settlement (482, 527). |
| `offers_prices` | "always in TLOS" (`include/daoreg.hpp:238`, `src/daoreg.cpp:350`): a symbol is looked up among the organization's tokens before the system's (738, 752), so a token listed later takes over the prices of offers already made. |
| `info_details` | `delentry` guards the wrong label (`src/daoinf.cpp:111`); without `content_group_label` the group is lost and the organization's entries can be neither changed nor deleted. |

Also met, and not the subject of a run: `create` compares `lower_bound` with the end
(`src/daoreg.cpp:33`), so one registered name makes every smaller name unavailable, as
"dao with the same name"; a buy order's search starts at its own price and goes up
(380), as a sell order's rightly does, so that a sell offer below the bid is passed over
and one above it is settled at the higher price; `create` pays for resources out of the
account that keeps the deposits (55, 67), so that an available balance may no longer be
payable, which is why `Backing` and `WithdrawalsHonoured` speak of what has been
`spent`; the product of amount and price is not checked for overflow (373); a balance's first row
is inserted without a check (586), so a negative one may be below what an asset can hold;
`setparam` asks for nobody's authority; `resetoffers` has an empty body; offers
survive the deletion of their organization and belong to the next one with its id.

## 5. What is proved

Each theorem holds for every value of the constants that meets the named assumptions
of the modules: for any number of accounts, contracts, organizations, tokens, offers,
documents and edges, any keys, any bounds. Names in the second column are the
properties of section 3.

| module | theorem: the specification implies | if also |
|---|---|---|
| `TlosTokenProofs` | `TokenTypeCorrect`: `TokenTypeOK`; `TokenConserved`: `Conservation`; `TokenSupplyBounded`: `SupplyWithinMax`; `TokenCreditsNeverOverflow`: `CreditsNeverOverflow`; `TokenIsCurrency`: `ImplementsCurrency` | - |
| `DaoRegistryProofs` | `RegistryTypeCorrect`: `RegistryTypeOK`; `RegistryNamesUnique`: `NamesUnique`; `RegistryTokensConsistent`: `TokensConsistent`; `RegistryUpsertMeaning`: `UpsertMeaning`; `RegistryResolutionStable`: `ResolutionStable` | - |
| `DaoLedgerProofs` | `LedgerTypeCorrect`: `LedgerTypeOK`; `LedgerBacked`: `Backing`; `LedgerBalancesKnown`: `BalancesAreOfKnownTokens`; `LedgerWithdrawalsHonoured`: `WithdrawalsHonoured` | - |
| `DaoOffersProofs` | `OffersAllOrNothing`: `AllOrNothing`; `OffersSingleBuyOffer`: `SingleBuyOffer`; `OffersMatchIsNextAbove`: `MatchIsNextAbove`; `OffersTypeCorrect`: `OffersTypeOK`; `OffersSettlementIsSwap`: `SettlementIsSwap`; `OffersSettledOnce`: `SettledOnce`; `OffersAgreedPrice`: `AgreedPrice`; `OffersTermsKept`: `TermsKept` (of `TermsSpec`) | - |
| `GraphClientProofs` | `GraphNothingDangles`: `NothingDangles`; `GraphIsImplemented`: `ImplementsGraph`; `GraphMergeMeaning`: `MergeMeaning` | - |
| `DaoInfoProofs` | `InfoTypeCorrect`: `InfoTypeOK` | - |
| | `InfoGraphIsTree`: `GraphIsTree`; `InfoKeepsProfiles`: `ImplementsProfiles` | always `RootLinkTold` |

### The condition

`RootLinkTold`, on states, says what `daoinf` takes for granted and does not check: no edge
has the 32 bits by which the edge of the root is looked up, unless it is an edge of the
root. With such a collision `get_doc_from_edge` may go to an organization's document for
that of all organizations. The runs meet it; where it is not met, the two theorems claim
nothing. The theorems about the market suppose nothing of the orders: quantities and prices
are any words, whatever their sign and product.

Assumptions on constants are those a deployment meets (accounts are names, contracts
are accounts, bounds are natural numbers, drafts and deltas are groups of labelled
values). `TextAssumption` and `DetailsAssumption` are
there for the provers: they say that string literals are strings, which TLAPS does not
know. That `MaxDocId` is not 0 in `DaoInfo` is about the model's bound, since `reset`
stores two documents whatever it is.

### The inductive invariants

TLC has checked each of them on the instance of its component, before the proof.

- `TokenInv == TokenTypeOK /\ Conservation /\ SupplyWithinMax`. None of the three is
  inductive by itself. That `retire` leaves a supply of zero or more is part of the
  type, but needs the issuer's balance to be a part of the total, which is
  `Conservation`; that `issue` stays in range needs `SupplyWithinMax`. Each action has a
  lemma, which splits `Conservation` into the token acted on, where the sum changes by
  the difference written (`TotalPut`, `TotalErase`), and the others.
- `RegistryInv == RegistryTypeOK /\ NamesIncrease /\ TablesFilled /\ TokensConsistent`.
  `NamesIncrease`, names in the order of ids, is what `create`'s comparison keeps and what
  `NamesUnique` follows from; uniqueness alone is not inductive.
  `delorg` leaves a table of tokens for the organization that takes over the id, so tables
  of ids not in use must be without gaps as well (`TablesFilled`).
- `LedgerInv` adds to `TokenInv` and `RegistryInv` the types, `Backing` and
  `BalancesAreOfKnownTokens`. `Backing` needs the last: with two balances of different
  precision claiming one row of the token, a withdrawal of one would leave the other
  without backing. It holds because a symbol's precision never changes in `stat`.
- `BookInv`, for the tables of offers alone: `RegistryInv`, types, `AllOrNothing`,
  `SingleBuyOffer`, and that every offer names a row of the tokens table, which is what
  keeps token indices small and a buy order's search running into the buy offers.
- `MarketInv` adds to `TokenInv` and `BookInv` that balances are tables of numbers no
  greater than an asset holds. A lower bound other than the word's is not kept, and need not
  be: that sums which wrap cannot come back into an asset's range unnoticed (`SumsInRange`)
  is what makes the checks of `+=` and `-=` do their work for any sign. The four changes of
  a settlement are folded into one swap (`FourChangesEffect`, `ResolveBuySwaps`,
  `ResolveSellSwaps`), every other step is a deposit, a withdrawal, a reset or leaves the
  balances alone (`StepIsOfAKind`); `SettlementIsSwap`, `SettledOnce` and `AgreedPrice` are
  read off these.
- `TermsInv` adds that what is noted of an offer is what its symbols still stand for,
  unless they have been listed since (`Noted`). It is `ResolutionStable`'s argument over
  time: the first token of the organization with a symbol stays the first.
- `GraphInv`: ids of documents in range and one per hash, edges that are edges and one
  per key, both ends stored. Nothing is supposed of the keys. `ReplaceNodeEffect` shows
  that moving edges one by one, first those that leave the node and then those that
  reach it, moves every edge once at both ends: the checks in between
  (`MayRewrite`) rule out the rest. `DocumentsSay`, kept together with it, says that
  every document consists of groups of labelled values, whatever it was merged, annotated
  and stripped into; `MergeMeaning` follows from the two (below).
- `InfoInv`: the first two documents are those `reset` stores, and each other one is
  reached by exactly one edge named after its id and one named "daos". That the document
  of all organizations names no creator, so that nobody can replace it
  (`DaosNotChanged`), is what makes it inductive. `ProfilesInv` adds that organizations'
  documents have two groups, the first of them with the creator, which neither
  `storeentry` nor `delentry` changes: `InfoKeepsProfiles` maps each of their steps to the
  change of one profile. `InfoTypeOK` is inductive by itself.

### What a merge means

`Merge` is a fold over the groups of a delta, within it a fold over the contents of each,
both over sets of outcomes; its meaning is stated name by name and refers to neither. The
proof climbs from the one to the other.

1. A content: inserting or removing it changes what its label says and nothing else
   (`InsertSaid`, `RemoveSaid`), if no label is said twice (`OneEach`).
2. A group: after the first i contents of a delta's group either one of them took away
   what was not there, and there is no outcome, or there is one, whose labels say what
   those contents say and otherwise what they said (`MergedEffect`). This is `Updated` of
   what the two groups say (`SaysUpdated`).
3. A delta's group: what its name says is deleted, kept, added or updated, no other name
   says anything else, and the groups without a name are followed by it if it has none
   (`MergedGroupTold`), provided that the place looked up is the group's.
4. A delta: `Followed` is what holds after its first i groups. Part of it is that as long
   as nothing has been deleted every label is where it was in the original, so that
   the places looked up at the start are right (`PlaceStays`); this is where
   `DeletesLast` is needed. By it the outcome is none if one of the groups stops the merge,
   and otherwise the only one (`MergeFollows`).
5. The meaning: what the names say after all groups is the merged meaning
   (`MeaningMerged`), and none of the groups stops the merge just when the delta is
   `Mergeable` (`MergeableWhen`).

### Lemmas below them

`TableTheorems` rests on the cardinality theorems of the TLAPS library: a table's units
are a finite disjoint union of the units under one key and the others (`TotalSplit`).
Induction over natural numbers is `LeastNatural`, the least counterexample. From it
come `NextKeyFresh` and what folds over a batch of any length do: `FoldUnfolds` says
that a fold with a step that is a function is the recursion it looks like, `StaysIn`
that what every step keeps is kept, and `ReachedAll` that what holds of 0 and is passed on
from each number to the next holds of all. `UpsertMeaning`, and that storing and deleting entries
leave well-formed documents with their owner, are proved by them.

## 6. What is only model-checked

- The five findings of section 4, which are counterexamples.
- That every action can happen, and that all but the market always have a next step on
  their instances.

Out of the provers' reach in general are liveness under fairness and `ENABLED`. This
project states neither.

## 7. What is not modelled

- Texts: memos beyond the number in them, descriptions of parameters, messages.
- Who pays for memory, and the chain's own limits on it.
- `locked` and `dao_id` of a balance row, written once and never read; an offer's
  `convertion_info` and stored `match_id`, which nothing reads.
- Functions nothing calls: `send_transfer`, `close_offer`, `transfer` and
  `token_exists` of `daoreg`, `edge_exists` and `active_cutoff_date` of `daoinf`.
  (What nothing calls in `document_graph` is modelled: it is a library.)
- Creators, dates and certificates of documents and edges, which nothing reads.
- Collisions of sha256, and two different documents with one text: values are not
  escaped when a document is written out (`src/document_graph/content.cpp:38`).
- Accounts coming into existence while the contracts run: the set is constant.
- `nullcontract`, the `users` table, the scripts and the tests.

## 8. Plan

Done: the token with its proofs; the register; the deposits; the market, with
organizations that change under it; the whole of the document graph; the directory;
the abstract specifications. Every operation of every contract that changes state is
an action of a module.

Every property the passing runs check is a theorem. Left to do:

1. `MergeMeaning` for deltas that delete before they change, once it is decided what
   `merge` should do with them; today a place looked up before may be another group's.
2. The text of a document as a sequence of characters, to say which different documents
   have the same (`src/document_graph/content.cpp:38`).
3. `NothingOverdrawn`, and with it `Backing` for the contract with its market, once
   `createoffer` checks that quantities and prices are positive; that a buy order gets a
   price it bids, once it searches downwards; `AgreedPrice` without its conditions once
   the product is checked and the ids keep their width.
