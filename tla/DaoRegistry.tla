---------------------------- MODULE DaoRegistry -----------------------------
(***************************************************************************)
(* src/src/daoreg.cpp, the register of organizations: who they are, their  *)
(* attributes, the tokens they trade, and the contract's parameters.       *)
(*                                                                         *)
(* One action here is one action of the contract that passes its checks,   *)
(* signed by signer.  The inline actions create sends to the system        *)
(* contract move tokens and belong to DaoLedger, which composes this       *)
(* module with the token contract; so do the balances that reset erases.   *)
(***************************************************************************)
EXTENDS Chain, SequencesExt

CONSTANTS
  Self,            \* the account the registry is deployed at (get_self)
  TokenContract,   \* the contracts organizations name in addtoken
  SystemContract,  \* eosio.token
  SystemSymbol,    \* 4,TLOS
  MaxDaoId,        \* bound: dao ids are uint64 in the code
  ByteRange,       \* 256 in the code: the values of a uint8_t
  Ipfs,            \* descriptions an organization may point to
  AttrKey,         \* attribute names
  AttrValue,       \* attribute values
  MaxBatch,        \* bound: attributes in one upsertattrs
  ConfigValue      \* the values setparam is given, [type, amount] records

ASSUME RegistryAssumption ==
  /\ Name \subseteq Nat
  /\ Self \in Account
  /\ TokenContract \subseteq Name
  /\ SystemContract \in Account
  /\ SystemSymbol \in Symbol
  /\ MaxDaoId \in Nat
  /\ ByteRange \in Nat /\ ByteRange > 1
  /\ MaxBatch \in Nat
  /\ ConfigValue \subseteq [type : {"uint64", "asset", "name"}, amount : Nat]

VARIABLES
  daos,     \* dao_id -> the organization's row
  tokens,   \* dao_id -> token_id -> registered token (table tokens, scoped by dao_id)
  config    \* parameter -> value

registryVars == <<daos, tokens, config>>

DaoId     == 1..MaxDaoId
TokenIdx  == 1..(ByteRange - 1)
ConfigKey == {"b.rambytes", "d.net", "d.cpu"}

TokenRow == [account : TokenContract, symbol : Symbol]

DaoRow == [dao : Name, creator : Name, ipfs : Ipfs,
           attributes : UNION {[S -> AttrValue] : S \in SUBSET AttrKey},
           tokens : Seq(TokenRow)]

\* Type correctness: keys are never zero, a token list and the tokens table hold
\* registered tokens only, and every parameter has a value setparam was given.
RegistryTypeOK ==
  /\ IsTable(daos, DaoId, DaoRow)
  /\ DOMAIN tokens = DaoId
  /\ \A d \in DaoId : IsTable(tokens[d], TokenIdx, TokenRow)
  /\ IsTable(config, ConfigKey, ConfigValue)

RegistryInit ==
  /\ daos = NoRows
  /\ tokens = [d \in DaoId |-> NoRows]
  /\ config = NoRows

----------------------------------------------------------------------------
(* Lookups. *)

\* A faulty variant of NonZeroKey: the first key is the table's own.
FirstKeyZero(k) == k

\* Key zero is never used: it stands for the system tokens in a deposit.
NonZeroKey(k) == IF k > 0 THEN k ELSE 1

\* A faulty variant of NameIsFree: upper_bound, which passes over the name itself.
NoLargerName(dao) == \A d \in DOMAIN daos : daos[d].dao <= dao

(***************************************************************************)
(* create's uniqueness check: lower_bound of name dao in the index ordered *)
(* by name, which must be the end.  It finds the first organization whose  *)
(* name is dao or any larger one.                                          *)
(***************************************************************************)
NameIsFree(dao) == \A d \in DOMAIN daos : daos[d].dao < dao

HasConfig(key, type) == key \in DOMAIN config /\ config[key].type = type

\* config_get_* aborts on a parameter that is missing or of another type.
ResourcesConfigured ==
  HasConfig("b.rambytes", "uint64") /\ HasConfig("d.net", "asset") /\ HasConfig("d.cpu", "asset")

\* Where symbol stands in an organization's list of tokens.
Positions(dao_id, symbol) ==
  {i \in DOMAIN daos[dao_id].tokens : daos[dao_id].tokens[i].symbol = symbol}

(***************************************************************************)
(* get_token_account: the contract behind a bare symbol, which is the      *)
(* organization's first token with it, else the system token.              *)
(***************************************************************************)
HasTokenAccount(dao_id, symbol) ==
  /\ dao_id \in DOMAIN daos
  /\ Positions(dao_id, symbol) # {} \/ symbol = SystemSymbol

\* A faulty variant of TokenAccount: the search goes on to the last match.
LastTokenAccount(dao_id, symbol) ==
  IF Positions(dao_id, symbol) # {}
  THEN daos[dao_id].tokens[Max(Positions(dao_id, symbol))].account
  ELSE SystemContract

TokenAccount(dao_id, symbol) ==
  IF Positions(dao_id, symbol) # {}
  THEN daos[dao_id].tokens[Min(Positions(dao_id, symbol))].account
  ELSE SystemContract

----------------------------------------------------------------------------
(* Organizations. *)

ResetDaos(signer) ==
  /\ signer = Self
  /\ daos' = NoRows
  /\ UNCHANGED <<tokens, config>>

CreateDao(signer, dao, creator, ipfs) ==
  LET dao_id == NonZeroKey(NextKey(daos)) IN
  /\ signer = IF dao \in Account THEN dao ELSE creator
  /\ NameIsFree(dao)
  /\ dao \in Account => ResourcesConfigured
  /\ dao_id <= MaxDaoId
  /\ daos' = Put(daos, dao_id, [dao |-> dao, creator |-> creator, ipfs |-> ipfs,
                                attributes |-> NoRows, tokens |-> <<>>])
  /\ UNCHANGED <<tokens, config>>

\* The row exists and signer is the one who may change it.
MayEdit(signer, dao_id) == dao_id \in DOMAIN daos /\ signer = daos[dao_id].creator

Update(signer, dao_id, ipfs) ==
  /\ MayEdit(signer, dao_id)
  /\ daos' = [daos EXCEPT ![dao_id].ipfs = ipfs]
  /\ UNCHANGED <<tokens, config>>

\* The rows the organization has in other tables stay behind.
DelOrg(signer, dao_id) ==
  /\ signer = Self
  /\ dao_id \in DOMAIN daos
  /\ daos' = Erase(daos, dao_id)
  /\ UNCHANGED <<tokens, config>>

----------------------------------------------------------------------------
(* Parameters.  setparam asks for nobody's signature. *)

SetParam(signer, key, value) ==
  /\ config' = Put(config, key, value)
  /\ UNCHANGED <<daos, tokens>>

ResetSttngs(signer) ==
  /\ signer = Self
  /\ config' = NoRows
  /\ UNCHANGED <<daos, tokens>>

----------------------------------------------------------------------------
(* Attributes. *)

Batch == UNION {[1..n -> AttrKey \X AttrValue] : n \in 1..MaxBatch}

\* A faulty variant of Upserted: the keys are looked up in the row itself.
UpsertedInPlace(attributes, batch) ==
  LET upsert(row, pair) == Put(row, pair[1], pair[2])
  IN  FoldLeft(upsert, attributes, batch)

(***************************************************************************)
(* One pass over the batch.  Which keys exist is looked up in the copy     *)
(* taken before the loop, so a key the batch itself added goes through the *)
(* insert branch again, which leaves the value that is there.              *)
(***************************************************************************)
Upserted(attributes, batch) ==
  LET upsert(row, pair) ==
        IF pair[1] \in DOMAIN row /\ pair[1] \notin DOMAIN attributes
        THEN row
        ELSE Put(row, pair[1], pair[2])
  IN  FoldLeft(upsert, attributes, batch)

UpsertAttrs(signer, dao_id, batch) ==
  /\ MayEdit(signer, dao_id)
  /\ daos' = [daos EXCEPT ![dao_id].attributes = Upserted(@, batch)]
  /\ UNCHANGED <<tokens, config>>

DelAttrs(signer, dao_id, keys) ==
  /\ MayEdit(signer, dao_id)
  /\ daos' = [daos EXCEPT ![dao_id].attributes = Restrict(@, DOMAIN @ \ keys)]
  /\ UNCHANGED <<tokens, config>>

----------------------------------------------------------------------------
(* Tokens. *)

\* The new row's key is stored in a uint8_t.
NextTokenId(rows) == NonZeroKey(NextKey(rows) % ByteRange)

\* A faulty variant of AddToken: a token can be listed again.
AddTokenAgain(signer, dao_id, token_contract, token_symbol) ==
  LET token    == [account |-> token_contract, symbol |-> token_symbol]
      token_id == NextTokenId(tokens[dao_id])
  IN
  /\ MayEdit(signer, dao_id)
  /\ token_id \notin DOMAIN tokens[dao_id]
  /\ daos' = [daos EXCEPT ![dao_id].tokens = Append(@, token)]
  /\ tokens' = [tokens EXCEPT ![dao_id] = Put(@, token_id, token)]
  /\ UNCHANGED config

AddToken(signer, dao_id, token_contract, token_symbol) ==
  LET token    == [account |-> token_contract, symbol |-> token_symbol]
      token_id == NextTokenId(tokens[dao_id])
  IN
  /\ MayEdit(signer, dao_id)
  /\ \A i \in DOMAIN daos[dao_id].tokens : daos[dao_id].tokens[i] # token
  /\ token_id \notin DOMAIN tokens[dao_id]
  /\ daos' = [daos EXCEPT ![dao_id].tokens = Append(@, token)]
  /\ tokens' = [tokens EXCEPT ![dao_id] = Put(@, token_id, token)]
  /\ UNCHANGED config

----------------------------------------------------------------------------

EditDao ==
  \E signer \in Account, dao_id \in DaoId :
    \/ \E ipfs \in Ipfs : Update(signer, dao_id, ipfs)
    \/ DelOrg(signer, dao_id)
    \/ \E batch \in Batch : UpsertAttrs(signer, dao_id, batch)
    \/ \E keys \in SUBSET AttrKey : DelAttrs(signer, dao_id, keys)
    \/ \E token_contract \in TokenContract, token_symbol \in Symbol :
         AddToken(signer, dao_id, token_contract, token_symbol)

SetConfig ==
  \E signer \in Account :
    \/ \E key \in ConfigKey, value \in ConfigValue : SetParam(signer, key, value)
    \/ ResetSttngs(signer)

RegistryNext ==
  \/ \E signer \in Account : ResetDaos(signer)
  \/ \E signer \in Account, dao, creator \in Name, ipfs \in Ipfs :
       CreateDao(signer, dao, creator, ipfs)
  \/ EditDao
  \/ SetConfig

RegistrySpec == RegistryInit /\ [][RegistryNext]_registryVars

----------------------------------------------------------------------------
(* What the registry promises. *)

(***************************************************************************)
(* No two organizations have the same name, through any sequence of        *)
(* creations and deletions and the reuse of freed ids, although create     *)
(* makes its check by the order of names and not by comparing them.  (It   *)
(* so refuses names nobody has, those smaller than a registered one.)      *)
(***************************************************************************)
NamesUnique == \A d, e \in DOMAIN daos : daos[d].dao = daos[e].dao => d = e

(***************************************************************************)
(* addtoken writes a token to two places, the organization's row and the   *)
(* tokens table, and delorg and reset clear only the first.  The list in   *)
(* the row is always the youngest part of the table, in order, without     *)
(* repetition: every token an organization lists can be found by           *)
(* createoffer, also by an organization that took over a freed id.         *)
(***************************************************************************)
TokensConsistent ==
  \A d \in DOMAIN daos :
    LET list  == daos[d].tokens
        older == Cardinality(DOMAIN tokens[d]) - Len(list)
    IN  /\ DOMAIN tokens[d] = 1..(older + Len(list))
        /\ older >= 0
        /\ \A i \in DOMAIN list : tokens[d][older + i] = list[i]
        /\ IsInjective(list)

(***************************************************************************)
(* Balances are found through get_token_account, so the contract a         *)
(* registered symbol stands for must not change while the organization     *)
(* lives, whatever tokens are added later, of other contracts or with the  *)
(* same symbol.                                                            *)
(***************************************************************************)
ResolutionStable ==
  [][\A d \in DOMAIN daos \cap DOMAIN daos', s \in Symbol :
       Positions(d, s) # {} => TokenAccount(d, s)' = TokenAccount(d, s)]_registryVars

(***************************************************************************)
(* What a batch of attributes does, key by key: the last value given wins  *)
(* for a key the organization had, the first one for a new key, and other  *)
(* keys keep their value.                                                  *)
(***************************************************************************)
UpsertMeaning ==
  \A old \in {daos[d].attributes : d \in DOMAIN daos}, batch \in Batch :
    LET new      == Upserted(old, batch)
        given(k) == {i \in DOMAIN batch : batch[i][1] = k}
    IN  /\ DOMAIN new = DOMAIN old \cup {batch[i][1] : i \in DOMAIN batch}
        /\ \A k \in DOMAIN new :
             new[k] = IF given(k) = {} THEN old[k]
                      ELSE IF k \in DOMAIN old THEN batch[Max(given(k))][2]
                      ELSE batch[Min(given(k))][2]
=============================================================================
