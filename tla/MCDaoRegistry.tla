--------------------------- MODULE MCDaoRegistry ----------------------------
(***************************************************************************)
(* Small instances of the registry.  Names are numbers because the code    *)
(* orders them.                                                            *)
(***************************************************************************)
EXTENDS DaoRegistry

daoreg == 1
tlos   == 2
acme   == 3
carol  == 4
sister == 5

MCSymbol == [code |-> "TLOS", precision |-> 4]
MCConfig == {[type |-> "uint64", amount |-> 0], [type |-> "asset", amount |-> 0],
             [type |-> "name", amount |-> 0]}

MCConfigured ==
  [k \in ConfigKey |-> [type |-> IF k = "b.rambytes" THEN "uint64" ELSE "asset", amount |-> 0]]

(***************************************************************************)
(* For ids, names and token lists: everything is configured and nobody has *)
(* attributes.                                                             *)
(***************************************************************************)
IdsInit == daos = NoRows /\ tokens = [d \in DaoId |-> NoRows] /\ config = MCConfigured

IdsNext ==
  \E signer \in Account :
    \/ ResetDaos(signer)
    \/ \E dao \in Name : CreateDao(signer, dao, carol, "Qm")
    \/ \E dao_id \in DaoId :
         \/ DelOrg(signer, dao_id)
         \/ \E token_contract \in TokenContract, token_symbol \in Symbol :
              AddToken(signer, dao_id, token_contract, token_symbol)

IdsSpec == IdsInit /\ [][IdsNext]_registryVars

\* For parameters and attributes.
SettingsNext ==
  \/ SetConfig
  \/ \E signer \in Account :
       \/ \E dao \in {carol, sister}, ipfs \in Ipfs : CreateDao(signer, dao, carol, ipfs)
       \/ \E dao_id \in DaoId :
            \/ \E ipfs \in Ipfs : Update(signer, dao_id, ipfs)
            \/ \E batch \in Batch : UpsertAttrs(signer, dao_id, batch)
            \/ \E keys \in SUBSET AttrKey : DelAttrs(signer, dao_id, keys)

\* Both, but what an organization says of itself changes only while no token is listed.
Configured ==
  /\ config = MCConfigured
  /\ \A d \in DOMAIN daos : daos[d].attributes = NoRows /\ daos[d].ipfs = "Qm"

EverythingNext ==
  \/ Configured /\ IdsNext
  \/ /\ \A d \in DaoId : tokens[d] = NoRows
     /\ \A d \in DOMAIN daos : daos[d].dao \in {carol, sister}
     /\ SettingsNext

EverythingSpec == RegistryInit /\ [][EverythingNext]_registryVars
=============================================================================
