SPECIFICATION TokenSpec
CONSTANTS
  tlostoken = tlostoken
  alice = alice
  bob = bob
  ghost = ghost
  TOK = TOK
  Name = {tlostoken, alice, bob, ghost}
  Account = {tlostoken, alice, bob}
  Contract = {tlostoken}
  Code = {TOK}
  Precision = {2, 4}
  MaxAmount = 3
  Amount <- MCAmounts
INVARIANTS
  TokenTypeOK
  Conservation
  SupplyWithinMax
  CreditsNeverOverflow
PROPERTIES
  ImplementsCurrency
