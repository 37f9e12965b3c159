SPECIFICATION EverythingSpec
CONSTANTS
  Name = {1, 2, 3, 4, 5}
  Account = {1, 2, 4, 5}
  Code = {"TLOS", "ACM"}
  Precision = {4}
  Amount = {1}
  MaxAmount = 1
  Self = 1
  TokenContract = {2, 3}
  SystemContract = 2
  SystemSymbol <- MCSymbol
  MaxDaoId = 2
  ByteRange = 3
  Ipfs = {"Qm", "Qn"}
  AttrKey = {"site", "logo"}
  AttrValue = {10, 11}
  MaxBatch = 3
  ConfigValue <- MCConfig
INVARIANTS
  RegistryTypeOK
  NamesUnique
  TokensConsistent
  UpsertMeaning
PROPERTIES
  ResolutionStable
