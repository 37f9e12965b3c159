SPECIFICATION CustodySpec
CONSTANTS
  Name = {1, 2, 3, 9}
  Account = {1, 2, 3}
  Code = {"TLOS"}
  Precision = {2, 4}
  Amount = {1, 2}
  MaxAmount = 2
  Contract = {2}
  Self = 1
  TokenContract = {2}
  SystemContract = 2
  SystemSymbol <- TLOS4
  MaxDaoId = 1
  ByteRange = 3
  Ipfs = {"Qm"}
  AttrKey = {}
  AttrValue = {}
  MaxBatch = 0
  ConfigValue <- MCConfig
  Eosio = 2
  RamPrice = {1}
INVARIANTS
  LedgerTypeOK
  Backing
  BalancesAreOfKnownTokens
  WithdrawalsHonoured
