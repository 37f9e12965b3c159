SPECIFICATION SettlementSpec
CONSTANTS
  Name = {1, 2, 3, 4, 5, 11}
  Account = {1, 2, 3, 4, 5}
  Code = {"TLOS", "DTK"}
  Precision = {4}
  Amount = {2}
  MaxAmount = 4
  Contract = {2, 5}
  Self = 1
  TokenContract = {2, 5}
  SystemContract = 2
  SystemSymbol <- TLOS4
  MaxDaoId = 1
  ByteRange = 3
  Ipfs = {"Qm"}
  AttrKey = {}
  AttrValue = {}
  MaxBatch = 0
  ConfigValue <- MCConfig
  Eosio = 2
  RamPrice = {1}
  OfferAmount = {1, 2}
  Unit = 3
  MaxOfferId = 0
  MaxTime = 0
  Offered <- JustDTK
  Offering = {2}
  Asking = {1, 2}
  PricedIn <- JustTLOS
INVARIANTS
  PricedInSystemToken
CHECK_DEADLOCK FALSE
