SPECIFICATION TradingSpec
CONSTANTS
  Name = {1, 2, 3, 4, 11}
  Account = {1, 2, 3, 4}
  Code = {"TLOS", "DTK"}
  Precision = {4}
  Amount = {2}
  MaxAmount = 4
  Contract = {2}
  Self = 1
  TokenContract = {2}
  SystemContract = 2
  SystemSymbol <- TLOS4
  MaxDaoId = 1
  ByteRange = 16
  Ipfs = {"Qm"}
  AttrKey = {}
  AttrValue = {}
  MaxBatch = 0
  ConfigValue <- MCConfig
  Eosio = 2
  RamPrice = {1}
  OfferAmount <- WildAmount
  Unit = 3
  MaxOfferId = 1
  MaxTime = 0
  Offered <- JustDTK
  Offering <- EitherSign
  Asking = {3}
  PricedIn <- JustTLOS
INVARIANTS
  NothingOverdrawn
CHECK_DEADLOCK FALSE
