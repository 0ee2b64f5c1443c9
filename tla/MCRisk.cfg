SPECIFICATION Spec
CONSTANTS
  EquitySleeves <- MCEquity
  CryptoSleeves <- MCCrypto
  S0 = "S0"
  Equities <- MCEquities
  LossPct = 5  MaxSameSide = 2
  Offers <- MCOffers
  Capitals = {150}
  RiskPct = 2  MaxNotionalPct = 30
  FixedNotional = 40
  CryptoNotionals = {40}
  Slip = 1
  MaxTrades = 3
INVARIANTS TypeOK SideCapped FillsWithinEquity SizedToRisk
PROPERTIES HaltHolds
