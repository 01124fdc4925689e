CONSTANTS
  s1 = s1
  s2 = s2
  k1 = k1
  k2 = k2
  user = user
  fees = fees
  external = external
  conversion = conversion
  Session = {s1, s2}
  BaseKey = {k1, k2}
  UserAccount = {user}
  FeeAccount = fees
  ExternalAccount = {external}
  ConversionAccount = conversion
  PayoutKey <- AnyKey
  Destination = {external}
  Amount = {30000}
  Spend = {1}
  Fee = {0}
  FeeBps = 5000
  Currency = {"USDC", "USD"}
  PayoutCurrency = {"USD"}
  NoSession = NoSession
SPECIFICATION FairSpec
PROPERTY EveryCallEnds
