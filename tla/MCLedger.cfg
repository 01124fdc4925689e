CONSTANTS
  s1 = s1
  s2 = s2
  s3 = s3
  k1 = k1
  k2 = k2
  user = user
  fees = fees
  external = external
  conversion = conversion
  Session = {s1, s2, s3}
  BaseKey = {k1, k2}
  UserAccount = {user}
  FeeAccount = fees
  ExternalAccount = {external}
  ConversionAccount = conversion
  PayoutKey <- AnyKey
  Destination = {external}
  Amount = {0, 30000}
  Spend = {0, 1}
  Fee = {1}
  FeeBps = 5000
  Currency = {"USDC", "USD"}
  PayoutCurrency = {"USD"}
  NoSession = NoSession
SPECIFICATION Spec
SYMMETRY Symmetry
INVARIANT TypeOK
INVARIANT NoOverdraft
INVARIANT GuardMatchesEntries
INVARIANT PendingIsOpenDeposits
INVARIANT AnnouncedOnceAfterCommit
PROPERTY EntriesAppendOnly
PROPERTY ImplementsAtomicLedger
