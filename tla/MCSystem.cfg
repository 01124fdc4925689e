\* The watcher and one handler, one deposit the chain may drop, one restart.
CONSTANTS
  t1 = t1
  w = w
  h = h
  Session = {w, h}
  User = {"client"}
  Route <- Routes
  WatchedUser <- Watched
  RouteActions <- Actions
  Trigger = {t1}
  Credit <- CreditTwo
  NoSession = NoSession
  NoLeg = NoLeg
  MaxRestarts = 1
  Worker = {w}
  CreditedUser = "client"
  ChainAmount <- TwoCents
  WebhookBody <- TrueBody
  Droppable = {t1}
  ScanLimit = 2
  BatchLimit = 2
SPECIFICATION FairSystemSpec
INVARIANT PaidOnlyPastThreshold
INVARIANT OnlyRealFindings
INVARIANT OpenIsReported
PROPERTY FinalDepositIsRouted
