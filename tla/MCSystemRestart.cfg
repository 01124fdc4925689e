\* Two deposits paid out by the bank, with a restart between their payouts.
CONSTANTS
  t1 = t1
  t2 = t2
  w = w
  h = h
  Session = {w, h}
  User = {"client"}
  Route <- OneRoute
  WatchedUser <- OneWatched
  RouteActions <- BankActions
  Trigger = {t1, t2}
  Credit <- CreditTwo
  NoSession = NoSession
  NoLeg = NoLeg
  MaxRestarts = 1
  Worker = {w}
  CreditedUser = "client"
  ChainAmount <- TwoCents
  WebhookBody <- TrueBody
  Droppable = {}
  ScanLimit = 2
  BatchLimit = 2
SPECIFICATION SystemSpec
INVARIANT OpenIsReported
