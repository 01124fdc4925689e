CONSTANTS
  s1 = s1
  s2 = s2
  t1 = t1
  Session = {s1, s2}
  User = {"user"}
  Route <- OneRoute
  WatchedUser <- OneRouteWatched
  RouteActions <- OneRouteActions
  Trigger = {t1}
  Credit <- OneCredit
  NoSession = NoSession
  NoLeg = NoLeg
  MaxRestarts = 0
SPECIFICATION RedeliverySpec
PROPERTY AckedLegMovesOn
