CONSTANTS
  s1 = s1
  s2 = s2
  t1 = t1
  Session = {s1, s2}
  User = {"user"}
  Route <- Routes
  WatchedUser <- OneUser
  RouteActions <- Actions
  Trigger = {t1}
  Credit <- OneCredit
  NoSession = NoSession
  NoLeg = NoLeg
  MaxRestarts = 1
SPECIFICATION FairSpec
INVARIANT TypeOK
INVARIANT AllLegsOrNone
INVARIANT BooksFollowLegs
INVARIANT OutcomeMatchesLegs
INVARIANT HeadroomIsCreditLessHolds
PROPERTY OnlyForward
PROPERTY EverySessionEnds
