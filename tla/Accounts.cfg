SPECIFICATION AllSpec
CONSTANTS
  Null = Null
  o1 = o1
  o2 = o2
  u1 = u1
  p1 = p1
  n1 = n1
  Tasks = {t1, t2}
  UserIds = {a1, a2, a3}
  States = {st1, st2}
  Identities <- Shown
  Redirects = {1, 2}
  Existing <- OidcOrNone
  DefaultMode = "WECHAT"
  MaxUpdates = 1
  MaxFailures = 1
  Users = {1, 2}
  Students = {1, 2}
  AnonymousName <- SecondFirst
  Limit = 1
  MinTime = 10
  MaxTime = 12
  MaxRecords = 2
CHECK_DEADLOCK FALSE
SYMMETRY Symmetry
INVARIANTS
  Types
  OneAdministrator
  SameAccount
  StateUsedOnce
PROPERTIES
  BoardAgreesWithStats
  StreakOfItsWeek
  OptOutRespected
