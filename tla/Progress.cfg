SPECIFICATION AllSpec
CONSTANTS
  Null = Null
  d1 = d1
  s1 = s1
  s2 = s2
  b1 = b1
  q1 = q1
  q2 = q2
  q3 = q3
  r1 = r1
  r2 = r2
  e1 = e1
  e2 = e2
  e3 = e3
  o1 = o1
  o2 = o2
  a1 = a1
  Users = {u1, u2}
  Admins = {u2}
  Tokens = {k1, k2}
  Calls = {q1}
  Failing = TRUE
  MaxRestarts = 2
CHECK_DEADLOCK FALSE
INVARIANTS
  MirrorsStorage
PROPERTIES
  LaunchesLeadOn
  SilentFound
  WaitingShowsToken
  TransitionsReported
  HeardAgain
  EveryoneGetsIn
