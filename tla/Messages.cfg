SPECIFICATION AllSpec
CONSTANTS
  Null = Null
  s1 = s1
  s2 = s2
  d1 = d1
  Devices = {d1, d2}
  Seats = {s1, s2}
  Reservations = {r1, r2}
  EventIds = {e1, e2}
  Tasks = {t1, t2}
  Statuses = {}
  Suspicions = {"EARLY_LEAVE_SUSPECTED"}
  Rebinding = FALSE
  MaxFailures = 1
  Screens = {d1}
  Jobs = {t1, t2}
  Refreshes = {t1, t2}
  Maintenance = {TRUE, FALSE}
  Faults = {"exception", "restart"}
  MaxCrashes = 1
  Topics = {"heartbeat", "presence"}
  Rounds = {1, 2, 3}
  MaxConnects = 3
  MaxRefusals = 1
  MaxPublished = 3
CHECK_DEADLOCK FALSE
SYMMETRY Symmetry
INVARIANTS
  Types
  PendingUnique
  ReportedOnce
  ReportsMatch
  AcceptedArrives
PROPERTIES
  ClosedSettles
  LightsSplitByCheckIn
