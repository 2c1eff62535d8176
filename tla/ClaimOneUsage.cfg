SPECIFICATION Spec
CONSTANTS
  d1 = d1
  d2 = d2
  Null = Null
  Users = {u1}
  Seats = {s1, s2}
  Devices = {d1, d2}
  ReservationIds = {r1, r2}
  TokenIds = {k1, k2}
  RefreshJobs = {j1}
  SyncJobs = {}
  CheckinStartOffset = 1
  CheckinDeadlineOffset = 1
  QrTokenTtl = 2
  EndingSoonWindow = 1
  MinValidStudy = 1
  Slots <- EarlySlots
  ExtendedEnds = {}
  Conditions <- TwoSeatConditions
  MaxLag = 0
  MaxTime = 1
  WeekLength = 1
SYMMETRY SeatSymmetry
INVARIANTS
  OneUsagePerUser
