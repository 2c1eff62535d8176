SPECIFICATION Spec
CONSTANTS
  d1 = d1
  d2 = d2
  Null = Null
  Users = {u1, u2}
  Seats = {s1, s2}
  Devices = {d1, d2}
  ReservationIds = {r1, r2}
  TokenIds = {k1}
  RefreshJobs = {j1}
  SyncJobs = {}
  CheckinStartOffset = 1
  CheckinDeadlineOffset = 1
  QrTokenTtl = 2
  EndingSoonWindow = 1
  MinValidStudy = 1
  Slots <- ShortSlots
  ExtendedEnds = {2, 3}
  Conditions <- TwoSeatConditions
  MaxLag = 0
  MaxTime = 2
  WeekLength = 1
SYMMETRY SeatSymmetry
INVARIANTS
  NoDoubleBooking
PROPERTIES
  ImplementsLease
