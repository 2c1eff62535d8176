SPECIFICATION Spec
CONSTANTS
  d1 = d1
  d2 = d2
  Null = Null
  Users = {u1}
  Seats = {s1}
  Devices = {d1, d2}
  ReservationIds = {r1}
  TokenIds = {k1}
  RefreshJobs = {j1}
  SyncJobs = {}
  CheckinStartOffset = 1
  CheckinDeadlineOffset = 1
  QrTokenTtl = 1
  EndingSoonWindow = 1
  MinValidStudy = 1
  Slots <- ShortSlots
  ExtendedEnds = {2, 3}
  Conditions <- DeviceConditions
  MaxLag = 0
  MaxTime = 1
  WeekLength = 1
SYMMETRY Symmetry
PROPERTIES
  TokensOnlyOnline
