SPECIFICATION Spec
CONSTANTS
  d1 = d1
  d2 = d2
  Null = Null
  Users = {u1}
  Seats = {s1}
  Devices = {d1, d2}
  ReservationIds = {r1}
  TokenIds = {k1, k2}
  RefreshJobs = {j1}
  SyncJobs = {j2}
  CheckinStartOffset = 1
  CheckinDeadlineOffset = 1
  QrTokenTtl = 1
  EndingSoonWindow = 1
  MinValidStudy = 1
  Slots <- OpenSlot
  ExtendedEnds = {}
  Conditions <- DeviceConditions
  MaxLag = 0
  MaxTime = 2
  WeekLength = 1
SYMMETRY Symmetry
INVARIANTS
  TypeOK
  CheckInsAccountedFor
PROPERTIES
  EndedIsFinal
