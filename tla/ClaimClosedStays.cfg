SPECIFICATION Spec
CONSTANTS
  d1 = d1
  s1 = s1
  r1 = r1
  e1 = e1
  t1 = t1
  t2 = t2
  Null = Null
  Devices = {d1}
  Seats = {s1}
  Reservations = {r1}
  EventIds = {e1}
  Tasks = {t1, t2}
  Statuses = {"ACKNOWLEDGED", "CLOSED"}
  Suspicions = {"SENSOR_ERROR"}
  Rebinding = FALSE
  MaxFailures = 0
PROPERTIES
  ClosedStays
CHECK_DEADLOCK FALSE
