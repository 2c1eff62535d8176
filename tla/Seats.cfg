SPECIFICATION AllSpec
CONSTANTS
  Null = Null
  Devices = {d1, d2}
  Seats = {s1, s2}
  BindingIds = {b1, b2, b3}
  Requests = {q1, q2}
  Scans = {q1, q2}
  Reports = {"PRESENT", "ERROR"}
  Maintenance = {"ENTER", "EXIT", "RELEASE"}
  Switches = {TRUE, FALSE}
  MaxAsked = 1
  MaxBound = 2
  Statuses = {"PRESENT", "ABSENT"}
  Given = {Null}
  Threshold <- StableAfter
  Suspicious <- SuspiciousAfter
  Reporters = {r1}
  MaxReadings = 3
  MaxTime = 4
  InOrder = FALSE
CHECK_DEADLOCK FALSE
SYMMETRY Symmetry
INVARIANTS
  Types
  ActiveBindingsUnique
  AloneBindingsAgree
  AloneOutOfServiceUnavailable
  RecordsTellMaintenance
  EvaluationExact
  SuspicionsSound
