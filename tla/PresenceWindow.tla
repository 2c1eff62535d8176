--------------------------- MODULE PresenceWindow ---------------------------
(***************************************************************************)
(* When presence counts as stable.  A seat's readings are recorded with    *)
(* the device's timestamps and arrive in any order; each is then evaluated *)
(* by two queries over a window ending at its timestamp, and a stable      *)
(* result is applied to the seat by a transaction of its own.  The scan    *)
(* for occupancy anomalies has another rule for the same question.         *)
(***************************************************************************)
EXTENDS Integers, FiniteSets, Sequences

CONSTANTS
  Devices, Null,
  Statuses,       \* presence the sensors may report
  Given,          \* sensor health given with a report, Null: none
  Threshold,      \* PRESENCE_*_STABLE_SECONDS, by presence
  Suspicious,     \* ANOMALY_*_STABLE_SECONDS, by presence
  Tasks,          \* bound: reports handled at once
  MaxReadings,    \* bound
  MaxTime,        \* bound
  InOrder         \* reports arrive in the order of their timestamps

Presence == {"PRESENT", "ABSENT", "UNKNOWN", "ERROR"}
Untrusted == {"UNKNOWN", "ERROR"}
SensorHealth == {"OK", "UNKNOWN", "ERROR"}
Time == 0 .. MaxTime

Reading == [device: Devices, status: Presence, at: Time]

NullAssumption == Null \notin Presence \cup Reading
InputAssumption ==
  /\ Statuses \subseteq Presence
  /\ Given \subseteq SensorHealth \cup {Null}
ThresholdAssumption ==
  Threshold \in [Presence -> Nat] /\ Suspicious \in [Presence -> Nat]
BoundAssumption == MaxTime \in Nat

VARIABLES
  readings,   \* table sensor_readings, in the order of created_at
  presence,   \* seats.presence_status
  sensor,     \* devices.sensor_status
  bound,      \* the device of the seat
  now,
  task        \* a report between two of its statements

vars == <<readings, presence, sensor, bound, now, task>>

Idle == [pc |-> "idle", device |-> Null, status |-> Null, at |-> 0, earliest |-> 0]

Init ==
  /\ readings = <<>>
  /\ presence = "UNKNOWN"
  /\ sensor = [d \in Devices |-> "UNKNOWN"]
  /\ bound \in Devices
  /\ now = 0
  /\ task = [t \in Tasks |-> Idle]

-----------------------------------------------------------------------------
(* Queries over the readings of a device on the seat *)

Rows(d, from, to) ==
  {i \in DOMAIN readings :
     readings[i].device = d /\ from <= readings[i].at /\ readings[i].at <= to}

(* orderBy reportedAt desc, createdAt desc                                 *)
Latest(rows) ==
  CHOOSE i \in rows : \A j \in rows :
    \/ readings[j].at < readings[i].at
    \/ readings[j].at = readings[i].at /\ j <= i

LatestUntil(d, t) == LET rows == Rows(d, 0, t) IN
  IF rows = {} THEN Null ELSE readings[Latest(rows)]

Earliest(rows) == CHOOSE x \in {readings[i].at : i \in rows} :
  \A i \in rows : x <= readings[i].at

-----------------------------------------------------------------------------
(* evaluate: all readings of the window agree, and the window is covered   *)

Window(d, status, at) == Rows(d, at - Threshold[status], at)

WindowAgrees(d, status, at) ==
  /\ Window(d, status, at) # {}
  /\ \A i \in Window(d, status, at) : readings[i].status = status

(* Defect: the threshold is not waited for.                                *)
NotWaited(d, status, at, earliest) == TRUE

Covered(d, status, at, earliest) ==
  LET start == at - Threshold[status]  prior == LatestUntil(d, start) IN
  \/ prior # Null /\ prior.status = status
  \/ earliest <= start

Stable(d, status, at) ==
  /\ WindowAgrees(d, status, at)
  /\ Covered(d, status, at, Earliest(Window(d, status, at)))

-----------------------------------------------------------------------------
(* The scan for anomalies: is the seat's presence of long standing?        *)

(* Defect: a differing reading at the end of the time looked at is missed. *)
JitterBefore(d, status, boundary) ==
  \E i \in Rows(d, boundary.at + 1, now - 1) : readings[i].status # status

Jitter(d, status, boundary) ==
  \E i \in Rows(d, boundary.at + 1, now) : readings[i].status # status

HasStablePresence(status) ==
  LET boundary == LatestUntil(bound, now - Suspicious[status]) IN
  /\ presence = status
  /\ boundary # Null =>
       boundary.status = status /\ ~Jitter(bound, status, boundary)

SensorSuspected ==
  /\ presence \in Untrusted \/ sensor[bound] \in Untrusted
  /\ \E status \in Untrusted : HasStablePresence(status)

-----------------------------------------------------------------------------
(* Reports *)

Start(t, rest) ==
  /\ task[t] = Idle
  /\ task' = [task EXCEPT ![t] = rest]

Continue(t, rest) == task' = [task EXCEPT ![t] = rest]

NormalizedSensor(given, status) ==
  CASE given # Null -> given
    [] given = Null /\ status \in Untrusted -> status
    [] OTHER -> "OK"

Timely(d, at) ==
  InOrder => at <= now /\ \A i \in Rows(d, 0, MaxTime) : readings[i].at < at

(* A report of another device or for another seat is rejected.             *)
RecordPresence(t, d, status, at, given) ==
  /\ d = bound
  /\ Len(readings) < MaxReadings /\ Timely(d, at)
  /\ readings' = Append(readings, [device |-> d, status |-> status, at |-> at])
  /\ sensor' = [sensor EXCEPT ![d] = NormalizedSensor(given, status)]
  /\ Start(t, [Idle EXCEPT !.pc = "window", !.device = d, !.status = status, !.at = at])
  /\ UNCHANGED <<presence, bound, now>>

ReadWindow(t) ==
  LET d == task[t].device  status == task[t].status  at == task[t].at IN
  /\ task[t].pc = "window"
  /\ Continue(t, IF WindowAgrees(d, status, at)
       THEN [task[t] EXCEPT !.pc = "prior",
                            !.earliest = Earliest(Window(d, status, at))]
       ELSE Idle)
  /\ UNCHANGED <<readings, presence, sensor, bound, now>>

ReadPrior(t) ==
  LET d == task[t].device  status == task[t].status  at == task[t].at IN
  /\ task[t].pc = "prior"
  /\ Continue(t, IF Covered(d, status, at, task[t].earliest)
       THEN [task[t] EXCEPT !.pc = "apply"] ELSE Idle)
  /\ UNCHANGED <<readings, presence, sensor, bound, now>>

(* What it does to availability is in SeatDevice.                          *)
ApplyStablePresence(t) ==
  /\ task[t].pc = "apply"
  /\ presence' = task[t].status
  /\ Continue(t, Idle)
  /\ UNCHANGED <<readings, sensor, bound, now>>

Rebind(d) ==
  /\ d # bound
  /\ bound' = d
  /\ UNCHANGED <<readings, presence, sensor, now, task>>

Tick ==
  /\ now < MaxTime
  /\ now' = now + 1
  /\ UNCHANGED <<readings, presence, sensor, bound, task>>

Next ==
  \/ \E t \in Tasks : ReadWindow(t) \/ ReadPrior(t) \/ ApplyStablePresence(t)
  \/ \E t \in Tasks, d \in Devices, status \in Statuses, at \in Time :
       \E given \in Given : RecordPresence(t, d, status, at, given)
  \/ \E d \in Devices : Rebind(d)
  \/ Tick

Spec == Init /\ [][Next]_vars

-----------------------------------------------------------------------------
(* Properties *)

TaskRow ==
  [pc: {"idle", "window", "prior", "apply"}, device: Devices \cup {Null},
   status: Presence \cup {Null}, at: Time, earliest: Time]

TypeOK ==
  /\ readings \in Seq(Reading)
  /\ presence \in Presence
  /\ sensor \in [Devices -> SensorHealth]
  /\ bound \in Devices /\ now \in Time
  /\ task \in [Tasks -> TaskRow]
  /\ \A t \in Tasks : task[t].pc # "idle" => task[t].status \in Presence

(* What the readings say of an instant: the last one until then.           *)
Signal(d, t) == IF LatestUntil(d, t) = Null THEN Null ELSE LatestUntil(d, t).status

Uninterrupted(d, S, from, to) == \A t \in from .. to : Signal(d, t) \in S

NoTwoAtOnce(d) ==
  \A i, j \in Rows(d, 0, MaxTime) : readings[i].at = readings[j].at => i = j

(* Whatever was reported and in whatever order: presence counts as stable  *)
(* only if the readings gave it throughout the threshold (evaluate).       *)
EvaluationSound ==
  \A d \in Devices, status \in Statuses, at \in Time :
     Stable(d, status, at) => Uninterrupted(d, {status}, at - Threshold[status], at)

(* And if they gave it throughout, no instant having two readings, a       *)
(* report at the end of it is found stable.                                *)
EvaluationComplete ==
  \A d \in Devices : NoTwoAtOnce(d) =>
    \A i \in Rows(d, 0, MaxTime) :
      LET status == readings[i].status  at == readings[i].at IN
      Uninterrupted(d, {status}, at - Threshold[status], at) => Stable(d, status, at)

(* An anomaly about presence is raised only if the readings gave it        *)
(* throughout the time the rule asks for, where there are readings.        *)
SuspicionSound ==
  \A status \in Statuses :
     LET from == now - Suspicious[status] IN
     HasStablePresence(status) /\ Signal(bound, from) # Null
       => Uninterrupted(bound, {status}, from, now)

-----------------------------------------------------------------------------
(* What the code does not keep: in no run, TLC finds each of them violated *)

StableAt(d) == {i \in Rows(d, 0, MaxTime) : Stable(d, readings[i].status, readings[i].at)}

(* No report being handled, the seat's presence is that of its device's    *)
(* last stable report (a delayed or overtaken one takes it back).          *)
PresenceUpToDate ==
  (\A t \in Tasks : task[t] = Idle) /\ StableAt(bound) # {}
    => presence = readings[Latest(StableAt(bound))].status

(* An anomaly about presence is raised only for what the device of the     *)
(* seat has reported for that long (without a boundary nothing is asked).  *)
SuspicionFounded ==
  \A status \in Statuses :
     HasStablePresence(status)
       => Uninterrupted(bound, {status}, now - Suspicious[status], now)

(* A sensor untrusted throughout the threshold is suspected (UNKNOWN and   *)
(* ERROR in turns are not).                                                *)
UntrustedSuspected ==
  (/\ \A t \in Tasks : task[t] = Idle
   /\ \E i \in DOMAIN readings : readings[i].device = bound /\ readings[i].at = now
   /\ Uninterrupted(bound, Untrusted, now - Suspicious["ERROR"], now))
    => SensorSuspected
=============================================================================
