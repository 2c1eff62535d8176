----------------------------- MODULE Anomalies -----------------------------
(***************************************************************************)
(* Anomaly events: the scans that create them, the heartbeat and the       *)
(* release that resolve them, the administrators who handle them.  A scan  *)
(* creates its events after the commit of what they report, each with a    *)
(* query and an insert of its own; handling an event reads it first.  The  *)
(* statements of these are steps, and a task may die between two of them.  *)
(***************************************************************************)
EXTENDS Integers, FiniteSets

CONSTANTS
  Devices, Seats, Reservations, Null,
  EventIds,      \* bound: primary keys of anomaly_events
  Tasks,         \* bound: scans, messages and requests under way at once
  Statuses,      \* what administrators set an event to
  Suspicions,    \* what stable presence may give rise to (PresenceWindow)
  Rebinding,     \* devices may move to another seat
  MaxFailures    \* bound: exceptions and restarts

Final == {"HANDLED", "IGNORED", "CLOSED"}
ActiveStatus == {"PENDING", "ACKNOWLEDGED"}
Occupancy == {"UNRESERVED_OCCUPANCY", "EARLY_LEAVE_SUSPECTED", "SENSOR_ERROR"}
EventType == Occupancy \cup {"NO_SHOW", "OVERTIME_OCCUPANCY", "DEVICE_OFFLINE"}
HandledByRelease ==
  {"UNRESERVED_OCCUPANCY", "EARLY_LEAVE_SUSPECTED", "OVERTIME_OCCUPANCY"}

Key == [type: EventType, seat: Seats, device: Devices \cup {Null},
        res: Reservations \cup {Null}]

Event == [key: Key, status: ActiveStatus \cup Final, resolved: BOOLEAN]

ASSUME NullAssumption ==
  Null \notin Devices \cup Seats \cup Reservations \cup EventIds \cup Event
ASSUME StatusAssumption == Statuses \subseteq (ActiveStatus \cup Final) \ {"PENDING"}
ASSUME SuspicionAssumption == Suspicions \subseteq Occupancy
ASSUME BoundAssumption == MaxFailures \in Nat

ReservationStatus == {"WAITING", "CHECKED_IN", "OVERTIME", "NO_SHOW", "ENDED"}

VARIABLES
  event,     \* table anomaly_events, Null before the insert
  res,       \* res[r]: status and seat; OVERTIME: its seat is PENDING_RELEASE
  device,    \* device[d]: online status and bound seat
  task,      \* task[t]: what is to be done after a commit
  failures

vars == <<event, res, device, task, failures>>

Pc == {"idle", "mark", "scan", "find", "create", "refind", "resolve", "handle"}
TaskRow ==
  [pc: Pc, devices: SUBSET Devices, todo: SUBSET Key, key: Key \cup {Null},
   seats: SUBSET Seats, id: EventIds \cup {Null},
   status: ActiveStatus \cup Final \cup {Null}]

Idle == [pc |-> "idle", devices |-> {}, todo |-> {}, key |-> Null, seats |-> {},
         id |-> Null, status |-> Null]

Init ==
  /\ event = [e \in EventIds |-> Null]
  /\ \E at \in [Reservations -> Seats] :
       res = [r \in Reservations |-> [status |-> "WAITING", seat |-> at[r]]]
  /\ \E at \in [Devices -> Seats] :
       /\ \A c, d \in Devices : at[c] = at[d] => c = d
       /\ device = [d \in Devices |-> [online |-> TRUE, seat |-> at[d]]]
  /\ task = [t \in Tasks |-> Idle]
  /\ failures = 0

DeviceOf(s) ==
  IF \E d \in Devices : device[d].seat = s
  THEN CHOOSE d \in Devices : device[d].seat = s ELSE Null

KeyOf(type, s, d, r) == [type |-> type, seat |-> s, device |-> d, res |-> r]

Start(t, rest) ==
  /\ task[t] = Idle
  /\ task' = [task EXCEPT ![t] = rest]

Continue(t, rest) == task' = [task EXCEPT ![t] = rest]

(* What remains of a task when its events have been created: more seats to *)
(* look at, or nothing.                                                    *)
Creating(keys, seats) ==
  CASE keys # {} -> [Idle EXCEPT !.pc = "find", !.todo = keys, !.seats = seats]
    [] keys = {} /\ seats # {} -> [Idle EXCEPT !.pc = "scan", !.seats = seats]
    [] OTHER -> Idle

(* The bound on events: every event that may be created has a row left.    *)
Room(more) ==
  Cardinality(more) + Cardinality(UNION {{t} \X task[t].todo : t \in Tasks})
      + Cardinality(UNION {{t} \X task[t].devices : t \in Tasks})
    <= Cardinality({e \in EventIds : event[e] = Null})

-----------------------------------------------------------------------------
(* createPendingOnce: find, create, and after a conflict find again        *)

(* Defect: any pending event of the seat counts as the one looked for.     *)
PendingOfSeat(key) ==
  {e \in EventIds :
     event[e] # Null /\ event[e].key.seat = key.seat /\ event[e].status = "PENDING"}

Pending(key) ==
  {e \in EventIds :
     event[e] # Null /\ event[e].key = key /\ event[e].status = "PENDING"}

(* Defect: anomaly events without the partial unique index.                *)
IndexAllowsAny(key) == TRUE

IndexAllows(key) == Pending(key) = {}

FindPending(t) ==
  /\ task[t].pc = "find"
  /\ \E key \in task[t].todo :
       Continue(t, IF Pending(key) = {}
         THEN [task[t] EXCEPT !.pc = "create", !.key = key]
         ELSE Creating(task[t].todo \ {key}, task[t].seats))
  /\ UNCHANGED <<event, res, device, failures>>

CreateEvent(t) ==
  LET key == task[t].key IN
  /\ task[t].pc = "create"
  /\ \/ /\ IndexAllows(key)
        /\ \E e \in EventIds :
             /\ event[e] = Null
             /\ event' = [event EXCEPT ![e] =
                  [key |-> key, status |-> "PENDING", resolved |-> FALSE]]
        /\ Continue(t, Creating(task[t].todo \ {key}, task[t].seats))
     \/ /\ ~IndexAllows(key)
        /\ Continue(t, [task[t] EXCEPT !.pc = "refind"])
        /\ UNCHANGED event
  /\ UNCHANGED <<res, device, failures>>

(* The row in conflict has been resolved meanwhile: the task throws.       *)
FindAgain(t) ==
  /\ task[t].pc = "refind"
  /\ Continue(t, IF Pending(task[t].key) = {} THEN Idle
                 ELSE Creating(task[t].todo \ {task[t].key}, task[t].seats))
  /\ UNCHANGED <<event, res, device, failures>>

-----------------------------------------------------------------------------
(* The scans *)

Keys(type, R) == {KeyOf(type, res[r].seat, DeviceOf(res[r].seat), r) : r \in R}

(* Defect: a no-show keeps its status and is found by the next scan.       *)
NoShowsStay(R) == res

NoShows(R) ==
  [r \in Reservations |-> IF r \in R THEN [res[r] EXCEPT !.status = "NO_SHOW"] ELSE res[r]]

(* Defect: the scan finds the no-shows of earlier scans again.             *)
LapsedOrMissed(r) == res[r].status \in {"WAITING", "NO_SHOW"}

Lapsed(r) == res[r].status = "WAITING"

NoShowScan(t, R) ==
  /\ R # {} /\ \A r \in R : Lapsed(r)
  /\ res' = NoShows(R)
  /\ Room(Keys("NO_SHOW", R))
  /\ Start(t, Creating(Keys("NO_SHOW", R), {}))
  /\ UNCHANGED <<event, device, failures>>

CheckIn(r) ==
  /\ res[r].status = "WAITING"
  /\ \A q \in Reservations :
       res[q].seat = res[r].seat => res[q].status \notin {"CHECKED_IN", "OVERTIME"}
  /\ res' = [res EXCEPT ![r].status = "CHECKED_IN"]
  /\ UNCHANGED <<event, device, task, failures>>

UsageScan(t, R) ==
  /\ R # {} /\ \A r \in R : res[r].status = "CHECKED_IN"
  /\ res' = [r \in Reservations |->
       IF r \in R THEN [res[r] EXCEPT !.status = "OVERTIME"] ELSE res[r]]
  /\ Room(Keys("OVERTIME_OCCUPANCY", R))
  /\ Start(t, Creating(Keys("OVERTIME_OCCUPANCY", R), {}))
  /\ UNCHANGED <<event, device, failures>>

(* A stay ends otherwise: its time is up, or the student leaves.           *)
StayEnds(r) ==
  /\ res[r].status \in {"CHECKED_IN", "OVERTIME"}
  /\ res' = [res EXCEPT ![r].status = "ENDED"]
  /\ UNCHANGED <<event, device, task, failures>>

(* An extension whose clock was read before the end of the stay.           *)
ExtendLate(r) ==
  /\ res[r].status = "OVERTIME"
  /\ res' = [res EXCEPT ![r].status = "CHECKED_IN"]
  /\ UNCHANGED <<event, device, task, failures>>

(* The silent devices are looked up together and marked one by one.        *)
DeviceReconcile(t, D) ==
  /\ D # {} /\ \A d \in D : device[d].online
  /\ Room(D)
  /\ Start(t, [Idle EXCEPT !.pc = "mark", !.devices = D])
  /\ UNCHANGED <<event, res, device, failures>>

OfflineKeys(d) ==
  IF device[d].online /\ device[d].seat # Null
  THEN {KeyOf("DEVICE_OFFLINE", device[d].seat, d, Null)} ELSE {}

MarkOffline(t) ==
  /\ task[t].pc = "mark"
  /\ \E d \in task[t].devices :
       LET rest == task[t].devices \ {d}
           keys == task[t].todo \cup OfflineKeys(d) IN
       /\ device' = [device EXCEPT ![d].online = FALSE]
       /\ Continue(t, IF rest = {} THEN Creating(keys, {})
                      ELSE [task[t] EXCEPT !.devices = rest, !.todo = keys])
  /\ UNCHANGED <<event, res, failures>>

OccupancyScan(t) ==
  LET seats == {s \in Seats : DeviceOf(s) # Null} IN
  /\ Suspicions # {} /\ seats # {}
  /\ Start(t, [Idle EXCEPT !.pc = "scan", !.seats = seats])
  /\ UNCHANGED <<event, res, device, failures>>

CheckedInOn(s) ==
  {r \in Reservations : res[r].seat = s /\ res[r].status \in {"CHECKED_IN", "OVERTIME"}}
UnreservedSeat(s) ==
  \A r \in Reservations :
     res[r].seat = s => res[r].status \notin {"WAITING", "CHECKED_IN", "OVERTIME"}

Guest(s) == IF CheckedInOn(s) = {} THEN Null ELSE CHOOSE r \in CheckedInOn(s) : TRUE

Suspect(s, d, type) ==
  CASE type = "UNRESERVED_OCCUPANCY" -> UnreservedSeat(s)
    [] type = "EARLY_LEAVE_SUSPECTED" ->
         \E r \in CheckedInOn(s) : res[r].status = "CHECKED_IN"
    [] type = "SENSOR_ERROR" -> TRUE

(* The queries about one seat are one step here.                           *)
EvaluateSeat(t) ==
  /\ task[t].pc = "scan"
  /\ \E s \in task[t].seats, S \in SUBSET Suspicions :
       LET d == DeviceOf(s)
           found == IF d # Null /\ device[d].online
                    THEN {type \in S : Suspect(s, d, type)} ELSE {}
           keys == {KeyOf(type, s, d,
                      IF type = "UNRESERVED_OCCUPANCY" THEN Null ELSE Guest(s))
                      : type \in found} IN
       Room(keys) /\ Continue(t, Creating(keys, task[t].seats \ {s}))
  /\ UNCHANGED <<event, res, device, failures>>

-----------------------------------------------------------------------------
(* What resolves events *)

ResolveAll(E) ==
  event' = [e \in EventIds |->
    IF e \in E THEN [event[e] EXCEPT !.status = "HANDLED", !.resolved = TRUE]
               ELSE event[e]]

(* The state is sent to the terminal in between (TerminalSync).            *)
Heartbeat(t, d) ==
  /\ ~device[d].online
  /\ device' = [device EXCEPT ![d].online = TRUE]
  /\ Start(t, IF device[d].seat = Null THEN Idle
       ELSE [Idle EXCEPT !.pc = "resolve",
               !.key = KeyOf("DEVICE_OFFLINE", device[d].seat, d, Null)])
  /\ UNCHANGED <<event, res, failures>>

ResolvePending(t) ==
  /\ task[t].pc = "resolve"
  /\ ResolveAll(Pending(task[t].key))
  /\ Continue(t, Idle)
  /\ UNCHANGED <<res, device, failures>>

(* Defect: a release handles events that are no longer open.               *)
ReleasedEventsAll(r) ==
  {e \in EventIds :
     /\ event[e] # Null /\ event[e].key.type \in HandledByRelease
     /\ event[e].key.res = r \/ event[e].key.seat = res[r].seat}

ReleasedEvents(r) ==
  {e \in EventIds :
     /\ event[e] # Null /\ event[e].status \in ActiveStatus
     /\ event[e].key.type \in HandledByRelease
     /\ event[e].key.res = r \/ event[e].key.seat = res[r].seat}

ReleaseSeat(r) ==
  /\ res[r].status \in {"WAITING", "CHECKED_IN", "OVERTIME"}
  /\ res' = [res EXCEPT ![r].status = "ENDED"]
  /\ ResolveAll(ReleasedEvents(r))
  /\ UNCHANGED <<device, task, failures>>

(* An event is read, and refused if it is closed; then it is updated.      *)
HandleAnomaly(t, e, status) ==
  /\ event[e] # Null /\ event[e].status # "CLOSED"
  /\ Start(t, [Idle EXCEPT !.pc = "handle", !.id = e, !.status = status])
  /\ UNCHANGED <<event, res, device, failures>>

(* Defect: an acknowledged event keeps the time it was resolved at.        *)
HandledKeepsResolved(e, status) ==
  [event[e] EXCEPT !.status = status, !.resolved = @ \/ status \in Final]

Handled(e, status) ==
  [event[e] EXCEPT !.status = status, !.resolved = status \in Final]

HandleUpdate(t) ==
  LET e == task[t].id IN
  /\ task[t].pc = "handle"
  /\ event' = [event EXCEPT ![e] = Handled(e, task[t].status)]
  /\ Continue(t, Idle)
  /\ UNCHANGED <<res, device, failures>>

Rebind(d) ==
  /\ Rebinding
  /\ \E s \in Seats :
       /\ DeviceOf(s) = Null
       /\ device' = [device EXCEPT ![d].seat = s]
  /\ UNCHANGED <<event, res, task, failures>>

(* An exception, or the end of the process: the task is not resumed.       *)
Fails(t) ==
  /\ failures < MaxFailures
  /\ task[t] # Idle
  /\ failures' = failures + 1
  /\ Continue(t, Idle)
  /\ UNCHANGED <<event, res, device>>

-----------------------------------------------------------------------------

Step(t) ==
  \/ MarkOffline(t) \/ EvaluateSeat(t)
  \/ FindPending(t) \/ CreateEvent(t) \/ FindAgain(t)
  \/ ResolvePending(t) \/ HandleUpdate(t)

Begin(t) ==
  \/ \E R \in SUBSET Reservations : NoShowScan(t, R) \/ UsageScan(t, R)
  \/ \E D \in SUBSET Devices : DeviceReconcile(t, D)
  \/ OccupancyScan(t)
  \/ \E d \in Devices : Heartbeat(t, d)
  \/ \E e \in EventIds, status \in Statuses : HandleAnomaly(t, e, status)

Next ==
  \/ \E t \in Tasks : Step(t) \/ Begin(t) \/ Fails(t)
  \/ \E r \in Reservations : CheckIn(r) \/ ExtendLate(r) \/ StayEnds(r) \/ ReleaseSeat(r)
  \/ \E d \in Devices : Rebind(d)

Spec == Init /\ [][Next]_vars

(* A task awaits nothing but the database and the broker.                  *)
FairSpec == Spec /\ \A t \in Tasks : WF_vars(Step(t))

-----------------------------------------------------------------------------
(* Properties *)

Exists(e) == event[e] # Null

(* Types; an event has been resolved exactly when its status is final.     *)
TypeOK ==
  /\ \A e \in EventIds : Exists(e) =>
       event[e] \in Event /\ (event[e].resolved <=> event[e].status \in Final)
  /\ res \in [Reservations -> [status: ReservationStatus, seat: Seats]]
  /\ device \in [Devices -> [online: BOOLEAN, seat: Seats \cup {Null}]]
  /\ task \in [Tasks -> TaskRow]
  /\ failures \in 0 .. MaxFailures

(* However scans, heartbeats and administrators overlap, no two pending    *)
(* events are about the same type, seat, device and reservation.           *)
PendingUnique ==
  \A d, e \in EventIds :
     (/\ Exists(d) /\ Exists(e) /\ event[d].key = event[e].key
      /\ event[d].status = "PENDING" /\ event[e].status = "PENDING") => d = e

(* A no-show is reported once, also when its event was handled before the  *)
(* next scan.                                                              *)
ReportedOnce ==
  \A d, e \in EventIds :
     (/\ Exists(d) /\ Exists(e) /\ event[d].key.res = event[e].key.res
      /\ event[d].key.type = "NO_SHOW" /\ event[e].key.type = "NO_SHOW") => d = e

Reported(type, r) ==
  \E e \in EventIds : Exists(e) /\ event[e].key.type = type /\ event[e].key.res = r

Owed(type, r) ==
  \E t \in Tasks : \E k \in task[t].todo : k.type = type /\ k.res = r

(* An overdue event of another stay has been resolved: a scan that was     *)
(* creating it too throws, and what it had still to report is lost.        *)
OtherResolved(r) ==
  \E e \in EventIds :
    /\ Exists(e) /\ event[e].key.type = "OVERTIME_OCCUPANCY"
    /\ event[e].key.res # r /\ event[e].status # "PENDING"

(* Events and reservations agree, though events are created one by one     *)
(* after the commit.  What an event says is true of its reservation; and a *)
(* no-show or overdue stay is reported or still to be, unless something    *)
(* failed or, for an overdue stay, another's event was resolved meanwhile. *)
ReportsMatch ==
  /\ \A e \in EventIds : Exists(e) =>
       /\ (event[e].key.type = "NO_SHOW" => res[event[e].key.res].status = "NO_SHOW")
       /\ (event[e].key.type = "OVERTIME_OCCUPANCY" =>
             res[event[e].key.res].status \in {"CHECKED_IN", "OVERTIME", "ENDED"})
  /\ \A r \in Reservations :
       /\ (res[r].status = "NO_SHOW" =>
             Reported("NO_SHOW", r) \/ Owed("NO_SHOW", r) \/ failures > 0)
       /\ (res[r].status = "OVERTIME" =>
             \/ Reported("OVERTIME_OCCUPANCY", r) \/ Owed("OVERTIME_OCCUPANCY", r)
             \/ failures > 0 \/ OtherResolved(r))

(* Every no-show is reported in the end unless something failed, and every *)
(* overdue stay unless, besides, another's event was resolved before.      *)
TransitionReported(r) ==
  /\ (res[r].status = "NO_SHOW") ~> (Reported("NO_SHOW", r) \/ failures > 0)
  /\ (res[r].status = "OVERTIME") ~>
       (Reported("OVERTIME_OCCUPANCY", r) \/ failures > 0 \/ OtherResolved(r))

TransitionsReported == \A r \in Reservations : TransitionReported(r)

(* Closed, and no request that has read it before is about to write it.    *)
Settled(e) ==
  /\ Exists(e) /\ event[e].status = "CLOSED"
  /\ \A t \in Tasks : task[t].pc = "handle" => task[t].id # e

(* However handlings, releases and heartbeats overlap, an event that is    *)
(* closed stays closed once the handlings that began before are over.      *)
ClosedSettles == [][\A e \in EventIds : Settled(e) => Settled(e)']_vars

-----------------------------------------------------------------------------
(* What the code does not keep.  TLC finds each of these violated: the     *)
(* first in a run, the others in none.                                     *)

(* A closed event stays closed (a handling that read it before it was      *)
(* closed writes its own status afterwards).                               *)
ClosedStays ==
  [][\A e \in EventIds :
       Exists(e) /\ event[e].status = "CLOSED" => event'[e].status = "CLOSED"]_vars

(* Every no-show and every overdue stay is reported in the end (what a     *)
(* task that breaks off had still to create is created by nobody).         *)
AllReported ==
  \A r \in Reservations :
    /\ (res[r].status = "NO_SHOW") ~> Reported("NO_SHOW", r)
    /\ (res[r].status = "OVERTIME") ~> Reported("OVERTIME_OCCUPANCY", r)

(* Nothing being under way, no device that is online has a pending offline *)
(* event (a heartbeat may resolve nothing before the event is created).    *)
OnlineNotPending ==
  (\A t \in Tasks : task[t] = Idle) =>
    \A e \in EventIds :
      Exists(e) /\ event[e].key.type = "DEVICE_OFFLINE" /\ event[e].status = "PENDING"
        => ~device[event[e].key.device].online

(* Two events that are not yet handled are never about the same thing      *)
(* (an acknowledged one is not looked for).                                *)
UnhandledUnique ==
  \A d, e \in EventIds :
     (/\ Exists(d) /\ Exists(e) /\ event[d].key = event[e].key
      /\ event[d].status \in ActiveStatus /\ event[e].status \in ActiveStatus) => d = e

(* A device that goes offline and stays so is reported (the resolution of  *)
(* an earlier spell may take the event of this one).                       *)
OfflineReported ==
  \A d \in Devices :
    ~device[d].online ~>
      \/ device[d].online
      \/ \E e \in EventIds : Exists(e) /\ event[e].status = "PENDING"
           /\ event[e].key = KeyOf("DEVICE_OFFLINE", device[d].seat, d, Null)
=============================================================================
