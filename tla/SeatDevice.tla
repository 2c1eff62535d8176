----------------------------- MODULE SeatDevice -----------------------------
(***************************************************************************)
(* Who may make a seat bookable: the terminal's heartbeats and the scan    *)
(* for silent terminals, binding and unbinding, presence reports, and the  *)
(* administrator's maintenance, release and enable switches.               *)
(*                                                                         *)
(* All of them write seats.availability_status.  Their transactions run    *)
(* at READ COMMITTED (enabling a seat runs in none), so every statement    *)
(* that reads is a step and the writes appear with the commit; a device    *)
(* row written early stays locked until then.  The administrator's         *)
(* transactions are Serializable: one snapshot, and a rollback if the seat *)
(* row has been written since.                                             *)
(***************************************************************************)
EXTENDS Integers, FiniteSets

CONSTANTS
  Devices, Seats, Null,
  Requests,     \* bound: requests and messages handled at once
  Scans,        \* bound: runs of the scan timer under way at once
  BindingIds,   \* bound: primary keys of device_seat_bindings
  Reports,      \* stable presences the sensors may come to
  Maintenance,  \* what administrators ask for
  Switches      \* enabled flags administrators may set

Tx == Requests \cup Scans

ASSUME NullAssumption == Null \notin Devices \cup Seats \cup BindingIds

Presence == {"PRESENT", "ERROR"}     \* trusted, untrusted
MaintenanceRequest == {"ENTER", "EXIT", "RELEASE"}
Reason == {"DEVICE_OFFLINE", "SENSOR_ERROR", "ADMIN_MAINTENANCE"}

ASSUME InputAssumption ==
  /\ Reports \subseteq Presence
  /\ Maintenance \subseteq MaintenanceRequest
  /\ Switches \subseteq BOOLEAN

DeviceRow ==
  [seat: Seats \cup {Null}, online: BOOLEAN,
   fresh: BOOLEAN]          \* last_heartbeat_at is within the threshold

SeatRow ==
  [device: Devices \cup {Null}, maintenance: BOOLEAN, available: BOOLEAN,
   reason: Reason \cup {Null}, presence: Presence]

BindingRow == [device: Devices, seat: Seats, active: BOOLEAN]

ASSUME RowAssumption ==
  Null \notin Reason /\ Null \notin DeviceRow /\ Null \notin BindingRow

VARIABLES
  device,    \* table devices
  seat,      \* table seats
  binding,   \* table device_seat_bindings, Null before the insert
  opened,    \* seats with an open maintenance record
  logged,    \* logged[s]: maintenance of s by the last entry of the action log
  tx         \* tx[p]: a transaction or handler between two statements

vars == <<device, seat, binding, opened, logged, tx>>

Locked == {"hbSeat", "hbCommit", "offSeat", "offCommit",
           "unbindSeat", "unbindCommit"}

Binding == {"bindSeat", "bindOfDevice", "bindOfSeat", "bindCommit"}

Pc == Locked \cup Binding \cup
  {"idle", "hbWrite", "scan", "offWrite", "unbindWrite", "enableDevice", "enableCommit",
   "reportSeat", "reportCommit", "adminRead", "adminCommit"}

(* d, s, b: the rows it is about; dev, row: the device and seat it has read; *)
(* todo: devices an offline scan has still to visit.                         *)
TxRow ==
  [pc: Pc, d: Devices \cup {Null}, s: Seats \cup {Null},
   b: BindingIds \cup {Null}, dev: DeviceRow \cup {Null},
   row: SeatRow \cup {Null}, todo: SUBSET Devices,
   value: Presence \cup MaintenanceRequest \cup {Null}]

Idle ==
  [pc |-> "idle", d |-> Null, s |-> Null, b |-> Null, dev |-> Null,
   row |-> Null, todo |-> {}, value |-> Null]

Init ==
  /\ device = [d \in Devices |-> [seat |-> Null, online |-> FALSE, fresh |-> FALSE]]
  /\ seat = [s \in Seats |->
       [device |-> Null, maintenance |-> FALSE, available |-> TRUE,
        reason |-> Null, presence |-> "PRESENT"]]
  /\ binding = [b \in BindingIds |-> Null]
  /\ opened = {}
  /\ logged = [s \in Seats |-> FALSE]
  /\ tx = [p \in Tx |-> Idle]

-----------------------------------------------------------------------------
(* Statements *)

Start(p, t) ==
  /\ tx[p] = Idle
  /\ tx' = [tx EXCEPT ![p] = t]

Continue(p, t) == tx' = [tx EXCEPT ![p] = t]

Unlocked(d) == \A q \in Tx : tx[q].pc \in Locked => tx[q].d # d

Active(b) == binding[b] # Null /\ binding[b].active

(* Defect: a seat made available keeps its last reason.                    *)
ShownKeepsReason(row, reason) ==
  [row EXCEPT !.available = (reason = Null), !.reason = IF reason = Null THEN @ ELSE reason]

(* Availability is always written together with its reason.                *)
Shown(row, reason) ==
  [row EXCEPT !.available = (reason = Null), !.reason = reason]

(* Defect: the administrator's transactions at READ COMMITTED.             *)
OvertakenByNone(q, s) == FALSE

(* A Serializable transaction whose snapshot has an older seat row.        *)
Overtaken(q, s) == tx[q].pc = "adminCommit" /\ tx[q].s = s

(* Commits p with the seat row given; what it overtakes rolls back.        *)
CommitSeat(p, s, row, rest) ==
  /\ seat' = [seat EXCEPT ![s] = row]
  /\ tx' = [q \in Tx |->
       IF q = p THEN rest ELSE IF Overtaken(q, s) THEN Idle ELSE tx[q]]

-----------------------------------------------------------------------------
(* Heartbeat *)

(* A payload that names another seat than the device's is rejected.        *)
HeartbeatBegin(p, d) ==
  /\ device[d].seat # Null
  /\ Start(p, [Idle EXCEPT !.pc = "hbWrite", !.d = d])
  /\ UNCHANGED <<device, seat, binding, opened, logged>>

(* The update returns the device row as it then is.                        *)
HeartbeatWrite(p) ==
  LET d == tx[p].d  s == device[d].seat IN
  /\ tx[p].pc = "hbWrite"
  /\ Unlocked(d)
  /\ Continue(p, [tx[p] EXCEPT !.pc = IF s = Null THEN "hbCommit" ELSE "hbSeat",
                               !.s = s])
  /\ UNCHANGED <<device, seat, binding, opened, logged>>

HeartbeatReadSeat(p) ==
  /\ tx[p].pc = "hbSeat"
  /\ Continue(p, [tx[p] EXCEPT !.pc = "hbCommit", !.row = seat[tx[p].s]])
  /\ UNCHANGED <<device, seat, binding, opened, logged>>

ReasonWhenOnline(row) ==
  IF row.maintenance THEN "ADMIN_MAINTENANCE" ELSE Null

OnlineSeat(s, read) ==
  IF ~read.maintenance /\ read.reason = "SENSOR_ERROR"
  THEN seat[s]
  ELSE Shown(seat[s], ReasonWhenOnline(read))

HeartbeatCommit(p) ==
  LET t == tx[p] IN
  /\ t.pc = "hbCommit"
  /\ device' = [device EXCEPT ![t.d].online = TRUE, ![t.d].fresh = TRUE]
  /\ IF t.s = Null
     THEN Continue(p, Idle) /\ UNCHANGED seat
     ELSE CommitSeat(p, t.s, OnlineSeat(t.s, t.row), Idle)
  /\ UNCHANGED <<binding, opened, logged>>

(* The threshold passes without a heartbeat.                               *)
HeartbeatAges(d) ==
  /\ device[d].fresh
  /\ device' = [device EXCEPT ![d].fresh = FALSE]
  /\ UNCHANGED <<seat, binding, opened, logged, tx>>

-----------------------------------------------------------------------------
(* The scan for silent devices: one query, then a transaction per device   *)

Rest(t) ==
  IF t.todo = {t.d} THEN Idle
  ELSE [Idle EXCEPT !.pc = "scan", !.todo = t.todo \ {t.d}]

ScanBegin(p) ==
  LET silent == {d \in Devices : device[d].online /\ ~device[d].fresh} IN
  /\ silent # {}
  /\ Start(p, [Idle EXCEPT !.pc = "scan", !.todo = silent])
  /\ UNCHANGED <<device, seat, binding, opened, logged>>

(* Re-checks the online status, not the heartbeat.                         *)
ScanReadDevice(p) ==
  /\ tx[p].pc = "scan"
  /\ \E d \in tx[p].todo :
       LET t == [tx[p] EXCEPT !.pc = "offWrite", !.d = d, !.s = device[d].seat] IN
       Continue(p, IF device[d].online THEN t ELSE Rest(t))
  /\ UNCHANGED <<device, seat, binding, opened, logged>>

ScanWrite(p) ==
  /\ tx[p].pc = "offWrite"
  /\ Unlocked(tx[p].d)
  /\ Continue(p, [tx[p] EXCEPT !.pc = IF tx[p].s = Null THEN "offCommit"
                                                        ELSE "offSeat"])
  /\ UNCHANGED <<device, seat, binding, opened, logged>>

ScanReadSeat(p) ==
  /\ tx[p].pc = "offSeat"
  /\ Continue(p, [tx[p] EXCEPT !.pc = "offCommit", !.row = seat[tx[p].s]])
  /\ UNCHANGED <<device, seat, binding, opened, logged>>

OfflineSeat(s, read) ==
  Shown(seat[s], IF read.maintenance THEN "ADMIN_MAINTENANCE" ELSE "DEVICE_OFFLINE")

(* Defect: the scan takes the seat down and leaves the device online.      *)
OfflineDeviceStays(d) == device[d]
OfflineDevice(d) == [device[d] EXCEPT !.online = FALSE]

ScanCommit(p) ==
  LET t == tx[p] IN
  /\ t.pc = "offCommit"
  /\ device' = [device EXCEPT ![t.d] = OfflineDevice(t.d)]
  /\ IF t.s = Null
     THEN Continue(p, Rest(t)) /\ UNCHANGED seat
     ELSE CommitSeat(p, t.s, OfflineSeat(t.s, t.row), Rest(t))
  /\ UNCHANGED <<binding, opened, logged>>

-----------------------------------------------------------------------------
(* Binding a device to a seat *)

(* The bound on bindings: every bind under way can still insert one.       *)
SpareBinding ==
  Cardinality({q \in Tx : tx[q].pc \in Binding})
    < Cardinality({b \in BindingIds : binding[b] = Null})

BindBegin(p, d, s) ==
  /\ SpareBinding
  /\ Start(p, [Idle EXCEPT !.pc = "bindSeat", !.d = d, !.s = s,
                           !.dev = device[d]])
  /\ UNCHANGED <<device, seat, binding, opened, logged>>

BindReadSeat(p) ==
  /\ tx[p].pc = "bindSeat"
  /\ Continue(p, [tx[p] EXCEPT !.pc = "bindOfDevice", !.row = seat[tx[p].s]])
  /\ UNCHANGED <<device, seat, binding, opened, logged>>

(* A device bound to another seat is a conflict.                           *)
BindReadBindingOfDevice(p) ==
  LET t == tx[p]
      own == {b \in BindingIds : Active(b) /\ binding[b].device = t.d} IN
  /\ t.pc = "bindOfDevice"
  /\ Continue(p,
       IF own = {} THEN [t EXCEPT !.pc = "bindOfSeat"]
       ELSE LET b == CHOOSE b \in own : TRUE IN
            IF binding[b].seat = t.s THEN [t EXCEPT !.pc = "bindOfSeat", !.b = b]
                                     ELSE Idle)
  /\ UNCHANGED <<device, seat, binding, opened, logged>>

(* So is a seat bound to another device.                                   *)
BindReadBindingOfSeat(p) ==
  LET t == tx[p] IN
  /\ t.pc = "bindOfSeat"
  /\ Continue(p,
       IF \E b \in BindingIds :
            Active(b) /\ binding[b].seat = t.s /\ binding[b].device # t.d
       THEN Idle
       ELSE [t EXCEPT !.pc = "bindCommit"])
  /\ UNCHANGED <<device, seat, binding, opened, logged>>

BoundReason(read, dev) ==
  CASE read.maintenance -> "ADMIN_MAINTENANCE"
    [] ~read.maintenance /\ ~dev.online -> "DEVICE_OFFLINE"
    [] OTHER -> Null

(* Defect: bindings without the partial unique indexes.                    *)
IndexAllowsAny(d, s) == TRUE

(* The partial unique indexes on active bindings.                          *)
IndexAllows(d, s) ==
  \A b \in BindingIds : Active(b) => binding[b].device # d /\ binding[b].seat # s

BindWrite(p) ==
  LET t == tx[p] IN
  /\ device' = [device EXCEPT ![t.d].seat = t.s]
  /\ CommitSeat(p, t.s,
       [Shown(seat[t.s], BoundReason(t.row, t.dev)) EXCEPT !.device = t.d], Idle)

BindCommit(p) ==
  LET t == tx[p] IN
  /\ t.pc = "bindCommit"
  /\ Unlocked(t.d)
  /\ \/ t.b # Null /\ BindWrite(p) /\ UNCHANGED binding
     \/ /\ t.b = Null /\ IndexAllows(t.d, t.s)
        /\ \E b \in BindingIds :
             /\ binding[b] = Null
             /\ binding' = [binding EXCEPT ![b] =
                  [device |-> t.d, seat |-> t.s, active |-> TRUE]]
        /\ BindWrite(p)
     \/ /\ t.b = Null /\ ~IndexAllows(t.d, t.s)
        /\ Continue(p, Idle)
        /\ UNCHANGED <<device, seat, binding>>
  /\ UNCHANGED <<opened, logged>>

-----------------------------------------------------------------------------
(* Unbinding *)

UnbindBegin(p, d) ==
  /\ \E b \in BindingIds :
       /\ Active(b) /\ binding[b].device = d
       /\ Start(p, [Idle EXCEPT !.pc = "unbindWrite", !.d = d, !.b = b,
                                !.s = binding[b].seat])
  /\ UNCHANGED <<device, seat, binding, opened, logged>>

UnbindWrite(p) ==
  /\ tx[p].pc = "unbindWrite"
  /\ Unlocked(tx[p].d)
  /\ Continue(p, [tx[p] EXCEPT !.pc = "unbindSeat"])
  /\ UNCHANGED <<device, seat, binding, opened, logged>>

UnbindReadSeat(p) ==
  /\ tx[p].pc = "unbindSeat"
  /\ Continue(p, [tx[p] EXCEPT !.pc = "unbindCommit", !.row = seat[tx[p].s]])
  /\ UNCHANGED <<device, seat, binding, opened, logged>>

(* Defect: the device keeps the seat it was bound to.                      *)
UnboundDeviceStays(d) == device[d]
UnboundDevice(d) == [device[d] EXCEPT !.seat = Null]

UnbindCommit(p) ==
  LET t == tx[p] IN
  /\ t.pc = "unbindCommit"
  /\ binding' = [binding EXCEPT ![t.b].active = FALSE]
  /\ device' = [device EXCEPT ![t.d] = UnboundDevice(t.d)]
  /\ IF t.row.device = t.d
     THEN CommitSeat(p, t.s,
            [Shown(seat[t.s], ReasonWhenOnline(t.row)) EXCEPT !.device = Null], Idle)
     ELSE Continue(p, Idle) /\ UNCHANGED seat
  /\ UNCHANGED <<opened, logged>>

-----------------------------------------------------------------------------
(* Enabling and disabling a seat, in no transaction *)

DisableSeat(p, s) ==
  /\ FALSE \in Switches
  /\ tx[p] = Idle
  /\ CommitSeat(p, s,
       [Shown(seat[s], "ADMIN_MAINTENANCE") EXCEPT !.maintenance = TRUE], Idle)
  /\ UNCHANGED <<device, binding, opened, logged>>

EnableBegin(p, s) ==
  /\ TRUE \in Switches
  /\ Start(p, [Idle EXCEPT !.pc = "enableDevice", !.s = s, !.row = seat[s]])
  /\ UNCHANGED <<device, seat, binding, opened, logged>>

EnableReadDevice(p) ==
  LET d == tx[p].row.device IN
  /\ tx[p].pc = "enableDevice"
  /\ Continue(p, [tx[p] EXCEPT !.pc = "enableCommit",
                               !.dev = IF d = Null THEN Null ELSE device[d]])
  /\ UNCHANGED <<device, seat, binding, opened, logged>>

Offline(dev) == dev # Null /\ ~dev.online

EnabledReason(dev) == IF Offline(dev) THEN "DEVICE_OFFLINE" ELSE Null

EnableCommit(p) ==
  LET t == tx[p] IN
  /\ t.pc = "enableCommit"
  /\ CommitSeat(p, t.s,
       [Shown(seat[t.s], EnabledReason(t.dev)) EXCEPT !.maintenance = FALSE], Idle)
  /\ UNCHANGED <<device, binding, opened, logged>>

-----------------------------------------------------------------------------
(* Presence reports *)

(* The first transaction reads the device; the evaluation of the window    *)
(* then yields a stable presence (PresenceWindow).                         *)
ReportBegin(p, d, value) ==
  /\ device[d].seat # Null
  /\ Start(p, [Idle EXCEPT !.pc = "reportSeat", !.d = d, !.s = device[d].seat,
                           !.dev = device[d], !.value = value])
  /\ UNCHANGED <<device, seat, binding, opened, logged>>

ReportReadSeat(p) ==
  /\ tx[p].pc = "reportSeat"
  /\ Continue(p, [tx[p] EXCEPT !.pc = "reportCommit", !.row = seat[tx[p].s]])
  /\ UNCHANGED <<device, seat, binding, opened, logged>>

(* Defect: recovery of the sensor shows the seat whatever its device does. *)
ReportedSeatBlind(s, read, dev, value) ==
  CASE ~read.maintenance /\ value = "ERROR" -> Shown(seat[s], "SENSOR_ERROR")
    [] ~read.maintenance /\ value = "PRESENT" -> Shown(seat[s], Null)
    [] OTHER -> seat[s]

ReportedSeat(s, read, dev, value) ==
  CASE ~read.maintenance /\ value = "ERROR" -> Shown(seat[s], "SENSOR_ERROR")
    [] ~read.maintenance /\ value = "PRESENT" /\ read.reason = "SENSOR_ERROR"
         /\ dev.online -> Shown(seat[s], Null)
    [] OTHER -> seat[s]

ReportCommit(p) ==
  LET t == tx[p] IN
  /\ t.pc = "reportCommit"
  /\ CommitSeat(p, t.s,
       [ReportedSeat(t.s, t.row, t.dev, t.value) EXCEPT !.presence = t.value], Idle)
  /\ UNCHANGED <<device, binding, opened, logged>>

-----------------------------------------------------------------------------
(* The administrator's Serializable transactions *)

AdminBegin(p, s, value) ==
  /\ Start(p, [Idle EXCEPT !.pc = "adminRead", !.s = s, !.value = value])
  /\ UNCHANGED <<device, seat, binding, opened, logged>>

(* Maintenance of a device is maintenance of the seat read beforehand.     *)
DeviceMaintenanceBegin(p, d, value) ==
  /\ device[d].seat # Null
  /\ AdminBegin(p, device[d].seat, value)

AdminRead(p) ==
  LET row == seat[tx[p].s] IN
  /\ tx[p].pc = "adminRead"
  /\ Continue(p, [tx[p] EXCEPT !.pc = "adminCommit", !.row = row,
       !.dev = IF row.device = Null THEN Null ELSE device[row.device]])
  /\ UNCHANGED <<device, seat, binding, opened, logged>>

RestoredReason(row, dev, maintenance) ==
  CASE maintenance -> "ADMIN_MAINTENANCE"
    [] ~maintenance /\ Offline(dev) -> "DEVICE_OFFLINE"
    [] ~maintenance /\ ~Offline(dev) /\ row.reason = "SENSOR_ERROR" -> "SENSOR_ERROR"
    [] OTHER -> Null

(* ENTER and EXIT maintenance; RELEASE frees the seat and keeps the flag.  *)
(* A release that does not restore availability is an ENTER here.          *)
MaintenanceAfter(t) ==
  t.value = "ENTER" \/ (t.value = "RELEASE" /\ t.row.maintenance)

RecordsAfter(t) ==
  CASE t.value = "ENTER" -> opened \cup {t.s}
    [] t.value = "EXIT" -> opened \ {t.s}
    [] OTHER -> opened

AdminCommit(p) ==
  LET t == tx[p]  maintenance == MaintenanceAfter(t) IN
  /\ t.pc = "adminCommit"
  /\ CommitSeat(p, t.s,
       [Shown(seat[t.s], RestoredReason(t.row, t.dev, maintenance))
          EXCEPT !.maintenance = maintenance], Idle)
  /\ opened' = RecordsAfter(t)
  /\ logged' = IF t.value = "RELEASE" THEN logged
               ELSE [logged EXCEPT ![t.s] = maintenance]
  /\ UNCHANGED <<device, binding>>

-----------------------------------------------------------------------------

Scan(p) ==
  ScanReadDevice(p) \/ ScanWrite(p) \/ ScanReadSeat(p) \/ ScanCommit(p)

(* What a transaction under way does next.                                 *)
Step(p) ==
  \/ HeartbeatWrite(p) \/ HeartbeatReadSeat(p) \/ HeartbeatCommit(p)
  \/ Scan(p)
  \/ BindReadSeat(p) \/ BindReadBindingOfDevice(p)
  \/ BindReadBindingOfSeat(p) \/ BindCommit(p)
  \/ UnbindWrite(p) \/ UnbindReadSeat(p) \/ UnbindCommit(p)
  \/ EnableReadDevice(p) \/ EnableCommit(p)
  \/ ReportReadSeat(p) \/ ReportCommit(p)
  \/ AdminRead(p) \/ AdminCommit(p)

BindingBegin(p) ==
  \/ \E d \in Devices : HeartbeatBegin(p, d) \/ UnbindBegin(p, d)
  \/ \E d \in Devices, s \in Seats : BindBegin(p, d, s)

MaintenanceBegin(p) ==
  \/ \E s \in Seats, value \in Maintenance : AdminBegin(p, s, value)
  \/ \E d \in Devices, value \in Maintenance \ {"RELEASE"} :
       DeviceMaintenanceBegin(p, d, value)

(* All but the switches of setSeatEnabled, which keep no records.          *)
RecordedBegin(p) ==
  \/ BindingBegin(p) \/ MaintenanceBegin(p)
  \/ \E d \in Devices, value \in Reports : ReportBegin(p, d, value)

Begin(p) ==
  \/ RecordedBegin(p)
  \/ \E s \in Seats : DisableSeat(p, s) \/ EnableBegin(p, s)

Next ==
  \/ \E p \in Tx : Step(p)
  \/ \E p \in Requests : Begin(p)
  \/ \E p \in Scans : ScanBegin(p)
  \/ \E d \in Devices : HeartbeatAges(d)

Spec == Init /\ [][Next]_vars

(* Two restrictions under which more is kept: requests, messages and scans *)
(* come one at a time,                                                     *)
OthersIdle(p) == \A q \in Tx \ {p} : tx[q] = Idle

AloneNext ==
  \/ \E p \in Tx : OthersIdle(p) /\ Step(p)
  \/ \E p \in Requests : OthersIdle(p) /\ Begin(p)
  \/ \E p \in Scans : OthersIdle(p) /\ ScanBegin(p)
  \/ \E d \in Devices : HeartbeatAges(d)

(* or no seat is switched.                                                 *)
RecordedNext ==
  \/ \E p \in Tx : Step(p)
  \/ \E p \in Requests : RecordedBegin(p)
  \/ \E p \in Scans : ScanBegin(p)
  \/ \E d \in Devices : HeartbeatAges(d)

(* The database finishes what it has begun; setInterval starts scans.      *)
FairSpec ==
  /\ Spec
  /\ \A p \in Tx : WF_vars(Step(p))
  /\ \A p \in Scans : WF_vars(ScanBegin(p))

-----------------------------------------------------------------------------
(* Properties *)

(* Types; a seat is unavailable exactly when it has a reason.              *)
TypeOK ==
  /\ device \in [Devices -> DeviceRow]
  /\ seat \in [Seats -> SeatRow]
  /\ \A s \in Seats : seat[s].available <=> seat[s].reason = Null
  /\ binding \in [BindingIds -> BindingRow \cup {Null}]
  /\ opened \subseteq Seats
  /\ logged \in [Seats -> BOOLEAN]
  /\ tx \in [Tx -> TxRow]

(* However bindings and unbindings interleave, a device has one active     *)
(* binding at most, and so has a seat.                                     *)
ActiveBindingsUnique ==
  \A b, c \in BindingIds :
     b # c /\ Active(b) /\ Active(c) =>
       /\ binding[b].device # binding[c].device
       /\ binding[b].seat # binding[c].seat

(* devices.seat_id, seats.device_id and the active binding say the same.   *)
BindingsAgree ==
  \A d \in Devices, s \in Seats :
     LET bound == \E b \in BindingIds :
                    Active(b) /\ binding[b].device = d /\ binding[b].seat = s IN
     (device[d].seat = s <=> bound) /\ (seat[s].device = d <=> bound)

(* A seat takes no bookings while its device is offline or it is under     *)
(* maintenance, whatever the sequence of heartbeats, scans, bindings,      *)
(* presence reports, switches, maintenance and releases that wrote its     *)
(* availability.                                                           *)
OutOfServiceUnavailable ==
  \A s \in Seats :
     \/ seat[s].maintenance
     \/ seat[s].device # Null /\ ~device[seat[s].device].online
     => ~seat[s].available

(* A maintenance record is open exactly while a seat is under maintenance, *)
(* also when maintenance and releases of the seat overtake each other      *)
(* (no seat being switched by setSeatEnabled, which keeps no records).     *)
RecordTellsMaintenance == \A s \in Seats : seat[s].maintenance = (s \in opened)

(* No silent device stays online: it goes offline unless it beats again.   *)
SilentFound == \A d \in Devices : []<>(~device[d].online \/ device[d].fresh)

-----------------------------------------------------------------------------
(* What the code does not keep: in no run, TLC finds each of them violated *)

(* A seat whose sensor is in stable error takes no bookings (enabling the  *)
(* seat, and the device's way offline and back, overwrite the reason).     *)
ErrorUnavailable ==
  \A s \in Seats :
     seat[s].device # Null /\ seat[s].presence = "ERROR" => ~seat[s].available

(* A device heard of within the threshold is not marked offline (the scan  *)
(* re-checks the online status, not the heartbeat).                        *)
FreshIsOnline == \A d \in Devices : device[d].fresh => device[d].online

(* The action log tells whether a seat is under maintenance (disabling a   *)
(* seat writes no entry).                                                  *)
LogTellsMaintenance == \A s \in Seats : seat[s].maintenance = logged[s]
=============================================================================
