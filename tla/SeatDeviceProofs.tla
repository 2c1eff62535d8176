-------------------------- MODULE SeatDeviceProofs --------------------------
(***************************************************************************)
(* Theorems about SeatDevice, for every number of devices, seats, bindings *)
(* and transactions under way: the types; that active bindings are unique; *)
(* that maintenance records tell which seats are under maintenance; and,   *)
(* while requests come one at a time, that the records of a binding agree  *)
(* and seats out of service take no bookings.                              *)
(***************************************************************************)
EXTENDS SeatDevice, TLAPS

OfDevice ==
  Locked \cup Binding \cup {"hbWrite", "offWrite", "unbindWrite", "reportSeat", "reportCommit"}
OfSeat ==
  Binding \cup {"hbSeat", "offSeat", "unbindWrite", "unbindSeat", "unbindCommit",
    "enableDevice", "enableCommit", "reportSeat", "reportCommit", "adminRead", "adminCommit"}
Unbinding == {"unbindWrite", "unbindSeat", "unbindCommit"}
Reporting == {"reportSeat", "reportCommit"}

(* A transaction knows the rows its next statements are about.             *)
TxOK(t, bindings) ==
  /\ t \in TxRow
  /\ t.pc \in OfDevice => t.d \in Devices
  /\ t.pc \in OfSeat => t.s \in Seats
  /\ t.pc \in Unbinding => t.b \in BindingIds /\ bindings[t.b] \in BindingRow
  /\ t.pc \in Reporting => t.value \in Presence
  /\ t.pc \in {"adminCommit", "enableDevice"} => t.row \in SeatRow

SeatOK(row) == row \in SeatRow /\ (row.available <=> row.reason = Null)

Rows ==
  /\ device \in [Devices -> DeviceRow]
  /\ opened \subseteq Seats
  /\ logged \in [Seats -> BOOLEAN]

SeatsOK ==
  /\ seat \in [Seats -> SeatRow]
  /\ \A s \in Seats : SeatOK(seat[s])

BindingsOK ==
  /\ binding \in [BindingIds -> BindingRow \cup {Null}]
  /\ ActiveBindingsUnique

TxsOK ==
  /\ tx \in [Tx -> TxRow]
  /\ \A p \in Tx : TxOK(tx[p], binding)

IInv == Rows /\ SeatsOK /\ BindingsOK /\ TxsOK

(* No binding is deleted.                                                  *)
Kept(old, new) ==
  \A b \in BindingIds : old[b] \in BindingRow => new[b] \in BindingRow

-----------------------------------------------------------------------------
(* Transactions *)

LEMMA IdleOK == \A bindings : TxOK(Idle, bindings)
BY DEF Idle, TxOK, TxRow, Pc, OfDevice, OfSeat, Locked, Binding, Unbinding, Reporting

LEMMA TxType ==
  ASSUME IInv, NEW p \in Tx
  PROVE  tx[p] \in TxRow /\ TxOK(tx[p], binding)
BY DEF IInv, TxsOK

LEMMA KeptSame == \A old : Kept(old, old)
BY DEF Kept

(* One transaction goes on.                                                *)
LEMMA TxGoesOn ==
  ASSUME IInv, NEW p \in Tx, NEW row, TxOK(row, binding'),
         tx' = [tx EXCEPT ![p] = row], Kept(binding, binding')
  PROVE  TxsOK'
<1>1. row \in TxRow
  BY DEF TxOK
<1>2. tx' \in [Tx -> TxRow]
  BY <1>1 DEF IInv, TxsOK
<1>3. \A q \in Tx \ {p} : TxOK(tx'[q], binding')
  BY DEF IInv, TxsOK, TxOK, Kept
<1>4. TxOK(tx'[p], binding')
  BY DEF IInv, TxsOK
<1> QED BY <1>2, <1>3, <1>4 DEF TxsOK

(* One commits a seat row; others may roll back.                           *)
LEMMA SeatCommits ==
  ASSUME IInv, NEW p \in Tx, NEW s \in Seats, NEW row, NEW rest, SeatOK(row),
         TxOK(rest, binding'), Kept(binding, binding'), CommitSeat(p, s, row, rest)
  PROVE  SeatsOK' /\ TxsOK'
<1>1. seat' \in [Seats -> SeatRow] /\ \A q \in Seats : SeatOK(seat'[q])
  BY DEF CommitSeat, IInv, SeatsOK, SeatOK
<1>2. \A q \in Tx : tx'[q] = rest \/ tx'[q] = Idle \/ tx'[q] = tx[q]
  BY DEF CommitSeat
<1>3. \A q \in Tx : TxOK(tx[q], binding')
  BY DEF IInv, TxsOK, TxOK, Kept
<1>4. \A q \in Tx : TxOK(tx'[q], binding')
  BY <1>2, <1>3, IdleOK
<1>5. tx' \in [Tx -> TxRow]
  <2>1. \A q \in Tx : tx'[q] \in TxRow
    BY <1>4 DEF TxOK
  <2> QED BY <2>1 DEF CommitSeat
<1> QED BY <1>1, <1>4, <1>5 DEF SeatsOK, TxsOK

(* A step that reads: only the transaction goes on.                        *)
LEMMA Reads ==
  ASSUME IInv, NEW p \in Tx, NEW row, TxOK(row, binding),
         tx' = [tx EXCEPT ![p] = row],
         UNCHANGED <<device, seat, binding, opened, logged>>
  PROVE  IInv'
<1>1. TxsOK'
  BY TxGoesOn, KeptSame
<1>2. Rows' /\ SeatsOK'
  BY DEF IInv, Rows, SeatsOK
<1>3. BindingsOK'
  BY DEF IInv, BindingsOK, ActiveBindingsUnique, Active
<1> QED BY <1>1, <1>2, <1>3 DEF IInv

(* What is shown of a seat has a reason or is available.                   *)
LEMMA ShownOK ==
  ASSUME NEW row \in SeatRow, NEW reason \in Reason \cup {Null}
  PROVE  SeatOK(Shown(row, reason))
<1> DEFINE new == [row EXCEPT !.available = (reason = Null), !.reason = reason]
<1>1. (reason = Null) \in BOOLEAN
  OBVIOUS
<1>2. new \in SeatRow
  BY <1>1 DEF SeatRow
<1>3. new.available <=> new.reason = Null
  BY DEF SeatRow
<1> QED BY <1>2, <1>3 DEF SeatOK, Shown

LEMMA SeatType ==
  ASSUME IInv, NEW s \in Seats PROVE seat[s] \in SeatRow /\ SeatOK(seat[s])
BY DEF IInv, SeatsOK

LEMMA DeviceType ==
  ASSUME IInv, NEW d \in Devices
  PROVE  device[d] \in DeviceRow /\ device[d].seat \in Seats \cup {Null}
BY DEF IInv, Rows, DeviceRow

(* Bindings that are not changed.                                          *)
LEMMA SameBindings ==
  ASSUME IInv, binding' = binding PROVE BindingsOK' /\ Kept(binding, binding')
BY KeptSame DEF IInv, BindingsOK, ActiveBindingsUnique, Active

-----------------------------------------------------------------------------
(* The steps that begin or read *)

LEMMA HeartbeatBeginKeeps ==
  ASSUME IInv, NEW p \in Tx, NEW d \in Devices, HeartbeatBegin(p, d)
  PROVE  IInv'
<1> DEFINE row == [Idle EXCEPT !.pc = "hbWrite", !.d = d]
<1>1. tx' = [tx EXCEPT ![p] = row] /\ UNCHANGED <<device, seat, binding, opened, logged>>
  BY DEF HeartbeatBegin, Start, Continue
<1>2. TxOK(row, binding)
  BY IdleOK DEF HeartbeatBegin, Idle, TxOK, TxRow, Pc, OfDevice, OfSeat, Locked, Binding, Unbinding, Reporting
<1> HIDE DEF row
<1> QED BY <1>1, <1>2, Reads

LEMMA HeartbeatReadSeatKeeps ==
  ASSUME IInv, NEW p \in Tx, HeartbeatReadSeat(p)
  PROVE  IInv'
<1> DEFINE row == [tx[p] EXCEPT !.pc = "hbCommit", !.row = seat[tx[p].s]]
<1>1. tx' = [tx EXCEPT ![p] = row] /\ UNCHANGED <<device, seat, binding, opened, logged>>
  BY DEF HeartbeatReadSeat, Start, Continue
<1>2. TxOK(row, binding)
  BY TxType, SeatType, IdleOK DEF HeartbeatReadSeat, Idle, TxOK, TxRow, Pc, OfDevice, OfSeat, Locked, Binding, Unbinding, Reporting
<1> HIDE DEF row
<1> QED BY <1>1, <1>2, Reads

LEMMA BindBeginKeeps ==
  ASSUME IInv, NEW p \in Tx, NEW d \in Devices, NEW s \in Seats, BindBegin(p, d, s)
  PROVE  IInv'
<1> DEFINE row == [Idle EXCEPT !.pc = "bindSeat", !.d = d, !.s = s, !.dev = device[d]]
<1>1. tx' = [tx EXCEPT ![p] = row] /\ UNCHANGED <<device, seat, binding, opened, logged>>
  BY DEF BindBegin, Start, Continue
<1>2. TxOK(row, binding)
  BY DeviceType, IdleOK DEF BindBegin, Idle, TxOK, TxRow, Pc, OfDevice, OfSeat, Locked, Binding, Unbinding, Reporting
<1> HIDE DEF row
<1> QED BY <1>1, <1>2, Reads

LEMMA BindReadSeatKeeps ==
  ASSUME IInv, NEW p \in Tx, BindReadSeat(p)
  PROVE  IInv'
<1> DEFINE row == [tx[p] EXCEPT !.pc = "bindOfDevice", !.row = seat[tx[p].s]]
<1>1. tx' = [tx EXCEPT ![p] = row] /\ UNCHANGED <<device, seat, binding, opened, logged>>
  BY DEF BindReadSeat, Start, Continue
<1>2. tx[p] \in TxRow /\ tx[p].d \in Devices /\ tx[p].s \in Seats
  BY TxType DEF BindReadSeat, TxOK, OfDevice, OfSeat, Binding
<1>3. seat[tx[p].s] \in SeatRow
  BY <1>2, SeatType
<1>4. row \in TxRow /\ row.pc = "bindOfDevice" /\ row.d \in Devices /\ row.s \in Seats
  BY <1>2, <1>3 DEF TxRow, Pc, Locked, Binding
<1> HIDE DEF row
<1>5. TxOK(row, binding)
  BY <1>4 DEF TxOK, OfDevice, OfSeat, Locked, Binding, Unbinding, Reporting
<1> QED BY <1>1, <1>5, Reads

LEMMA EnableBeginKeeps ==
  ASSUME IInv, NEW p \in Tx, NEW s \in Seats, EnableBegin(p, s)
  PROVE  IInv'
<1> DEFINE row == [Idle EXCEPT !.pc = "enableDevice", !.s = s, !.row = seat[s]]
<1>1. tx' = [tx EXCEPT ![p] = row] /\ UNCHANGED <<device, seat, binding, opened, logged>>
  BY DEF EnableBegin, Start, Continue
<1>2. TxOK(row, binding)
  BY SeatType, IdleOK DEF EnableBegin, Idle, TxOK, TxRow, Pc, OfDevice, OfSeat, Locked, Binding, Unbinding, Reporting
<1> HIDE DEF row
<1> QED BY <1>1, <1>2, Reads

LEMMA ReportReadSeatKeeps ==
  ASSUME IInv, NEW p \in Tx, ReportReadSeat(p)
  PROVE  IInv'
<1> DEFINE row == [tx[p] EXCEPT !.pc = "reportCommit", !.row = seat[tx[p].s]]
<1>1. tx' = [tx EXCEPT ![p] = row] /\ UNCHANGED <<device, seat, binding, opened, logged>>
  BY DEF ReportReadSeat, Start, Continue
<1>2. TxOK(row, binding)
  BY TxType, SeatType, IdleOK DEF ReportReadSeat, Idle, TxOK, TxRow, Pc, OfDevice, OfSeat, Locked, Binding, Unbinding, Reporting
<1> HIDE DEF row
<1> QED BY <1>1, <1>2, Reads

LEMMA ScanReadSeatKeeps ==
  ASSUME IInv, NEW p \in Tx, ScanReadSeat(p)
  PROVE  IInv'
<1> DEFINE row == [tx[p] EXCEPT !.pc = "offCommit", !.row = seat[tx[p].s]]
<1>1. tx' = [tx EXCEPT ![p] = row] /\ UNCHANGED <<device, seat, binding, opened, logged>>
  BY DEF ScanReadSeat, Start, Continue
<1>2. TxOK(row, binding)
  BY TxType, SeatType, IdleOK DEF ScanReadSeat, Idle, TxOK, TxRow, Pc, OfDevice, OfSeat, Locked, Binding, Unbinding, Reporting
<1> HIDE DEF row
<1> QED BY <1>1, <1>2, Reads

LEMMA UnbindWriteKeeps ==
  ASSUME IInv, NEW p \in Tx, UnbindWrite(p)
  PROVE  IInv'
<1> DEFINE row == [tx[p] EXCEPT !.pc = "unbindSeat"]
<1>1. tx' = [tx EXCEPT ![p] = row] /\ UNCHANGED <<device, seat, binding, opened, logged>>
  BY DEF UnbindWrite, Start, Continue
<1>2. TxOK(row, binding)
  BY TxType, IdleOK DEF UnbindWrite, Idle, TxOK, TxRow, Pc, OfDevice, OfSeat, Locked, Binding, Unbinding, Reporting
<1> HIDE DEF row
<1> QED BY <1>1, <1>2, Reads

LEMMA UnbindReadSeatKeeps ==
  ASSUME IInv, NEW p \in Tx, UnbindReadSeat(p)
  PROVE  IInv'
<1> DEFINE row == [tx[p] EXCEPT !.pc = "unbindCommit", !.row = seat[tx[p].s]]
<1>1. tx' = [tx EXCEPT ![p] = row] /\ UNCHANGED <<device, seat, binding, opened, logged>>
  BY DEF UnbindReadSeat, Start, Continue
<1>2. TxOK(row, binding)
  BY TxType, SeatType, IdleOK DEF UnbindReadSeat, Idle, TxOK, TxRow, Pc, OfDevice, OfSeat, Locked, Binding, Unbinding, Reporting
<1> HIDE DEF row
<1> QED BY <1>1, <1>2, Reads

LEMMA AdminBeginKeeps ==
  ASSUME IInv, NEW p \in Tx, NEW s \in Seats, NEW value \in Maintenance, AdminBegin(p, s, value)
  PROVE  IInv'
<1> DEFINE row == [Idle EXCEPT !.pc = "adminRead", !.s = s, !.value = value]
<1>1. tx' = [tx EXCEPT ![p] = row] /\ UNCHANGED <<device, seat, binding, opened, logged>>
  BY DEF AdminBegin, Start, Continue
<1>2. TxOK(row, binding)
  BY InputAssumption, IdleOK DEF AdminBegin, Idle, TxOK, TxRow, Pc, OfDevice, OfSeat, Locked, Binding, Unbinding, Reporting
<1> HIDE DEF row
<1> QED BY <1>1, <1>2, Reads

LEMMA ReportBeginKeeps ==
  ASSUME IInv, NEW p \in Tx, NEW d \in Devices, NEW value \in Reports, ReportBegin(p, d, value)
  PROVE  IInv'
<1> DEFINE row == [Idle EXCEPT !.pc = "reportSeat", !.d = d, !.s = device[d].seat, !.dev = device[d], !.value = value]
<1>1. tx' = [tx EXCEPT ![p] = row] /\ UNCHANGED <<device, seat, binding, opened, logged>>
  BY DEF ReportBegin, Start, Continue
<1>2. TxOK(row, binding)
  BY InputAssumption, DeviceType, IdleOK DEF ReportBegin, Idle, TxOK, TxRow, Pc, OfDevice, OfSeat, Locked, Binding, Unbinding, Reporting
<1> HIDE DEF row
<1> QED BY <1>1, <1>2, Reads

LEMMA HeartbeatWriteKeeps ==
  ASSUME IInv, NEW p \in Tx, HeartbeatWrite(p)
  PROVE  IInv'
<1> DEFINE s == device[tx[p].d].seat
           pc == IF s = Null THEN "hbCommit" ELSE "hbSeat"
           row == [tx[p] EXCEPT !.pc = pc, !.s = s]
<1>1. tx' = [tx EXCEPT ![p] = row] /\ UNCHANGED <<device, seat, binding, opened, logged>>
  BY DEF HeartbeatWrite, Continue
<1>2. tx[p] \in TxRow /\ tx[p].d \in Devices
  BY TxType DEF HeartbeatWrite, TxOK, OfDevice
<1>3. s \in Seats \cup {Null}
  BY <1>2, DeviceType
<1> HIDE DEF s
<1>4. pc \in {"hbCommit", "hbSeat"} /\ (pc = "hbSeat" => s \in Seats)
  BY <1>3
<1> HIDE DEF pc
<1>5. row \in TxRow /\ row.d \in Devices /\ row.s = s /\ row.pc = pc
  <2>1. pc \in Pc
    BY <1>4 DEF Pc, Locked
  <2> QED BY <1>2, <1>3, <2>1 DEF TxRow
<1> HIDE DEF row
<1>6. TxOK(row, binding)
  BY <1>4, <1>5 DEF TxOK, OfDevice, OfSeat, Locked, Binding, Unbinding, Reporting
<1> QED BY <1>1, <1>6, Reads

(* A scan goes on with its next device.                                    *)
LEMMA RestOK ==
  ASSUME NEW t \in TxRow PROVE \A bindings : TxOK(Rest(t), bindings)
<1>1. CASE t.todo = {t.d}
  BY <1>1, IdleOK DEF Rest
<1>2. CASE t.todo # {t.d}
  <2>1. t.todo \ {t.d} \in SUBSET Devices
    BY DEF TxRow
  <2>2. Rest(t) = [Idle EXCEPT !.pc = "scan", !.todo = t.todo \ {t.d}]
    BY <1>2 DEF Rest
  <2> QED BY <2>1, <2>2 DEF Idle, TxOK, TxRow, Pc, OfDevice, OfSeat, Locked, Binding, Unbinding, Reporting
<1> QED BY <1>1, <1>2

LEMMA ScanBeginKeeps ==
  ASSUME IInv, NEW p \in Tx, ScanBegin(p)
  PROVE  IInv'
<1> DEFINE silent == {d \in Devices : device[d].online /\ ~device[d].fresh}
           row == [Idle EXCEPT !.pc = "scan", !.todo = silent]
<1>1. tx' = [tx EXCEPT ![p] = row] /\ UNCHANGED <<device, seat, binding, opened, logged>>
  BY DEF ScanBegin, Start
<1>2. silent \in SUBSET Devices
  OBVIOUS
<1> HIDE DEF silent
<1>3. TxOK(row, binding)
  BY <1>2 DEF Idle, TxOK, TxRow, Pc, OfDevice, OfSeat, Locked, Binding, Unbinding, Reporting
<1> HIDE DEF row
<1> QED BY <1>1, <1>3, Reads

LEMMA ScanReadDeviceKeeps ==
  ASSUME IInv, NEW p \in Tx, ScanReadDevice(p)
  PROVE  IInv'
<1>1. PICK d \in tx[p].todo :
        LET t == [tx[p] EXCEPT !.pc = "offWrite", !.d = d, !.s = device[d].seat] IN
        tx' = [tx EXCEPT ![p] = IF device[d].online THEN t ELSE Rest(t)]
  BY DEF ScanReadDevice, Continue
<1> DEFINE t == [tx[p] EXCEPT !.pc = "offWrite", !.d = d, !.s = device[d].seat]
           row == IF device[d].online THEN t ELSE Rest(t)
<1>2. d \in Devices
  BY TxType DEF TxRow
<1>3. t \in TxRow /\ t.d = d /\ t.pc = "offWrite"
  BY <1>2, TxType, DeviceType DEF TxRow, Pc, Locked
<1>4. tx' = [tx EXCEPT ![p] = row] /\ UNCHANGED <<device, seat, binding, opened, logged>>
  BY <1>1 DEF ScanReadDevice
<1> HIDE DEF t
<1>5. TxOK(t, binding)
  BY <1>2, <1>3 DEF TxOK, OfDevice, OfSeat, Locked, Binding, Unbinding, Reporting
<1>6. TxOK(row, binding)
  BY <1>3, <1>5, RestOK
<1> HIDE DEF row
<1> QED BY <1>4, <1>6, Reads

LEMMA ScanWriteKeeps ==
  ASSUME IInv, NEW p \in Tx, ScanWrite(p)
  PROVE  IInv'
<1> DEFINE row == [tx[p] EXCEPT !.pc = IF tx[p].s = Null THEN "offCommit" ELSE "offSeat"]
<1>1. tx' = [tx EXCEPT ![p] = row] /\ UNCHANGED <<device, seat, binding, opened, logged>>
  BY DEF ScanWrite, Continue
<1>2. tx[p] \in TxRow /\ tx[p].d \in Devices /\ tx[p].s \in Seats \cup {Null}
  BY TxType DEF ScanWrite, TxOK, TxRow, OfDevice
<1>3. TxOK(row, binding)
  BY <1>2 DEF TxOK, TxRow, Pc, OfDevice, OfSeat, Locked, Binding, Unbinding, Reporting
<1> HIDE DEF row
<1> QED BY <1>1, <1>3, Reads

(* A query for a binding decides whether the transaction goes on.          *)
LEMMA BindReadBindingOfDeviceKeeps ==
  ASSUME IInv, NEW p \in Tx, BindReadBindingOfDevice(p)
  PROVE  IInv'
<1> DEFINE t == tx[p]
           own == {b \in BindingIds : Active(b) /\ binding[b].device = t.d}
           b == CHOOSE b \in own : TRUE
           row == IF own = {} THEN [t EXCEPT !.pc = "bindOfSeat"]
                  ELSE IF binding[b].seat = t.s
                       THEN [t EXCEPT !.pc = "bindOfSeat", !.b = b] ELSE Idle
<1>1. tx' = [tx EXCEPT ![p] = row] /\ UNCHANGED <<device, seat, binding, opened, logged>>
  BY DEF BindReadBindingOfDevice, Continue
<1>2. t \in TxRow /\ t.d \in Devices /\ t.s \in Seats
  BY TxType DEF BindReadBindingOfDevice, TxOK, OfDevice, OfSeat, Binding
<1>3. own # {} => b \in BindingIds
  OBVIOUS
<1> HIDE DEF t, own, b
<1>4. TxOK([t EXCEPT !.pc = "bindOfSeat"], binding)
  BY <1>2 DEF TxOK, TxRow, Pc, OfDevice, OfSeat, Locked, Binding, Unbinding, Reporting
<1>5. own # {} => TxOK([t EXCEPT !.pc = "bindOfSeat", !.b = b], binding)
  BY <1>2, <1>3 DEF TxOK, TxRow, Pc, OfDevice, OfSeat, Locked, Binding, Unbinding, Reporting
<1>6. TxOK(row, binding)
  BY <1>4, <1>5, IdleOK
<1> HIDE DEF row
<1> QED BY <1>1, <1>6, Reads

LEMMA BindReadBindingOfSeatKeeps ==
  ASSUME IInv, NEW p \in Tx, BindReadBindingOfSeat(p)
  PROVE  IInv'
<1> DEFINE found == \E b \in BindingIds :
             Active(b) /\ binding[b].seat = tx[p].s /\ binding[b].device # tx[p].d
           next == [tx[p] EXCEPT !.pc = "bindCommit"]
           row == IF found THEN Idle ELSE next
<1>1. tx' = [tx EXCEPT ![p] = row] /\ UNCHANGED <<device, seat, binding, opened, logged>>
  BY DEF BindReadBindingOfSeat, Continue
<1>2. tx[p] \in TxRow /\ tx[p].d \in Devices /\ tx[p].s \in Seats
  BY TxType DEF BindReadBindingOfSeat, TxOK, OfDevice, OfSeat, Binding
<1>3. TxOK(next, binding)
  BY <1>2 DEF TxOK, TxRow, Pc, OfDevice, OfSeat, Locked, Binding, Unbinding, Reporting
<1> HIDE DEF found, next
<1>4. TxOK(row, binding)
  BY <1>3, IdleOK
<1> HIDE DEF row
<1> QED BY <1>1, <1>4, Reads

LEMMA UnbindBeginKeeps ==
  ASSUME IInv, NEW p \in Tx, NEW d \in Devices, UnbindBegin(p, d)
  PROVE  IInv'
<1>1. PICK b \in BindingIds :
        /\ Active(b) /\ binding[b].device = d
        /\ tx' = [tx EXCEPT ![p] =
             [Idle EXCEPT !.pc = "unbindWrite", !.d = d, !.b = b, !.s = binding[b].seat]]
  BY DEF UnbindBegin, Start
<1> DEFINE row == [Idle EXCEPT !.pc = "unbindWrite", !.d = d, !.b = b, !.s = binding[b].seat]
<1>2. binding[b] \in BindingRow /\ binding[b].seat \in Seats
  BY <1>1 DEF IInv, BindingsOK, Active, BindingRow
<1>3. TxOK(row, binding)
  BY <1>2 DEF Idle, TxOK, TxRow, Pc, OfDevice, OfSeat, Locked, Binding, Unbinding, Reporting
<1>4. tx' = [tx EXCEPT ![p] = row] /\ UNCHANGED <<device, seat, binding, opened, logged>>
  BY <1>1 DEF UnbindBegin
<1> HIDE DEF row
<1> QED BY <1>3, <1>4, Reads

(* Reads the device, where the seat has one.                               *)
LEMMA ReadDeviceOfSeat ==
  ASSUME IInv, NEW row \in SeatRow
  PROVE  (IF row.device = Null THEN Null ELSE device[row.device]) \in DeviceRow \cup {Null}
BY DeviceType DEF SeatRow

LEMMA EnableReadDeviceKeeps ==
  ASSUME IInv, NEW p \in Tx, EnableReadDevice(p)
  PROVE  IInv'
<1> DEFINE d == tx[p].row.device
           dev == IF d = Null THEN Null ELSE device[d]
           row == [tx[p] EXCEPT !.pc = "enableCommit", !.dev = dev]
<1>1. tx' = [tx EXCEPT ![p] = row] /\ UNCHANGED <<device, seat, binding, opened, logged>>
  BY DEF EnableReadDevice, Continue
<1>2. tx[p] \in TxRow /\ tx[p].s \in Seats /\ tx[p].row \in SeatRow
  BY TxType DEF EnableReadDevice, TxOK, OfSeat
<1>3. dev \in DeviceRow \cup {Null}
  BY <1>2, ReadDeviceOfSeat
<1> HIDE DEF dev
<1>4. row \in TxRow /\ row.pc = "enableCommit" /\ row.s \in Seats
  BY <1>2, <1>3 DEF TxRow, Pc, Locked, Binding
<1> HIDE DEF row
<1>5. TxOK(row, binding)
  BY <1>4 DEF TxOK, OfDevice, OfSeat, Locked, Binding, Unbinding, Reporting
<1> QED BY <1>1, <1>5, Reads

LEMMA AdminReadKeeps ==
  ASSUME IInv, NEW p \in Tx, AdminRead(p)
  PROVE  IInv'
<1> DEFINE read == seat[tx[p].s]
           dev == IF read.device = Null THEN Null ELSE device[read.device]
           row == [tx[p] EXCEPT !.pc = "adminCommit", !.row = read, !.dev = dev]
<1>1. tx' = [tx EXCEPT ![p] = row] /\ UNCHANGED <<device, seat, binding, opened, logged>>
  BY DEF AdminRead, Continue
<1>2. tx[p] \in TxRow /\ tx[p].s \in Seats
  BY TxType DEF AdminRead, TxOK, OfSeat
<1>3. read \in SeatRow
  BY <1>2, SeatType
<1>4. dev \in DeviceRow \cup {Null}
  BY <1>3, ReadDeviceOfSeat
<1> HIDE DEF dev, read
<1>5. /\ row \in TxRow /\ row.pc = "adminCommit"
      /\ row.s \in Seats /\ row.row \in SeatRow
  BY <1>2, <1>3, <1>4 DEF TxRow, Pc, Locked, Binding
<1> HIDE DEF row
<1>6. TxOK(row, binding)
  BY <1>5 DEF TxOK, OfDevice, OfSeat, Locked, Binding, Unbinding, Reporting
<1> QED BY <1>1, <1>6, Reads

-----------------------------------------------------------------------------
(* The steps that write *)

(* A step after which rows, seats, bindings and transactions are in order. *)
LEMMA RowsKeep ==
  ASSUME IInv, device' \in [Devices -> DeviceRow], opened' \subseteq Seats,
         logged' \in [Seats -> BOOLEAN], SeatsOK', BindingsOK', TxsOK'
  PROVE  IInv'
BY DEF IInv, Rows

LEMMA RowTypes ==
  ASSUME IInv
  PROVE  device \in [Devices -> DeviceRow] /\ opened \subseteq Seats
         /\ logged \in [Seats -> BOOLEAN] /\ SeatsOK
BY DEF IInv, Rows

(* Only a seat row is committed.                                           *)
LEMMA OnlySeatCommits ==
  ASSUME IInv, NEW p \in Tx, NEW s \in Seats, NEW row, NEW rest, SeatOK(row),
         \A bindings : TxOK(rest, bindings), CommitSeat(p, s, row, rest),
         UNCHANGED <<device, binding, opened, logged>>
  PROVE  IInv'
BY SameBindings, SeatCommits, RowsKeep, RowTypes

LEMMA HeartbeatAgesKeeps ==
  ASSUME IInv, NEW d \in Devices, HeartbeatAges(d) PROVE IInv'
<1> DEFINE new == [device[d] EXCEPT !.fresh = FALSE]
<1>1. new \in DeviceRow
  BY DeviceType DEF DeviceRow
<1>2. device' = [device EXCEPT ![d] = new]
  BY DEF HeartbeatAges
<1> HIDE DEF new
<1>3. device' \in [Devices -> DeviceRow]
  BY <1>1, <1>2, RowTypes
<1>4. SeatsOK' /\ TxsOK'
  BY DEF HeartbeatAges, IInv, SeatsOK, TxsOK
<1> QED BY <1>3, <1>4, SameBindings, RowTypes, RowsKeep DEF HeartbeatAges

(* A device row is committed, and its seat's if it has one.                *)
LEMMA DeviceCommits ==
  ASSUME IInv, NEW p \in Tx, NEW d \in Devices, NEW new \in DeviceRow,
         NEW s \in Seats \cup {Null}, NEW row, NEW rest,
         \A bindings : TxOK(rest, bindings),
         device' = [device EXCEPT ![d] = new],
         s \in Seats => SeatOK(row),
         IF s = Null THEN Continue(p, rest) /\ UNCHANGED seat
                     ELSE CommitSeat(p, s, row, rest),
         UNCHANGED <<binding, opened, logged>>
  PROVE  IInv'
<1>1. device' \in [Devices -> DeviceRow]
  BY RowTypes
<1>2. BindingsOK' /\ Kept(binding, binding')
  BY SameBindings
<1>3. CASE s = Null
  <2>1. tx' = [tx EXCEPT ![p] = rest] /\ seat' = seat
    BY <1>3 DEF Continue
  <2>2. TxsOK'
    BY <1>2, <2>1, TxGoesOn
  <2>3. SeatsOK'
    BY <2>1, RowTypes DEF SeatsOK
  <2> QED BY <1>1, <1>2, <2>2, <2>3, RowTypes, RowsKeep
<1>4. CASE s # Null
  BY <1>1, <1>2, <1>4, SeatCommits, RowTypes, RowsKeep
<1> QED BY <1>3, <1>4

LEMMA HeartbeatCommitKeeps ==
  ASSUME IInv, NEW p \in Tx, HeartbeatCommit(p) PROVE IInv'
<1> DEFINE d == tx[p].d
           s == tx[p].s
           new == [device[d] EXCEPT !.online = TRUE, !.fresh = TRUE]
           row == OnlineSeat(s, tx[p].row)
<1>1. d \in Devices /\ s \in Seats \cup {Null}
  BY TxType DEF HeartbeatCommit, TxOK, TxRow, OfDevice, Locked
<1>2. device' = [device EXCEPT ![d] = new]
  <2>1. device' = [device EXCEPT ![d].online = TRUE, ![d].fresh = TRUE]
    BY DEF HeartbeatCommit
  <2> HIDE DEF d
  <2>2. device \in [Devices -> DeviceRow] /\ d \in Devices
    BY <1>1, RowTypes
  <2> QED BY <2>1, <2>2
<1>3. new \in DeviceRow
  BY <1>1, DeviceType DEF DeviceRow
<1>4. s \in Seats => SeatOK(row)
  BY SeatType, ShownOK DEF OnlineSeat, ReasonWhenOnline, Reason
<1>5. /\ IF s = Null THEN Continue(p, Idle) /\ UNCHANGED seat
                     ELSE CommitSeat(p, s, row, Idle)
      /\ UNCHANGED <<binding, opened, logged>>
  BY DEF HeartbeatCommit
<1> HIDE DEF d, s, new, row
<1> QED BY <1>1, <1>2, <1>3, <1>4, <1>5, IdleOK, DeviceCommits

LEMMA ScanCommitKeeps ==
  ASSUME IInv, NEW p \in Tx, ScanCommit(p) PROVE IInv'
<1> DEFINE d == tx[p].d
           s == tx[p].s
           new == [device[d] EXCEPT !.online = FALSE]
           row == OfflineSeat(s, tx[p].row)
           rest == Rest(tx[p])
<1>1. d \in Devices /\ s \in Seats \cup {Null} /\ tx[p] \in TxRow
  BY TxType DEF ScanCommit, TxOK, TxRow, OfDevice, Locked
<1>2. device' = [device EXCEPT ![d] = new]
  BY DEF ScanCommit, OfflineDevice
<1>3. new \in DeviceRow
  BY <1>1, DeviceType DEF DeviceRow
<1>4. s \in Seats => SeatOK(row)
  BY SeatType, ShownOK DEF OfflineSeat, Reason
<1>5. /\ IF s = Null THEN Continue(p, rest) /\ UNCHANGED seat
                     ELSE CommitSeat(p, s, row, rest)
      /\ UNCHANGED <<binding, opened, logged>>
  BY DEF ScanCommit
<1>6. \A bindings : TxOK(rest, bindings)
  BY <1>1, RestOK
<1> HIDE DEF d, s, new, row, rest
<1> QED BY <1>1, <1>2, <1>3, <1>4, <1>5, <1>6, DeviceCommits

LEMMA DisableSeatKeeps ==
  ASSUME IInv, NEW p \in Tx, NEW s \in Seats, DisableSeat(p, s) PROVE IInv'
<1> DEFINE shown == Shown(seat[s], "ADMIN_MAINTENANCE")
           row == [shown EXCEPT !.maintenance = TRUE]
<1>1. SeatOK(shown)
  BY SeatType, ShownOK DEF Reason
<1>2. CommitSeat(p, s, row, Idle) /\ UNCHANGED <<device, binding, opened, logged>>
  BY DEF DisableSeat
<1> HIDE DEF shown
<1>3. SeatOK(row)
  BY <1>1 DEF SeatOK, SeatRow
<1> HIDE DEF row
<1> QED BY <1>2, <1>3, IdleOK, OnlySeatCommits

LEMMA EnableCommitKeeps ==
  ASSUME IInv, NEW p \in Tx, EnableCommit(p) PROVE IInv'
<1> DEFINE s == tx[p].s
           shown == Shown(seat[s], EnabledReason(tx[p].dev))
           row == [shown EXCEPT !.maintenance = FALSE]
<1>1. s \in Seats
  BY TxType DEF EnableCommit, TxOK, OfSeat
<1>2. SeatOK(shown)
  BY <1>1, SeatType, ShownOK DEF EnabledReason, Reason
<1>3. CommitSeat(p, s, row, Idle) /\ UNCHANGED <<device, binding, opened, logged>>
  BY DEF EnableCommit
<1> HIDE DEF shown, s
<1>4. SeatOK(row)
  BY <1>2 DEF SeatOK, SeatRow
<1> HIDE DEF row
<1> QED BY <1>1, <1>3, <1>4, IdleOK, OnlySeatCommits

LEMMA ReportCommitKeeps ==
  ASSUME IInv, NEW p \in Tx, ReportCommit(p) PROVE IInv'
<1> DEFINE s == tx[p].s
           shown == ReportedSeat(s, tx[p].row, tx[p].dev, tx[p].value)
           row == [shown EXCEPT !.presence = tx[p].value]
<1>1. s \in Seats /\ tx[p].value \in Presence
  BY TxType DEF ReportCommit, TxOK, OfSeat, Reporting
<1>2. SeatOK(shown)
  BY <1>1, SeatType, ShownOK DEF ReportedSeat, Reason
<1>3. CommitSeat(p, s, row, Idle) /\ UNCHANGED <<device, binding, opened, logged>>
  BY DEF ReportCommit
<1> HIDE DEF shown, s
<1>4. SeatOK(row)
  BY <1>1, <1>2 DEF SeatOK, SeatRow
<1> HIDE DEF row
<1> QED BY <1>1, <1>3, <1>4, IdleOK, OnlySeatCommits

LEMMA AdminCommitKeeps ==
  ASSUME IInv, NEW p \in Tx, AdminCommit(p) PROVE IInv'
<1> DEFINE t == tx[p]
           maintenance == MaintenanceAfter(t)
           shown == Shown(seat[t.s], RestoredReason(t.row, t.dev, maintenance))
           row == [shown EXCEPT !.maintenance = maintenance]
<1>1. t.s \in Seats /\ t.row \in SeatRow
  BY TxType DEF AdminCommit, TxOK, OfSeat
<1>2. maintenance \in BOOLEAN
  BY <1>1 DEF MaintenanceAfter, SeatRow
<1>3. CommitSeat(p, t.s, row, Idle) /\ UNCHANGED <<device, binding>>
  BY DEF AdminCommit
<1>4. opened' \subseteq Seats
  BY <1>1, RowTypes DEF AdminCommit, RecordsAfter
<1>5. logged' \in [Seats -> BOOLEAN]
  <2>1. logged' = logged \/ logged' = [logged EXCEPT ![t.s] = maintenance]
    BY DEF AdminCommit
  <2> HIDE DEF maintenance, t
  <2> QED BY <1>2, <2>1, RowTypes
<1> HIDE DEF maintenance
<1>6. SeatOK(shown)
  BY <1>1, SeatType, ShownOK DEF RestoredReason, Reason
<1> HIDE DEF shown, t
<1>7. SeatOK(row)
  BY <1>2, <1>6 DEF SeatOK, SeatRow
<1> HIDE DEF row
<1>8. BindingsOK' /\ Kept(binding, binding')
  BY <1>3, SameBindings
<1>9. SeatsOK' /\ TxsOK'
  BY <1>1, <1>3, <1>7, <1>8, IdleOK, SeatCommits
<1> QED BY <1>3, <1>4, <1>5, <1>8, <1>9, RowTypes, RowsKeep

-----------------------------------------------------------------------------
(* Bindings *)

(* The device and the seat are written together.                           *)
LEMMA BindWrites ==
  ASSUME IInv, NEW p \in Tx, tx[p].d \in Devices, tx[p].s \in Seats, BindWrite(p),
         BindingsOK', Kept(binding, binding'), UNCHANGED <<opened, logged>>
  PROVE  IInv'
<1> DEFINE t == tx[p]
           new == [device[t.d] EXCEPT !.seat = t.s]
           shown == Shown(seat[t.s], BoundReason(t.row, t.dev))
           row == [shown EXCEPT !.device = t.d]
<1>1. SeatOK(shown)
  BY SeatType, ShownOK DEF BoundReason, Reason
<1>2. new \in DeviceRow
  BY DeviceType DEF DeviceRow
<1>3. device' = [device EXCEPT ![t.d] = new] /\ CommitSeat(p, t.s, row, Idle)
  BY DEF BindWrite
<1> HIDE DEF shown, new
<1>4. device' \in [Devices -> DeviceRow]
  BY <1>2, <1>3, RowTypes
<1>5. SeatOK(row)
  BY <1>1 DEF SeatOK, SeatRow
<1> HIDE DEF row
<1>6. SeatsOK' /\ TxsOK'
  BY <1>3, <1>5, IdleOK, SeatCommits
<1> QED BY <1>4, <1>6, RowTypes, RowsKeep

(* What the partial unique indexes allow leaves active bindings unique.    *)
LEMMA Inserts ==
  ASSUME BindingsOK, NEW d \in Devices, NEW s \in Seats, NEW b \in BindingIds,
         IndexAllows(d, s), binding[b] = Null,
         binding' = [binding EXCEPT ![b] = [device |-> d, seat |-> s, active |-> TRUE]]
  PROVE  BindingsOK' /\ Kept(binding, binding')
<1> DEFINE new == [device |-> d, seat |-> s, active |-> TRUE]
<1>1. new \in BindingRow /\ new.device = d /\ new.seat = s
  BY DEF BindingRow
<1>2. binding' = [binding EXCEPT ![b] = new]
  OBVIOUS
<1> HIDE DEF new
<1>3. binding \in [BindingIds -> BindingRow \cup {Null}]
  BY DEF BindingsOK
<1>4. /\ binding' \in [BindingIds -> BindingRow \cup {Null}] /\ binding'[b] = new
      /\ \A c \in BindingIds \ {b} : binding'[c] = binding[c]
  BY <1>1, <1>2, <1>3
<1>5. \A c \in BindingIds \ {b} :
        binding[c] # Null /\ binding[c].active => binding[c].device # d /\ binding[c].seat # s
  BY DEF IndexAllows, Active
<1>6. ActiveBindingsUnique'
  <2>1. ActiveBindingsUnique
    BY DEF BindingsOK
  <2>2. ASSUME NEW c \in BindingIds, NEW e \in BindingIds, c # e,
               binding'[c] # Null, binding'[c].active, binding'[e] # Null, binding'[e].active
        PROVE  binding'[c].device # binding'[e].device /\ binding'[c].seat # binding'[e].seat
    <3>1. CASE c = b
      BY <1>1, <1>4, <1>5, <2>2, <3>1
    <3>2. CASE e = b
      BY <1>1, <1>4, <1>5, <2>2, <3>2
    <3>3. CASE c # b /\ e # b
      BY <1>4, <2>1, <2>2, <3>3 DEF ActiveBindingsUnique, Active
    <3> QED BY <3>1, <3>2, <3>3
  <2> QED BY <2>2 DEF ActiveBindingsUnique, Active
<1>7. Kept(binding, binding')
  BY <1>1, <1>4 DEF Kept
<1> QED BY <1>3, <1>4, <1>6, <1>7 DEF BindingsOK

LEMMA BindCommitKeeps ==
  ASSUME IInv, NEW p \in Tx, BindCommit(p) PROVE IInv'
<1>1. tx[p].d \in Devices /\ tx[p].s \in Seats
  BY TxType DEF BindCommit, TxOK, OfDevice, OfSeat, Binding
<1>2. CASE BindWrite(p) /\ UNCHANGED binding
  BY <1>1, <1>2, SameBindings, BindWrites DEF BindCommit
<1>3. CASE /\ IndexAllows(tx[p].d, tx[p].s) /\ BindWrite(p)
           /\ \E b \in BindingIds :
                /\ binding[b] = Null
                /\ binding' = [binding EXCEPT ![b] =
                     [device |-> tx[p].d, seat |-> tx[p].s, active |-> TRUE]]
  <2>1. BindingsOK' /\ Kept(binding, binding')
    BY <1>1, <1>3, Inserts DEF IInv
  <2> QED BY <1>1, <1>3, <2>1, BindWrites DEF BindCommit
<1>4. CASE Continue(p, Idle) /\ UNCHANGED <<device, seat, binding>>
  BY <1>4, IdleOK, Reads DEF BindCommit, Continue
<1> QED BY <1>2, <1>3, <1>4 DEF BindCommit

LEMMA Deactivates ==
  ASSUME BindingsOK, NEW b \in BindingIds, binding[b] \in BindingRow,
         binding' = [binding EXCEPT ![b].active = FALSE]
  PROVE  BindingsOK' /\ Kept(binding, binding')
<1> DEFINE new == [binding[b] EXCEPT !.active = FALSE]
<1>1. new \in BindingRow /\ new.active = FALSE
  BY DEF BindingRow
<1>2. binding' = [binding EXCEPT ![b] = new]
  OBVIOUS
<1> HIDE DEF new
<1>3. binding \in [BindingIds -> BindingRow \cup {Null}]
  BY DEF BindingsOK
<1>4. /\ binding' \in [BindingIds -> BindingRow \cup {Null}] /\ binding'[b] = new
      /\ \A c \in BindingIds \ {b} : binding'[c] = binding[c]
  BY <1>1, <1>2, <1>3
<1>5. ActiveBindingsUnique'
  BY <1>1, <1>4 DEF BindingsOK, ActiveBindingsUnique, Active
<1>6. Kept(binding, binding')
  BY <1>1, <1>4 DEF Kept
<1> QED BY <1>4, <1>5, <1>6 DEF BindingsOK

LEMMA UnbindCommitKeeps ==
  ASSUME IInv, NEW p \in Tx, UnbindCommit(p) PROVE IInv'
<1> DEFINE t == tx[p]
           new == [device[t.d] EXCEPT !.seat = Null]
           shown == Shown(seat[t.s], ReasonWhenOnline(t.row))
           row == [shown EXCEPT !.device = Null]
<1>1. /\ t.d \in Devices /\ t.s \in Seats
      /\ t.b \in BindingIds /\ binding[t.b] \in BindingRow
  BY TxType DEF UnbindCommit, TxOK, OfDevice, OfSeat, Locked, Unbinding
<1>2. new \in DeviceRow
  BY <1>1, DeviceType DEF DeviceRow
<1>3. SeatOK(shown)
  BY <1>1, SeatType, ShownOK DEF ReasonWhenOnline, Reason
<1>4. BindingsOK' /\ Kept(binding, binding')
  BY <1>1, Deactivates DEF UnbindCommit, IInv
<1>5. device' = [device EXCEPT ![t.d] = new] /\ UNCHANGED <<opened, logged>>
  BY DEF UnbindCommit, UnboundDevice
<1>6. \/ CommitSeat(p, t.s, row, Idle)
      \/ Continue(p, Idle) /\ UNCHANGED seat
  BY DEF UnbindCommit
<1> HIDE DEF new, shown
<1>7. device' \in [Devices -> DeviceRow]
  BY <1>2, <1>5, RowTypes
<1>8. SeatOK(row)
  BY <1>3 DEF SeatOK, SeatRow
<1> HIDE DEF row
<1>9. CASE CommitSeat(p, t.s, row, Idle)
  BY <1>1, <1>4, <1>5, <1>7, <1>8, <1>9, IdleOK, SeatCommits, RowTypes, RowsKeep
<1>10. CASE Continue(p, Idle) /\ UNCHANGED seat
  <2>1. TxsOK'
    BY <1>4, <1>10, IdleOK, TxGoesOn DEF Continue
  <2>2. SeatsOK'
    BY <1>10, RowTypes DEF SeatsOK
  <2> QED BY <1>4, <1>5, <1>7, <2>1, <2>2, RowTypes, RowsKeep
<1> QED BY <1>6, <1>9, <1>10

-----------------------------------------------------------------------------
(* The inductive invariant *)

LEMMA InitHolds == Init => IInv
<1> SUFFICES ASSUME Init PROVE IInv
  OBVIOUS
<1>1. Rows
  BY DEF Init, Rows, DeviceRow
<1>2. SeatsOK
  BY DEF Init, SeatsOK, SeatOK, SeatRow, Presence
<1>3. BindingsOK
  BY DEF Init, BindingsOK, ActiveBindingsUnique, Active
<1>4. TxsOK
  BY IdleOK DEF Init, TxsOK, TxOK
<1> QED BY <1>1, <1>2, <1>3, <1>4 DEF IInv

LEMMA StepHolds == IInv /\ [Next]_vars => IInv'
<1> SUFFICES ASSUME IInv, [Next]_vars PROVE IInv'
  OBVIOUS
<1>1. ASSUME NEW p \in Tx, Step(p) PROVE IInv'
  BY <1>1, HeartbeatWriteKeeps, HeartbeatReadSeatKeeps, HeartbeatCommitKeeps,
     ScanReadDeviceKeeps, ScanWriteKeeps, ScanReadSeatKeeps, ScanCommitKeeps,
     BindReadSeatKeeps, BindReadBindingOfDeviceKeeps, BindReadBindingOfSeatKeeps,
     BindCommitKeeps, UnbindWriteKeeps, UnbindReadSeatKeeps, UnbindCommitKeeps,
     EnableReadDeviceKeeps, EnableCommitKeeps, ReportReadSeatKeeps, ReportCommitKeeps,
     AdminReadKeeps, AdminCommitKeeps DEF Step, Scan
<1>2. ASSUME NEW p \in Tx, Begin(p) PROVE IInv'
  <2>1. ASSUME NEW d \in Devices, NEW value \in Maintenance, DeviceMaintenanceBegin(p, d, value)
        PROVE  IInv'
    <3>1. device[d].seat \in Seats
      BY <2>1, DeviceType DEF DeviceMaintenanceBegin
    <3> QED BY <2>1, <3>1, AdminBeginKeeps DEF DeviceMaintenanceBegin
  <2> QED BY <1>2, <2>1, HeartbeatBeginKeeps, UnbindBeginKeeps, BindBeginKeeps,
             DisableSeatKeeps, EnableBeginKeeps, ReportBeginKeeps, AdminBeginKeeps
          DEF Begin, RecordedBegin, BindingBegin, MaintenanceBegin
<1>3. CASE UNCHANGED vars
  BY <1>3 DEF vars, IInv, Rows, SeatsOK, BindingsOK, ActiveBindingsUnique, Active, TxsOK
<1> QED BY <1>1, <1>2, <1>3, ScanBeginKeeps, HeartbeatAgesKeeps DEF Next, Tx

LEMMA Invariance == Spec => []IInv
BY InitHolds, StepHolds, PTL DEF Spec

(* The types of every row and transaction, and that a seat is unavailable  *)
(* exactly when it has a reason, whatever was written in whatever order    *)
(* (devices, seats, sensors and admin services).                           *)
THEOREM TypesInvariant == Spec => []TypeOK
<1>1. IInv => TypeOK
  BY DEF IInv, Rows, SeatsOK, SeatOK, BindingsOK, TxsOK, TypeOK
<1> QED BY <1>1, Invariance, PTL

(* However many bindings and unbindings interleave, a device and a seat    *)
(* have one active binding at most (devices.service.ts and the partial     *)
(* unique indexes of the schema).                                          *)
THEOREM ActiveBindingsUniqueInvariant == Spec => []ActiveBindingsUnique
BY Invariance, PTL DEF IInv, BindingsOK

-----------------------------------------------------------------------------
(* Maintenance and its records                                             *)

Enabling == {"enableDevice", "enableCommit"}
Administering == {"adminRead", "adminCommit"}

(* No seat being switched: a Serializable transaction that is to commit    *)
(* has read what the seat still is.                                        *)
RecordInv ==
  /\ RecordTellsMaintenance
  /\ \A q \in Tx : tx[q].pc \notin Enabling
  /\ \A q \in Tx : tx[q].pc \in Administering => tx[q].value \in MaintenanceRequest
  /\ \A q \in Tx : tx[q].pc = "adminCommit" =>
       tx[q].row.maintenance = seat[tx[q].s].maintenance

(* Others stay as they are or roll back.                                   *)
OthersStay(p) == \A q \in Tx \ {p} : tx'[q] = tx[q] \/ tx'[q] = Idle

MaintenanceStays ==
  /\ \A s \in Seats : seat'[s].maintenance = seat[s].maintenance
  /\ opened' = opened

(* A step that leaves maintenance alone.                                   *)
Plain(p) ==
  OthersStay(p) /\ tx'[p].pc \notin Enabling \cup Administering /\ MaintenanceStays

LEMMA PlainKeeps ==
  ASSUME IInv, RecordInv, NEW p \in Tx, Plain(p)
  PROVE  RecordInv'
<1>1. Idle.pc = "idle"
  BY DEF Idle
<1>2. RecordTellsMaintenance'
  BY DEF Plain, MaintenanceStays, RecordInv, RecordTellsMaintenance
<1>3. \A q \in Tx : tx[q].pc = "adminCommit" => tx[q].s \in Seats
  BY TxType DEF TxOK, OfSeat
<1>4. \A q \in Tx : tx'[q].pc \in Enabling \cup Administering => tx'[q] = tx[q]
  BY <1>1 DEF Plain, OthersStay, Enabling, Administering
<1> QED BY <1>2, <1>3, <1>4
        DEF Plain, MaintenanceStays, RecordInv, Enabling, Administering

(* One transaction goes on, and nothing is written.                        *)
LEMMA PlainRead ==
  ASSUME IInv, NEW p \in Tx, NEW row, row.pc \notin Enabling \cup Administering,
         tx' = [tx EXCEPT ![p] = row], UNCHANGED <<seat, opened>>
  PROVE  Plain(p)
BY DEF Plain, OthersStay, MaintenanceStays, IInv, TxsOK

(* A seat row is committed that keeps the maintenance flag.                *)
LEMMA PlainCommit ==
  ASSUME IInv, NEW p \in Tx, NEW s \in Seats, NEW row, NEW rest,
         rest.pc \notin Enabling \cup Administering,
         row.maintenance = seat[s].maintenance,
         CommitSeat(p, s, row, rest), UNCHANGED opened
  PROVE  Plain(p)
<1>1. \A q \in Seats : seat'[q].maintenance = seat[q].maintenance
  BY DEF CommitSeat, IInv, SeatsOK
<1> QED BY <1>1 DEF CommitSeat, Plain, OthersStay, MaintenanceStays

LEMMA ShownMaintenance ==
  ASSUME NEW row \in SeatRow, NEW reason
  PROVE  Shown(row, reason).maintenance = row.maintenance
BY DEF Shown, SeatRow

LEMMA RestPc ==
  ASSUME NEW t PROVE Rest(t).pc \in {"idle", "scan"}
<1>1. CASE t.todo = {t.d}
  BY <1>1 DEF Rest, Idle
<1>2. CASE t.todo # {t.d}
  <2>1. Rest(t) = [Idle EXCEPT !.pc = "scan", !.todo = t.todo \ {t.d}]
    BY <1>2 DEF Rest
  <2> QED BY <2>1 DEF Idle
<1> QED BY <1>1, <1>2

LEMMA HeartbeatPlain ==
  ASSUME IInv, NEW p \in Tx,
         \/ \E d \in Devices : HeartbeatBegin(p, d)
         \/ HeartbeatWrite(p) \/ HeartbeatReadSeat(p) \/ HeartbeatCommit(p)
  PROVE  Plain(p)
<1> USE DEF Enabling, Administering
<1>0. tx[p] \in TxRow
  BY TxType
<1>1. ASSUME NEW d \in Devices, HeartbeatBegin(p, d) PROVE Plain(p)
  <2>1. [Idle EXCEPT !.pc = "hbWrite", !.d = d].pc = "hbWrite"
    BY DEF Idle
  <2> QED BY <1>1, <2>1, PlainRead DEF HeartbeatBegin, Start
<1>2. CASE HeartbeatWrite(p)
  <2> DEFINE s == device[tx[p].d].seat
             pc == IF s = Null THEN "hbCommit" ELSE "hbSeat"
             row == [tx[p] EXCEPT !.pc = pc, !.s = s]
  <2>1. row.pc = pc
    BY <1>0 DEF TxRow
  <2>2. tx' = [tx EXCEPT ![p] = row] /\ UNCHANGED <<seat, opened>>
    BY <1>2 DEF HeartbeatWrite, Continue
  <2> HIDE DEF row
  <2> QED BY <2>1, <2>2, PlainRead
<1>3. CASE HeartbeatReadSeat(p)
  <2> DEFINE row == [tx[p] EXCEPT !.pc = "hbCommit", !.row = seat[tx[p].s]]
  <2>1. row.pc = "hbCommit"
    BY <1>0 DEF TxRow
  <2>2. tx' = [tx EXCEPT ![p] = row] /\ UNCHANGED <<seat, opened>>
    BY <1>3 DEF HeartbeatReadSeat, Continue
  <2> HIDE DEF row
  <2> QED BY <2>1, <2>2, PlainRead
<1>4. CASE HeartbeatCommit(p)
  <2>0. Idle.pc = "idle" /\ tx[p].s \in Seats \cup {Null}
    BY <1>0 DEF Idle, TxRow
  <2>1. CASE tx[p].s = Null
    BY <1>4, <2>0, <2>1, PlainRead DEF HeartbeatCommit, Continue
  <2>2. CASE tx[p].s # Null
    <3>1. OnlineSeat(tx[p].s, tx[p].row).maintenance = seat[tx[p].s].maintenance
      BY <2>0, <2>2, SeatType, ShownMaintenance DEF OnlineSeat
    <3> QED BY <1>4, <2>0, <2>2, <3>1, PlainCommit DEF HeartbeatCommit
  <2> QED BY <2>1, <2>2
<1> QED BY <1>1, <1>2, <1>3, <1>4

LEMMA ScanPlain ==
  ASSUME IInv, NEW p \in Tx, ScanBegin(p) \/ Scan(p)
  PROVE  Plain(p)
<1> USE DEF Enabling, Administering
<1>0. tx[p] \in TxRow
  BY TxType
<1>1. CASE ScanBegin(p)
  <2>1. PICK todo : tx' = [tx EXCEPT ![p] = [Idle EXCEPT !.pc = "scan", !.todo = todo]]
    BY <1>1 DEF ScanBegin, Start
  <2>2. [Idle EXCEPT !.pc = "scan", !.todo = todo].pc = "scan"
    BY DEF Idle
  <2> QED BY <1>1, <2>1, <2>2, PlainRead DEF ScanBegin
<1>2. CASE ScanReadDevice(p)
  <2>1. PICK d \in tx[p].todo :
          LET t == [tx[p] EXCEPT !.pc = "offWrite", !.d = d, !.s = device[d].seat] IN
          tx' = [tx EXCEPT ![p] = IF device[d].online THEN t ELSE Rest(t)]
    BY <1>2 DEF ScanReadDevice, Continue
  <2> DEFINE t == [tx[p] EXCEPT !.pc = "offWrite", !.d = d, !.s = device[d].seat]
             row == IF device[d].online THEN t ELSE Rest(t)
  <2>2. t.pc = "offWrite"
    BY <1>0 DEF TxRow
  <2>3. tx' = [tx EXCEPT ![p] = row]
    BY <2>1
  <2> HIDE DEF t
  <2>4. row.pc \in {"offWrite", "idle", "scan"}
    BY <2>2, RestPc
  <2> HIDE DEF row
  <2> QED BY <1>2, <2>3, <2>4, PlainRead DEF ScanReadDevice
<1>3. CASE ScanWrite(p)
  <2> DEFINE pc == IF tx[p].s = Null THEN "offCommit" ELSE "offSeat"
             row == [tx[p] EXCEPT !.pc = pc]
  <2>1. row.pc = pc
    BY <1>0 DEF TxRow
  <2>2. tx' = [tx EXCEPT ![p] = row] /\ UNCHANGED <<seat, opened>>
    BY <1>3 DEF ScanWrite, Continue
  <2> HIDE DEF row
  <2> QED BY <2>1, <2>2, PlainRead
<1>4. CASE ScanReadSeat(p)
  <2> DEFINE row == [tx[p] EXCEPT !.pc = "offCommit", !.row = seat[tx[p].s]]
  <2>1. row.pc = "offCommit"
    BY <1>0 DEF TxRow
  <2>2. tx' = [tx EXCEPT ![p] = row] /\ UNCHANGED <<seat, opened>>
    BY <1>4 DEF ScanReadSeat, Continue
  <2> HIDE DEF row
  <2> QED BY <2>1, <2>2, PlainRead
<1>5. CASE ScanCommit(p)
  <2>0. Rest(tx[p]).pc \in {"idle", "scan"} /\ tx[p].s \in Seats \cup {Null}
    BY <1>0, RestPc DEF TxRow
  <2>1. CASE tx[p].s = Null
    BY <1>5, <2>0, <2>1, PlainRead DEF ScanCommit, Continue
  <2>2. CASE tx[p].s # Null
    <3>1. OfflineSeat(tx[p].s, tx[p].row).maintenance = seat[tx[p].s].maintenance
      BY <2>0, <2>2, SeatType, ShownMaintenance DEF OfflineSeat
    <3> QED BY <1>5, <2>0, <2>2, <3>1, PlainCommit DEF ScanCommit
  <2> QED BY <2>1, <2>2
<1> QED BY <1>1, <1>2, <1>3, <1>4, <1>5 DEF Scan

LEMMA BindPlain ==
  ASSUME IInv, NEW p \in Tx,
         \/ \E d \in Devices, s \in Seats : BindBegin(p, d, s)
         \/ BindReadSeat(p) \/ BindReadBindingOfDevice(p)
         \/ BindReadBindingOfSeat(p) \/ BindCommit(p)
  PROVE  Plain(p)
<1> USE DEF Enabling, Administering
<1>0. tx[p] \in TxRow /\ Idle.pc = "idle"
  BY TxType DEF Idle
<1>1. ASSUME NEW d \in Devices, NEW s \in Seats, BindBegin(p, d, s) PROVE Plain(p)
  <2> DEFINE row == [Idle EXCEPT !.pc = "bindSeat", !.d = d, !.s = s, !.dev = device[d]]
  <2>1. row.pc = "bindSeat"
    BY DEF Idle
  <2>2. tx' = [tx EXCEPT ![p] = row] /\ UNCHANGED <<seat, opened>>
    BY <1>1 DEF BindBegin, Start
  <2> HIDE DEF row
  <2> QED BY <2>1, <2>2, PlainRead
<1>2. CASE BindReadSeat(p)
  <2> DEFINE row == [tx[p] EXCEPT !.pc = "bindOfDevice", !.row = seat[tx[p].s]]
  <2>1. row.pc = "bindOfDevice"
    BY <1>0 DEF TxRow
  <2>2. tx' = [tx EXCEPT ![p] = row] /\ UNCHANGED <<seat, opened>>
    BY <1>2 DEF BindReadSeat, Continue
  <2> HIDE DEF row
  <2> QED BY <2>1, <2>2, PlainRead
<1>3. CASE BindReadBindingOfDevice(p)
  <2>1. PICK b : \/ tx' = [tx EXCEPT ![p] = [tx[p] EXCEPT !.pc = "bindOfSeat"]]
                 \/ tx' = [tx EXCEPT ![p] = [tx[p] EXCEPT !.pc = "bindOfSeat", !.b = b]]
                 \/ tx' = [tx EXCEPT ![p] = Idle]
    BY <1>3 DEF BindReadBindingOfDevice, Continue
  <2>2. /\ [tx[p] EXCEPT !.pc = "bindOfSeat"].pc = "bindOfSeat"
        /\ [tx[p] EXCEPT !.pc = "bindOfSeat", !.b = b].pc = "bindOfSeat"
    BY <1>0 DEF TxRow
  <2> QED BY <1>0, <1>3, <2>1, <2>2, PlainRead DEF BindReadBindingOfDevice
<1>4. CASE BindReadBindingOfSeat(p)
  <2>1. \/ tx' = [tx EXCEPT ![p] = [tx[p] EXCEPT !.pc = "bindCommit"]]
        \/ tx' = [tx EXCEPT ![p] = Idle]
    BY <1>4 DEF BindReadBindingOfSeat, Continue
  <2>2. [tx[p] EXCEPT !.pc = "bindCommit"].pc = "bindCommit"
    BY <1>0 DEF TxRow
  <2> QED BY <1>0, <1>4, <2>1, <2>2, PlainRead DEF BindReadBindingOfSeat
<1>5. CASE BindCommit(p)
  <2>1. tx[p].s \in Seats
    BY <1>5, TxType DEF BindCommit, TxOK, OfSeat, Binding
  <2>2. CASE BindWrite(p)
    <3> DEFINE s == tx[p].s
               shown == Shown(seat[s], BoundReason(tx[p].row, tx[p].dev))
               row == [shown EXCEPT !.device = tx[p].d]
    <3>1. shown.maintenance = seat[s].maintenance
      BY <2>1, SeatType, ShownMaintenance
    <3>2. row.maintenance = shown.maintenance
      BY <2>1, SeatType DEF Shown, SeatRow
    <3>3. CommitSeat(p, s, row, Idle)
      BY <2>2 DEF BindWrite
    <3> HIDE DEF shown, row
    <3> QED BY <1>0, <1>5, <2>1, <3>1, <3>2, <3>3, PlainCommit DEF BindCommit
  <2>3. CASE Continue(p, Idle) /\ UNCHANGED seat
    BY <1>0, <1>5, <2>3, PlainRead DEF BindCommit, Continue
  <2> QED BY <1>5, <2>2, <2>3 DEF BindCommit
<1> QED BY <1>1, <1>2, <1>3, <1>4, <1>5

LEMMA UnbindPlain ==
  ASSUME IInv, NEW p \in Tx,
         \/ \E d \in Devices : UnbindBegin(p, d)
         \/ UnbindWrite(p) \/ UnbindReadSeat(p) \/ UnbindCommit(p)
  PROVE  Plain(p)
<1> USE DEF Enabling, Administering
<1>0. tx[p] \in TxRow /\ Idle.pc = "idle"
  BY TxType DEF Idle
<1>1. ASSUME NEW d \in Devices, UnbindBegin(p, d) PROVE Plain(p)
  <2>1. PICK b, s : tx' = [tx EXCEPT ![p] =
                     [Idle EXCEPT !.pc = "unbindWrite", !.d = d, !.b = b, !.s = s]]
    BY <1>1 DEF UnbindBegin, Start
  <2>2. [Idle EXCEPT !.pc = "unbindWrite", !.d = d, !.b = b, !.s = s].pc = "unbindWrite"
    BY DEF Idle
  <2> QED BY <1>1, <2>1, <2>2, PlainRead DEF UnbindBegin
<1>2. CASE UnbindWrite(p)
  <2>1. [tx[p] EXCEPT !.pc = "unbindSeat"].pc = "unbindSeat"
    BY <1>0 DEF TxRow
  <2> QED BY <1>2, <2>1, PlainRead DEF UnbindWrite, Continue
<1>3. CASE UnbindReadSeat(p)
  <2> DEFINE row == [tx[p] EXCEPT !.pc = "unbindCommit", !.row = seat[tx[p].s]]
  <2>1. row.pc = "unbindCommit"
    BY <1>0 DEF TxRow
  <2>2. tx' = [tx EXCEPT ![p] = row] /\ UNCHANGED <<seat, opened>>
    BY <1>3 DEF UnbindReadSeat, Continue
  <2> HIDE DEF row
  <2> QED BY <2>1, <2>2, PlainRead
<1>4. CASE UnbindCommit(p)
  <2> DEFINE s == tx[p].s
             shown == Shown(seat[s], ReasonWhenOnline(tx[p].row))
             row == [shown EXCEPT !.device = Null]
  <2>1. s \in Seats
    BY <1>4, TxType DEF UnbindCommit, TxOK, OfSeat
  <2>2. shown.maintenance = seat[s].maintenance
    BY <2>1, SeatType, ShownMaintenance
  <2>3. row.maintenance = shown.maintenance
    BY <2>1, SeatType DEF Shown, SeatRow
  <2>4. CommitSeat(p, s, row, Idle) \/ (Continue(p, Idle) /\ UNCHANGED seat)
    BY <1>4 DEF UnbindCommit
  <2> HIDE DEF shown, row
  <2>5. CASE CommitSeat(p, s, row, Idle)
    BY <1>0, <1>4, <2>1, <2>2, <2>3, <2>5, PlainCommit DEF UnbindCommit
  <2>6. CASE Continue(p, Idle) /\ UNCHANGED seat
    BY <1>0, <1>4, <2>6, PlainRead DEF UnbindCommit, Continue
  <2> QED BY <2>4, <2>5, <2>6
<1> QED BY <1>1, <1>2, <1>3, <1>4

LEMMA ReportPlain ==
  ASSUME IInv, NEW p \in Tx,
         \/ \E d \in Devices, value \in Reports : ReportBegin(p, d, value)
         \/ ReportReadSeat(p) \/ ReportCommit(p)
  PROVE  Plain(p)
<1> USE DEF Enabling, Administering
<1>0. tx[p] \in TxRow /\ Idle.pc = "idle"
  BY TxType DEF Idle
<1>1. ASSUME NEW d \in Devices, NEW value \in Reports, ReportBegin(p, d, value)
      PROVE  Plain(p)
  <2> DEFINE row == [Idle EXCEPT !.pc = "reportSeat", !.d = d, !.s = device[d].seat,
                                 !.dev = device[d], !.value = value]
  <2>1. row.pc = "reportSeat"
    BY DEF Idle
  <2>2. tx' = [tx EXCEPT ![p] = row] /\ UNCHANGED <<seat, opened>>
    BY <1>1 DEF ReportBegin, Start
  <2> HIDE DEF row
  <2> QED BY <2>1, <2>2, PlainRead
<1>2. CASE ReportReadSeat(p)
  <2> DEFINE row == [tx[p] EXCEPT !.pc = "reportCommit", !.row = seat[tx[p].s]]
  <2>1. row.pc = "reportCommit"
    BY <1>0 DEF TxRow
  <2>2. tx' = [tx EXCEPT ![p] = row] /\ UNCHANGED <<seat, opened>>
    BY <1>2 DEF ReportReadSeat, Continue
  <2> HIDE DEF row
  <2> QED BY <2>1, <2>2, PlainRead
<1>3. CASE ReportCommit(p)
  <2> DEFINE s == tx[p].s
             shown == ReportedSeat(s, tx[p].row, tx[p].dev, tx[p].value)
             row == [shown EXCEPT !.presence = tx[p].value]
  <2>1. s \in Seats /\ SeatOK(shown)
    <3>1. s \in Seats
      BY <1>3, TxType DEF ReportCommit, TxOK, OfSeat
    <3> QED BY <3>1, SeatType, ShownOK DEF ReportedSeat, Reason
  <2>2. shown.maintenance = seat[s].maintenance
    BY <2>1, SeatType, ShownMaintenance DEF ReportedSeat
  <2>3. CommitSeat(p, s, row, Idle)
    BY <1>3 DEF ReportCommit
  <2> HIDE DEF shown
  <2>4. row.maintenance = shown.maintenance
    BY <2>1 DEF SeatOK, SeatRow
  <2> HIDE DEF row
  <2> QED BY <1>0, <1>3, <2>1, <2>2, <2>3, <2>4, PlainCommit DEF ReportCommit
<1> QED BY <1>1, <1>2, <1>3

(* The administrator's transaction reads the seat, and commits only if the *)
(* seat is still what it has read.                                         *)
LEMMA AdminRecords ==
  ASSUME IInv, RecordInv, NEW p \in Tx,
         \/ \E s \in Seats, value \in Maintenance : AdminBegin(p, s, value)
         \/ AdminRead(p) \/ AdminCommit(p)
  PROVE  RecordInv'
<1> USE DEF Enabling, Administering
<1>0. tx[p] \in TxRow /\ Idle.pc = "idle" /\ tx \in [Tx -> TxRow]
  BY TxType DEF Idle, IInv, TxsOK
<1>1. ASSUME NEW s \in Seats, NEW value \in Maintenance, AdminBegin(p, s, value)
      PROVE  RecordInv'
  <2> DEFINE row == [Idle EXCEPT !.pc = "adminRead", !.s = s, !.value = value]
  <2>1. row.pc = "adminRead" /\ row.value = value /\ value \in MaintenanceRequest
    BY InputAssumption DEF Idle
  <2>2. tx' = [tx EXCEPT ![p] = row] /\ UNCHANGED <<seat, opened>>
    BY <1>1 DEF AdminBegin, Start
  <2> HIDE DEF row
  <2> QED BY <1>0, <2>1, <2>2 DEF RecordInv, RecordTellsMaintenance
<1>2. CASE AdminRead(p)
  <2> DEFINE read == seat[tx[p].s]
             dev == IF read.device = Null THEN Null ELSE device[read.device]
             row == [tx[p] EXCEPT !.pc = "adminCommit", !.row = read, !.dev = dev]
  <2>1. row.pc = "adminCommit" /\ row.value = tx[p].value /\ row.s = tx[p].s
        /\ row.row = read
    BY <1>0 DEF TxRow
  <2>2. tx' = [tx EXCEPT ![p] = row] /\ UNCHANGED <<seat, opened>> /\ tx[p].pc = "adminRead"
    BY <1>2 DEF AdminRead, Continue
  <2> HIDE DEF row
  <2> QED BY <1>0, <2>1, <2>2 DEF RecordInv, RecordTellsMaintenance
<1>3. CASE AdminCommit(p)
  <2> DEFINE t == tx[p]
             maintenance == MaintenanceAfter(t)
             shown == Shown(seat[t.s], RestoredReason(t.row, t.dev, maintenance))
             row == [shown EXCEPT !.maintenance = maintenance]
  <2>1. /\ t.s \in Seats /\ t.row \in SeatRow /\ t.value \in MaintenanceRequest
        /\ t.row.maintenance = seat[t.s].maintenance
    BY <1>3, TxType DEF AdminCommit, TxOK, OfSeat, RecordInv
  <2>2. row.maintenance = maintenance
    BY <2>1, SeatType DEF Shown, SeatRow
  <2>3. CommitSeat(p, t.s, row, Idle) /\ opened' = RecordsAfter(t)
    BY <1>3 DEF AdminCommit
  <2> HIDE DEF shown, row
  <2>4. /\ seat'[t.s].maintenance = maintenance
        /\ \A s \in Seats \ {t.s} : seat'[s] = seat[s]
    BY <2>1, <2>2, <2>3 DEF CommitSeat, IInv, SeatsOK
  <2>5. \A s \in Seats : seat'[s].maintenance = (s \in opened')
    <3>1. CASE t.value = "ENTER"
      BY <2>1, <2>3, <2>4, <3>1
      DEF MaintenanceAfter, RecordsAfter, RecordInv, RecordTellsMaintenance
    <3>2. CASE t.value = "EXIT"
      BY <2>1, <2>3, <2>4, <3>2
      DEF MaintenanceAfter, RecordsAfter, RecordInv, RecordTellsMaintenance
    <3>3. CASE t.value = "RELEASE"
      <4>1. maintenance = seat[t.s].maintenance /\ opened' = opened
        BY <2>1, <2>3, <3>3, SeatType DEF MaintenanceAfter, RecordsAfter, SeatRow
      <4> QED BY <2>4, <4>1 DEF RecordInv, RecordTellsMaintenance
    <3> QED BY <2>1, <3>1, <3>2, <3>3 DEF MaintenanceRequest
  <2>6. \A q \in Tx :
          \/ tx'[q] = Idle
          \/ tx'[q] = tx[q] /\ ~ (tx[q].pc = "adminCommit" /\ tx[q].s = t.s)
    BY <2>3 DEF CommitSeat, Overtaken
  <2>7. \A q \in Tx : tx[q].pc = "adminCommit" => tx[q].s \in Seats
    BY TxType DEF TxOK, OfSeat
  <2>8. \A q \in Tx : tx'[q].pc = "adminCommit" =>
          tx'[q].row.maintenance = seat'[tx'[q].s].maintenance
    BY <1>0, <2>4, <2>6, <2>7 DEF RecordInv
  <2> QED BY <1>0, <2>5, <2>6, <2>8 DEF RecordInv, RecordTellsMaintenance
<1> QED BY <1>1, <1>2, <1>3

LEMMA NextRecords ==
  ASSUME IInv, RecordInv, [RecordedNext]_vars
  PROVE  RecordInv'
<1>1. ASSUME NEW p \in Tx, Step(p) PROVE RecordInv'
  <2>1. ~ EnableReadDevice(p) /\ ~ EnableCommit(p)
    BY DEF EnableReadDevice, EnableCommit, RecordInv, Enabling
  <2> QED BY <1>1, <2>1, HeartbeatPlain, ScanPlain, BindPlain, UnbindPlain, ReportPlain,
             AdminRecords, PlainKeeps DEF Step
<1>2. ASSUME NEW p \in Tx, RecordedBegin(p) PROVE RecordInv'
  <2>1. ASSUME NEW d \in Devices, NEW value \in Maintenance,
               DeviceMaintenanceBegin(p, d, value)
        PROVE  RecordInv'
    BY <2>1, DeviceType, AdminRecords DEF DeviceMaintenanceBegin
  <2>2. CASE BindingBegin(p)
    BY <2>2, HeartbeatPlain, BindPlain, UnbindPlain, PlainKeeps DEF BindingBegin
  <2>3. CASE MaintenanceBegin(p)
    BY <2>1, <2>3, AdminRecords DEF MaintenanceBegin
  <2> QED BY <1>2, <2>2, <2>3, ReportPlain, PlainKeeps DEF RecordedBegin
<1>3. ASSUME NEW p \in Tx, ScanBegin(p) PROVE RecordInv'
  BY <1>3, ScanPlain, PlainKeeps
<1>4. ASSUME NEW d \in Devices, HeartbeatAges(d) PROVE RecordInv'
  BY <1>4 DEF HeartbeatAges, RecordInv, RecordTellsMaintenance
<1>5. CASE UNCHANGED vars
  BY <1>5 DEF vars, RecordInv, RecordTellsMaintenance
<1> QED BY <1>1, <1>2, <1>3, <1>4, <1>5 DEF RecordedNext, Tx

LEMMA RecordedIsNext == ASSUME [RecordedNext]_vars PROVE [Next]_vars
BY DEF RecordedNext, Next, Begin

LEMMA InitRecords == ASSUME Init PROVE RecordInv
<1>1. \A s \in Seats : seat[s].maintenance = (s \in opened)
  <2>1. \A s \in Seats : seat[s].maintenance = FALSE
    BY DEF Init
  <2>2. \A s \in Seats : (s \in opened) = FALSE
    BY DEF Init
  <2> QED BY <2>1, <2>2
<1>2. \A q \in Tx : tx[q].pc = "idle"
  BY DEF Init, Idle
<1> QED BY <1>1, <1>2
        DEF RecordInv, RecordTellsMaintenance, Enabling, Administering

(* No seat being switched by setSeatEnabled, which keeps no records: a     *)
(* maintenance record is open exactly while a seat is under maintenance,   *)
(* however the administrators' transactions overlap each other and those   *)
(* of devices (what a Serializable transaction overtakes rolls back).      *)
THEOREM RecordTellsMaintenanceInvariant ==
  Init /\ [][RecordedNext]_vars => []RecordTellsMaintenance
<1>1. Init => RecordInv
  BY InitRecords
<1>2. IInv /\ RecordInv /\ [RecordedNext]_vars => RecordInv'
  BY NextRecords
<1>3. RecordInv => RecordTellsMaintenance
  BY DEF RecordInv
<1> QED BY <1>1, <1>2, <1>3, RecordedIsNext, Invariance, PTL DEF Spec

-----------------------------------------------------------------------------
(* Requests, messages and scans that come one at a time                    *)

SameDevice(dev, d, devices) ==
  /\ dev \in DeviceRow
  /\ dev.seat = devices[d].seat /\ dev.online = devices[d].online

BoundBy(b, d, s, bindings) ==
  /\ bindings[b] # Null /\ bindings[b].active
  /\ bindings[b].device = d /\ bindings[b].seat = s

HoldsRow ==
  {"bindOfDevice", "bindOfSeat", "bindCommit", "unbindCommit", "enableDevice",
   "enableCommit", "reportCommit", "adminCommit"}
OfBound ==
  {"hbSeat", "hbCommit", "offWrite", "offSeat", "offCommit", "reportSeat", "reportCommit"}

(* What a transaction has read is still so, but for the age of the last    *)
(* heartbeat.                                                              *)
Current(t, devices, seats, bindings) ==
  /\ t.pc \in HoldsRow => t.row = seats[t.s]
  /\ t.pc \in {"hbCommit", "offCommit"} /\ t.s # Null => t.row = seats[t.s]
  /\ t.pc \in OfBound => t.s = devices[t.d].seat
  /\ t.pc \in Binding \cup Reporting => SameDevice(t.dev, t.d, devices)
  /\ t.pc \in {"enableCommit", "adminCommit"} =>
       IF t.row.device = Null THEN t.dev = Null
                              ELSE SameDevice(t.dev, t.row.device, devices)
  /\ t.pc \in {"bindSeat", "bindOfDevice"} => t.b = Null
  /\ t.pc \in {"bindOfSeat", "bindCommit"} /\ t.b # Null =>
       BoundBy(t.b, t.d, t.s, bindings)
  /\ t.pc \in Unbinding => BoundBy(t.b, t.d, t.s, bindings)

AloneInv ==
  /\ BindingsAgree /\ OutOfServiceUnavailable
  /\ \A p \in Tx : Current(tx[p], device, seat, binding)

(* A transaction that has just begun or ended has read nothing.            *)
LEMMA NothingRead ==
  ASSUME NEW t, t.pc \in {"idle", "scan", "hbWrite", "adminRead"}
  PROVE  \A ds, ss, bs : Current(t, ds, ss, bs)
BY DEF Current, HoldsRow, OfBound, Binding, Reporting, Unbinding

LEMMA IdlePc == Idle.pc = "idle"
BY DEF Idle

(* A step that only reads.                                                 *)
LEMMA AloneReads ==
  ASSUME IInv, AloneInv, NEW p \in Tx, NEW row,
         Current(row, device, seat, binding), tx' = [tx EXCEPT ![p] = row],
         UNCHANGED <<device, seat, binding>>
  PROVE  AloneInv'
<1>1. \A q \in Tx : tx'[q] = row \/ tx'[q] = tx[q]
  BY DEF IInv, TxsOK
<1>2. BindingsAgree' /\ OutOfServiceUnavailable'
  BY DEF AloneInv, BindingsAgree, Active, OutOfServiceUnavailable
<1>3. \A q \in Tx : Current(tx'[q], device, seat, binding)
  BY <1>1 DEF AloneInv
<1> QED BY <1>2, <1>3 DEF AloneInv

(* A step after which the transaction under way has committed.             *)
LEMMA AloneCommits ==
  ASSUME NEW p \in Tx, OthersIdle(p), tx'[p].pc \in {"idle", "scan"},
         OthersStay(p),
         BindingsAgree', OutOfServiceUnavailable'
  PROVE  AloneInv'
<1>1. \A q \in Tx \ {p} : tx'[q].pc = "idle"
  BY IdlePc DEF OthersIdle, OthersStay
<1>2. \A q \in Tx : Current(tx'[q], device', seat', binding')
  BY <1>1, NothingRead
<1> QED BY <1>2 DEF AloneInv

-----------------------------------------------------------------------------
(* Steps that begin or read *)

LEMMA HeartbeatCurrent ==
  ASSUME IInv, AloneInv, NEW p \in Tx,
         \/ \E d \in Devices : HeartbeatBegin(p, d)
         \/ HeartbeatWrite(p) \/ HeartbeatReadSeat(p)
  PROVE  AloneInv'
<1> USE DEF HoldsRow, OfBound, Binding, Reporting, Unbinding
<1>0. tx[p] \in TxRow /\ Current(tx[p], device, seat, binding)
  BY TxType DEF AloneInv
<1>1. ASSUME NEW d \in Devices, HeartbeatBegin(p, d) PROVE AloneInv'
  <2> DEFINE row == [Idle EXCEPT !.pc = "hbWrite", !.d = d]
  <2>1. row.pc = "hbWrite"
    BY DEF Idle
  <2>2. tx' = [tx EXCEPT ![p] = row] /\ UNCHANGED <<device, seat, binding>>
    BY <1>1 DEF HeartbeatBegin, Start
  <2> HIDE DEF row
  <2>3. Current(row, device, seat, binding)
    BY <2>1, NothingRead
  <2> QED BY <2>2, <2>3, AloneReads
<1>2. CASE HeartbeatWrite(p)
  <2> DEFINE s == device[tx[p].d].seat
             row == [tx[p] EXCEPT !.pc = IF s = Null THEN "hbCommit" ELSE "hbSeat", !.s = s]
  <2>1. /\ row.pc = IF s = Null THEN "hbCommit" ELSE "hbSeat"
        /\ row.s = s /\ row.d = tx[p].d
    BY <1>0 DEF TxRow
  <2>2. tx' = [tx EXCEPT ![p] = row] /\ UNCHANGED <<device, seat, binding>>
    BY <1>2 DEF HeartbeatWrite, Continue
  <2> HIDE DEF row
  <2>3. Current(row, device, seat, binding)
    BY <2>1 DEF Current
  <2> QED BY <2>2, <2>3, AloneReads
<1>3. CASE HeartbeatReadSeat(p)
  <2> DEFINE row == [tx[p] EXCEPT !.pc = "hbCommit", !.row = seat[tx[p].s]]
  <2>1. row.pc = "hbCommit" /\ row.s = tx[p].s /\ row.d = tx[p].d /\ row.row = seat[tx[p].s]
    BY <1>0 DEF TxRow
  <2>2. tx' = [tx EXCEPT ![p] = row] /\ UNCHANGED <<device, seat, binding>>
        /\ tx[p].pc = "hbSeat"
    BY <1>3 DEF HeartbeatReadSeat, Continue
  <2> HIDE DEF row
  <2>3. Current(row, device, seat, binding)
    BY <1>0, <2>1, <2>2 DEF Current
  <2> QED BY <2>2, <2>3, AloneReads
<1> QED BY <1>1, <1>2, <1>3

LEMMA ScanCurrent ==
  ASSUME IInv, AloneInv, NEW p \in Tx,
         ScanBegin(p) \/ ScanReadDevice(p) \/ ScanWrite(p) \/ ScanReadSeat(p)
  PROVE  AloneInv'
<1> USE DEF HoldsRow, OfBound, Binding, Reporting, Unbinding
<1>0. tx[p] \in TxRow /\ Current(tx[p], device, seat, binding)
  BY TxType DEF AloneInv
<1>1. CASE ScanBegin(p)
  <2>1. PICK todo : tx' = [tx EXCEPT ![p] = [Idle EXCEPT !.pc = "scan", !.todo = todo]]
    BY <1>1 DEF ScanBegin, Start
  <2> DEFINE row == [Idle EXCEPT !.pc = "scan", !.todo = todo]
  <2>2. row.pc = "scan"
    BY DEF Idle
  <2>3. tx' = [tx EXCEPT ![p] = row] /\ UNCHANGED <<device, seat, binding>>
    BY <1>1, <2>1 DEF ScanBegin
  <2> HIDE DEF row
  <2>4. Current(row, device, seat, binding)
    BY <2>2, NothingRead
  <2> QED BY <2>3, <2>4, AloneReads
<1>2. CASE ScanReadDevice(p)
  <2>1. PICK d \in tx[p].todo :
          LET t == [tx[p] EXCEPT !.pc = "offWrite", !.d = d, !.s = device[d].seat] IN
          tx' = [tx EXCEPT ![p] = IF device[d].online THEN t ELSE Rest(t)]
    BY <1>2 DEF ScanReadDevice, Continue
  <2> DEFINE t == [tx[p] EXCEPT !.pc = "offWrite", !.d = d, !.s = device[d].seat]
             row == IF device[d].online THEN t ELSE Rest(t)
  <2>2. t.pc = "offWrite" /\ t.d = d /\ t.s = device[d].seat
    BY <1>0 DEF TxRow
  <2>3. tx' = [tx EXCEPT ![p] = row]
    BY <2>1
  <2> HIDE DEF t
  <2>4. Current(t, device, seat, binding)
    BY <2>2 DEF Current
  <2>5. Current(row, device, seat, binding)
    BY <2>4, RestPc, NothingRead
  <2> HIDE DEF row
  <2> QED BY <1>2, <2>3, <2>5, AloneReads DEF ScanReadDevice
<1>3. CASE ScanWrite(p)
  <2> DEFINE row == [tx[p] EXCEPT !.pc = IF tx[p].s = Null THEN "offCommit" ELSE "offSeat"]
  <2>1. /\ row.pc = IF tx[p].s = Null THEN "offCommit" ELSE "offSeat"
        /\ row.s = tx[p].s /\ row.d = tx[p].d
    BY <1>0 DEF TxRow
  <2>2. tx' = [tx EXCEPT ![p] = row] /\ UNCHANGED <<device, seat, binding>>
        /\ tx[p].pc = "offWrite"
    BY <1>3 DEF ScanWrite, Continue
  <2> HIDE DEF row
  <2>3. Current(row, device, seat, binding)
    BY <1>0, <2>1, <2>2 DEF Current
  <2> QED BY <2>2, <2>3, AloneReads
<1>4. CASE ScanReadSeat(p)
  <2> DEFINE row == [tx[p] EXCEPT !.pc = "offCommit", !.row = seat[tx[p].s]]
  <2>1. /\ row.pc = "offCommit" /\ row.s = tx[p].s /\ row.d = tx[p].d
        /\ row.row = seat[tx[p].s]
    BY <1>0 DEF TxRow
  <2>2. tx' = [tx EXCEPT ![p] = row] /\ UNCHANGED <<device, seat, binding>>
        /\ tx[p].pc = "offSeat"
    BY <1>4 DEF ScanReadSeat, Continue
  <2> HIDE DEF row
  <2>3. Current(row, device, seat, binding)
    BY <1>0, <2>1, <2>2 DEF Current
  <2> QED BY <2>2, <2>3, AloneReads
<1> QED BY <1>1, <1>2, <1>3, <1>4

LEMMA BindCurrent ==
  ASSUME IInv, AloneInv, NEW p \in Tx,
         \/ \E d \in Devices, s \in Seats : BindBegin(p, d, s)
         \/ BindReadSeat(p) \/ BindReadBindingOfDevice(p) \/ BindReadBindingOfSeat(p)
  PROVE  AloneInv'
<1> USE DEF HoldsRow, OfBound, Binding, Reporting, Unbinding
<1>0. tx[p] \in TxRow /\ Current(tx[p], device, seat, binding)
  BY TxType DEF AloneInv
<1>1. ASSUME NEW d \in Devices, NEW s \in Seats, BindBegin(p, d, s) PROVE AloneInv'
  <2> DEFINE row == [Idle EXCEPT !.pc = "bindSeat", !.d = d, !.s = s, !.dev = device[d]]
  <2>1. row.pc = "bindSeat" /\ row.d = d /\ row.dev = device[d] /\ row.b = Null
    BY DEF Idle
  <2>2. tx' = [tx EXCEPT ![p] = row] /\ UNCHANGED <<device, seat, binding>>
    BY <1>1 DEF BindBegin, Start
  <2> HIDE DEF row
  <2>3. Current(row, device, seat, binding)
    BY <2>1, DeviceType DEF Current, SameDevice
  <2> QED BY <2>2, <2>3, AloneReads
<1>2. CASE BindReadSeat(p)
  <2> DEFINE row == [tx[p] EXCEPT !.pc = "bindOfDevice", !.row = seat[tx[p].s]]
  <2>1. /\ row.pc = "bindOfDevice" /\ row.d = tx[p].d /\ row.dev = tx[p].dev
        /\ row.s = tx[p].s /\ row.row = seat[tx[p].s] /\ row.b = tx[p].b
    BY <1>0 DEF TxRow
  <2>2. tx' = [tx EXCEPT ![p] = row] /\ UNCHANGED <<device, seat, binding>>
        /\ tx[p].pc = "bindSeat"
    BY <1>2 DEF BindReadSeat, Continue
  <2> HIDE DEF row
  <2>3. Current(row, device, seat, binding)
    BY <1>0, <2>1, <2>2 DEF Current
  <2> QED BY <2>2, <2>3, AloneReads
<1>3. CASE BindReadBindingOfDevice(p)
  <2> DEFINE t == tx[p]
             own == {b \in BindingIds : Active(b) /\ binding[b].device = t.d}
             b == CHOOSE b \in own : TRUE
             none == [t EXCEPT !.pc = "bindOfSeat"]
             same == [t EXCEPT !.pc = "bindOfSeat", !.b = b]
             row == IF own = {} THEN none ELSE IF binding[b].seat = t.s THEN same ELSE Idle
  <2>1. tx' = [tx EXCEPT ![p] = row] /\ UNCHANGED <<device, seat, binding>>
        /\ t.pc = "bindOfDevice"
    BY <1>3 DEF BindReadBindingOfDevice, Continue
  <2>2. own # {} => Active(b) /\ binding[b].device = t.d
    OBVIOUS
  <2> HIDE DEF own, b
  <2>3. /\ none.pc = "bindOfSeat" /\ none.d = t.d /\ none.dev = t.dev /\ none.s = t.s
        /\ none.row = t.row /\ none.b = t.b
        /\ same.pc = "bindOfSeat" /\ same.d = t.d /\ same.dev = t.dev /\ same.s = t.s
        /\ same.row = t.row /\ same.b = b
    BY <1>0 DEF TxRow
  <2> HIDE DEF none, same
  <2>4. t.b = Null
    BY <1>0, <2>1 DEF Current
  <2>5. CASE own = {}
    <3>1. Current(none, device, seat, binding)
      BY <1>0, <2>1, <2>3, <2>4 DEF Current
    <3> QED BY <2>1, <2>5, <3>1, AloneReads
  <2>6. CASE own # {} /\ binding[b].seat = t.s
    <3>1. Current(same, device, seat, binding)
      BY <1>0, <2>1, <2>2, <2>3, <2>6 DEF Current, BoundBy, Active
    <3> QED BY <2>1, <2>6, <3>1, AloneReads
  <2>7. CASE own # {} /\ binding[b].seat # t.s
    BY <2>1, <2>7, IdlePc, NothingRead, AloneReads
  <2> QED BY <2>5, <2>6, <2>7
<1>4. CASE BindReadBindingOfSeat(p)
  <2> DEFINE row == [tx[p] EXCEPT !.pc = "bindCommit"]
  <2>1. /\ row.pc = "bindCommit" /\ row.d = tx[p].d /\ row.dev = tx[p].dev
        /\ row.s = tx[p].s /\ row.row = tx[p].row /\ row.b = tx[p].b
    BY <1>0 DEF TxRow
  <2>2. /\ \/ tx' = [tx EXCEPT ![p] = row]
           \/ tx' = [tx EXCEPT ![p] = Idle]
        /\ UNCHANGED <<device, seat, binding>> /\ tx[p].pc = "bindOfSeat"
    BY <1>4 DEF BindReadBindingOfSeat, Continue
  <2> HIDE DEF row
  <2>3. Current(row, device, seat, binding)
    BY <1>0, <2>1, <2>2 DEF Current
  <2> QED BY <2>2, <2>3, IdlePc, NothingRead, AloneReads
<1> QED BY <1>1, <1>2, <1>3, <1>4
LEMMA UnbindCurrent ==
  ASSUME IInv, AloneInv, NEW p \in Tx,
         \/ \E d \in Devices : UnbindBegin(p, d)
         \/ UnbindWrite(p) \/ UnbindReadSeat(p)
  PROVE  AloneInv'
<1> USE DEF HoldsRow, OfBound, Binding, Reporting, Unbinding
<1>0. tx[p] \in TxRow /\ Current(tx[p], device, seat, binding)
  BY TxType DEF AloneInv
<1>1. ASSUME NEW d \in Devices, UnbindBegin(p, d) PROVE AloneInv'
  <2>1. PICK b \in BindingIds :
          /\ Active(b) /\ binding[b].device = d
          /\ tx' = [tx EXCEPT ![p] = [Idle EXCEPT !.pc = "unbindWrite", !.d = d, !.b = b,
                                                  !.s = binding[b].seat]]
    BY <1>1 DEF UnbindBegin, Start
  <2> DEFINE row == [Idle EXCEPT !.pc = "unbindWrite", !.d = d, !.b = b,
                                 !.s = binding[b].seat]
  <2>2. row.pc = "unbindWrite" /\ row.d = d /\ row.b = b /\ row.s = binding[b].seat
    BY DEF Idle
  <2>3. tx' = [tx EXCEPT ![p] = row] /\ UNCHANGED <<device, seat, binding>>
    BY <1>1, <2>1 DEF UnbindBegin
  <2> HIDE DEF row
  <2>4. Current(row, device, seat, binding)
    BY <2>1, <2>2 DEF Current, BoundBy, Active
  <2> QED BY <2>3, <2>4, AloneReads
<1>2. CASE UnbindWrite(p)
  <2> DEFINE row == [tx[p] EXCEPT !.pc = "unbindSeat"]
  <2>1. /\ row.pc = "unbindSeat" /\ row.d = tx[p].d
        /\ row.s = tx[p].s /\ row.b = tx[p].b
    BY <1>0 DEF TxRow
  <2>2. tx' = [tx EXCEPT ![p] = row] /\ UNCHANGED <<device, seat, binding>>
        /\ tx[p].pc = "unbindWrite"
    BY <1>2 DEF UnbindWrite, Continue
  <2> HIDE DEF row
  <2>3. Current(row, device, seat, binding)
    BY <1>0, <2>1, <2>2 DEF Current
  <2> QED BY <2>2, <2>3, AloneReads
<1>3. CASE UnbindReadSeat(p)
  <2> DEFINE row == [tx[p] EXCEPT !.pc = "unbindCommit", !.row = seat[tx[p].s]]
  <2>1. /\ row.pc = "unbindCommit" /\ row.d = tx[p].d
        /\ row.s = tx[p].s /\ row.b = tx[p].b /\ row.row = seat[tx[p].s]
    BY <1>0 DEF TxRow
  <2>2. tx' = [tx EXCEPT ![p] = row] /\ UNCHANGED <<device, seat, binding>>
        /\ tx[p].pc = "unbindSeat"
    BY <1>3 DEF UnbindReadSeat, Continue
  <2> HIDE DEF row
  <2>3. Current(row, device, seat, binding)
    BY <1>0, <2>1, <2>2 DEF Current
  <2> QED BY <2>2, <2>3, AloneReads
<1> QED BY <1>1, <1>2, <1>3

LEMMA EnableCurrent ==
  ASSUME IInv, AloneInv, NEW p \in Tx,
         (\E s \in Seats : EnableBegin(p, s)) \/ EnableReadDevice(p)
  PROVE  AloneInv'
<1> USE DEF HoldsRow, OfBound, Binding, Reporting, Unbinding
<1>0. tx[p] \in TxRow /\ Current(tx[p], device, seat, binding)
  BY TxType DEF AloneInv
<1>1. ASSUME NEW s \in Seats, EnableBegin(p, s) PROVE AloneInv'
  <2> DEFINE row == [Idle EXCEPT !.pc = "enableDevice", !.s = s, !.row = seat[s]]
  <2>1. row.pc = "enableDevice" /\ row.s = s /\ row.row = seat[s]
    BY DEF Idle
  <2>2. tx' = [tx EXCEPT ![p] = row] /\ UNCHANGED <<device, seat, binding>>
    BY <1>1 DEF EnableBegin, Start
  <2> HIDE DEF row
  <2>3. Current(row, device, seat, binding)
    BY <2>1 DEF Current
  <2> QED BY <2>2, <2>3, AloneReads
<1>2. CASE EnableReadDevice(p)
  <2> DEFINE d == tx[p].row.device
             dev == IF d = Null THEN Null ELSE device[d]
             row == [tx[p] EXCEPT !.pc = "enableCommit", !.dev = dev]
  <2>1. /\ row.pc = "enableCommit" /\ row.s = tx[p].s
        /\ row.row = tx[p].row /\ row.dev = dev
    BY <1>0 DEF TxRow
  <2>2. tx' = [tx EXCEPT ![p] = row] /\ UNCHANGED <<device, seat, binding>>
        /\ tx[p].pc = "enableDevice"
    BY <1>2 DEF EnableReadDevice, Continue
  <2> HIDE DEF row
  <2>3. d # Null => d \in Devices
    <3>1. tx[p].s \in Seats /\ tx[p].row = seat[tx[p].s]
      BY <1>0, <2>2, TxType DEF TxOK, OfSeat, Current
    <3> QED BY <3>1, SeatType DEF SeatRow
  <2>4. Current(row, device, seat, binding)
    BY <1>0, <2>1, <2>2, <2>3, DeviceType DEF Current, SameDevice
  <2> QED BY <2>2, <2>4, AloneReads
<1> QED BY <1>1, <1>2

LEMMA ReportCurrent ==
  ASSUME IInv, AloneInv, NEW p \in Tx,
         \/ \E d \in Devices, value \in Reports : ReportBegin(p, d, value)
         \/ ReportReadSeat(p)
  PROVE  AloneInv'
<1> USE DEF HoldsRow, OfBound, Binding, Reporting, Unbinding
<1>0. tx[p] \in TxRow /\ Current(tx[p], device, seat, binding)
  BY TxType DEF AloneInv
<1>1. ASSUME NEW d \in Devices, NEW value \in Reports, ReportBegin(p, d, value)
      PROVE  AloneInv'
  <2> DEFINE row == [Idle EXCEPT !.pc = "reportSeat", !.d = d, !.s = device[d].seat,
                                 !.dev = device[d], !.value = value]
  <2>1. /\ row.pc = "reportSeat" /\ row.d = d
        /\ row.s = device[d].seat /\ row.dev = device[d]
    BY DEF Idle
  <2>2. tx' = [tx EXCEPT ![p] = row] /\ UNCHANGED <<device, seat, binding>>
    BY <1>1 DEF ReportBegin, Start
  <2> HIDE DEF row
  <2>3. Current(row, device, seat, binding)
    BY <2>1, DeviceType DEF Current, SameDevice
  <2> QED BY <2>2, <2>3, AloneReads
<1>2. CASE ReportReadSeat(p)
  <2> DEFINE row == [tx[p] EXCEPT !.pc = "reportCommit", !.row = seat[tx[p].s]]
  <2>1. /\ row.pc = "reportCommit" /\ row.d = tx[p].d /\ row.dev = tx[p].dev
        /\ row.s = tx[p].s /\ row.row = seat[tx[p].s]
    BY <1>0 DEF TxRow
  <2>2. tx' = [tx EXCEPT ![p] = row] /\ UNCHANGED <<device, seat, binding>>
        /\ tx[p].pc = "reportSeat"
    BY <1>2 DEF ReportReadSeat, Continue
  <2> HIDE DEF row
  <2>3. Current(row, device, seat, binding)
    BY <1>0, <2>1, <2>2 DEF Current
  <2> QED BY <2>2, <2>3, AloneReads
<1> QED BY <1>1, <1>2

LEMMA AdminCurrent ==
  ASSUME IInv, AloneInv, NEW p \in Tx,
         \/ \E s \in Seats, value \in Maintenance : AdminBegin(p, s, value)
         \/ AdminRead(p)
  PROVE  AloneInv'
<1> USE DEF HoldsRow, OfBound, Binding, Reporting, Unbinding
<1>0. tx[p] \in TxRow /\ Current(tx[p], device, seat, binding)
  BY TxType DEF AloneInv
<1>1. ASSUME NEW s \in Seats, NEW value \in Maintenance, AdminBegin(p, s, value)
      PROVE  AloneInv'
  <2> DEFINE row == [Idle EXCEPT !.pc = "adminRead", !.s = s, !.value = value]
  <2>1. row.pc = "adminRead"
    BY DEF Idle
  <2>2. tx' = [tx EXCEPT ![p] = row] /\ UNCHANGED <<device, seat, binding>>
    BY <1>1 DEF AdminBegin, Start
  <2> HIDE DEF row
  <2>3. Current(row, device, seat, binding)
    BY <2>1, NothingRead
  <2> QED BY <2>2, <2>3, AloneReads
<1>2. CASE AdminRead(p)
  <2> DEFINE read == seat[tx[p].s]
             dev == IF read.device = Null THEN Null ELSE device[read.device]
             row == [tx[p] EXCEPT !.pc = "adminCommit", !.row = read, !.dev = dev]
  <2>1. /\ row.pc = "adminCommit" /\ row.s = tx[p].s
        /\ row.row = read /\ row.dev = dev
    BY <1>0 DEF TxRow
  <2>2. tx' = [tx EXCEPT ![p] = row] /\ UNCHANGED <<device, seat, binding>>
    BY <1>2 DEF AdminRead, Continue
  <2> HIDE DEF row
  <2>3. read.device # Null => read.device \in Devices
    <3>1. tx[p].s \in Seats
      BY <1>2, TxType DEF AdminRead, TxOK, OfSeat
    <3> QED BY <3>1, SeatType DEF SeatRow
  <2>4. Current(row, device, seat, binding)
    BY <2>1, <2>3, DeviceType DEF Current, SameDevice
  <2> QED BY <2>2, <2>4, AloneReads
<1> QED BY <1>1, <1>2

(* The threshold passes: only the age of a heartbeat is another.           *)
LEMMA AgesCurrent ==
  ASSUME IInv, AloneInv, NEW d \in Devices, HeartbeatAges(d)
  PROVE  AloneInv'
<1>1. /\ \A e \in Devices : /\ device'[e].seat = device[e].seat
                             /\ device'[e].online = device[e].online
      /\ UNCHANGED <<seat, binding, tx>>
  BY DEF HeartbeatAges, IInv, Rows, DeviceRow
<1>2. BindingsAgree'
  BY <1>1 DEF AloneInv, BindingsAgree, Active
<1>3. OutOfServiceUnavailable'
  <2>1. \A s \in Seats : seat[s].device # Null => seat[s].device \in Devices
    BY SeatType DEF SeatRow
  <2> QED BY <1>1, <2>1 DEF AloneInv, OutOfServiceUnavailable
<1>4. ASSUME NEW q \in Tx PROVE Current(tx[q], device', seat, binding)
  <2>1. Current(tx[q], device, seat, binding) /\ TxOK(tx[q], binding)
    BY TxType DEF AloneInv
  <2>2. tx[q].pc \in OfBound \cup Binding \cup Reporting => tx[q].d \in Devices
    BY <2>1 DEF TxOK, OfDevice, OfBound, Locked, Reporting
  <2>3. tx[q].pc \in {"enableCommit", "adminCommit"} /\ tx[q].row.device # Null
          => tx[q].row.device \in Devices
    <3>1. tx[q].pc \in {"enableCommit", "adminCommit"} =>
            tx[q].s \in Seats /\ tx[q].row = seat[tx[q].s]
      BY <2>1 DEF TxOK, OfSeat, Current, HoldsRow
    <3> QED BY <3>1, SeatType DEF SeatRow
  <2> QED BY <1>1, <2>1, <2>2, <2>3 DEF Current, SameDevice
<1> QED BY <1>1, <1>2, <1>3, <1>4 DEF AloneInv
-----------------------------------------------------------------------------
(* Steps that commit *)

(* A seat out of service takes no bookings.                                *)
Served(row, devices) ==
  (row.maintenance \/ (row.device # Null /\ ~devices[row.device].online))
    => ~row.available

LEMMA ShownFields ==
  ASSUME NEW row \in SeatRow, NEW reason
  PROVE  /\ Shown(row, reason).available = (reason = Null)
         /\ Shown(row, reason).device = row.device
         /\ Shown(row, reason).maintenance = row.maintenance
         /\ [Shown(row, reason) EXCEPT !.device = Null].available = (reason = Null)
BY DEF Shown, SeatRow

(* The row of one seat is committed; the devices of the others do not go   *)
(* offline.                                                                *)
LEMMA SeatServed ==
  ASSUME IInv, OutOfServiceUnavailable, NEW s \in Seats, NEW row,
         seat' = [seat EXCEPT ![s] = row], Served(row, device'),
         \A q \in Seats \ {s} : seat[q].device # Null /\ device[seat[q].device].online
           => device'[seat[q].device].online
  PROVE  OutOfServiceUnavailable'
<1>1. \A q \in Seats : seat'[q] = IF q = s THEN row ELSE seat[q]
  BY DEF IInv, SeatsOK
<1> QED BY <1>1 DEF OutOfServiceUnavailable, Served

(* No binding is made or dissolved.                                        *)
LEMMA AgreeKept ==
  ASSUME BindingsAgree, binding' = binding,
         \A d \in Devices : device'[d].seat = device[d].seat,
         \A s \in Seats : seat'[s].device = seat[s].device
  PROVE  BindingsAgree'
BY DEF BindingsAgree, Active

(* A seat row is committed and no binding is made or dissolved.            *)
LEMMA RowCommits ==
  ASSUME IInv, AloneInv, NEW p \in Tx, OthersIdle(p), NEW s \in Seats, NEW row, NEW rest,
         CommitSeat(p, s, row, rest), rest.pc \in {"idle", "scan"}, binding' = binding,
         row.device = seat[s].device, Served(row, device'),
         \A d \in Devices : device'[d].seat = device[d].seat,
         \A q \in Seats \ {s} : seat[q].device # Null /\ device[seat[q].device].online
           => device'[seat[q].device].online
  PROVE  AloneInv'
<1>1. /\ tx'[p].pc \in {"idle", "scan"} /\ seat' = [seat EXCEPT ![s] = row]
      /\ OthersStay(p)
  BY DEF CommitSeat, OthersStay
<1>2. OutOfServiceUnavailable'
  BY <1>1, SeatServed DEF AloneInv
<1>3. \A q \in Seats : seat'[q].device = seat[q].device
  BY <1>1 DEF IInv, SeatsOK
<1>4. BindingsAgree'
  BY <1>3, AgreeKept DEF AloneInv
<1> QED BY <1>1, <1>2, <1>4, AloneCommits

(* A device is bound to the seat that is bound to it.                      *)
LEMMA BoundBack ==
  ASSUME BindingsAgree, NEW d \in Devices, NEW s \in Seats
  PROVE  device[d].seat = s <=> seat[s].device = d
BY DEF BindingsAgree

LEMMA HeartbeatCommitAlone ==
  ASSUME IInv, AloneInv, NEW p \in Tx, OthersIdle(p), HeartbeatCommit(p)
  PROVE  AloneInv'
<1> DEFINE t == tx[p]
<1>1. /\ t.d \in Devices /\ t.s \in Seats \cup {Null} /\ t.s = device[t.d].seat
      /\ t.s # Null => t.row = seat[t.s]
  BY TxType DEF HeartbeatCommit, AloneInv, Current, OfBound, TxOK, TxRow, OfDevice, Locked
<1>2. /\ \A d \in Devices : device'[d].seat = device[d].seat
      /\ device'[t.d].online /\ binding' = binding
  BY <1>1 DEF HeartbeatCommit, IInv, Rows, DeviceRow
<1>0. \A d \in Devices : device[d].online => device'[d].online
  BY <1>1 DEF HeartbeatCommit, IInv, Rows, DeviceRow
<1>3. \A q \in Seats : seat[q].device # Null /\ device[seat[q].device].online
        => device'[seat[q].device].online
  BY <1>0, SeatType DEF SeatRow
<1>4. CASE t.s = Null
  <2>1. /\ tx'[p].pc = "idle" /\ seat' = seat
        /\ OthersStay(p)
    BY <1>4, IdlePc DEF HeartbeatCommit, Continue, IInv, TxsOK, OthersStay
  <2>2. BindingsAgree'
    <3>1. \A q \in Seats : seat'[q].device = seat[q].device
      BY <2>1
    <3> QED BY <1>2, <3>1, AgreeKept DEF AloneInv
  <2>3. OutOfServiceUnavailable'
    BY <1>3, <2>1 DEF AloneInv, OutOfServiceUnavailable
  <2> QED BY <2>1, <2>2, <2>3, AloneCommits
<1>5. CASE t.s # Null
  <2> DEFINE row == OnlineSeat(t.s, t.row)
  <2>1. t.s \in Seats /\ seat[t.s] \in SeatRow /\ seat[t.s].device = t.d
    BY <1>1, <1>5, SeatType, BoundBack DEF AloneInv
  <2>2. CommitSeat(p, t.s, row, Idle)
    BY <1>5 DEF HeartbeatCommit
  <2>3. row.device = t.d
    BY <2>1, ShownFields DEF OnlineSeat
  <2>4. row.maintenance => ~row.available
    BY <1>1, <1>5, <2>1, ShownFields, RowAssumption
       DEF OnlineSeat, ReasonWhenOnline, Reason
  <2> HIDE DEF row
  <2>5. Served(row, device')
    BY <1>2, <2>3, <2>4 DEF Served
  <2>6. row.device = seat[t.s].device
    BY <2>1, <2>3
  <2> HIDE DEF t
  <2> QED BY <1>2, <1>3, <2>1, <2>2, <2>5, <2>6, IdlePc, RowCommits
<1> QED BY <1>4, <1>5

LEMMA ScanCommitAlone ==
  ASSUME IInv, AloneInv, NEW p \in Tx, OthersIdle(p), ScanCommit(p)
  PROVE  AloneInv'
<1> DEFINE t == tx[p]
<1>1. /\ t.d \in Devices /\ t.s \in Seats \cup {Null} /\ t.s = device[t.d].seat
      /\ t.s # Null => t.row = seat[t.s]
  BY TxType DEF ScanCommit, AloneInv, Current, OfBound, TxOK, TxRow, OfDevice, Locked
<1>2. (\A d \in Devices : device'[d].seat = device[d].seat) /\ binding' = binding
  BY <1>1 DEF ScanCommit, OfflineDevice, IInv, Rows, DeviceRow
<1>0. \A d \in Devices \ {t.d} : device'[d] = device[d]
  BY <1>1 DEF ScanCommit, IInv, Rows
<1>4. \A q \in Seats : seat[q].device = t.d => q = t.s
  BY <1>1, BoundBack DEF AloneInv
<1>3. \A q \in Seats \ {t.s} : seat[q].device # Null =>
        device'[seat[q].device] = device[seat[q].device]
  BY <1>0, <1>4, SeatType DEF SeatRow
<1>5. CASE t.s = Null
  <2>1. /\ tx'[p].pc \in {"idle", "scan"} /\ seat' = seat
        /\ OthersStay(p)
    BY <1>5, RestPc DEF ScanCommit, Continue, IInv, TxsOK, OthersStay
  <2>2. BindingsAgree'
    <3>1. \A q \in Seats : seat'[q].device = seat[q].device
      BY <2>1
    <3> QED BY <1>2, <3>1, AgreeKept DEF AloneInv
  <2>3. \A q \in Seats : q # t.s
    BY <1>5, NullAssumption
  <2>4. OutOfServiceUnavailable'
    BY <1>3, <2>1, <2>3 DEF AloneInv, OutOfServiceUnavailable
  <2> QED BY <2>1, <2>2, <2>4, AloneCommits
<1>6. CASE t.s # Null
  <2> DEFINE row == OfflineSeat(t.s, t.row)
  <2>1. t.s \in Seats /\ seat[t.s] \in SeatRow
    BY <1>1, <1>6, SeatType
  <2>2. CommitSeat(p, t.s, row, Rest(t))
    BY <1>6 DEF ScanCommit
  <2>3. row.device = seat[t.s].device /\ ~row.available
    BY <2>1, ShownFields, RowAssumption DEF OfflineSeat, Reason
  <2> HIDE DEF row
  <2>4. Served(row, device')
    BY <2>3 DEF Served
  <2>5. \A q \in Seats \ {t.s} : seat[q].device # Null /\ device[seat[q].device].online
          => device'[seat[q].device].online
    BY <1>3
  <2>6. Rest(t).pc \in {"idle", "scan"}
    BY RestPc
  <2> HIDE DEF t
  <2> QED BY <1>2, <2>1, <2>2, <2>3, <2>4, <2>5, <2>6, RowCommits
<1> QED BY <1>5, <1>6
(* The device and the seat of a new binding were bound to no other.        *)
LEMMA NewBinding ==
  ASSUME BindingsAgree, NEW d \in Devices, NEW s \in Seats, NEW b \in BindingIds,
         IndexAllows(d, s), binding[b] = Null, binding \in [BindingIds -> BindingRow \cup {Null}],
         binding' = [binding EXCEPT ![b] = [device |-> d, seat |-> s, active |-> TRUE]],
         \A e \in Devices : device'[e].seat = IF e = d THEN s ELSE device[e].seat,
         \A q \in Seats : seat'[q].device = IF q = s THEN d ELSE seat[q].device
  PROVE  BindingsAgree'
<1> DEFINE bound(e, q) == \E c \in BindingIds :
             Active(c) /\ binding[c].device = e /\ binding[c].seat = q
           boundThen(e, q) == \E c \in BindingIds :
             Active(c)' /\ binding'[c].device = e /\ binding'[c].seat = q
<1>1. [device |-> d, seat |-> s, active |-> TRUE] # Null
  <2>1. [device |-> d, seat |-> s, active |-> TRUE] \in BindingRow
    BY DEF BindingRow
  <2> QED BY <2>1, RowAssumption
<1>2. \A c \in BindingIds \ {b} : binding'[c] = binding[c]
  OBVIOUS
<1>3. Active(b)' /\ binding'[b].device = d /\ binding'[b].seat = s /\ ~Active(b)
  BY <1>1 DEF Active
<1>4. \A c \in BindingIds \ {b} : Active(c)' <=> Active(c)
  BY <1>2 DEF Active
<1>5. \A e, q : boundThen(e, q) <=> bound(e, q) \/ (e = d /\ q = s)
  BY <1>2, <1>3, <1>4
<1>6. \A e, q : bound(e, q) => e # d /\ q # s
  BY DEF IndexAllows
<1>7. \A e \in Devices, q \in Seats :
        (device[e].seat = q <=> bound(e, q)) /\ (seat[q].device = e <=> bound(e, q))
  BY DEF BindingsAgree
<1> HIDE DEF bound
<1>8. \A e \in Devices, q \in Seats :
        /\ device'[e].seat = q <=> boundThen(e, q)
        /\ seat'[q].device = e <=> boundThen(e, q)
  <2> HIDE DEF boundThen
  <2> QED BY <1>5, <1>6, <1>7
<1> QED BY <1>8 DEF BindingsAgree, Active

(* No other binding held what an unbinding frees.                          *)
LEMMA OldBinding ==
  ASSUME IInv, BindingsAgree, NEW d \in Devices, NEW s \in Seats, NEW b \in BindingIds,
         BoundBy(b, d, s, binding),
         binding' = [binding EXCEPT ![b].active = FALSE],
         \A e \in Devices : device'[e].seat = IF e = d THEN Null ELSE device[e].seat,
         \A q \in Seats : seat'[q].device = IF q = s THEN Null ELSE seat[q].device
  PROVE  BindingsAgree'
<1> DEFINE bound(e, q) == \E c \in BindingIds :
             Active(c) /\ binding[c].device = e /\ binding[c].seat = q
           boundThen(e, q) == \E c \in BindingIds :
             Active(c)' /\ binding'[c].device = e /\ binding'[c].seat = q
<1>1. binding[b] \in BindingRow /\ Active(b)
  BY DEF BoundBy, Active, IInv, BindingsOK
<1>2. \A c \in BindingIds \ {b} : binding'[c] = binding[c]
  BY DEF IInv, BindingsOK
<1>3. ~Active(b)'
  BY <1>1 DEF Active, BindingRow, IInv, BindingsOK
<1>4. \A c \in BindingIds \ {b} : Active(c)' <=> Active(c)
  BY <1>2 DEF Active
<1>5. \A c \in BindingIds \ {b} : Active(c) =>
        binding[c].device # d /\ binding[c].seat # s
  BY <1>1 DEF BoundBy, IInv, BindingsOK, ActiveBindingsUnique
<1>6. binding[b].device = d /\ binding[b].seat = s
  BY DEF BoundBy
<1>7. \A e, q : boundThen(e, q) <=> bound(e, q) /\ e # d /\ q # s
  BY <1>2, <1>3, <1>4, <1>5, <1>6
<1>8. \A e \in Devices, q \in Seats :
        (device[e].seat = q <=> bound(e, q)) /\ (seat[q].device = e <=> bound(e, q))
  BY DEF BindingsAgree
<1>9. \A e, q : bound(e, q) => (e = d <=> q = s)
  BY <1>5, <1>6
<1> HIDE DEF bound
<1>10. \A e \in Devices, q \in Seats :
        /\ device'[e].seat = q <=> boundThen(e, q)
        /\ seat'[q].device = e <=> boundThen(e, q)
  <2> HIDE DEF boundThen
  <2> QED BY <1>7, <1>8, <1>9, NullAssumption
<1> QED BY <1>10 DEF BindingsAgree, Active

LEMMA BindCommitAlone ==
  ASSUME IInv, AloneInv, NEW p \in Tx, OthersIdle(p), BindCommit(p)
  PROVE  AloneInv'
<1> DEFINE t == tx[p]
           shown == Shown(seat[t.s], BoundReason(t.row, t.dev))
           row == [shown EXCEPT !.device = t.d]
<1>1. /\ t.d \in Devices /\ t.s \in Seats /\ t.row = seat[t.s]
      /\ SameDevice(t.dev, t.d, device)
      /\ t.b # Null => BoundBy(t.b, t.d, t.s, binding)
      /\ t.b \in BindingIds \cup {Null}
  BY TxType DEF BindCommit, AloneInv, Current, HoldsRow, Binding, TxOK, TxRow, OfDevice, OfSeat
<1>2. seat[t.s] \in SeatRow /\ device[t.d] \in DeviceRow
  BY <1>1, SeatType, DeviceType
<1>3. CASE Continue(p, Idle) /\ UNCHANGED <<device, seat, binding>>
  <2>1. tx' = [tx EXCEPT ![p] = Idle]
    BY <1>3 DEF Continue
  <2>2. Current(Idle, device, seat, binding)
    BY IdlePc, NothingRead
  <2> QED BY <1>3, <2>1, <2>2, AloneReads
<1>4. ASSUME BindWrite(p), \/ t.b # Null /\ UNCHANGED binding
                           \/ /\ IndexAllows(t.d, t.s)
                              /\ \E b \in BindingIds :
                                   /\ binding[b] = Null
                                   /\ binding' = [binding EXCEPT ![b] =
                                        [device |-> t.d, seat |-> t.s, active |-> TRUE]]
      PROVE  AloneInv'
  <2>1. CommitSeat(p, t.s, row, Idle) /\ device' = [device EXCEPT ![t.d].seat = t.s]
    BY <1>4 DEF BindWrite
  <2>2. /\ row.device = t.d /\ row.maintenance = seat[t.s].maintenance
        /\ row.available = (BoundReason(t.row, t.dev) = Null)
    BY <1>2 DEF Shown, SeatRow
  <2>3. \A d \in Devices : device'[d].seat = IF d = t.d THEN t.s ELSE device[d].seat
    BY <1>1, <2>1 DEF IInv, Rows, DeviceRow
  <2>4. \A d \in Devices : device'[d].online = device[d].online
    BY <1>1, <2>1 DEF IInv, Rows, DeviceRow
  <2>5. Served(row, device')
    <3>1. BoundReason(t.row, t.dev) = Null =>
            ~seat[t.s].maintenance /\ device[t.d].online
      BY <1>1, <1>2, RowAssumption DEF BoundReason, SameDevice, SeatRow, DeviceRow, Reason
    <3>2. device'[t.d].online = device[t.d].online
      BY <1>1, <2>4
    <3> HIDE DEF row, t
    <3> QED BY <2>2, <3>1, <3>2 DEF Served
  <2> HIDE DEF row
  <2>6. \A q \in Seats : seat'[q].device = IF q = t.s THEN t.d ELSE seat[q].device
    BY <1>1, <2>1, <2>2 DEF CommitSeat, IInv, SeatsOK
  <2>7. BindingsAgree'
    <3>1. CASE t.b # Null /\ UNCHANGED binding
      <4>1. device[t.d].seat = t.s /\ seat[t.s].device = t.d
        BY <1>1, <3>1 DEF AloneInv, BindingsAgree, BoundBy, Active
      <4>2. /\ \A d \in Devices : device'[d].seat = device[d].seat
            /\ \A q \in Seats : seat'[q].device = seat[q].device
        BY <2>3, <2>6, <4>1
      <4> QED BY <3>1, <4>2, AgreeKept DEF AloneInv
    <3>2. ASSUME NEW b \in BindingIds, IndexAllows(t.d, t.s), binding[b] = Null,
                 binding' = [binding EXCEPT ![b] =
                   [device |-> t.d, seat |-> t.s, active |-> TRUE]]
          PROVE  BindingsAgree'
      <4>1. binding \in [BindingIds -> BindingRow \cup {Null}]
        BY DEF IInv, BindingsOK
      <4> HIDE DEF t
      <4> QED BY <1>1, <2>3, <2>6, <3>2, <4>1, NewBinding DEF AloneInv
    <3> QED BY <1>4, <3>1, <3>2
  <2>8. OutOfServiceUnavailable'
    <3>1. \A q \in Seats \ {t.s} : seat[q].device # Null /\ device[seat[q].device].online
            => device'[seat[q].device].online
      BY <2>4, SeatType DEF SeatRow
    <3>2. seat' = [seat EXCEPT ![t.s] = row]
      BY <2>1 DEF CommitSeat
    <3> QED BY <1>1, <2>5, <3>1, <3>2, SeatServed DEF AloneInv
  <2>9. /\ tx'[p].pc \in {"idle", "scan"}
        /\ OthersStay(p)
    BY <2>1, IdlePc DEF CommitSeat, OthersStay
  <2> QED BY <2>7, <2>8, <2>9, AloneCommits
<1> QED BY <1>3, <1>4 DEF BindCommit
LEMMA UnbindCommitAlone ==
  ASSUME IInv, AloneInv, NEW p \in Tx, OthersIdle(p), UnbindCommit(p)
  PROVE  AloneInv'
<1> DEFINE t == tx[p]
           shown == Shown(seat[t.s], ReasonWhenOnline(t.row))
           row == [shown EXCEPT !.device = Null]
<1>1. /\ t.d \in Devices /\ t.s \in Seats /\ t.b \in BindingIds /\ t.row = seat[t.s]
      /\ BoundBy(t.b, t.d, t.s, binding)
  BY TxType DEF UnbindCommit, AloneInv, Current, HoldsRow, Unbinding, TxOK, OfDevice,
                OfSeat, Locked
<1>2. seat[t.s] \in SeatRow
  BY <1>1, SeatType
<1>3. seat[t.s].device = t.d
  BY <1>1 DEF AloneInv, BindingsAgree, BoundBy, Active
<1>4. /\ CommitSeat(p, t.s, row, Idle) /\ binding' = [binding EXCEPT ![t.b].active = FALSE]
      /\ device' = [device EXCEPT ![t.d] = UnboundDevice(t.d)]
  BY <1>1, <1>3 DEF UnbindCommit
<1>5. /\ row.device = Null /\ row.maintenance = seat[t.s].maintenance
      /\ row.available = (ReasonWhenOnline(t.row) = Null)
  BY <1>2 DEF Shown, SeatRow
<1>6. Served(row, device')
  <2>1. ReasonWhenOnline(t.row) = Null => ~seat[t.s].maintenance
    BY <1>1, RowAssumption DEF ReasonWhenOnline, Reason
  <2> HIDE DEF row, t
  <2> QED BY <1>5, <2>1 DEF Served
<1> HIDE DEF row
<1>7. /\ \A d \in Devices : device'[d].seat = IF d = t.d THEN Null ELSE device[d].seat
      /\ \A q \in Seats : seat'[q].device = IF q = t.s THEN Null ELSE seat[q].device
  BY <1>1, <1>4, <1>5 DEF UnboundDevice, CommitSeat, IInv, Rows, SeatsOK, DeviceRow
<1>8. BindingsAgree'
  <2> HIDE DEF t
  <2> QED BY <1>1, <1>4, <1>7, OldBinding DEF AloneInv
<1>9. OutOfServiceUnavailable'
  <2>1. \A d \in Devices : device'[d].online = device[d].online
    BY <1>1, <1>4 DEF UnboundDevice, IInv, Rows, DeviceRow
  <2>2. \A q \in Seats \ {t.s} : seat[q].device # Null /\ device[seat[q].device].online
          => device'[seat[q].device].online
    BY <2>1, SeatType DEF SeatRow
  <2>3. seat' = [seat EXCEPT ![t.s] = row]
    BY <1>4 DEF CommitSeat
  <2> QED BY <1>1, <1>6, <2>2, <2>3, SeatServed DEF AloneInv
<1>10. /\ tx'[p].pc \in {"idle", "scan"}
       /\ OthersStay(p)
  BY <1>4, IdlePc DEF CommitSeat, OthersStay
<1> QED BY <1>8, <1>9, <1>10, AloneCommits

(* A seat row is committed, of the device it had, and no device row.       *)
LEMMA SeatRowCommits ==
  ASSUME IInv, AloneInv, NEW p \in Tx, OthersIdle(p), NEW s \in Seats, NEW row,
         CommitSeat(p, s, row, Idle), UNCHANGED <<device, binding>>,
         row.device = seat[s].device, Served(row, device)
  PROVE  AloneInv'
<1>1. Served(row, device')
  BY DEF Served
<1>2. \A d \in Devices : device'[d].seat = device[d].seat
  OBVIOUS
<1>3. \A q \in Seats \ {s} : seat[q].device # Null /\ device[seat[q].device].online
        => device'[seat[q].device].online
  OBVIOUS
<1> QED BY <1>1, <1>2, <1>3, IdlePc, RowCommits

LEMMA SwitchAlone ==
  ASSUME IInv, AloneInv, NEW p \in Tx, OthersIdle(p),
         (\E s \in Seats : DisableSeat(p, s)) \/ EnableCommit(p)
  PROVE  AloneInv'
<1>1. ASSUME NEW s \in Seats, DisableSeat(p, s) PROVE AloneInv'
  <2> DEFINE row == [Shown(seat[s], "ADMIN_MAINTENANCE") EXCEPT !.maintenance = TRUE]
  <2>1. row.device = seat[s].device /\ ~row.available
    BY SeatType, RowAssumption DEF Shown, SeatRow, Reason
  <2>2. CommitSeat(p, s, row, Idle) /\ UNCHANGED <<device, binding>>
    BY <1>1 DEF DisableSeat
  <2> HIDE DEF row
  <2>3. Served(row, device)
    BY <2>1 DEF Served
  <2> QED BY <2>1, <2>2, <2>3, SeatRowCommits
<1>2. CASE EnableCommit(p)
  <2> DEFINE t == tx[p]
             row == [Shown(seat[t.s], EnabledReason(t.dev)) EXCEPT !.maintenance = FALSE]
  <2>1. /\ t.s \in Seats /\ t.row = seat[t.s]
        /\ IF t.row.device = Null THEN t.dev = Null
                                  ELSE SameDevice(t.dev, t.row.device, device)
    BY <1>2, TxType DEF EnableCommit, AloneInv, Current, HoldsRow, TxOK, OfSeat
  <2>2. /\ row.device = seat[t.s].device /\ ~row.maintenance
        /\ row.available = (EnabledReason(t.dev) = Null)
    BY <2>1, SeatType DEF Shown, SeatRow
  <2>3. CommitSeat(p, t.s, row, Idle) /\ UNCHANGED <<device, binding>>
    BY <1>2 DEF EnableCommit
  <2>4. EnabledReason(t.dev) = Null /\ seat[t.s].device # Null
          => device[seat[t.s].device].online
    BY <2>1, RowAssumption DEF EnabledReason, Offline, SameDevice, Reason
  <2> HIDE DEF row, t
  <2>5. Served(row, device)
    BY <2>2, <2>4 DEF Served
  <2> QED BY <2>1, <2>2, <2>3, <2>5, SeatRowCommits
<1> QED BY <1>1, <1>2

LEMMA ReportCommitAlone ==
  ASSUME IInv, AloneInv, NEW p \in Tx, OthersIdle(p), ReportCommit(p)
  PROVE  AloneInv'
<1> DEFINE t == tx[p]
           shown == ReportedSeat(t.s, t.row, t.dev, t.value)
           row == [shown EXCEPT !.presence = t.value]
<1>1. /\ t.d \in Devices /\ t.s \in Seats /\ t.row = seat[t.s]
      /\ t.s = device[t.d].seat /\ SameDevice(t.dev, t.d, device)
  BY TxType DEF ReportCommit, AloneInv, Current, HoldsRow, OfBound, Reporting, TxOK, OfDevice,
                OfSeat
<1>2. seat[t.s] \in SeatRow /\ seat[t.s].device = t.d /\ device[t.d] \in DeviceRow
  BY <1>1, SeatType, DeviceType, BoundBack DEF AloneInv
<1>3. Served(seat[t.s], device)
  BY <1>1 DEF AloneInv, OutOfServiceUnavailable, Served
<1>4. \/ shown = seat[t.s]
      \/ shown = Shown(seat[t.s], "SENSOR_ERROR")
      \/ /\ ~seat[t.s].maintenance /\ device[t.d].online
         /\ shown = Shown(seat[t.s], Null)
  BY <1>1 DEF ReportedSeat, SameDevice
<1>5. shown \in SeatRow /\ shown.device = seat[t.s].device /\ Served(shown, device)
  <2>1. CASE shown = seat[t.s]
    BY <1>2, <1>3, <2>1
  <2>2. CASE shown = Shown(seat[t.s], "SENSOR_ERROR")
    <3>1. "SENSOR_ERROR" \in Reason /\ "SENSOR_ERROR" # Null
      BY RowAssumption DEF Reason
    <3>2. Shown(seat[t.s], "SENSOR_ERROR") \in SeatRow
      BY <1>2, <3>1, ShownOK DEF SeatOK
    <3>3. /\ Shown(seat[t.s], "SENSOR_ERROR").device = seat[t.s].device
          /\ ~Shown(seat[t.s], "SENSOR_ERROR").available
      BY <1>2, <3>1, ShownFields
    <3> HIDE DEF shown, t
    <3> QED BY <2>2, <3>2, <3>3 DEF Served
  <2>3. CASE ~seat[t.s].maintenance /\ device[t.d].online /\ shown = Shown(seat[t.s], Null)
    <3>1. /\ Shown(seat[t.s], Null).device = seat[t.s].device
          /\ Shown(seat[t.s], Null).maintenance = seat[t.s].maintenance
          /\ Shown(seat[t.s], Null) \in SeatRow
      BY <1>2, ShownFields, ShownOK DEF SeatOK
    <3> HIDE DEF shown, t
    <3> QED BY <1>2, <2>3, <3>1 DEF Served
  <2> QED BY <1>4, <2>1, <2>2, <2>3
<1>6. CommitSeat(p, t.s, row, Idle) /\ UNCHANGED <<device, binding>>
  BY DEF ReportCommit
<1> HIDE DEF shown, t
<1>7. /\ row.device = shown.device /\ row.maintenance = shown.maintenance
      /\ row.available = shown.available
  BY <1>5 DEF SeatRow
<1> HIDE DEF row
<1>8. Served(row, device)
  BY <1>5, <1>7 DEF Served
<1> QED BY <1>1, <1>5, <1>6, <1>7, <1>8, SeatRowCommits

LEMMA AdminCommitAlone ==
  ASSUME IInv, AloneInv, NEW p \in Tx, OthersIdle(p), AdminCommit(p)
  PROVE  AloneInv'
<1> DEFINE t == tx[p]
           maintenance == MaintenanceAfter(t)
           reason == RestoredReason(t.row, t.dev, maintenance)
           row == [Shown(seat[t.s], reason) EXCEPT !.maintenance = maintenance]
<1>1. /\ t.s \in Seats /\ t.row = seat[t.s]
      /\ IF t.row.device = Null THEN t.dev = Null
                                ELSE SameDevice(t.dev, t.row.device, device)
  BY TxType DEF AdminCommit, AloneInv, Current, HoldsRow, TxOK, OfSeat
<1>2. maintenance \in BOOLEAN
  BY <1>1, SeatType DEF MaintenanceAfter, SeatRow
<1>3. /\ row.device = seat[t.s].device /\ row.maintenance = maintenance
      /\ row.available = (reason = Null)
  BY <1>1, SeatType DEF Shown, SeatRow
<1>4. CommitSeat(p, t.s, row, Idle) /\ UNCHANGED <<device, binding>>
  BY DEF AdminCommit
<1> HIDE DEF row, maintenance
<1>5. reason = Null => ~maintenance /\ ~Offline(t.dev)
  BY <1>2, RowAssumption DEF RestoredReason, Reason
<1>6. seat[t.s].device # Null /\ ~Offline(t.dev) => device[seat[t.s].device].online
  BY <1>1, RowAssumption DEF Offline, SameDevice
<1> HIDE DEF reason, t
<1>7. Served(row, device)
  BY <1>3, <1>5, <1>6 DEF Served
<1> QED BY <1>1, <1>3, <1>4, <1>7, SeatRowCommits

LEMMA NextAlone ==
  ASSUME IInv, AloneInv, [AloneNext]_vars
  PROVE  AloneInv'
<1>1. ASSUME NEW p \in Tx, OthersIdle(p), Step(p) PROVE AloneInv'
  BY <1>1, HeartbeatCurrent, HeartbeatCommitAlone, ScanCurrent, ScanCommitAlone, BindCurrent,
     BindCommitAlone, UnbindCurrent, UnbindCommitAlone, EnableCurrent, SwitchAlone,
     ReportCurrent, ReportCommitAlone, AdminCurrent, AdminCommitAlone DEF Step, Scan
<1>2. ASSUME NEW p \in Tx, OthersIdle(p), Begin(p) PROVE AloneInv'
  <2>1. ASSUME NEW d \in Devices, NEW value \in Maintenance,
               DeviceMaintenanceBegin(p, d, value)
        PROVE  AloneInv'
    BY <2>1, DeviceType, AdminCurrent DEF DeviceMaintenanceBegin
  <2>2. CASE BindingBegin(p)
    BY <2>2, HeartbeatCurrent, BindCurrent, UnbindCurrent DEF BindingBegin
  <2>3. CASE MaintenanceBegin(p)
    BY <2>1, <2>3, AdminCurrent DEF MaintenanceBegin
  <2> QED BY <1>2, <2>2, <2>3, EnableCurrent, SwitchAlone, ReportCurrent
          DEF Begin, RecordedBegin
<1>3. ASSUME NEW p \in Tx, ScanBegin(p) PROVE AloneInv'
  BY <1>3, ScanCurrent
<1>4. ASSUME NEW d \in Devices, HeartbeatAges(d) PROVE AloneInv'
  BY <1>4, AgesCurrent
<1>5. CASE UNCHANGED vars
  BY <1>5 DEF vars, AloneInv, BindingsAgree, Active, OutOfServiceUnavailable, Current,
              SameDevice, BoundBy
<1> QED BY <1>1, <1>2, <1>3, <1>4, <1>5 DEF AloneNext, Tx

LEMMA AloneIsNext == ASSUME [AloneNext]_vars PROVE [Next]_vars
BY DEF AloneNext, Next

LEMMA InitAlone == ASSUME Init PROVE AloneInv
<1>1. \A b \in BindingIds : ~Active(b)
  BY DEF Init, Active
<1>2. BindingsAgree
  BY <1>1, NullAssumption DEF Init, BindingsAgree
<1>3. OutOfServiceUnavailable
  BY DEF Init, OutOfServiceUnavailable
<1>4. \A p \in Tx : Current(tx[p], device, seat, binding)
  BY IdlePc, NothingRead DEF Init
<1> QED BY <1>2, <1>3, <1>4 DEF AloneInv

(* Requests, messages and scans that do not overlap keep the three records *)
(* of a binding in step, whatever their sequence: devices.seat_id,         *)
(* seats.device_id and the active row of device_seat_bindings.             *)
THEOREM BindingsAgreeAlone == Init /\ [][AloneNext]_vars => []BindingsAgree
<1>1. AloneInv => BindingsAgree
  BY DEF AloneInv
<1> QED BY <1>1, InitAlone, NextAlone, AloneIsNext, Invariance, PTL DEF Spec

(* Nor do they ever leave a seat bookable that is under maintenance or     *)
(* whose device is offline, whichever of the eight writers of its          *)
(* availability wrote last.                                                *)
THEOREM OutOfServiceAlone == Init /\ [][AloneNext]_vars => []OutOfServiceUnavailable
<1>1. AloneInv => OutOfServiceUnavailable
  BY DEF AloneInv
<1> QED BY <1>1, InitAlone, NextAlone, AloneIsNext, Invariance, PTL DEF Spec
=============================================================================
