------------------------------ MODULE MCSeats ------------------------------
(***************************************************************************)
(* One run over SeatDevice, under three restrictions, and PresenceWindow,  *)
(* which decides what a seat's presence reports amount to.  A behaviour is *)
(* of the kind that part names:                                            *)
(*   bindings   heartbeats, binding and unbinding overlap                  *)
(*   upkeep     administrators' transactions overlap these and each other  *)
(*   alone      one request or scan at a time, of every kind               *)
(*   window     readings of the devices in any order of their timestamps   *)
(***************************************************************************)
EXTENDS SeatDevice, TLC

CONSTANTS
  MaxAsked,     \* bound: seats that overlapping requests are about
  MaxBound,     \* bound: bindings that they make
  Statuses, Given, Threshold, Suspicious, Reporters, MaxReadings, MaxTime,
  InOrder       \* PresenceWindow's, whose Tasks are the Reporters

VARIABLES part, readings, presence, sensor, bound, now, task

seats == <<device, seat, binding, opened, logged, tx>>
window == <<readings, presence, sensor, bound, now, task>>
all == <<part, seats, window>>

Readings == INSTANCE PresenceWindow WITH Tasks <- Reporters

ASSUME ReadingsAssumption ==
  /\ Readings!NullAssumption /\ Readings!InputAssumption
  /\ Readings!ThresholdAssumption /\ Readings!BoundAssumption

(* Thresholds for the run, in steps of the shortest.                       *)
StableAfter == [PRESENT |-> 1, ABSENT |-> 2, UNKNOWN |-> 1, ERROR |-> 2]
SuspiciousAfter == [PRESENT |-> 3, ABSENT |-> 3, UNKNOWN |-> 2, ERROR |-> 2]

NoReadings ==
  readings = Null /\ presence = Null /\ sensor = Null /\ bound = Null
  /\ now = Null /\ task = Null

AllInit ==
  \/ part \in {"bindings", "upkeep", "alone"} /\ Init /\ NoReadings
  \/ part = "window" /\ Init /\ Readings!Init

(* Of overlapping requests a run tries those about a few seats.            *)
Inserted == {b \in BindingIds : binding[b] # Null}
Asked ==
  {s \in Seats :
     \/ seat[s].maintenance
     \/ \E p \in Tx : tx[p].s = s
     \/ \E b \in Inserted : binding[b].seat = s}
Inserting == {p \in Tx : tx[p].pc \in Binding}
Narrow ==
  /\ Cardinality(Asked) <= MaxAsked
  /\ Cardinality(Inserted) + Cardinality(Inserting) <= MaxBound

BindingsNext ==
  \/ \E p \in Tx : Step(p)
  \/ \E p \in Requests : BindingBegin(p)
  \/ \E d \in Devices : HeartbeatAges(d)

UpkeepNext == BindingsNext \/ \E p \in Requests : MaintenanceBegin(p)

AllNext ==
  \/ part = "bindings" /\ BindingsNext /\ Narrow' /\ UNCHANGED <<part, window>>
  \/ part = "upkeep" /\ UpkeepNext /\ Narrow' /\ UNCHANGED <<part, window>>
  \/ part = "alone" /\ AloneNext /\ UNCHANGED <<part, window>>
  \/ part = "window" /\ Readings!Next /\ UNCHANGED <<part, seats>>

AllSpec == AllInit /\ [][AllNext]_all

Symmetry == Permutations(Devices) \cup Permutations(Seats)
              \cup Permutations(BindingIds) \cup Permutations(Requests)

-----------------------------------------------------------------------------
(* The properties of the modules, each in the parts it is about;           *)
(* ActiveBindingsUnique holds in all of them.                              *)

(* The type invariants of SeatDevice and PresenceWindow.                   *)
Types ==
  /\ TypeOK
  /\ part = "window" => Readings!TypeOK

(* SeatDevice's BindingsAgree while requests come one at a time: the three *)
(* records the services keep of a binding say the same.                    *)
AloneBindingsAgree == part = "alone" => BindingsAgree

(* SeatDevice's OutOfServiceUnavailable while requests and scans come one  *)
(* at a time: whatever their sequence, seats out of service take no        *)
(* bookings.                                                               *)
AloneOutOfServiceUnavailable == part = "alone" => OutOfServiceUnavailable

(* SeatDevice's RecordTellsMaintenance: the Serializable transactions of   *)
(* two administrators keep flag and open record together.                  *)
RecordsTellMaintenance == part = "upkeep" => RecordTellsMaintenance

(* PresenceWindow's EvaluationSound and EvaluationComplete: evaluate finds *)
(* a presence stable exactly when the readings gave it throughout.         *)
EvaluationExact ==
  part = "window" => Readings!EvaluationSound /\ Readings!EvaluationComplete

(* PresenceWindow's SuspicionSound: the anomaly scan finds no presence of  *)
(* long standing that the readings interrupt.                              *)
SuspicionsSound == part = "window" => Readings!SuspicionSound
=============================================================================
