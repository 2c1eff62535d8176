----------------------------- MODULE SeatsProofs -----------------------------
(***************************************************************************)
(* Theorems about seats and the presence their sensors report, for every   *)
(* number of devices, seats, requests and readings.  First, about          *)
(* PresenceWindow as MCSeats instantiates it (its constants are those of   *)
(* MCSeats, and take any value): the evaluation of readings is exact, and  *)
(* the rule of the anomaly scan sound, in any order of arrival and for any *)
(* thresholds.  Both are properties of the queries; what has to be shown   *)
(* of them is that the latest reading until an instant exists, which is    *)
(* where the order of the natural numbers comes in.  Then, about the       *)
(* behaviours of MCSeats, with SeatDeviceProofs for the other parts.       *)
(***************************************************************************)
EXTENDS MCSeats, SeatDeviceProofs, Sequences, WellFoundedInduction

-----------------------------------------------------------------------------
(* Least and latest *)

(* Every set of natural numbers that is not empty has a least element.     *)
LEMMA LeastExists ==
  ASSUME NEW T \in SUBSET Nat, T # {}
  PROVE  \E x \in T : \A y \in T : x <= y
  <1>1. PICK x \in T : \A y \in T : <<y, x>> \notin OpToRel(<, Nat)
    BY NatLessThanWellFounded, WFMin
  <1>2. \A y \in T : ~ (y < x)
    BY <1>1 DEF OpToRel
  <1> QED BY <1>2

Precedes(i, j) ==
  \/ readings[i].at < readings[j].at
  \/ readings[i].at = readings[j].at /\ i <= j

ReadingsOK ==
  /\ \A i \in DOMAIN readings : i \in Nat /\ i <= Len(readings)
  /\ \A i \in DOMAIN readings :
       /\ readings[i] \in Readings!Reading /\ readings[i] # Null
       /\ readings[i].at \in Int /\ 0 <= readings[i].at
       /\ readings[i].at <= MaxTime
       /\ readings[i].status \in Readings!Presence
  /\ Len(readings) \in Nat

(* The rows of the table are of their type, and none is null.              *)
LEMMA TypedReadings ==
  ASSUME Readings!TypeOK
  PROVE  ReadingsOK
  <1>1. readings \in Seq(Readings!Reading) /\ Len(readings) \in Nat
        /\ DOMAIN readings = 1 .. Len(readings)
    BY DEF Readings!TypeOK
  <1>2. \A i \in DOMAIN readings : readings[i] \in Readings!Reading
    BY <1>1
  <1> QED BY <1>1, <1>2, ReadingsAssumption
          DEF ReadingsOK, Readings!Reading, Readings!Time, Readings!NullAssumption,
              Readings!BoundAssumption

(* Among rows there is a latest one, by timestamp and then by insertion.   *)
LEMMA LatestExists ==
  ASSUME ReadingsOK, MaxTime \in Nat,
         NEW rows \in SUBSET (DOMAIN readings), rows # {}
  PROVE  /\ Readings!Latest(rows) \in rows
         /\ \A j \in rows : Precedes(j, Readings!Latest(rows))
  <1> DEFINE ages == {MaxTime - readings[i].at : i \in rows}
  <1>1. ages \in SUBSET Nat /\ ages # {}
    BY DEF ReadingsOK
  <1>2. PICK age \in ages : \A y \in ages : age <= y
    BY <1>1, LeastExists
  <1>3. PICK i \in rows : \A j \in rows : readings[j].at <= readings[i].at
    <2>1. PICK i \in rows : age = MaxTime - readings[i].at
      OBVIOUS
    <2>2. ASSUME NEW j \in rows
          PROVE  readings[j].at <= readings[i].at
      <3>1. age <= MaxTime - readings[j].at
        BY <1>2
      <3>2. readings[i].at \in Int /\ readings[j].at \in Int
        BY DEF ReadingsOK
      <3> HIDE DEF ages
      <3> QED BY <2>1, <3>1, <3>2
    <2> QED BY <2>2
  <1> DEFINE last == {j \in rows : readings[j].at = readings[i].at}
             ends == {Len(readings) - j : j \in last}
  <1>4. ends \in SUBSET Nat /\ ends # {}
    BY DEF ReadingsOK
  <1>5. PICK end \in ends : \A y \in ends : end <= y
    BY <1>4, LeastExists
  <1>6. PICK k \in last : \A j \in last : j <= k
    <2>1. PICK k \in last : end = Len(readings) - k
      OBVIOUS
    <2>2. ASSUME NEW j \in last
          PROVE  j <= k
      <3>1. end <= Len(readings) - j
        BY <1>5
      <3>2. k \in Int /\ j \in Int /\ Len(readings) \in Int
        BY DEF ReadingsOK
      <3> HIDE DEF last, ends
      <3> QED BY <2>1, <3>1, <3>2
    <2> QED BY <2>2
  <1>7. k \in rows /\ \A j \in rows : Precedes(j, k)
    BY <1>3, <1>6 DEF ReadingsOK, Precedes
  <1> QED BY <1>7 DEF Readings!Latest, Precedes

(* No two rows are both the latest.                                        *)
LEMMA LatestUnique ==
  ASSUME ReadingsOK, MaxTime \in Nat,
         NEW rows \in SUBSET (DOMAIN readings),
         NEW i \in rows, \A j \in rows : Precedes(j, i)
  PROVE  Readings!Latest(rows) = i
  <1>1. /\ Readings!Latest(rows) \in rows
        /\ Precedes(i, Readings!Latest(rows)) /\ Precedes(Readings!Latest(rows), i)
    BY LatestExists
  <1> QED BY <1>1 DEF Precedes, ReadingsOK

(* The earliest timestamp of some rows is that of one of them.             *)
LEMMA EarliestExists ==
  ASSUME ReadingsOK, NEW rows \in SUBSET (DOMAIN readings), rows # {}
  PROVE  /\ \E i \in rows : readings[i].at = Readings!Earliest(rows)
         /\ \A i \in rows : Readings!Earliest(rows) <= readings[i].at
  <1> DEFINE times == {readings[i].at : i \in rows}
  <1>1. times \in SUBSET Nat /\ times # {}
    BY DEF ReadingsOK
  <1>2. PICK x \in times : \A y \in times : x <= y
    BY <1>1, LeastExists
  <1>3. Readings!Earliest(rows) \in times /\ \A i \in rows : Readings!Earliest(rows) <= readings[i].at
    BY <1>2 DEF Readings!Earliest
  <1> QED BY <1>3

(* The rows until an instant are rows of the table.                        *)
LEMMA RowsOfTable ==
  ASSUME ReadingsOK, NEW d, NEW from \in Int, NEW to \in Int
  PROVE  /\ Readings!Rows(d, from, to) \in SUBSET (DOMAIN readings)
         /\ \A i \in DOMAIN readings :
              i \in Readings!Rows(d, from, to) <=>
                readings[i].device = d /\ from <= readings[i].at /\ readings[i].at <= to
  BY DEF Readings!Rows

(* What the readings say of an instant is what the latest of them says.    *)
LEMMA SignalIsLatest ==
  ASSUME ReadingsOK, NEW d, NEW t \in Int
  PROVE  LET rows == Readings!Rows(d, 0, t) IN
         /\ rows = {} => Readings!LatestUntil(d, t) = Null /\ Readings!Signal(d, t) = Null
         /\ rows # {} =>
              /\ Readings!Latest(rows) \in rows /\ \A j \in rows : Precedes(j,
                  Readings!Latest(rows))
              /\ Readings!LatestUntil(d, t) = readings[Readings!Latest(rows)]
              /\ Readings!LatestUntil(d, t) # Null
              /\ Readings!Signal(d, t) = readings[Readings!Latest(rows)].status
              /\ Readings!Signal(d, t) \in Readings!Presence /\ Readings!Signal(d, t) # Null
  <1> DEFINE rows == Readings!Rows(d, 0, t)
  <1>1. CASE rows = {}
    BY <1>1 DEF Readings!LatestUntil, Readings!Signal
  <1>2. CASE rows # {}
    <2>1. Readings!Latest(rows) \in rows /\ \A j \in rows : Precedes(j, Readings!Latest(rows))
      BY <1>2, RowsOfTable, LatestExists, ReadingsAssumption DEF Readings!BoundAssumption
    <2>2. Readings!LatestUntil(d, t) = readings[Readings!Latest(rows)]
      BY <1>2 DEF Readings!LatestUntil
    <2>3. /\ readings[Readings!Latest(rows)] # Null
          /\ readings[Readings!Latest(rows)].status \in Readings!Presence
      BY <2>1, RowsOfTable DEF ReadingsOK
    <2>4. Readings!Signal(d, t) = readings[Readings!Latest(rows)].status
      BY <2>2, <2>3 DEF Readings!Signal
    <2> QED BY <1>2, <2>1, <2>2, <2>3, <2>4, ReadingsAssumption DEF Readings!NullAssumption
  <1> QED BY <1>1, <1>2

-----------------------------------------------------------------------------
(* The evaluation *)

(* Presence is found stable only if the readings gave it throughout.       *)
LEMMA StableIsSound ==
  ASSUME ReadingsOK,
         NEW d \in Devices, NEW status \in Statuses, NEW at \in Readings!Time,
         Readings!Stable(d, status, at),
         NEW t \in (at - Threshold[status]) .. at
  PROVE  Readings!Signal(d, t) = status
  <1> DEFINE start == at - Threshold[status]
             W == Readings!Window(d, status, at)
             until == Readings!Rows(d, 0, t)
  <1>1. start \in Int /\ at \in Int /\ t \in Int /\ start <= t /\ t <= at
    BY ReadingsAssumption DEF Readings!InputAssumption, Readings!ThresholdAssumption,
        Readings!BoundAssumption, Readings!Time
  <1>2. /\ W \in SUBSET (DOMAIN readings) /\ W # {}
        /\ \A i \in W : readings[i].status = status
        /\ \A i \in DOMAIN readings :
             i \in W <=> readings[i].device = d /\ start <= readings[i].at
                           /\ readings[i].at <= at
    BY <1>1, RowsOfTable DEF Readings!Stable, Readings!WindowAgrees, Readings!Window
  <1>3. \A i \in DOMAIN readings :
          i \in until <=> readings[i].device = d /\ readings[i].at <= t
    BY <1>1, RowsOfTable DEF ReadingsOK
  <1>4. until \in SUBSET (DOMAIN readings)
    BY <1>1, RowsOfTable
  <1> HIDE DEF start, W, until
  <1>5. CASE \E i \in until : start <= readings[i].at
    <2>1. Readings!Latest(until) \in until /\ \A j \in until : Precedes(j,
          Readings!Latest(until))
      BY <1>1, <1>5, SignalIsLatest DEF until
    <2>2. start <= readings[Readings!Latest(until)].at
      BY <1>1, <1>4, <1>5, <2>1 DEF Precedes, ReadingsOK
    <2>3. Readings!Latest(until) \in W
      BY <1>1, <1>2, <1>3, <1>4, <2>1, <2>2 DEF ReadingsOK
    <2> QED BY <1>1, <1>2, <1>5, <2>3, SignalIsLatest DEF until
  <1>6. CASE \A i \in until : readings[i].at < start
    <2> DEFINE before == Readings!Rows(d, 0, start)
    <2>1. before = until
      <3>1. /\ before \in SUBSET (DOMAIN readings)
            /\ \A i \in DOMAIN readings :
                 i \in before <=> readings[i].device = d /\ readings[i].at <= start
        BY <1>1, RowsOfTable DEF ReadingsOK
      <3>2. \A i \in before : i \in until
        BY <1>1, <1>3, <3>1 DEF ReadingsOK
      <3>3. \A i \in until : i \in before
        BY <1>1, <1>3, <1>4, <1>6, <3>1 DEF ReadingsOK
      <3> QED BY <3>2, <3>3
    <2>2. ~ (Readings!Earliest(W) <= start)
      <3>1. PICK i \in W : readings[i].at = Readings!Earliest(W)
        BY <1>2, EarliestExists
      <3>2. readings[i].at = start => i \in until
        BY <1>1, <1>2, <1>3
      <3> QED BY <1>1, <1>2, <1>6, <3>1, <3>2 DEF ReadingsOK
    <2>3. Readings!LatestUntil(d, start) # Null /\ Readings!LatestUntil(d,
          start).status = status
      BY <2>2 DEF Readings!Stable, Readings!Covered, W, start
    <2>4. Readings!LatestUntil(d, t) = Readings!LatestUntil(d, start)
      BY <2>1 DEF Readings!LatestUntil, until
    <2> QED BY <2>3, <2>4 DEF Readings!Signal
  <1>7. \A i \in until : ~ (start <= readings[i].at) => readings[i].at < start
    BY <1>1, <1>4 DEF ReadingsOK
  <1> QED BY <1>5, <1>6, <1>7

(* What the readings gave throughout is found stable, if no instant has    *)
(* two of them.                                                            *)
LEMMA StableIsComplete ==
  ASSUME ReadingsOK,
         NEW d \in Devices, Readings!NoTwoAtOnce(d), NEW i \in Readings!Rows(d, 0, MaxTime),
         Readings!Uninterrupted(d, {readings[i].status},
                       readings[i].at - Threshold[readings[i].status], readings[i].at)
  PROVE  Readings!Stable(d, readings[i].status, readings[i].at)
  <1> DEFINE status == readings[i].status
             at == readings[i].at
             start == at - Threshold[status]
             W == Readings!Window(d, status, at)
  <1>0. MaxTime \in Int /\ 0 \in Int
    BY ReadingsAssumption DEF Readings!BoundAssumption
  <1>1. /\ i \in DOMAIN readings /\ readings[i].device = d
        /\ status \in Readings!Presence /\ at \in Int /\ start \in Int /\ start <= at
    BY <1>0, RowsOfTable, ReadingsAssumption DEF ReadingsOK, Readings!ThresholdAssumption
  <1>2. /\ W \in SUBSET (DOMAIN readings)
        /\ \A j \in DOMAIN readings :
             j \in W <=> readings[j].device = d /\ start <= readings[j].at
                           /\ readings[j].at <= at
    BY <1>1, RowsOfTable DEF Readings!Window
  <1>3. \A t \in start .. at : Readings!Signal(d, t) = status
    BY DEF Readings!Uninterrupted
  <1> HIDE DEF status, at, start, W
  <1>4. ASSUME NEW j \in W
        PROVE  readings[j].status = status
    <2> DEFINE t == readings[j].at
               until == Readings!Rows(d, 0, t)
    <2>1. /\ j \in DOMAIN readings /\ readings[j].device = d
          /\ t \in Int /\ 0 <= t /\ t <= MaxTime /\ t \in start .. at
      BY <1>1, <1>2 DEF ReadingsOK
    <2>2. j \in until /\ \A k \in until : k \in Readings!Rows(d, 0,
          MaxTime) /\ readings[k].at <= t
      BY <1>0, <2>1, RowsOfTable DEF ReadingsOK
    <2>3. Readings!Latest(until) \in until /\ Precedes(j, Readings!Latest(until))
      BY <2>1, <2>2, SignalIsLatest
    <2>4. readings[Readings!Latest(until)].at = t
      BY <2>1, <2>2, <2>3, RowsOfTable DEF Precedes, ReadingsOK
    <2>5. Readings!Latest(until) = j
      BY <2>2, <2>3, <2>4 DEF Readings!NoTwoAtOnce
    <2> QED BY <1>3, <2>1, <2>2, <2>5, SignalIsLatest
  <1>5. i \in W
    BY <1>1, <1>2 DEF at
  <1>6. Readings!WindowAgrees(d, status, at)
    BY <1>4, <1>5 DEF Readings!WindowAgrees, W
  <1>7. /\ Readings!LatestUntil(d, start) # Null
        /\ Readings!LatestUntil(d, start).status = status
    <2>1. Readings!Signal(d, start) = status /\ status # Null
      BY <1>1, <1>3, ReadingsAssumption DEF Readings!NullAssumption
    <2> QED BY <2>1 DEF Readings!Signal
  <1>8. Readings!Covered(d, status, at, Readings!Earliest(Readings!Window(d, status, at)))
    BY <1>7 DEF Readings!Covered, start
  <1> QED BY <1>6, <1>8 DEF Readings!Stable, status, at

-----------------------------------------------------------------------------
(* The rule of the anomaly scan *)

(* A presence of long standing is one the readings gave throughout.        *)
LEMMA SuspicionIsSound ==
  ASSUME ReadingsOK, now \in Readings!Time, NEW status \in Statuses,
         Readings!HasStablePresence(status),
         Readings!Signal(bound, now - Suspicious[status]) # Null,
         NEW t \in (now - Suspicious[status]) .. now
  PROVE  Readings!Signal(bound, t) = status
  <1> DEFINE from == now - Suspicious[status]
             old == Readings!Rows(bound, 0, from)
             until == Readings!Rows(bound, 0, t)
             boundary == readings[Readings!Latest(old)]
  <1>1. from \in Int /\ now \in Int /\ t \in Int /\ from <= t /\ t <= now
    BY ReadingsAssumption DEF Readings!InputAssumption, Readings!ThresholdAssumption,
        Readings!BoundAssumption, Readings!Time
  <1>2. /\ \A i \in DOMAIN readings :
             /\ i \in old <=> readings[i].device = bound /\ readings[i].at <= from
             /\ i \in until <=> readings[i].device = bound /\ readings[i].at <= t
        /\ old \in SUBSET (DOMAIN readings) /\ until \in SUBSET (DOMAIN readings)
    BY <1>1, RowsOfTable DEF ReadingsOK
  <1>3. old # {}
    BY <1>1, SignalIsLatest
  <1>4. /\ Readings!Latest(old) \in old /\ Readings!LatestUntil(bound, from) = boundary
        /\ boundary # Null /\ \A j \in old : Precedes(j, Readings!Latest(old))
    BY <1>1, <1>3, SignalIsLatest
  <1>5. boundary.status = status /\ ~ Readings!Jitter(bound, status, boundary)
    BY <1>4 DEF Readings!HasStablePresence
  <1>6. boundary.at \in Int /\ boundary.at <= from
    BY <1>1, <1>2, <1>4 DEF ReadingsOK
  <1> HIDE DEF from, old, until, boundary
  <1>7. old \subseteq until
    BY <1>1, <1>2 DEF ReadingsOK
  <1>8. Readings!Latest(until) \in until /\ \A j \in until : Precedes(j, Readings!Latest(until))
    BY <1>1, <1>3, <1>7, SignalIsLatest DEF until
  <1>9. Readings!Signal(bound, t) = readings[Readings!Latest(until)].status
    BY <1>1, <1>3, <1>7, SignalIsLatest DEF until
  <1>10. CASE Readings!Latest(until) \in old
    <2>1. Readings!Latest(old) = Readings!Latest(until)
      BY <1>2, <1>7, <1>8, <1>10, LatestUnique, ReadingsAssumption DEF Readings!BoundAssumption
    <2> QED BY <1>5, <1>9, <2>1 DEF boundary
  <1>11. CASE Readings!Latest(until) \notin old
    <2> DEFINE l == Readings!Latest(until)
    <2>1. /\ l \in DOMAIN readings /\ readings[l].device = bound
          /\ readings[l].at \in Int /\ ~ (readings[l].at <= from)
          /\ readings[l].at <= now
      BY <1>1, <1>2, <1>8, <1>11 DEF ReadingsOK
    <2>2. l \in Readings!Rows(bound, boundary.at + 1, now)
      BY <1>1, <1>6, <2>1, RowsOfTable
    <2> QED BY <1>5, <1>9, <2>2 DEF Readings!Jitter
  <1> QED BY <1>10, <1>11

-----------------------------------------------------------------------------
(* Types *)

(* The table is empty and nobody reports.                                  *)
LEMMA InitTypes ==
  ASSUME Readings!Init
  PROVE  Readings!TypeOK
  BY ReadingsAssumption DEF Readings!Init, Readings!TypeOK, Readings!Idle, Readings!TaskRow,
      Readings!Time, Readings!Presence, Readings!SensorHealth,
         Readings!BoundAssumption, Readings!Reading

(* A task moves on to a row of its type.                                   *)
LEMMA TaskMoves ==
  ASSUME Readings!TypeOK, NEW t \in Reporters, NEW row \in Readings!TaskRow,
         row.pc # "idle" => row.status \in Readings!Presence,
         task' = [task EXCEPT ![t] = row]
  PROVE  /\ task' \in [Reporters -> Readings!TaskRow]
         /\ \A u \in Reporters : task'[u].pc # "idle" => task'[u].status \in Readings!Presence
  BY DEF Readings!TypeOK

(* The row of a task that does nothing.                                    *)
LEMMA IdleRow ==
  Readings!Idle \in Readings!TaskRow /\ Readings!Idle.pc = "idle"
  BY ReadingsAssumption DEF Readings!Idle, Readings!TaskRow, Readings!Time,
      Readings!BoundAssumption

(* Every step keeps the types.                                             *)
LEMMA NextTypes ==
  ASSUME Readings!TypeOK, [Readings!Next]_(Readings!vars)
  PROVE  Readings!TypeOK'
  <1>0. ReadingsOK
    BY TypedReadings
  <1>1. ASSUME NEW t \in Reporters, NEW d \in Devices, NEW status \in Statuses,
               NEW at \in Readings!Time, NEW given \in Given,
               Readings!RecordPresence(t, d, status, at, given)
        PROVE  Readings!TypeOK'
    <2>1. status \in Readings!Presence /\ given \in Readings!SensorHealth \cup {Null}
      BY ReadingsAssumption DEF Readings!InputAssumption
    <2>2. Readings!NormalizedSensor(given, status) \in Readings!SensorHealth
      BY <2>1 DEF Readings!NormalizedSensor, Readings!SensorHealth, Readings!Untrusted
    <2>3. readings' \in Seq(Readings!Reading)
      <3>1. [device |-> d, status |-> status, at |-> at] \in Readings!Reading
        BY <2>1 DEF Readings!Reading
      <3> QED BY <1>1, <3>1 DEF Readings!RecordPresence, Readings!TypeOK
    <2> DEFINE row == [Readings!Idle EXCEPT !.pc = "window", !.device = d,
                                   !.status = status, !.at = at]
    <2>4. row \in Readings!TaskRow /\ row.status \in Readings!Presence
      BY <2>1, IdleRow DEF Readings!TaskRow, Readings!Idle
    <2>5. task' = [task EXCEPT ![t] = row]
      BY <1>1 DEF Readings!RecordPresence, Readings!Start
    <2>6. /\ task' \in [Reporters -> Readings!TaskRow]
          /\ \A u \in Reporters : task'[u].pc # "idle" => task'[u].status \in Readings!Presence
      BY <2>4, <2>5, TaskMoves
    <2> QED BY <1>1, <2>2, <2>3, <2>6 DEF Readings!RecordPresence, Readings!TypeOK
  <1>2. ASSUME NEW t \in Reporters, Readings!ReadWindow(t)
        PROVE  Readings!TypeOK'
    <2> DEFINE W == Readings!Window(task[t].device, task[t].status, task[t].at)
               row == [task[t] EXCEPT !.pc = "prior", !.earliest = Readings!Earliest(W)]
    <2>1. task[t].status \in Readings!Presence /\ task[t] \in Readings!TaskRow
      BY <1>2 DEF Readings!ReadWindow, Readings!TypeOK
    <2>2. ASSUME Readings!WindowAgrees(task[t].device, task[t].status, task[t].at)
          PROVE  row \in Readings!TaskRow /\ row.status \in Readings!Presence
      <3>1. W \in SUBSET (DOMAIN readings) /\ W # {}
        BY <2>2 DEF Readings!WindowAgrees, Readings!Window, Readings!Rows
      <3>2. Readings!Earliest(W) \in Readings!Time
        BY <1>0, <3>1, EarliestExists, ReadingsAssumption
        DEF ReadingsOK, Readings!Time, Readings!BoundAssumption
      <3> QED BY <2>1, <3>2 DEF Readings!TaskRow
    <2>3. \/ /\ Readings!WindowAgrees(task[t].device, task[t].status, task[t].at)
             /\ task' = [task EXCEPT ![t] = row]
          \/ task' = [task EXCEPT ![t] = Readings!Idle]
      BY <1>2 DEF Readings!ReadWindow, Readings!Continue
    <2> HIDE DEF row
    <2>4. /\ task' \in [Reporters -> Readings!TaskRow]
          /\ \A u \in Reporters : task'[u].pc # "idle" => task'[u].status \in Readings!Presence
      BY <2>2, <2>3, TaskMoves, IdleRow
    <2> QED BY <1>2, <2>4 DEF Readings!ReadWindow, Readings!TypeOK
  <1>3. ASSUME NEW t \in Reporters, Readings!ReadPrior(t)
        PROVE  Readings!TypeOK'
    <2> DEFINE row == [task[t] EXCEPT !.pc = "apply"]
    <2>1. row \in Readings!TaskRow /\ row.status \in Readings!Presence
      BY <1>3 DEF Readings!ReadPrior, Readings!TypeOK, Readings!TaskRow
    <2>2. task' = [task EXCEPT ![t] = row] \/ task' = [task EXCEPT ![t] = Readings!Idle]
      BY <1>3 DEF Readings!ReadPrior, Readings!Continue
    <2> HIDE DEF row
    <2>3. /\ task' \in [Reporters -> Readings!TaskRow]
          /\ \A u \in Reporters : task'[u].pc # "idle" => task'[u].status \in Readings!Presence
      BY <2>1, <2>2, TaskMoves, IdleRow
    <2> QED BY <1>3, <2>3 DEF Readings!ReadPrior, Readings!TypeOK
  <1>4. ASSUME NEW t \in Reporters, Readings!ApplyStablePresence(t)
        PROVE  Readings!TypeOK'
    <2>1. presence' \in Readings!Presence
      BY <1>4 DEF Readings!ApplyStablePresence, Readings!TypeOK
    <2>2. /\ task' \in [Reporters -> Readings!TaskRow]
          /\ \A u \in Reporters : task'[u].pc # "idle" => task'[u].status \in Readings!Presence
      BY <1>4, TaskMoves, IdleRow DEF Readings!ApplyStablePresence, Readings!Continue
    <2> QED BY <1>4, <2>1, <2>2 DEF Readings!ApplyStablePresence, Readings!TypeOK
  <1>5. ASSUME NEW d \in Devices, Readings!Rebind(d)
        PROVE  Readings!TypeOK'
    BY <1>5 DEF Readings!Rebind, Readings!TypeOK
  <1>6. CASE Readings!Tick
    BY <1>6, ReadingsAssumption DEF Readings!Tick, Readings!TypeOK, Readings!Time,
        Readings!BoundAssumption
  <1>7. CASE UNCHANGED Readings!vars
    BY <1>7 DEF Readings!vars, Readings!TypeOK
  <1> QED BY <1>1, <1>2, <1>3, <1>4, <1>5, <1>6, <1>7 DEF Readings!Next

-----------------------------------------------------------------------------
(* The behaviours of MCSeats *)

(* What the seats of a behaviour do is what those of SeatDevice do,        *)
(* restricted to what its part allows.                                     *)
LEMMA PartsMove ==
  ASSUME [AllNext]_all
  PROVE  /\ part' = part
         /\ [Next]_vars
         /\ part = "alone" => [AloneNext]_vars
         /\ part = "upkeep" => [RecordedNext]_vars
         /\ part = "window" => [Readings!Next]_(Readings!vars)
<1>1. CASE part = "bindings" /\ BindingsNext /\ UNCHANGED <<part, window>>
  <2>1. Next
    BY <1>1 DEF BindingsNext, Next, Tx, Begin, RecordedBegin
  <2> QED BY <1>1, <2>1
<1>2. CASE part = "upkeep" /\ UpkeepNext /\ UNCHANGED <<part, window>>
  <2>1. RecordedNext
    BY <1>2 DEF UpkeepNext, BindingsNext, RecordedNext, RecordedBegin
  <2>2. [Next]_vars
    BY <2>1, RecordedIsNext
  <2> QED BY <1>2, <2>1, <2>2
<1>3. CASE part = "alone" /\ AloneNext /\ UNCHANGED <<part, window>>
  <2>1. [Next]_vars
    BY <1>3, AloneIsNext
  <2> QED BY <1>3, <2>1
<1>4. CASE part = "window" /\ Readings!Next /\ UNCHANGED <<part, seats>>
  BY <1>4 DEF seats, vars
<1>5. CASE UNCHANGED all
  BY <1>5 DEF all, seats, window, vars, Readings!vars
<1> QED BY <1>1, <1>2, <1>3, <1>4, <1>5 DEF AllNext

LEMMA PartsBegin ==
  ASSUME AllInit
  PROVE  Init /\ (part = "window" => Readings!Init)
BY DEF AllInit

(* Whatever holds of SeatDevice holds in every part.                       *)
LEMMA SeatsAreSeats == AllSpec => Spec
BY PartsBegin, PartsMove, PTL DEF AllSpec, Spec

(* A part is what it was, and its readings keep their types.               *)
WindowInv == part = "window" => Readings!TypeOK

LEMMA WindowInvariance == AllSpec => []WindowInv
<1>1. AllInit => WindowInv
  BY PartsBegin, InitTypes DEF WindowInv
<1>2. WindowInv /\ [AllNext]_all => WindowInv'
  BY PartsMove, NextTypes DEF WindowInv
<1> QED BY <1>1, <1>2, PTL DEF AllSpec

(* Devices, seats, bindings and transactions keep their types in every     *)
(* part, a seat being unavailable exactly when it has a reason; so do the  *)
(* table of readings and the reports that are being evaluated (devices,    *)
(* seats, sensors and admin services).                                     *)
THEOREM TypesCorrect == AllSpec => []Types
<1>1. TypeOK /\ WindowInv => Types
  BY DEF WindowInv, Types
<1> QED BY <1>1, SeatsAreSeats, TypesInvariant, WindowInvariance, PTL

(* Requests that come one at a time find what they have read still so.     *)
AlonePart == part = "alone" => AloneInv

LEMMA AloneInvariance == AllSpec => []AlonePart
<1>1. AllInit => AlonePart
  BY PartsBegin, InitAlone DEF AlonePart
<1>2. IInv /\ AlonePart /\ [AllNext]_all => AlonePart'
  BY PartsMove, NextAlone DEF AlonePart
<1> QED BY <1>1, <1>2, SeatsAreSeats, Invariance, PTL DEF AllSpec

(* While requests come one at a time, whatever their sequence, the three   *)
(* records of a binding say the same (devices service).                    *)
THEOREM AgreementCorrect == AllSpec => []AloneBindingsAgree
<1>1. AlonePart => AloneBindingsAgree
  BY DEF AlonePart, AloneInv, AloneBindingsAgree
<1> QED BY <1>1, AloneInvariance, PTL

(* Nor do they ever leave a seat bookable that is under maintenance or     *)
(* whose device is offline, whichever of the eight writers of its          *)
(* availability wrote last.                                                *)
THEOREM ServiceCorrect == AllSpec => []AloneOutOfServiceUnavailable
<1>1. AlonePart => AloneOutOfServiceUnavailable
  BY DEF AlonePart, AloneInv, AloneOutOfServiceUnavailable
<1> QED BY <1>1, AloneInvariance, PTL

(* No seat being switched by setSeatEnabled, a maintenance record is open  *)
(* exactly while a seat is under maintenance, however the administrators'  *)
(* transactions overlap each other and those of devices.                   *)
THEOREM RecordsCorrect == AllSpec => []RecordsTellMaintenance
<1> DEFINE Inv == part = "upkeep" => RecordInv
<1>1. AllInit => Inv
  BY PartsBegin, InitRecords
<1>2. IInv /\ Inv /\ [AllNext]_all => Inv'
  BY PartsMove, NextRecords
<1>3. Inv => RecordsTellMaintenance
  BY DEF RecordInv, RecordsTellMaintenance
<1> QED BY <1>1, <1>2, <1>3, SeatsAreSeats, Invariance, PTL DEF AllSpec

(* evaluate finds a presence stable exactly when the readings gave it      *)
(* throughout the threshold: never otherwise, and always if no instant has *)
(* two readings.                                                           *)
THEOREM EvaluationCorrect == AllSpec => []EvaluationExact
<1>1. WindowInv => EvaluationExact
  <2> SUFFICES ASSUME Readings!TypeOK
               PROVE  Readings!EvaluationSound /\ Readings!EvaluationComplete
    BY DEF WindowInv, EvaluationExact
  <2>1. Readings!EvaluationSound
    BY TypedReadings, StableIsSound DEF Readings!EvaluationSound, Readings!Uninterrupted
  <2>2. Readings!EvaluationComplete
    BY TypedReadings, StableIsComplete DEF Readings!EvaluationComplete
  <2> QED BY <2>1, <2>2
<1> QED BY <1>1, WindowInvariance, PTL

(* The anomaly scan finds no presence of long standing that the readings   *)
(* interrupt, wherever there are readings.                                 *)
THEOREM SuspicionCorrect == AllSpec => []SuspicionsSound
<1>1. WindowInv => SuspicionsSound
  <2> SUFFICES ASSUME Readings!TypeOK PROVE Readings!SuspicionSound
    BY DEF WindowInv, SuspicionsSound
  <2>1. ReadingsOK /\ now \in Readings!Time
    BY TypedReadings DEF Readings!TypeOK
  <2> QED BY <2>1, SuspicionIsSound DEF Readings!SuspicionSound, Readings!Uninterrupted
<1> QED BY <1>1, WindowInvariance, PTL
==============================================================================
