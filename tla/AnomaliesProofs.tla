-------------------------- MODULE AnomaliesProofs --------------------------
(***************************************************************************)
(* Theorems about Anomalies, for every number of devices, seats,           *)
(* reservations, events, tasks and failures: the types, that pending       *)
(* events are unique, that a no-show is reported once, that events and     *)
(* reservations agree, and that closed events settle.                      *)
(***************************************************************************)
EXTENDS Anomalies, TLAPS

(* A task's next step: what it creates is still to be done, what it is to  *)
(* handle exists, and the status asked for is not PENDING.                 *)
Ready(row, made) ==
  /\ row.pc \in {"create", "refind"} => row.key \in row.todo
  /\ row.pc = "handle" => row.id \in made /\ row.status \in Statuses
  /\ row.pc = "resolve" => row.key \in Key

Made == {e \in EventIds : event[e] # Null}

EventOK(x) == x \in Event /\ (x.resolved <=> x.status \in Final)

Rows ==
  /\ res \in [Reservations -> [status: ReservationStatus, seat: Seats]]
  /\ device \in [Devices -> [online: BOOLEAN, seat: Seats \cup {Null}]]
  /\ failures \in 0 .. MaxFailures

EventsOK ==
  /\ event \in [EventIds -> Event \cup {Null}]
  /\ \A e \in Made : EventOK(event[e])

TasksOK ==
  /\ task \in [Tasks -> TaskRow]
  /\ \A t \in Tasks : Ready(task[t], Made)

TypeInv == Rows /\ EventsOK /\ TasksOK

(* A reservation that a no-show event is about, or will be, is a no-show;  *)
(* one that an event of overtime is about was checked in.                  *)
Due(key, r) ==
  /\ key.type = "NO_SHOW" =>
       key.res \in Reservations /\ r[key.res].status = "NO_SHOW"
  /\ key.type = "OVERTIME_OCCUPANCY" =>
       key.res \in Reservations /\ r[key.res].status \in {"CHECKED_IN", "OVERTIME", "ENDED"}

SameNoShow(k, l) == k.type = "NO_SHOW" /\ l.type = "NO_SHOW" /\ k.res = l.res

(* Every no-show is in one event or in what one task is still to create.   *)
ReportInv ==
  /\ \A e \in Made : Due(event[e].key, res)
  /\ \A t \in Tasks : \A k \in task[t].todo : Due(k, res)
  /\ \A d, e \in Made : SameNoShow(event[d].key, event[e].key) => d = e
  /\ \A e \in Made, t \in Tasks : \A k \in task[t].todo : ~SameNoShow(event[e].key, k)
  /\ \A t, u \in Tasks : \A k \in task[t].todo, l \in task[u].todo :
       SameNoShow(k, l) => t = u /\ k = l

IInv == TypeInv /\ PendingUnique /\ ReportInv

(* Keys stay, and no event becomes pending.                                *)
Keeps(old, new) ==
  /\ new \in [EventIds -> Event \cup {Null}]
  /\ \A e \in EventIds :
       /\ new[e] = Null <=> old[e] = Null
       /\ new[e] # Null =>
            /\ EventOK(new[e])
            /\ new[e].key = old[e].key
            /\ new[e].status = "PENDING" => old[e].status = "PENDING"

(* Reservations go forward.                                                *)
Later(old, new) ==
  \A r \in Reservations :
    /\ old[r].status = "NO_SHOW" => new[r].status = "NO_SHOW"
    /\ old[r].status \in {"CHECKED_IN", "OVERTIME", "ENDED"} =>
         new[r].status \in {"CHECKED_IN", "OVERTIME", "ENDED"}

(* A task takes no report on that it had not.                              *)
Narrower(old, new) ==
  \A k \in new : k \in old \/ k.type \notin {"NO_SHOW", "OVERTIME_OCCUPANCY"}

-----------------------------------------------------------------------------
(* Rows and keys *)

LEMMA IdleRow == Idle \in TaskRow /\ Idle.todo = {} /\ \A made : Ready(Idle, made)
BY DEF Idle, TaskRow, Pc, Ready

(* What is left of a task is a row, with those keys to do.                 *)
LEMMA CreatingRow ==
  ASSUME NEW keys \in SUBSET Key, NEW seats \in SUBSET Seats
  PROVE  /\ Creating(keys, seats) \in TaskRow
         /\ Creating(keys, seats).todo = keys
         /\ \A made : Ready(Creating(keys, seats), made)
<1>1. CASE keys # {}
  <2>1. Creating(keys, seats) = [Idle EXCEPT !.pc = "find", !.todo = keys, !.seats = seats]
    BY <1>1 DEF Creating
  <2> QED BY <2>1 DEF Idle, TaskRow, Pc, Ready
<1>2. CASE keys = {} /\ seats # {}
  <2>1. Creating(keys, seats) = [Idle EXCEPT !.pc = "scan", !.seats = seats]
    BY <1>2 DEF Creating
  <2> QED BY <1>2, <2>1 DEF Idle, TaskRow, Pc, Ready
<1>3. CASE keys = {} /\ seats = {}
  <2>1. Creating(keys, seats) = Idle
    BY <1>3 DEF Creating
  <2> QED BY <1>3, <2>1, IdleRow
<1> QED BY <1>1, <1>2, <1>3

(* It begins with a query, and handles nothing.                            *)
LEMMA CreatingPc ==
  ASSUME NEW keys, NEW seats
  PROVE  /\ Creating(keys, seats).pc \in {"find", "scan", "idle"}
         /\ keys # {} => Creating(keys, seats).pc = "find"
<1>1. CASE keys # {}
  <2>1. Creating(keys, seats) = [Idle EXCEPT !.pc = "find", !.todo = keys, !.seats = seats]
    BY <1>1 DEF Creating
  <2> QED BY <2>1 DEF Idle
<1>2. CASE keys = {} /\ seats # {}
  <2>1. Creating(keys, seats) = [Idle EXCEPT !.pc = "scan", !.seats = seats]
    BY <1>2 DEF Creating
  <2> QED BY <1>2, <2>1 DEF Idle
<1>3. CASE keys = {} /\ seats = {}
  <2>1. Creating(keys, seats) = Idle
    BY <1>3 DEF Creating
  <2> QED BY <1>3, <2>1 DEF Idle
<1> QED BY <1>1, <1>2, <1>3

LEMMA DeviceOfType ==
  ASSUME NEW s PROVE DeviceOf(s) \in Devices \cup {Null}
BY DEF DeviceOf

LEMMA GuestType ==
  ASSUME NEW s PROVE Guest(s) \in Reservations \cup {Null}
<1>1. CASE CheckedInOn(s) = {}
  BY <1>1 DEF Guest
<1>2. CASE CheckedInOn(s) # {}
  <2>1. Guest(s) \in CheckedInOn(s)
    BY <1>2 DEF Guest
  <2> QED BY <2>1 DEF CheckedInOn
<1> QED BY <1>1, <1>2

LEMMA KeyOfType ==
  ASSUME NEW type \in EventType, NEW s \in Seats, NEW d \in Devices \cup {Null},
         NEW r \in Reservations \cup {Null}
  PROVE  /\ KeyOf(type, s, d, r) \in Key
         /\ KeyOf(type, s, d, r).type = type
         /\ KeyOf(type, s, d, r).res = r
BY DEF KeyOf, Key

LEMMA KeysType ==
  ASSUME Rows, NEW R \in SUBSET Reservations, NEW type \in EventType
  PROVE  /\ Keys(type, R) \in SUBSET Key
         /\ \A k \in Keys(type, R) : k.type = type /\ k.res \in R
         /\ \A k, l \in Keys(type, R) : k.res = l.res => k = l
<1> DEFINE key(r) == KeyOf(type, res[r].seat, DeviceOf(res[r].seat), r)
<1>1. \A r \in R : key(r) \in Key /\ key(r).type = type /\ key(r).res = r
  <2> SUFFICES ASSUME NEW r \in R PROVE key(r) \in Key /\ key(r).type = type /\ key(r).res = r
    OBVIOUS
  <2>1. res[r].seat \in Seats
    BY DEF Rows
  <2>2. DeviceOf(res[r].seat) \in Devices \cup {Null}
    BY DeviceOfType
  <2> QED BY <2>1, <2>2, KeyOfType
<1>2. Keys(type, R) = {key(r) : r \in R}
  BY DEF Keys
<1> HIDE DEF key
<1> QED BY <1>1, <1>2

-----------------------------------------------------------------------------
(* What a step changes, and what follows *)

(* One task goes on.                                                       *)
LEMMA TaskGoesOn ==
  ASSUME TasksOK, NEW t \in Tasks, NEW row \in TaskRow,
         task' = [task EXCEPT ![t] = row],
         Made \subseteq Made', Ready(row, Made')
  PROVE  TasksOK' /\ task'[t] = row /\ \A u \in Tasks \ {t} : task'[u] = task[u]
<1>1. task' \in [Tasks -> TaskRow] /\ task'[t] = row
  BY DEF TasksOK
<1>2. \A u \in Tasks \ {t} : task'[u] = task[u]
  BY DEF TasksOK
<1>3. \A u \in Tasks \ {t} : Ready(task'[u], Made')
  BY <1>2 DEF TasksOK, Ready
<1> QED BY <1>1, <1>2, <1>3 DEF TasksOK

LEMMA KeepsEvents ==
  ASSUME EventsOK, PendingUnique, Keeps(event, event')
  PROVE  EventsOK' /\ PendingUnique' /\ Made' = Made
<1>1. Made' = Made
  BY DEF Made, Keeps
<1>2. EventsOK'
  BY <1>1 DEF EventsOK, Made, Keeps
<1>3. PendingUnique'
  BY DEF PendingUnique, Exists, Keeps
<1> QED BY <1>1, <1>2, <1>3

LEMMA SameEvents ==
  ASSUME EventsOK, PendingUnique, event' = event
  PROVE  Keeps(event, event') /\ EventsOK' /\ PendingUnique' /\ Made' = Made
BY DEF EventsOK, PendingUnique, Exists, Made, Keeps

LEMMA DueLater ==
  ASSUME NEW k, Due(k, res), Later(res, res')
  PROVE  Due(k, res')
BY DEF Due, Later

(* No step that only narrows what is to be done disturbs the reports.      *)
LEMMA ReportsNarrow ==
  ASSUME ReportInv, Keeps(event, event'), Later(res, res'),
         \A u \in Tasks : Narrower(task[u].todo, task'[u].todo)
  PROVE  ReportInv'
<1>1. Made' = Made /\ \A e \in Made : event'[e].key = event[e].key
  BY DEF Made, Keeps
<1>2. \A u \in Tasks : \A k \in task'[u].todo :
        k \in task[u].todo \/ k.type \notin {"NO_SHOW", "OVERTIME_OCCUPANCY"}
  BY DEF Narrower
<1>3. \A e \in Made' : Due(event'[e].key, res')
  BY <1>1, DueLater DEF ReportInv
<1>4. \A u \in Tasks : \A k \in task'[u].todo : Due(k, res')
  <2> SUFFICES ASSUME NEW u \in Tasks, NEW k \in task'[u].todo PROVE Due(k, res')
    OBVIOUS
  <2>1. CASE k \in task[u].todo
    BY <2>1, DueLater DEF ReportInv
  <2>2. CASE k.type \notin {"NO_SHOW", "OVERTIME_OCCUPANCY"}
    BY <2>2 DEF Due
  <2> QED BY <2>1, <2>2, <1>2
<1>5. \A d, e \in Made' : SameNoShow(event'[d].key, event'[e].key) => d = e
  BY <1>1 DEF ReportInv
<1>6. \A e \in Made', u \in Tasks : \A k \in task'[u].todo : ~SameNoShow(event'[e].key, k)
  BY <1>1, <1>2 DEF ReportInv, SameNoShow
<1>7. \A t, u \in Tasks : \A k \in task'[t].todo, l \in task'[u].todo :
        SameNoShow(k, l) => t = u /\ k = l
  BY <1>2 DEF ReportInv, SameNoShow
<1> QED BY <1>3, <1>4, <1>5, <1>6, <1>7 DEF ReportInv

(* A step of task t that ends with row, narrower than before.              *)
LEMMA TaskNarrows ==
  ASSUME IInv, NEW t \in Tasks, NEW row \in TaskRow,
         task' = [task EXCEPT ![t] = row], Ready(row, Made),
         Narrower(task[t].todo, row.todo),
         Keeps(event, event'), Later(res, res'), Rows'
  PROVE  IInv'
<1>1. EventsOK' /\ PendingUnique' /\ Made' = Made
  BY KeepsEvents DEF IInv, TypeInv
<1>2. TasksOK' /\ task'[t] = row /\ \A u \in Tasks \ {t} : task'[u] = task[u]
  BY <1>1, TaskGoesOn DEF IInv, TypeInv
<1>3. \A u \in Tasks : Narrower(task[u].todo, task'[u].todo)
  <2> SUFFICES ASSUME NEW u \in Tasks PROVE Narrower(task[u].todo, task'[u].todo)
    OBVIOUS
  <2>1. CASE u = t
    BY <2>1, <1>2
  <2>2. CASE u # t
    BY <2>2, <1>2 DEF Narrower
  <2> QED BY <2>1, <2>2
<1>4. ReportInv'
  BY <1>3, ReportsNarrow DEF IInv
<1> QED BY <1>1, <1>2, <1>4 DEF IInv, TypeInv

(* A step that leaves the tasks alone.                                     *)
LEMMA NoTask ==
  ASSUME IInv, task' = task, Keeps(event, event'), Later(res, res'), Rows'
  PROVE  IInv'
<1>1. EventsOK' /\ PendingUnique' /\ Made' = Made
  BY KeepsEvents DEF IInv, TypeInv
<1>2. TasksOK'
  BY <1>1 DEF IInv, TypeInv, TasksOK
<1>3. ReportInv'
  BY ReportsNarrow DEF IInv, Narrower
<1> QED BY <1>1, <1>2, <1>3 DEF IInv, TypeInv

LEMMA SameRes == ASSUME res' = res PROVE Later(res, res')
BY DEF Later

-----------------------------------------------------------------------------
(* Creating an event *)

LEMMA TaskType ==
  ASSUME IInv, NEW t \in Tasks
  PROVE  /\ task[t] \in TaskRow /\ task[t].todo \in SUBSET Key
         /\ task[t].seats \in SUBSET Seats /\ Ready(task[t], Made)
BY DEF IInv, TypeInv, TasksOK, TaskRow

LEMMA FindPendingKeeps ==
  ASSUME IInv, NEW t \in Tasks, FindPending(t) PROVE IInv'
<1> USE DEF FindPending
<1>1. Keeps(event, event') /\ Later(res, res') /\ Rows'
  BY SameEvents, SameRes DEF IInv, TypeInv, Rows
<1>2. PICK key \in task[t].todo :
        task' = [task EXCEPT ![t] = IF Pending(key) = {}
                   THEN [task[t] EXCEPT !.pc = "create", !.key = key]
                   ELSE Creating(task[t].todo \ {key}, task[t].seats)]
  BY DEF Continue
<1>3. key \in Key
  BY TaskType
<1>4. CASE Pending(key) = {}
  <2> DEFINE row == [task[t] EXCEPT !.pc = "create", !.key = key]
  <2>1. row \in TaskRow /\ row.todo = task[t].todo /\ Ready(row, Made)
    BY <1>3, TaskType DEF TaskRow, Pc, Ready
  <2>2. Narrower(task[t].todo, row.todo)
    BY <2>1 DEF Narrower
  <2>3. task' = [task EXCEPT ![t] = row]
    BY <1>2, <1>4
  <2> HIDE DEF row
  <2> QED BY <1>1, <2>1, <2>2, <2>3, TaskNarrows
<1>5. CASE Pending(key) # {}
  <2> DEFINE row == Creating(task[t].todo \ {key}, task[t].seats)
  <2>1. row \in TaskRow /\ row.todo = task[t].todo \ {key} /\ Ready(row, Made)
    BY TaskType, CreatingRow
  <2>2. Narrower(task[t].todo, row.todo)
    BY <2>1 DEF Narrower
  <2>3. task' = [task EXCEPT ![t] = row]
    BY <1>2, <1>5
  <2> HIDE DEF row
  <2> QED BY <1>1, <2>1, <2>2, <2>3, TaskNarrows
<1> QED BY <1>4, <1>5

LEMMA FindAgainKeeps ==
  ASSUME IInv, NEW t \in Tasks, FindAgain(t) PROVE IInv'
<1> USE DEF FindAgain, Continue
<1>1. Keeps(event, event') /\ Later(res, res') /\ Rows'
  BY SameEvents, SameRes DEF IInv, TypeInv, Rows
<1>2. CASE Pending(task[t].key) = {}
  <2>1. task' = [task EXCEPT ![t] = Idle]
    BY <1>2
  <2> QED BY <1>1, <2>1, IdleRow, TaskNarrows DEF Narrower
<1>3. CASE Pending(task[t].key) # {}
  <2> DEFINE row == Creating(task[t].todo \ {task[t].key}, task[t].seats)
  <2>1. row \in TaskRow /\ row.todo = task[t].todo \ {task[t].key} /\ Ready(row, Made)
    BY TaskType, CreatingRow
  <2>2. Narrower(task[t].todo, row.todo)
    BY <2>1 DEF Narrower
  <2>3. task' = [task EXCEPT ![t] = row]
    BY <1>3
  <2> HIDE DEF row
  <2> QED BY <1>1, <2>1, <2>2, <2>3, TaskNarrows
<1> QED BY <1>2, <1>3

(* The report moves from what is to be done to the new event.              *)
LEMMA InsertKeeps ==
  ASSUME IInv, NEW t \in Tasks, task[t].pc = "create",
         Pending(task[t].key) = {}, NEW e \in EventIds, event[e] = Null,
         event' = [event EXCEPT ![e] =
           [key |-> task[t].key, status |-> "PENDING", resolved |-> FALSE]],
         task' = [task EXCEPT ![t] = Creating(task[t].todo \ {task[t].key}, task[t].seats)],
         UNCHANGED <<res, device, failures>>
  PROVE  IInv'
<1> DEFINE key == task[t].key
           new == [key |-> key, status |-> "PENDING", resolved |-> FALSE]
           row == Creating(task[t].todo \ {key}, task[t].seats)
<1>1. key \in task[t].todo /\ key \in Key
  BY TaskType DEF Ready
<1>2. new \in Event /\ EventOK(new) /\ new # Null
  <2>1. new \in Event
    BY <1>1 DEF Event, ActiveStatus
  <2>2. new.resolved = FALSE /\ new.status \notin Final
    BY DEF Final
  <2> HIDE DEF new
  <2> QED BY <2>1, <2>2, NullAssumption DEF EventOK
<1>3. row \in TaskRow /\ row.todo = task[t].todo \ {key} /\ \A made : Ready(row, made)
  BY TaskType, CreatingRow
<1>4. event' = [event EXCEPT ![e] = new] /\ task' = [task EXCEPT ![t] = row]
  OBVIOUS
<1>5. new.key = key /\ new.status = "PENDING"
  OBVIOUS
<1>6. \A d \in EventIds : event[d] # Null => ~(event[d].key = key /\ event[d].status = "PENDING")
  BY DEF Pending
<1> HIDE DEF new, row, key
<1>7. event \in [EventIds -> Event \cup {Null}] /\ \A d \in Made : EventOK(event[d])
  BY DEF IInv, TypeInv, EventsOK
<1>8. /\ event' \in [EventIds -> Event \cup {Null}] /\ event'[e] = new
      /\ \A d \in EventIds \ {e} : event'[d] = event[d]
  BY <1>2, <1>4, <1>7
<1>9. Made' = Made \cup {e} /\ e \notin Made
  BY <1>2, <1>8 DEF Made
<1>10. EventsOK'
  BY <1>2, <1>7, <1>8, <1>9 DEF EventsOK, Made
<1>11. TasksOK' /\ task'[t] = row /\ \A u \in Tasks \ {t} : task'[u] = task[u]
  BY <1>3, <1>4, <1>9, TaskGoesOn DEF IInv, TypeInv
<1>12. PendingUnique'
  BY <1>2, <1>5, <1>6, <1>8 DEF PendingUnique, Exists, IInv
<1>13. Rows'
  BY DEF IInv, TypeInv, Rows
<1>14. \A u \in Tasks : \A k \in task'[u].todo : k \in task[u].todo /\ (u = t => k # key)
  BY <1>3, <1>11
<1>15. \A d \in Made : event'[d] = event[d] /\ d # e
  BY <1>8, <1>9 DEF Made
<1>16. ReportInv
  BY DEF IInv
<1>17. \A d \in Made : ~SameNoShow(event[d].key, key) /\ ~SameNoShow(key, event[d].key)
  BY <1>1, <1>16 DEF ReportInv, SameNoShow
<1>18. ReportInv'
  <2>1. \A d \in Made' : Due(event'[d].key, res')
    BY <1>1, <1>5, <1>8, <1>9, <1>15, <1>16 DEF ReportInv, Due
  <2>2. \A u \in Tasks : \A k \in task'[u].todo : Due(k, res')
    BY <1>14, <1>16 DEF ReportInv, Due
  <2>3. \A c, d \in Made' : SameNoShow(event'[c].key, event'[d].key) => c = d
    BY <1>5, <1>8, <1>9, <1>15, <1>16, <1>17 DEF ReportInv
  <2>4. \A d \in Made', u \in Tasks : \A k \in task'[u].todo : ~SameNoShow(event'[d].key, k)
    <3>1. \A u \in Tasks : \A k \in task'[u].todo : ~SameNoShow(key, k)
      <4> SUFFICES ASSUME NEW u \in Tasks, NEW k \in task'[u].todo, SameNoShow(key, k)
                   PROVE FALSE
        OBVIOUS
      <4>1. k \in task[u].todo /\ (u = t => k # key)
        BY <1>14
      <4>2. u = t /\ k = key
        BY <1>1, <1>16, <4>1 DEF ReportInv
      <4> QED BY <4>1, <4>2
    <3> QED BY <3>1, <1>5, <1>8, <1>9, <1>14, <1>15, <1>16 DEF ReportInv
  <2>5. \A u, v \in Tasks : \A k \in task'[u].todo, l \in task'[v].todo :
          SameNoShow(k, l) => u = v /\ k = l
    BY <1>14, <1>16 DEF ReportInv
  <2> QED BY <2>1, <2>2, <2>3, <2>4, <2>5 DEF ReportInv
<1> QED BY <1>10, <1>11, <1>12, <1>13, <1>18 DEF IInv, TypeInv

LEMMA CreateEventKeeps ==
  ASSUME IInv, NEW t \in Tasks, CreateEvent(t) PROVE IInv'
<1>1. CASE Pending(task[t].key) = {}
  BY <1>1, InsertKeeps DEF CreateEvent, IndexAllows, Continue
<1>2. CASE Pending(task[t].key) # {}
  <2> DEFINE row == [task[t] EXCEPT !.pc = "refind"]
  <2>1. task[t].pc = "create" /\ task' = [task EXCEPT ![t] = row] /\ event' = event
    BY <1>2 DEF CreateEvent, IndexAllows, Continue
  <2>2. row \in TaskRow /\ row.todo = task[t].todo /\ Ready(row, Made)
    BY <2>1, TaskType DEF TaskRow, Pc, Ready
  <2>3. Keeps(event, event') /\ Later(res, res') /\ Rows'
    BY <2>1, SameEvents, SameRes DEF CreateEvent, IInv, TypeInv, Rows
  <2> HIDE DEF row
  <2> QED BY <2>1, <2>2, <2>3, TaskNarrows DEF Narrower
<1> QED BY <1>1, <1>2

-----------------------------------------------------------------------------
(* The scans *)

(* An idle task takes on reports that no event and no task has.            *)
LEMMA ScanStarts ==
  ASSUME IInv, NEW t \in Tasks, NEW keys \in SUBSET Key, task[t] = Idle,
         task' = [task EXCEPT ![t] = Creating(keys, {})],
         event' = event, Later(res, res'), Rows',
         \A k \in keys : Due(k, res'),
         \A k \in keys : k.type = "NO_SHOW" => res[k.res].status = "WAITING",
         \A k, l \in keys : k.res = l.res => k = l
  PROVE  IInv'
<1> DEFINE row == Creating(keys, {})
<1>1. row \in TaskRow /\ row.todo = keys /\ \A made : Ready(row, made)
  BY CreatingRow
<1>2. task' = [task EXCEPT ![t] = row]
  OBVIOUS
<1> HIDE DEF row
<1>3. Keeps(event, event') /\ EventsOK' /\ PendingUnique' /\ Made' = Made
  BY SameEvents DEF IInv, TypeInv
<1>4. TasksOK' /\ task'[t] = row /\ \A u \in Tasks \ {t} : task'[u] = task[u]
  BY <1>1, <1>2, <1>3, TaskGoesOn DEF IInv, TypeInv
<1>5. task'[t].todo = keys /\ task[t].todo = {}
  BY <1>1, <1>4, IdleRow
<1>6. ReportInv
  BY DEF IInv
<1>7. \A k \in keys : \A e \in Made :
        ~SameNoShow(event[e].key, k) /\ ~SameNoShow(k, event[e].key)
  BY <1>6 DEF ReportInv, SameNoShow, Due
<1>8. \A k \in keys : \A u \in Tasks : \A l \in task[u].todo :
        ~SameNoShow(l, k) /\ ~SameNoShow(k, l)
  BY <1>6 DEF ReportInv, SameNoShow, Due
<1>9. \A e \in Made' : Due(event'[e].key, res')
  BY <1>3, <1>6, DueLater DEF ReportInv
<1>10. \A u \in Tasks : \A k \in task'[u].todo : Due(k, res')
  <2> SUFFICES ASSUME NEW u \in Tasks, NEW k \in task'[u].todo PROVE Due(k, res')
    OBVIOUS
  <2>1. CASE u = t
    BY <2>1, <1>5
  <2>2. CASE u # t
    BY <2>2, <1>4, <1>6, DueLater DEF ReportInv
  <2> QED BY <2>1, <2>2
<1>11. \A d, e \in Made' : SameNoShow(event'[d].key, event'[e].key) => d = e
  BY <1>3, <1>6 DEF ReportInv
<1>12. \A e \in Made', u \in Tasks : \A k \in task'[u].todo : ~SameNoShow(event'[e].key, k)
  <2> SUFFICES ASSUME NEW e \in Made, NEW u \in Tasks, NEW k \in task'[u].todo
               PROVE ~SameNoShow(event[e].key, k)
    BY <1>3
  <2>1. CASE u = t
    BY <2>1, <1>5, <1>7
  <2>2. CASE u # t
    BY <2>2, <1>4, <1>6 DEF ReportInv
  <2> QED BY <2>1, <2>2
<1>13. \A u, v \in Tasks : \A k \in task'[u].todo, l \in task'[v].todo :
         SameNoShow(k, l) => u = v /\ k = l
  <2> SUFFICES ASSUME NEW u \in Tasks, NEW v \in Tasks, NEW k \in task'[u].todo,
                      NEW l \in task'[v].todo, SameNoShow(k, l)
               PROVE u = v /\ k = l
    OBVIOUS
  <2>1. CASE u = t /\ v = t
    BY <2>1, <1>5 DEF SameNoShow
  <2>2. CASE u = t /\ v # t
    BY <2>2, <1>4, <1>5, <1>8
  <2>3. CASE u # t /\ v = t
    BY <2>3, <1>4, <1>5, <1>8
  <2>4. CASE u # t /\ v # t
    BY <2>4, <1>4, <1>6 DEF ReportInv
  <2> QED BY <2>1, <2>2, <2>3, <2>4
<1>14. ReportInv'
  BY <1>9, <1>10, <1>11, <1>12, <1>13 DEF ReportInv
<1> QED BY <1>3, <1>4, <1>14 DEF IInv, TypeInv

LEMMA NoShowScanKeeps ==
  ASSUME IInv, NEW t \in Tasks, NEW R \in SUBSET Reservations, NoShowScan(t, R)
  PROVE  IInv'
<1> DEFINE keys == Keys("NO_SHOW", R)
<1>1. Rows /\ "NO_SHOW" \in EventType
  BY DEF IInv, TypeInv, EventType
<1>2. /\ keys \in SUBSET Key /\ \A k \in keys : k.type = "NO_SHOW" /\ k.res \in R
      /\ \A k, l \in keys : k.res = l.res => k = l
  BY <1>1, KeysType
<1>3. \A r \in R : res[r].status = "WAITING"
  BY DEF NoShowScan, Lapsed
<1>4. res' = [r \in Reservations |->
        IF r \in R THEN [res[r] EXCEPT !.status = "NO_SHOW"] ELSE res[r]]
  BY DEF NoShowScan, NoShows
<1>5. \A r \in Reservations : res[r] \in [status: ReservationStatus, seat: Seats]
  BY <1>1 DEF Rows
<1>6. /\ \A r \in R : res'[r].status = "NO_SHOW"
      /\ \A r \in Reservations \ R : res'[r] = res[r]
      /\ \A r \in Reservations : res'[r] \in [status: ReservationStatus, seat: Seats]
  BY <1>4, <1>5 DEF ReservationStatus
<1>7. Rows'
  BY <1>1, <1>4, <1>6 DEF Rows, NoShowScan
<1>8. Later(res, res')
  BY <1>3, <1>6 DEF Later
<1> HIDE DEF keys
<1>9. \A k \in keys : Due(k, res')
  BY <1>2, <1>6 DEF Due
<1>10. \A k \in keys : k.type = "NO_SHOW" => res[k.res].status = "WAITING"
  BY <1>2, <1>3
<1>11. task[t] = Idle /\ task' = [task EXCEPT ![t] = Creating(keys, {})] /\ event' = event
  BY DEF NoShowScan, Start, keys
<1> QED BY <1>2, <1>7, <1>8, <1>9, <1>10, <1>11, ScanStarts

LEMMA UsageScanKeeps ==
  ASSUME IInv, NEW t \in Tasks, NEW R \in SUBSET Reservations, UsageScan(t, R)
  PROVE  IInv'
<1> DEFINE keys == Keys("OVERTIME_OCCUPANCY", R)
<1>1. Rows /\ "OVERTIME_OCCUPANCY" \in EventType
  BY DEF IInv, TypeInv, EventType
<1>2. /\ keys \in SUBSET Key
      /\ \A k \in keys : k.type = "OVERTIME_OCCUPANCY" /\ k.res \in R
      /\ \A k, l \in keys : k.res = l.res => k = l
  BY <1>1, KeysType
<1>3. \A r \in R : res[r].status = "CHECKED_IN"
  BY DEF UsageScan
<1>4. res' = [r \in Reservations |->
        IF r \in R THEN [res[r] EXCEPT !.status = "OVERTIME"] ELSE res[r]]
  BY DEF UsageScan
<1>5. \A r \in Reservations : res[r] \in [status: ReservationStatus, seat: Seats]
  BY <1>1 DEF Rows
<1>6. /\ \A r \in R : res'[r].status = "OVERTIME"
      /\ \A r \in Reservations \ R : res'[r] = res[r]
      /\ \A r \in Reservations : res'[r] \in [status: ReservationStatus, seat: Seats]
  BY <1>4, <1>5 DEF ReservationStatus
<1>7. Rows'
  BY <1>1, <1>4, <1>6 DEF Rows, UsageScan
<1>8. Later(res, res')
  BY <1>3, <1>6 DEF Later
<1> HIDE DEF keys
<1>9. \A k \in keys : Due(k, res')
  BY <1>2, <1>6 DEF Due
<1>10. \A k \in keys : k.type = "NO_SHOW" => res[k.res].status = "WAITING"
  BY <1>2
<1>11. task[t] = Idle /\ task' = [task EXCEPT ![t] = Creating(keys, {})] /\ event' = event
  BY DEF UsageScan, Start, keys
<1> QED BY <1>2, <1>7, <1>8, <1>9, <1>10, <1>11, ScanStarts

(* An idle task takes on what is no report on a reservation's status.      *)
LEMMA OtherStarts ==
  ASSUME IInv, NEW t \in Tasks, NEW row \in TaskRow,
         task[t] = Idle, task' = [task EXCEPT ![t] = row], Ready(row, Made),
         \A k \in row.todo : k.type \notin {"NO_SHOW", "OVERTIME_OCCUPANCY"},
         event' = event, Later(res, res'), Rows'
  PROVE  IInv'
BY SameEvents, TaskNarrows DEF IInv, TypeInv, Narrower

LEMMA DeviceReconcileKeeps ==
  ASSUME IInv, NEW t \in Tasks, NEW D \in SUBSET Devices, DeviceReconcile(t, D)
  PROVE  IInv'
<1> DEFINE row == [Idle EXCEPT !.pc = "mark", !.devices = D]
<1>1. task[t] = Idle /\ task' = [task EXCEPT ![t] = row]
  BY DEF DeviceReconcile, Start
<1>2. row \in TaskRow /\ row.todo = {} /\ Ready(row, Made)
  BY DEF Idle, TaskRow, Pc, Ready
<1>3. event' = event /\ Later(res, res') /\ Rows'
  BY SameRes DEF DeviceReconcile, IInv, TypeInv, Rows
<1> HIDE DEF row
<1> QED BY <1>1, <1>2, <1>3, OtherStarts

LEMMA OfflineKeysType ==
  ASSUME Rows, NEW d \in Devices
  PROVE  \A k \in OfflineKeys(d) : k \in Key /\ k.type = "DEVICE_OFFLINE"
<1>1. CASE device[d].online /\ device[d].seat # Null
  <2>1. device[d].seat \in Seats
    BY <1>1 DEF Rows
  <2>2. KeyOf("DEVICE_OFFLINE", device[d].seat, d, Null) \in Key
        /\ KeyOf("DEVICE_OFFLINE", device[d].seat, d, Null).type = "DEVICE_OFFLINE"
    BY <2>1, KeyOfType DEF EventType
  <2> QED BY <1>1, <2>2 DEF OfflineKeys
<1>2. CASE ~(device[d].online /\ device[d].seat # Null)
  BY <1>2 DEF OfflineKeys
<1> QED BY <1>1, <1>2

(* What marking a device leaves to do, and to mark.                        *)
LEMMA MarkOfflineRow ==
  ASSUME IInv, NEW t \in Tasks, MarkOffline(t)
  PROVE  \E d \in task[t].devices, row \in TaskRow :
           /\ d \in Devices
           /\ device' = [device EXCEPT ![d].online = FALSE]
           /\ task' = [task EXCEPT ![t] = row]
           /\ row.todo = task[t].todo \cup OfflineKeys(d)
           /\ \A k \in OfflineKeys(d) : k.type = "DEVICE_OFFLINE"
           /\ row.pc # "refind" /\ row.pc # "handle"
           /\ row.todo # {} => row.pc \in {"mark", "find"}
           /\ Ready(row, Made)
<1>1. PICK d \in task[t].devices :
        LET rest == task[t].devices \ {d}
            keys == task[t].todo \cup OfflineKeys(d) IN
        /\ device' = [device EXCEPT ![d].online = FALSE]
        /\ Continue(t, IF rest = {} THEN Creating(keys, {})
                       ELSE [task[t] EXCEPT !.devices = rest, !.todo = keys])
  BY DEF MarkOffline
<1> DEFINE rest == task[t].devices \ {d}
           keys == task[t].todo \cup OfflineKeys(d)
<1>2. d \in Devices /\ rest \in SUBSET Devices
  BY TaskType DEF TaskRow
<1>3. \A k \in OfflineKeys(d) : k \in Key /\ k.type = "DEVICE_OFFLINE"
  BY <1>2, OfflineKeysType DEF IInv, TypeInv
<1>4. keys \in SUBSET Key
  BY <1>3, TaskType
<1>5. CASE rest = {}
  <2> DEFINE row == Creating(keys, {})
  <2> HIDE DEF keys
  <2>1. row \in TaskRow /\ row.todo = keys /\ Ready(row, Made)
    BY <1>4, CreatingRow
  <2>2. row.pc \in {"find", "scan", "idle"} /\ (keys # {} => row.pc = "find")
    BY CreatingPc
  <2>3. task' = [task EXCEPT ![t] = row]
    BY <1>1, <1>5 DEF Continue, keys
  <2> HIDE DEF row
  <2>4. row.todo = task[t].todo \cup OfflineKeys(d)
    BY <2>1 DEF keys
  <2> QED BY <1>1, <1>2, <1>3, <2>1, <2>2, <2>3, <2>4
<1>6. CASE rest # {}
  <2> DEFINE row == [task[t] EXCEPT !.devices = rest, !.todo = keys]
  <2>1. task[t].pc = "mark"
    BY DEF MarkOffline
  <2>2. row \in TaskRow /\ row.todo = keys /\ row.pc = "mark" /\ Ready(row, Made)
    BY <1>2, <1>4, <2>1, TaskType DEF TaskRow, Ready
  <2>3. task' = [task EXCEPT ![t] = row]
    BY <1>1, <1>6 DEF Continue
  <2> HIDE DEF row
  <2> QED BY <1>1, <1>2, <1>3, <2>2, <2>3
<1> QED BY <1>5, <1>6

LEMMA MarkOfflineKeeps ==
  ASSUME IInv, NEW t \in Tasks, MarkOffline(t) PROVE IInv'
<1>1. PICK d \in Devices, row \in TaskRow :
        /\ device' = [device EXCEPT ![d].online = FALSE]
        /\ task' = [task EXCEPT ![t] = row]
        /\ row.todo = task[t].todo \cup OfflineKeys(d)
        /\ \A k \in OfflineKeys(d) : k.type = "DEVICE_OFFLINE"
        /\ Ready(row, Made)
  BY MarkOfflineRow
<1>2. Narrower(task[t].todo, row.todo)
  BY <1>1 DEF Narrower
<1>3. device[d] \in [online: BOOLEAN, seat: Seats \cup {Null}]
  BY DEF IInv, TypeInv, Rows
<1>4. [device[d] EXCEPT !.online = FALSE] \in [online: BOOLEAN, seat: Seats \cup {Null}]
  BY <1>3
<1>5. device' = [device EXCEPT ![d] = [device[d] EXCEPT !.online = FALSE]]
  BY <1>1
<1>6. Rows'
  BY <1>4, <1>5 DEF MarkOffline, IInv, TypeInv, Rows
<1>7. Keeps(event, event') /\ Later(res, res')
  BY SameEvents, SameRes DEF MarkOffline, IInv, TypeInv
<1> QED BY <1>1, <1>2, <1>6, <1>7, TaskNarrows

LEMMA OccupancyScanKeeps ==
  ASSUME IInv, NEW t \in Tasks, OccupancyScan(t) PROVE IInv'
<1> DEFINE seats == {s \in Seats : DeviceOf(s) # Null}
           row == [Idle EXCEPT !.pc = "scan", !.seats = seats]
<1>1. task[t] = Idle /\ task' = [task EXCEPT ![t] = row]
  BY DEF OccupancyScan, Start
<1>2. seats \in SUBSET Seats
  OBVIOUS
<1> HIDE DEF seats
<1>3. row \in TaskRow /\ row.todo = {} /\ Ready(row, Made)
  BY <1>2 DEF Idle, TaskRow, Pc, Ready
<1>4. event' = event /\ Later(res, res') /\ Rows'
  BY SameRes DEF OccupancyScan, IInv, TypeInv, Rows
<1> HIDE DEF row
<1> QED BY <1>1, <1>3, <1>4, OtherStarts

LEMMA EvaluateSeatRow ==
  ASSUME IInv, NEW t \in Tasks, EvaluateSeat(t)
  PROVE  \E keys \in SUBSET Key, seats \in SUBSET Seats :
           /\ task' = [task EXCEPT ![t] = Creating(keys, seats)]
           /\ \A k \in keys : k.type \in Occupancy
<1>1. PICK s \in task[t].seats, S \in SUBSET Suspicions :
        \E found \in SUBSET S :
          Continue(t, Creating(
            {KeyOf(type, s, DeviceOf(s),
               IF type = "UNRESERVED_OCCUPANCY" THEN Null ELSE Guest(s)) : type \in found},
            task[t].seats \ {s}))
  BY DEF EvaluateSeat
<1>2. PICK found \in SUBSET S :
        Continue(t, Creating(
          {KeyOf(type, s, DeviceOf(s),
             IF type = "UNRESERVED_OCCUPANCY" THEN Null ELSE Guest(s)) : type \in found},
          task[t].seats \ {s}))
  BY <1>1
<1> DEFINE guest(type) == IF type = "UNRESERVED_OCCUPANCY" THEN Null ELSE Guest(s)
           keys == {KeyOf(type, s, DeviceOf(s), guest(type)) : type \in found}
<1>3. s \in Seats /\ task[t].seats \ {s} \in SUBSET Seats
  BY TaskType
<1>4. \A type \in found : type \in Occupancy
  BY SuspicionAssumption
<1>5. \A type \in found : guest(type) \in Reservations \cup {Null}
  BY GuestType
<1> HIDE DEF guest
<1>6. \A k \in keys : k \in Key /\ k.type \in Occupancy
  BY <1>3, <1>4, <1>5, DeviceOfType, KeyOfType DEF EventType
<1>7. task' = [task EXCEPT ![t] = Creating(keys, task[t].seats \ {s})]
  BY <1>2 DEF Continue, guest
<1> HIDE DEF keys
<1> QED BY <1>3, <1>6, <1>7

LEMMA EvaluateSeatKeeps ==
  ASSUME IInv, NEW t \in Tasks, EvaluateSeat(t) PROVE IInv'
<1>1. PICK keys \in SUBSET Key, seats \in SUBSET Seats :
        /\ task' = [task EXCEPT ![t] = Creating(keys, seats)]
        /\ \A k \in keys : k.type \in Occupancy
  BY EvaluateSeatRow
<1> DEFINE row == Creating(keys, seats)
<1>2. row \in TaskRow /\ row.todo = keys /\ Ready(row, Made)
  BY CreatingRow
<1>3. Narrower(task[t].todo, row.todo)
  BY <1>1, <1>2 DEF Narrower, Occupancy
<1>4. Keeps(event, event') /\ Later(res, res') /\ Rows'
  BY SameEvents, SameRes DEF EvaluateSeat, IInv, TypeInv, Rows
<1>5. task' = [task EXCEPT ![t] = row]
  BY <1>1
<1> HIDE DEF row
<1> QED BY <1>2, <1>3, <1>4, <1>5, TaskNarrows

-----------------------------------------------------------------------------
(* What resolves events *)

LEMMA ResolveAllKeeps ==
  ASSUME EventsOK, NEW E \in SUBSET Made, ResolveAll(E)
  PROVE  Keeps(event, event')
<1>1. event \in [EventIds -> Event \cup {Null}] /\ \A e \in Made : event[e] \in Event
  BY DEF EventsOK, EventOK
<1>2. \A e \in EventIds :
        event'[e] = IF e \in E THEN [event[e] EXCEPT !.status = "HANDLED", !.resolved = TRUE]
                               ELSE event[e]
  BY DEF ResolveAll
<1>3. \A e \in E : /\ event'[e] \in Event /\ event'[e].key = event[e].key
                   /\ event'[e].status = "HANDLED" /\ event'[e].resolved = TRUE
  <2> SUFFICES ASSUME NEW e \in E
               PROVE  /\ event'[e] \in Event /\ event'[e].key = event[e].key
                      /\ event'[e].status = "HANDLED" /\ event'[e].resolved = TRUE
    OBVIOUS
  <2>1. event[e] \in Event /\ e \in EventIds
    BY <1>1 DEF Made
  <2>2. event'[e] = [event[e] EXCEPT !.status = "HANDLED", !.resolved = TRUE]
    BY <1>2, <2>1
  <2> QED BY <2>1, <2>2 DEF Event, Final
<1>4. \A e \in E : EventOK(event'[e])
  BY <1>3 DEF EventOK, Final
<1>5. \A e \in EventIds \ E : event'[e] = event[e]
  BY <1>2
<1>6. \A e \in E : event'[e] # Null /\ event[e] # Null
  BY <1>3, NullAssumption DEF Made
<1>7. event' \in [EventIds -> Event \cup {Null}]
  <2>1. \A e \in EventIds : event'[e] \in Event \cup {Null}
    BY <1>1, <1>3, <1>5
  <2> QED BY <2>1 DEF ResolveAll
<1>8. \A e \in EventIds \ E : event'[e] # Null => EventOK(event'[e])
  BY <1>5 DEF EventsOK, Made
<1> QED BY <1>3, <1>4, <1>5, <1>6, <1>7, <1>8 DEF Keeps

LEMMA HeartbeatKeeps ==
  ASSUME IInv, NEW t \in Tasks, NEW d \in Devices, Heartbeat(t, d) PROVE IInv'
<1>1. event' = event /\ Later(res, res')
  BY SameRes DEF Heartbeat
<1>2. Rows'
  <2>1. device' = [device EXCEPT ![d] = [device[d] EXCEPT !.online = TRUE]]
    BY DEF Heartbeat
  <2>2. device[d] \in [online: BOOLEAN, seat: Seats \cup {Null}]
    BY DEF IInv, TypeInv, Rows
  <2>3. [device[d] EXCEPT !.online = TRUE] \in [online: BOOLEAN, seat: Seats \cup {Null}]
    BY <2>2
  <2> QED BY <2>1, <2>3 DEF Heartbeat, IInv, TypeInv, Rows
<1>3. CASE device[d].seat = Null
  <2>1. task[t] = Idle /\ task' = [task EXCEPT ![t] = Idle]
    BY <1>3 DEF Heartbeat, Start
  <2> QED BY <1>1, <1>2, <2>1, IdleRow, OtherStarts
<1>4. CASE device[d].seat # Null
  <2> DEFINE key == KeyOf("DEVICE_OFFLINE", device[d].seat, d, Null)
             row == [Idle EXCEPT !.pc = "resolve", !.key = key]
  <2>1. task[t] = Idle /\ task' = [task EXCEPT ![t] = row]
    BY <1>4 DEF Heartbeat, Start
  <2>2. key \in Key
    BY <1>4, KeyOfType DEF IInv, TypeInv, Rows, EventType
  <2> HIDE DEF key
  <2>3. row \in TaskRow /\ row.todo = {} /\ Ready(row, Made)
    BY <2>2 DEF Idle, TaskRow, Pc, Ready
  <2> HIDE DEF row
  <2> QED BY <1>1, <1>2, <2>1, <2>3, OtherStarts
<1> QED BY <1>3, <1>4

LEMMA ResolvePendingKeeps ==
  ASSUME IInv, NEW t \in Tasks, ResolvePending(t) PROVE IInv'
<1>1. Pending(task[t].key) \in SUBSET Made
  BY DEF Pending, Made
<1>2. Keeps(event, event')
  BY <1>1, ResolveAllKeeps DEF ResolvePending, IInv, TypeInv
<1>3. task' = [task EXCEPT ![t] = Idle] /\ Later(res, res') /\ Rows'
  BY SameRes DEF ResolvePending, Continue, IInv, TypeInv, Rows
<1> QED BY <1>2, <1>3, IdleRow, TaskNarrows DEF Narrower

LEMMA HandleAnomalyKeeps ==
  ASSUME IInv, NEW t \in Tasks, NEW e \in EventIds, NEW status \in Statuses,
         HandleAnomaly(t, e, status)
  PROVE  IInv'
<1> DEFINE row == [Idle EXCEPT !.pc = "handle", !.id = e, !.status = status]
<1>1. task[t] = Idle /\ task' = [task EXCEPT ![t] = row] /\ e \in Made
  BY DEF HandleAnomaly, Start, Made
<1>2. row \in TaskRow /\ row.todo = {} /\ Ready(row, Made)
  BY <1>1, StatusAssumption DEF Idle, TaskRow, Pc, Ready
<1>3. event' = event /\ Later(res, res') /\ Rows'
  BY SameRes DEF HandleAnomaly, IInv, TypeInv, Rows
<1> HIDE DEF row
<1> QED BY <1>1, <1>2, <1>3, OtherStarts

LEMMA HandleUpdateKeepsEvents ==
  ASSUME IInv, NEW t \in Tasks, HandleUpdate(t)
  PROVE  Keeps(event, event')
<1> DEFINE e == task[t].id
           status == task[t].status
           new == [event[e] EXCEPT !.status = status, !.resolved = status \in Final]
<1>1. e \in Made /\ status \in Statuses
  BY TaskType DEF HandleUpdate, Ready
<1>2. event' = [event EXCEPT ![e] = new]
  BY DEF HandleUpdate, Handled
<1> HIDE DEF e, status
<1>3. event \in [EventIds -> Event \cup {Null}] /\ event[e] \in Event /\ e \in EventIds
  BY <1>1 DEF IInv, TypeInv, EventsOK, EventOK, Made
<1>4. (status \in Final) \in BOOLEAN /\ status \in ActiveStatus \cup Final
  BY <1>1, StatusAssumption
<1>5. new \in Event /\ new.key = event[e].key /\ new.status = status
  BY <1>3, <1>4 DEF Event
<1>6. new.resolved <=> status \in Final
  BY <1>3 DEF Event
<1> HIDE DEF new
<1>7. EventOK(new) /\ new # Null /\ new.status # "PENDING"
  BY <1>1, <1>5, <1>6, NullAssumption, StatusAssumption DEF EventOK
<1>8. /\ event' \in [EventIds -> Event \cup {Null}] /\ event'[e] = new
      /\ \A c \in EventIds \ {e} : event'[c] = event[c]
  BY <1>2, <1>3, <1>5
<1>9. \A c \in Made : EventOK(event[c])
  BY DEF IInv, TypeInv, EventsOK
<1> QED BY <1>1, <1>5, <1>7, <1>8, <1>9 DEF Keeps, Made

LEMMA HandleUpdateKeeps ==
  ASSUME IInv, NEW t \in Tasks, HandleUpdate(t) PROVE IInv'
<1>1. Keeps(event, event') /\ task' = [task EXCEPT ![t] = Idle]
  BY HandleUpdateKeepsEvents DEF HandleUpdate, Continue
<1>2. Later(res, res') /\ Rows'
  BY SameRes DEF HandleUpdate, IInv, TypeInv, Rows
<1> QED BY <1>1, <1>2, IdleRow, TaskNarrows DEF Narrower

-----------------------------------------------------------------------------
(* The steps of students, devices and failures *)

(* One reservation changes its status.                                     *)
LEMMA StatusChanges ==
  ASSUME IInv, NEW r \in Reservations, NEW s \in ReservationStatus,
         res' = [res EXCEPT ![r].status = s],
         res[r].status # "NO_SHOW", s \in {"CHECKED_IN", "OVERTIME", "ENDED"},
         UNCHANGED <<device, failures>>
  PROVE  Later(res, res') /\ Rows'
<1>1. Rows
  BY DEF IInv, TypeInv
<1>2. res[r] \in [status: ReservationStatus, seat: Seats]
  BY <1>1 DEF Rows
<1> DEFINE new == [res[r] EXCEPT !.status = s]
<1>3. new \in [status: ReservationStatus, seat: Seats] /\ new.status = s
  BY <1>2
<1>4. res' = [res EXCEPT ![r] = new]
  OBVIOUS
<1> HIDE DEF new
<1>5. Rows'
  BY <1>1, <1>3, <1>4 DEF Rows
<1>6. res'[r].status = s /\ \A q \in Reservations \ {r} : res'[q] = res[q]
  BY <1>1, <1>3, <1>4 DEF Rows
<1>7. Later(res, res')
  BY <1>6 DEF Later
<1> QED BY <1>5, <1>7

LEMMA ReleaseKeepsEvents ==
  ASSUME IInv, NEW r \in Reservations, ReleaseSeat(r) PROVE Keeps(event, event')
<1>1. ReleasedEvents(r) \in SUBSET Made
  BY DEF ReleasedEvents, Made
<1> QED BY <1>1, ResolveAllKeeps DEF ReleaseSeat, IInv, TypeInv

LEMMA StudentKeeps ==
  ASSUME IInv, NEW r \in Reservations,
         CheckIn(r) \/ ExtendLate(r) \/ StayEnds(r) \/ ReleaseSeat(r)
  PROVE  IInv'
<1> USE DEF ReservationStatus
<1>1. CASE CheckIn(r)
  BY <1>1, SameEvents, StatusChanges, NoTask DEF CheckIn, IInv, TypeInv
<1>2. CASE ExtendLate(r)
  BY <1>2, SameEvents, StatusChanges, NoTask DEF ExtendLate, IInv, TypeInv
<1>3. CASE StayEnds(r)
  BY <1>3, SameEvents, StatusChanges, NoTask DEF StayEnds, IInv, TypeInv
<1>4. CASE ReleaseSeat(r)
  <2>2. Keeps(event, event')
    BY <1>4, ReleaseKeepsEvents
  <2>3. Later(res, res') /\ Rows'
    BY <1>4, StatusChanges DEF ReleaseSeat
  <2> QED BY <1>4, <2>2, <2>3, NoTask DEF ReleaseSeat
<1> QED BY <1>1, <1>2, <1>3, <1>4

LEMMA RebindKeeps ==
  ASSUME IInv, NEW d \in Devices, Rebind(d) PROVE IInv'
<1>1. PICK s \in Seats : device' = [device EXCEPT ![d] = [device[d] EXCEPT !.seat = s]]
  BY DEF Rebind
<1>2. device[d] \in [online: BOOLEAN, seat: Seats \cup {Null}]
  BY DEF IInv, TypeInv, Rows
<1>3. [device[d] EXCEPT !.seat = s] \in [online: BOOLEAN, seat: Seats \cup {Null}]
  BY <1>2
<1>4. Rows'
  BY <1>1, <1>3 DEF Rebind, IInv, TypeInv, Rows
<1> QED BY <1>4, SameEvents, SameRes, NoTask DEF Rebind, IInv, TypeInv

LEMMA FailsKeeps ==
  ASSUME IInv, NEW t \in Tasks, Fails(t) PROVE IInv'
<1>1. Rows'
  BY BoundAssumption DEF Fails, IInv, TypeInv, Rows
<1>2. task' = [task EXCEPT ![t] = Idle] /\ Keeps(event, event') /\ Later(res, res')
  BY SameEvents, SameRes DEF Fails, Continue, IInv, TypeInv
<1> QED BY <1>1, <1>2, IdleRow, TaskNarrows DEF Narrower

-----------------------------------------------------------------------------
(* The inductive invariant *)

LEMMA InitHolds == Init => IInv
<1> SUFFICES ASSUME Init PROVE IInv
  OBVIOUS
<1>1. Rows
  BY BoundAssumption DEF Init, Rows, ReservationStatus
<1>2. Made = {} /\ EventsOK
  BY DEF Init, Made, EventsOK
<1>3. TasksOK
  BY IdleRow DEF Init, TasksOK
<1>4. PendingUnique
  BY DEF Init, PendingUnique, Exists
<1>5. \A t \in Tasks : task[t].todo = {}
  BY IdleRow DEF Init
<1>6. ReportInv
  BY <1>2, <1>5 DEF ReportInv
<1> QED BY <1>1, <1>2, <1>3, <1>4, <1>6 DEF IInv, TypeInv

LEMMA StepHolds == IInv /\ [Next]_vars => IInv'
<1> SUFFICES ASSUME IInv, [Next]_vars PROVE IInv'
  OBVIOUS
<1>1. ASSUME NEW t \in Tasks, Step(t) PROVE IInv'
  BY <1>1, MarkOfflineKeeps, FindPendingKeeps, CreateEventKeeps, FindAgainKeeps,
     EvaluateSeatKeeps, ResolvePendingKeeps, HandleUpdateKeeps DEF Step
<1>2. ASSUME NEW t \in Tasks, Begin(t) PROVE IInv'
  BY <1>2, NoShowScanKeeps, UsageScanKeeps, DeviceReconcileKeeps, OccupancyScanKeeps,
     HeartbeatKeeps, HandleAnomalyKeeps DEF Begin
<1>3. CASE UNCHANGED vars
  BY <1>3, SameEvents, SameRes, NoTask DEF vars, IInv, TypeInv, Rows
<1> QED BY <1>1, <1>2, <1>3, FailsKeeps, StudentKeeps, RebindKeeps DEF Next

LEMMA Invariance == Spec => []IInv
BY InitHolds, StepHolds, PTL DEF Spec

(* The types of every row, and that an event is resolved exactly when its  *)
(* status is final, in every state (anomalies.service.ts, auto-rules,      *)
(* admin.service.ts).                                                      *)
THEOREM TypesInvariant == Spec => []TypeOK
<1>1. IInv => TypeOK
  BY DEF IInv, TypeInv, Rows, EventsOK, EventOK, TasksOK, Made, TypeOK, Exists
<1> QED BY <1>1, Invariance, PTL

(* However many scans, heartbeats and administrators overlap, at most one  *)
(* pending event is about the same thing (createPendingOnce and the        *)
(* partial unique index).                                                  *)
THEOREM PendingUniqueInvariant == Spec => []PendingUnique
BY Invariance, PTL DEF IInv

(* A no-show is never reported twice: the scan takes it once, and what it  *)
(* reports is in one event or in what one task is still to create.         *)
THEOREM ReportedOnceInvariant == Spec => []ReportedOnce
<1>1. IInv => ReportedOnce
  BY DEF IInv, ReportInv, ReportedOnce, Exists, Made, SameNoShow
<1> QED BY <1>1, Invariance, PTL

-----------------------------------------------------------------------------
(* What is reported and what is owed *)

Kinds == {"NO_SHOW", "OVERTIME_OCCUPANCY"}

(* What a task is to create is of one kind, and kept until it is created;  *)
(* a conflict is with an event of the same key, and never about a no-show. *)
WorkRow(row) ==
  /\ row.todo # {} => row.pc \in {"mark", "find", "create", "refind"}
  /\ \A k, l \in row.todo : k.type \in Kinds => l.type = k.type
  /\ row.pc = "mark" => \A k \in row.todo : k.type \notin Kinds

ConflictOK(row) ==
  row.pc = "refind" =>
    row.key.type # "NO_SHOW" /\ \E e \in Made : event[e].key = row.key

WorkInv == \A t \in Tasks : WorkRow(task[t]) /\ ConflictOK(task[t])

Counted(type, r) ==
  \/ Reported(type, r) \/ Owed(type, r) \/ failures > 0
  \/ type = "OVERTIME_OCCUPANCY" /\ OtherResolved(r)

CountInv ==
  \A r \in Reservations :
    /\ res[r].status = "NO_SHOW" => Counted("NO_SHOW", r)
    /\ res[r].status = "OVERTIME" => Counted("OVERTIME_OCCUPANCY", r)

FullInv == IInv /\ WorkInv /\ CountInv

(* Events are kept, with their keys, and what is not pending stays so.     *)
Grows ==
  /\ \A e \in Made :
       /\ e \in Made' /\ event'[e].key = event[e].key
       /\ event'[e].status = "PENDING" => event[e].status = "PENDING"
  /\ failures' = failures

LEMMA KeepsGrows ==
  ASSUME Keeps(event, event'), failures' = failures PROVE Grows
BY DEF Keeps, Grows, Made

LEMMA CreatingWork ==
  ASSUME NEW keys \in SUBSET Key, NEW seats \in SUBSET Seats,
         \A k, l \in keys : k.type \in Kinds => l.type = k.type
  PROVE  WorkRow(Creating(keys, seats)) /\ ConflictOK(Creating(keys, seats))
<1>1. Creating(keys, seats).todo = keys
  BY CreatingRow
<1>2. /\ Creating(keys, seats).pc # "refind"
      /\ keys # {} => Creating(keys, seats).pc = "find"
  BY CreatingPc
<1> QED BY <1>1, <1>2 DEF WorkRow, ConflictOK

LEMMA IdleWork == WorkRow(Idle) /\ ConflictOK(Idle)
BY DEF WorkRow, ConflictOK, Idle

(* One task goes on with a row that is in order; the others' conflicts     *)
(* stay.                                                                   *)
LEMMA WorkGoesOn ==
  ASSUME IInv, WorkInv, NEW t \in Tasks, NEW row,
         task' = [task EXCEPT ![t] = row], WorkRow(row),
         row.pc = "refind" => row.key.type # "NO_SHOW" /\ \E e \in Made : event[e].key = row.key,
         \A e \in Made : e \in Made' /\ event'[e].key = event[e].key
  PROVE  WorkInv'
<1>1. task'[t] = row /\ \A u \in Tasks \ {t} : task'[u] = task[u]
  BY DEF IInv, TypeInv, TasksOK
<1>2. \A u \in Tasks \ {t} : WorkRow(task'[u]) /\ ConflictOK(task[u])
  BY <1>1 DEF WorkInv
<1>3. ASSUME NEW u \in Tasks PROVE WorkRow(task'[u]) /\ ConflictOK(task[u])'
  <2>1. CASE u = t
    BY <1>1, <2>1 DEF ConflictOK
  <2>2. CASE u # t
    BY <1>1, <1>2, <2>2 DEF ConflictOK
  <2> QED BY <2>1, <2>2
<1> QED BY <1>3 DEF WorkInv, WorkRow

(* What was counted is counted still, when what leaves a list of work is.  *)
LEMMA CountedStays ==
  ASSUME Grows,
         \A t \in Tasks : \A k \in task[t].todo :
           k.type \in Kinds => Counted(k.type, k.res)',
         NEW type \in Kinds, NEW r, Counted(type, r)
  PROVE  Counted(type, r)'
<1>1. CASE Reported(type, r)
  BY <1>1 DEF Grows, Reported, Exists, Made, Counted
<1>2. CASE Owed(type, r)
  <2>1. PICK t \in Tasks : \E k \in task[t].todo : k.type = type /\ k.res = r
    BY <1>2 DEF Owed
  <2>2. PICK k \in task[t].todo : k.type = type /\ k.res = r
    BY <2>1
  <2> QED BY <2>2
<1>3. CASE failures > 0
  BY <1>3 DEF Grows, Counted
<1>4. CASE type = "OVERTIME_OCCUPANCY" /\ OtherResolved(r)
  BY <1>4 DEF Grows, OtherResolved, Exists, Made, Counted
<1> QED BY <1>1, <1>2, <1>3, <1>4 DEF Counted

(* A task keeps what it has to create.                                     *)
LEMMA OwedCounted ==
  ASSUME NEW t \in Tasks, NEW k \in task[t].todo PROVE Counted(k.type, k.res)
BY DEF Counted, Owed

LEMMA ReportedCounted ==
  ASSUME NEW e \in EventIds, event[e] # Null
  PROVE  Counted(event[e].key.type, event[e].key.res)
BY DEF Counted, Reported, Exists

(* A step of task t after which everything it had to create is counted,    *)
(* and nothing is newly missed or overdue.                                 *)
LEMMA CountGoesOn ==
  ASSUME IInv, CountInv, NEW t \in Tasks, NEW row,
         task' = [task EXCEPT ![t] = row], Grows, res' = res,
         \A k \in task[t].todo : k.type \in Kinds => Counted(k.type, k.res)'
  PROVE  CountInv'
<1>1. \A u \in Tasks \ {t} : task'[u] = task[u]
  BY DEF IInv, TypeInv, TasksOK
<1>2. ASSUME NEW u \in Tasks, NEW k \in task[u].todo, k.type \in Kinds
      PROVE  Counted(k.type, k.res)'
  <2>1. CASE u = t
    BY <1>2, <2>1
  <2>2. CASE u # t
    BY <1>1, <2>2 DEF Counted, Owed
  <2> QED BY <2>1, <2>2
<1>3. ASSUME NEW type \in Kinds, NEW r, Counted(type, r) PROVE Counted(type, r)'
  BY <1>2, <1>3, CountedStays
<1>4. "NO_SHOW" \in Kinds /\ "OVERTIME_OCCUPANCY" \in Kinds
  BY DEF Kinds
<1> QED BY <1>3, <1>4 DEF CountInv

LEMMA GoesOn ==
  ASSUME FullInv, NEW t \in Tasks, NEW row,
         task' = [task EXCEPT ![t] = row], WorkRow(row),
         row.pc = "refind" => row.key.type # "NO_SHOW" /\ \E e \in Made : event[e].key = row.key,
         Grows, res' = res,
         \A k \in task[t].todo : k.type \in Kinds => Counted(k.type, k.res)'
  PROVE  WorkInv' /\ CountInv'
<1>1. WorkInv'
  BY WorkGoesOn DEF FullInv, Grows
<1>2. CountInv'
  BY CountGoesOn DEF FullInv
<1> QED BY <1>1, <1>2

(* Everything a task had to create is in the row it goes on with, but for  *)
(* a key that some event has.                                              *)
LEMMA DropCounts ==
  ASSUME FullInv, NEW t \in Tasks, NEW row, NEW key, task' = [task EXCEPT ![t] = row],
         \A k \in task[t].todo : k = key \/ k \in row.todo,
         \E e \in EventIds : event'[e] # Null /\ event'[e].key = key
  PROVE  \A k \in task[t].todo : Counted(k.type, k.res)'
<1>1. task'[t] = row
  BY DEF FullInv, IInv, TypeInv, TasksOK
<1>2. ASSUME NEW k \in row.todo PROVE Counted(k.type, k.res)'
  BY <1>1, <1>2 DEF Counted, Owed
<1>3. Counted(key.type, key.res)'
  BY DEF Counted, Reported, Exists
<1> QED BY <1>2, <1>3

(* A step after which the task has all of its work still.                  *)
LEMMA KeepCounts ==
  ASSUME FullInv, NEW t \in Tasks, NEW row, task' = [task EXCEPT ![t] = row],
         task[t].todo \subseteq row.todo
  PROVE  \A k \in task[t].todo : Counted(k.type, k.res)'
<1>1. task'[t] = row
  BY DEF FullInv, IInv, TypeInv, TasksOK
<1> QED BY <1>1 DEF Counted, Owed

(* A key is done with.                                                     *)
LEMMA DropRow ==
  ASSUME FullInv, NEW t \in Tasks, NEW key
  PROVE  LET row == Creating(task[t].todo \ {key}, task[t].seats) IN
         row.todo = task[t].todo \ {key} /\ WorkRow(row) /\ row.pc # "refind"
<1> DEFINE rest == task[t].todo \ {key}
<1>1. rest \in SUBSET Key /\ task[t].seats \in SUBSET Seats
  BY TaskType DEF FullInv
<1>2. \A k, l \in rest : k.type \in Kinds => l.type = k.type
  BY DEF FullInv, WorkInv, WorkRow
<1> HIDE DEF rest
<1>3. WorkRow(Creating(rest, task[t].seats)) /\ Creating(rest, task[t].seats).todo = rest
  BY <1>1, <1>2, CreatingWork, CreatingRow
<1>4. Creating(rest, task[t].seats).pc # "refind"
  BY CreatingPc
<1> QED BY <1>3, <1>4 DEF rest

LEMMA UnchangedGrows ==
  ASSUME IInv, UNCHANGED <<event, failures>> PROVE Grows
BY DEF Grows, Made

LEMMA FindPendingCounts ==
  ASSUME FullInv, NEW t \in Tasks, FindPending(t) PROVE WorkInv' /\ CountInv'
<1>1. PICK key \in task[t].todo :
        task' = [task EXCEPT ![t] = IF Pending(key) = {}
                   THEN [task[t] EXCEPT !.pc = "create", !.key = key]
                   ELSE Creating(task[t].todo \ {key}, task[t].seats)]
  BY DEF FindPending, Continue
<1>2. Grows /\ res' = res /\ event' = event
  BY UnchangedGrows DEF FindPending, FullInv
<1>3. CASE Pending(key) = {}
  <2> DEFINE row == [task[t] EXCEPT !.pc = "create", !.key = key]
  <2>1. task' = [task EXCEPT ![t] = row]
    BY <1>1, <1>3
  <2>2. row.todo = task[t].todo /\ row.pc = "create"
    BY TaskType DEF FullInv, TaskRow
  <2>3. WorkRow(row)
    BY <2>2 DEF FullInv, WorkInv, WorkRow
  <2> HIDE DEF row
  <2> QED BY <1>2, <2>1, <2>2, <2>3, KeepCounts, GoesOn
<1>4. CASE Pending(key) # {}
  <2> DEFINE row == Creating(task[t].todo \ {key}, task[t].seats)
  <2>1. task' = [task EXCEPT ![t] = row]
    BY <1>1, <1>4
  <2>2. row.todo = task[t].todo \ {key} /\ WorkRow(row) /\ row.pc # "refind"
    BY DropRow
  <2>3. \E e \in EventIds : event'[e] # Null /\ event'[e].key = key
    BY <1>2, <1>4 DEF Pending
  <2> HIDE DEF row
  <2>4. \A k \in task[t].todo : Counted(k.type, k.res)'
    BY <2>1, <2>2, <2>3, DropCounts
  <2> QED BY <1>2, <2>1, <2>2, <2>4, GoesOn
<1> QED BY <1>3, <1>4

LEMMA CreateEventCounts ==
  ASSUME FullInv, NEW t \in Tasks, CreateEvent(t) PROVE WorkInv' /\ CountInv'
<1> DEFINE key == task[t].key
<1>1. task[t].pc = "create" /\ key \in task[t].todo
  BY TaskType DEF CreateEvent, FullInv, Ready
<1>2. CASE IndexAllows(key)
  <2> DEFINE row == Creating(task[t].todo \ {key}, task[t].seats)
             new == [key |-> key, status |-> "PENDING", resolved |-> FALSE]
  <2>1. PICK e \in EventIds : event[e] = Null /\ event' = [event EXCEPT ![e] = new]
    BY <1>2 DEF CreateEvent
  <2>2. task' = [task EXCEPT ![t] = row] /\ res' = res /\ failures' = failures
    BY <1>2 DEF CreateEvent, Continue
  <2>3. row.todo = task[t].todo \ {key} /\ WorkRow(row) /\ row.pc # "refind"
    BY DropRow
  <2>4. key \in Key
    BY <1>1, TaskType DEF FullInv
  <2>5. new.key = key /\ new # Null
    <3>1. new \in Event
      BY <2>4 DEF Event, ActiveStatus
    <3> QED BY <3>1, NullAssumption
  <2> HIDE DEF row, new
  <2>6. event'[e] = new /\ \A d \in EventIds \ {e} : event'[d] = event[d]
    BY <2>1 DEF FullInv, IInv, TypeInv, EventsOK
  <2>7. Grows
    BY <2>1, <2>2, <2>6 DEF Grows, Made
  <2>8. \A k \in task[t].todo : Counted(k.type, k.res)'
    BY <2>2, <2>3, <2>5, <2>6, DropCounts
  <2> QED BY <2>2, <2>3, <2>7, <2>8, GoesOn
<1>3. CASE ~IndexAllows(key)
  <2> DEFINE row == [task[t] EXCEPT !.pc = "refind"]
  <2>1. task' = [task EXCEPT ![t] = row] /\ event' = event /\ res' = res /\ failures' = failures
    BY <1>3 DEF CreateEvent, Continue
  <2>2. row.todo = task[t].todo /\ row.pc = "refind" /\ row.key = key
    BY TaskType DEF FullInv, TaskRow
  <2>3. WorkRow(row)
    BY <2>2 DEF FullInv, WorkInv, WorkRow
  <2>4. PICK e \in Made : event[e].key = key
    BY <1>3 DEF IndexAllows, Pending, Made
  <2>5. key.type # "NO_SHOW"
    BY <1>1, <2>4 DEF FullInv, IInv, ReportInv, SameNoShow
  <2> HIDE DEF row
  <2>6. Grows
    BY <2>1, UnchangedGrows DEF FullInv
  <2>7. \A k \in task[t].todo : Counted(k.type, k.res)'
    BY <2>1, <2>2, KeepCounts
  <2> HIDE DEF key
  <2> QED BY <2>1, <2>2, <2>3, <2>4, <2>5, <2>6, <2>7, GoesOn
<1> QED BY <1>2, <1>3

(* When the event in conflict has been resolved, the scan's other reports  *)
(* are lost: they are of overdue stays, as is that event.                  *)
LEMMA FindAgainCounts ==
  ASSUME FullInv, NEW t \in Tasks, FindAgain(t) PROVE WorkInv' /\ CountInv'
<1> DEFINE key == task[t].key
<1>1. Grows /\ res' = res /\ event' = event /\ task[t].pc = "refind"
  BY UnchangedGrows DEF FindAgain, FullInv
<1>2. key \in task[t].todo
  BY <1>1, TaskType DEF FullInv, Ready
<1>3. CASE Pending(key) = {}
  <2>1. task' = [task EXCEPT ![t] = Idle]
    BY <1>3 DEF FindAgain, Continue
  <2>2. key.type # "NO_SHOW" /\ \E e \in Made : event[e].key = key
    BY <1>1 DEF FullInv, WorkInv, ConflictOK
  <2>3. PICK e \in Made : event[e].key = key
    BY <2>2
  <2>4. event[e].status # "PENDING"
    BY <1>3, <2>3 DEF Pending, Made
  <2>5. ASSUME NEW k \in task[t].todo, k.type \in Kinds PROVE Counted(k.type, k.res)'
    <3>1. key.type = k.type
      BY <1>2, <2>5 DEF FullInv, WorkInv, WorkRow
    <3>2. k.type = "OVERTIME_OCCUPANCY"
      BY <2>2, <2>5, <3>1 DEF Kinds
    <3>3. CASE k.res = key.res
      BY <1>1, <2>3, <3>1, <3>3 DEF Counted, Reported, Exists, Made
    <3>4. CASE k.res # key.res
      BY <1>1, <2>3, <2>4, <3>1, <3>2, <3>4 DEF Counted, OtherResolved, Exists, Made
    <3> QED BY <3>3, <3>4
  <2>6. WorkRow(Idle) /\ Idle.pc # "refind"
    BY IdleWork DEF Idle
  <2> QED BY <1>1, <2>1, <2>5, <2>6, GoesOn
<1>4. CASE Pending(key) # {}
  <2> DEFINE row == Creating(task[t].todo \ {key}, task[t].seats)
  <2>1. task' = [task EXCEPT ![t] = row]
    BY <1>4 DEF FindAgain, Continue
  <2>2. row.todo = task[t].todo \ {key} /\ WorkRow(row) /\ row.pc # "refind"
    BY DropRow
  <2>3. \E e \in EventIds : event'[e] # Null /\ event'[e].key = key
    BY <1>1, <1>4 DEF Pending
  <2> HIDE DEF row
  <2>4. \A k \in task[t].todo : Counted(k.type, k.res)'
    BY <2>1, <2>2, <2>3, DropCounts
  <2> QED BY <1>1, <2>1, <2>2, <2>4, GoesOn
<1> QED BY <1>3, <1>4

(* A task that had nothing to create goes on.                              *)
LEMMA FreshCounts ==
  ASSUME FullInv, NEW t \in Tasks, NEW row, task' = [task EXCEPT ![t] = row],
         task[t].todo = {}, WorkRow(row), row.pc # "refind", Grows, res' = res
  PROVE  WorkInv' /\ CountInv'
BY GoesOn

LEMMA NothingToDo ==
  ASSUME FullInv, NEW t \in Tasks, task[t].pc \notin {"mark", "find", "create", "refind"}
  PROVE  task[t].todo = {}
BY DEF FullInv, WorkInv, WorkRow

LEMMA MarkOfflineCounts ==
  ASSUME FullInv, NEW t \in Tasks, MarkOffline(t) PROVE WorkInv' /\ CountInv'
<1>1. PICK d \in task[t].devices, row \in TaskRow :
        /\ task' = [task EXCEPT ![t] = row]
        /\ row.todo = task[t].todo \cup OfflineKeys(d)
        /\ \A k \in OfflineKeys(d) : k.type = "DEVICE_OFFLINE"
        /\ row.pc # "refind" /\ (row.todo # {} => row.pc \in {"mark", "find"})
  BY MarkOfflineRow DEF FullInv
<1>2. Grows /\ res' = res /\ task[t].pc = "mark"
  BY UnchangedGrows DEF MarkOffline, FullInv
<1>3. \A k \in task[t].todo : k.type \notin Kinds
  BY <1>2 DEF FullInv, WorkInv, WorkRow
<1>4. WorkRow(row)
  BY <1>1, <1>3 DEF WorkRow, Kinds
<1> QED BY <1>1, <1>2, <1>4, KeepCounts, GoesOn

LEMMA EvaluateSeatCounts ==
  ASSUME FullInv, NEW t \in Tasks, EvaluateSeat(t) PROVE WorkInv' /\ CountInv'
<1>1. PICK keys \in SUBSET Key, seats \in SUBSET Seats :
        /\ task' = [task EXCEPT ![t] = Creating(keys, seats)]
        /\ \A k \in keys : k.type \in Occupancy
  BY EvaluateSeatRow DEF FullInv
<1>2. Grows /\ res' = res /\ task[t].todo = {}
  BY UnchangedGrows, NothingToDo DEF EvaluateSeat, FullInv
<1>3. WorkRow(Creating(keys, seats))
  BY <1>1, CreatingWork DEF Kinds, Occupancy
<1>4. Creating(keys, seats).pc # "refind"
  BY CreatingPc
<1> QED BY <1>1, <1>2, <1>3, <1>4, FreshCounts

LEMMA ResolvePendingCounts ==
  ASSUME FullInv, NEW t \in Tasks, ResolvePending(t) PROVE WorkInv' /\ CountInv'
<1>1. Pending(task[t].key) \in SUBSET Made
  BY DEF Pending, Made
<1>2. Keeps(event, event')
  BY <1>1, ResolveAllKeeps DEF ResolvePending, FullInv, IInv, TypeInv
<1>3. Grows /\ res' = res /\ task[t].todo = {} /\ task' = [task EXCEPT ![t] = Idle]
  BY <1>2, KeepsGrows, NothingToDo DEF ResolvePending, Continue
<1> QED BY <1>3, IdleWork, FreshCounts DEF Idle

LEMMA HandleUpdateCounts ==
  ASSUME FullInv, NEW t \in Tasks, HandleUpdate(t) PROVE WorkInv' /\ CountInv'
<1>1. Grows /\ res' = res /\ task[t].todo = {} /\ task' = [task EXCEPT ![t] = Idle]
  BY HandleUpdateKeepsEvents, KeepsGrows, NothingToDo DEF HandleUpdate, Continue, FullInv
<1> QED BY <1>1, IdleWork, FreshCounts DEF Idle

(* A scan commits what it changed and owes an event of each.               *)
LEMMA ScanCounts ==
  ASSUME FullInv, NEW t \in Tasks, NEW R \in SUBSET Reservations, NEW type \in Kinds,
         task[t] = Idle, task' = [task EXCEPT ![t] = Creating(Keys(type, R), {})],
         UNCHANGED <<event, failures>>,
         \A r \in Reservations :
           res'[r].status \in {"NO_SHOW", "OVERTIME"} =>
             \/ res'[r].status = res[r].status
             \/ r \in R /\ (type = "NO_SHOW" <=> res'[r].status = "NO_SHOW")
  PROVE  WorkInv' /\ CountInv'
<1> DEFINE keys == Keys(type, R)
           row == Creating(keys, {})
<1>0. type \in EventType
  BY DEF Kinds, EventType
<1>1. keys \in SUBSET Key /\ \A k \in keys : k.type = type
  BY <1>0, KeysType DEF FullInv, IInv, TypeInv
<1>2. ASSUME NEW r \in R PROVE \E k \in keys : k.type = type /\ k.res = r
  <2> DEFINE k == KeyOf(type, res[r].seat, DeviceOf(res[r].seat), r)
  <2>1. k \in keys
    BY DEF Keys
  <2>2. k.type = type /\ k.res = r
    BY DEF KeyOf
  <2> QED BY <2>1, <2>2
<1>3. task' = [task EXCEPT ![t] = row]
  OBVIOUS
<1> HIDE DEF keys
<1>4. WorkRow(row) /\ row.pc # "refind" /\ row.todo = keys
  BY <1>1, CreatingWork, CreatingPc, CreatingRow
<1> HIDE DEF row
<1>5. Grows
  BY UnchangedGrows DEF FullInv
<1>6. WorkInv'
  BY <1>3, <1>4, <1>5, WorkGoesOn DEF FullInv, Grows
<1>7. task'[t] = row /\ \A u \in Tasks \ {t} : task'[u] = task[u]
  BY <1>3 DEF FullInv, IInv, TypeInv, TasksOK
<1>8. ASSUME NEW u \in Tasks, NEW k \in task[u].todo PROVE Counted(k.type, k.res)'
  <2>1. u # t
    BY <1>8, IdleRow
  <2> QED BY <1>7, <2>1 DEF Counted, Owed
<1>9. ASSUME NEW ty \in Kinds, NEW r, Counted(ty, r) PROVE Counted(ty, r)'
  BY <1>5, <1>8, <1>9, CountedStays
<1>10. ASSUME NEW r \in R PROVE Counted(type, r)'
  BY <1>2, <1>4, <1>7, <1>10 DEF Counted, Owed
<1>11. "NO_SHOW" \in Kinds /\ "OVERTIME_OCCUPANCY" \in Kinds
  BY DEF Kinds
<1>12. ASSUME NEW r \in Reservations
       PROVE  /\ res'[r].status = "NO_SHOW" => Counted("NO_SHOW", r)'
              /\ res'[r].status = "OVERTIME" => Counted("OVERTIME_OCCUPANCY", r)'
  <2>1. CASE res'[r].status = res[r].status
    BY <1>9, <1>11, <2>1 DEF FullInv, CountInv
  <2>2. CASE r \in R /\ (type = "NO_SHOW" <=> res'[r].status = "NO_SHOW")
    BY <1>10, <2>2 DEF Kinds
  <2> QED BY <2>1, <2>2
<1>13. CountInv'
  BY <1>12 DEF CountInv
<1> QED BY <1>6, <1>13

LEMMA BeginCounts ==
  ASSUME FullInv, NEW t \in Tasks, Begin(t) PROVE WorkInv' /\ CountInv'
<1>0. \A r \in Reservations : res[r] \in [status: ReservationStatus, seat: Seats]
  BY DEF FullInv, IInv, TypeInv, Rows
<1>1. ASSUME NEW R \in SUBSET Reservations, NoShowScan(t, R) PROVE WorkInv' /\ CountInv'
  <2>1. \A r \in Reservations : res'[r] = IF r \in R THEN [res[r] EXCEPT !.status = "NO_SHOW"]
                                          ELSE res[r]
    BY <1>1 DEF NoShowScan, NoShows
  <2>2. \A r \in Reservations :
          (r \in R => res'[r].status = "NO_SHOW") /\ (r \notin R => res'[r] = res[r])
    BY <1>0, <2>1
  <2>3. task[t] = Idle /\ task' = [task EXCEPT ![t] = Creating(Keys("NO_SHOW", R), {})]
        /\ UNCHANGED <<event, failures>>
    BY <1>1 DEF NoShowScan, Start
  <2> QED BY <2>2, <2>3, ScanCounts DEF Kinds
<1>2. ASSUME NEW R \in SUBSET Reservations, UsageScan(t, R) PROVE WorkInv' /\ CountInv'
  <2>1. \A r \in Reservations : res'[r] = IF r \in R THEN [res[r] EXCEPT !.status = "OVERTIME"]
                                          ELSE res[r]
    BY <1>2 DEF UsageScan
  <2>2. \A r \in Reservations :
          (r \in R => res'[r].status = "OVERTIME") /\ (r \notin R => res'[r] = res[r])
    BY <1>0, <2>1
  <2>3. task[t] = Idle /\ task' = [task EXCEPT ![t] = Creating(Keys("OVERTIME_OCCUPANCY", R), {})]
        /\ UNCHANGED <<event, failures>>
    BY <1>2 DEF UsageScan, Start
  <2> QED BY <2>2, <2>3, ScanCounts DEF Kinds
<1>3. ASSUME NEW row, Start(t, row), row.todo = {}, row.pc # "refind",
             UNCHANGED <<event, res, failures>>
      PROVE  WorkInv' /\ CountInv'
  <2>1. WorkRow(row) /\ task[t].todo = {}
    BY <1>3, IdleRow DEF WorkRow, Start
  <2> QED BY <1>3, <2>1, UnchangedGrows, FreshCounts DEF Start, FullInv
<1>4. ASSUME NEW D \in SUBSET Devices, DeviceReconcile(t, D) PROVE WorkInv' /\ CountInv'
  <2> DEFINE row == [Idle EXCEPT !.pc = "mark", !.devices = D]
  <2>1. row.todo = {} /\ row.pc = "mark"
    BY DEF Idle
  <2>2. Start(t, row) /\ UNCHANGED <<event, res, failures>>
    BY <1>4 DEF DeviceReconcile
  <2> HIDE DEF row
  <2> QED BY <1>3, <2>1, <2>2
<1>5. CASE OccupancyScan(t)
  <2>1. PICK row : row = [Idle EXCEPT !.pc = "scan", !.seats = {s \in Seats : DeviceOf(s) # Null}]
    OBVIOUS
  <2>2. row.todo = {} /\ row.pc = "scan"
    BY <2>1 DEF Idle
  <2>3. Start(t, row) /\ UNCHANGED <<event, res, failures>>
    BY <1>5, <2>1 DEF OccupancyScan
  <2> QED BY <1>3, <2>2, <2>3
<1>6. ASSUME NEW d \in Devices, Heartbeat(t, d) PROVE WorkInv' /\ CountInv'
  <2>1. PICK row : Start(t, row) /\ UNCHANGED <<event, res, failures>>
          /\ (row = Idle \/ \E key : row = [Idle EXCEPT !.pc = "resolve", !.key = key])
    BY <1>6 DEF Heartbeat
  <2>2. ASSUME NEW key, row = [Idle EXCEPT !.pc = "resolve", !.key = key]
        PROVE  row.todo = {} /\ row.pc = "resolve"
    BY <2>2 DEF Idle
  <2>3. row.todo = {} /\ row.pc # "refind"
    <3>1. CASE row = Idle
      BY <3>1 DEF Idle
    <3>2. CASE \E key : row = [Idle EXCEPT !.pc = "resolve", !.key = key]
      BY <2>2, <3>2
    <3> QED BY <2>1, <3>1, <3>2
  <2> QED BY <1>3, <2>1, <2>3
<1>7. ASSUME NEW e \in EventIds, NEW status \in Statuses, HandleAnomaly(t, e, status)
      PROVE  WorkInv' /\ CountInv'
  <2>1. PICK row : row = [Idle EXCEPT !.pc = "handle", !.id = e, !.status = status]
    OBVIOUS
  <2>2. row.todo = {} /\ row.pc = "handle"
    BY <2>1 DEF Idle
  <2>3. Start(t, row) /\ UNCHANGED <<event, res, failures>>
    BY <1>7, <2>1 DEF HandleAnomaly
  <2> QED BY <1>3, <2>2, <2>3
<1> QED BY <1>1, <1>2, <1>4, <1>5, <1>6, <1>7 DEF Begin

(* Steps that leave the tasks alone miss nothing and are late with nothing.*)
LEMMA OthersCount ==
  ASSUME FullInv, task' = task, Grows,
         \A r \in Reservations :
           res'[r].status \in {"NO_SHOW", "OVERTIME"} => res'[r].status = res[r].status
  PROVE  WorkInv' /\ CountInv'
<1>1. WorkInv'
  BY DEF FullInv, WorkInv, WorkRow, ConflictOK, Grows
<1>2. ASSUME NEW t \in Tasks, NEW k \in task[t].todo PROVE Counted(k.type, k.res)'
  BY <1>2 DEF Counted, Owed
<1>3. ASSUME NEW type \in Kinds, NEW r, Counted(type, r) PROVE Counted(type, r)'
  BY <1>2, <1>3, CountedStays
<1>4. CountInv'
  BY <1>3 DEF FullInv, CountInv, Kinds
<1> QED BY <1>1, <1>4

LEMMA StudentCounts ==
  ASSUME FullInv, NEW r \in Reservations,
         CheckIn(r) \/ ExtendLate(r) \/ StayEnds(r) \/ ReleaseSeat(r)
  PROVE  WorkInv' /\ CountInv'
<1>1. task' = task /\ failures' = failures /\ \E s \in {"CHECKED_IN", "ENDED"} : res' = [res EXCEPT ![r].status = s]
  BY DEF CheckIn, ExtendLate, StayEnds, ReleaseSeat
<1>2. PICK s \in {"CHECKED_IN", "ENDED"} : res' = [res EXCEPT ![r].status = s]
  BY <1>1
<1>3. res[r] \in [status: ReservationStatus, seat: Seats]
      /\ res \in [Reservations -> [status: ReservationStatus, seat: Seats]]
  BY DEF FullInv, IInv, TypeInv, Rows
<1>4. res'[r].status = s /\ \A q \in Reservations \ {r} : res'[q] = res[q]
  BY <1>2, <1>3
<1>5. event' = event \/ ReleaseSeat(r)
  BY DEF CheckIn, ExtendLate, StayEnds
<1>6. Grows
  BY <1>1, <1>5, ReleaseKeepsEvents, KeepsGrows, UnchangedGrows DEF FullInv
<1> QED BY <1>1, <1>4, <1>6, OthersCount

LEMMA FailsCounts ==
  ASSUME FullInv, NEW t \in Tasks, Fails(t) PROVE WorkInv' /\ CountInv'
<1>1. task' = [task EXCEPT ![t] = Idle] /\ event' = event /\ res' = res
      /\ failures' = failures + 1
  BY DEF Fails, Continue
<1>2. failures' > 0
  BY <1>1, BoundAssumption DEF FullInv, IInv, TypeInv, Rows
<1>3. CountInv'
  BY <1>2 DEF CountInv, Counted
<1>4. \A e \in Made : e \in Made' /\ event'[e].key = event[e].key
  BY <1>1 DEF Made
<1>5. WorkInv'
  BY <1>1, <1>4, IdleWork, WorkGoesOn DEF FullInv, Idle
<1> QED BY <1>3, <1>5

LEMMA FullInit == Init => FullInv
<1> SUFFICES ASSUME Init PROVE FullInv
  OBVIOUS
<1>1. \A t \in Tasks : task[t] = Idle
  BY DEF Init
<1>2. WorkInv
  BY <1>1, IdleWork DEF WorkInv, ConflictOK, Idle
<1>3. \A r \in Reservations : res[r].status = "WAITING"
  BY DEF Init
<1> QED BY <1>2, <1>3, InitHolds DEF FullInv, CountInv

LEMMA FullStep == FullInv /\ [Next]_vars => FullInv'
<1> SUFFICES ASSUME FullInv, [Next]_vars PROVE FullInv'
  OBVIOUS
<1>1. IInv'
  BY StepHolds DEF FullInv
<1>2. ASSUME NEW t \in Tasks, Step(t) PROVE WorkInv' /\ CountInv'
  BY <1>2, MarkOfflineCounts, FindPendingCounts, CreateEventCounts, FindAgainCounts,
     EvaluateSeatCounts, ResolvePendingCounts, HandleUpdateCounts DEF Step
<1>3. ASSUME NEW d \in Devices, Rebind(d) PROVE WorkInv' /\ CountInv'
  BY <1>3, UnchangedGrows, OthersCount DEF Rebind, FullInv
<1>4. ASSUME UNCHANGED vars PROVE WorkInv' /\ CountInv'
  BY <1>4, UnchangedGrows, OthersCount DEF vars, FullInv
<1>5. ASSUME NEW t \in Tasks, Begin(t) \/ Fails(t) PROVE WorkInv' /\ CountInv'
  BY <1>5, BeginCounts, FailsCounts
<1>6. ASSUME NEW r \in Reservations,
             CheckIn(r) \/ ExtendLate(r) \/ StayEnds(r) \/ ReleaseSeat(r)
      PROVE  WorkInv' /\ CountInv'
  BY <1>6, StudentCounts
<1>7. WorkInv' /\ CountInv'
  BY <1>2, <1>3, <1>4, <1>5, <1>6 DEF Next
<1> QED BY <1>1, <1>7 DEF FullInv

(* Events and reservations agree in every state, however late an event is  *)
(* created after the commit it is about, whatever overlaps and breaks off: *)
(* what is said is true, and what has happened is said, or some task has   *)
(* still to say it, or something failed, or the event that a scan ran into *)
(* was resolved (runNoShowScan, runUsageScan, createPendingOnce).          *)
THEOREM ReportsMatchInvariant == Spec => []ReportsMatch
<1>1. FullInv => ReportsMatch
  BY DEF FullInv, IInv, ReportInv, CountInv, Counted, ReportsMatch, Exists, Made, Due
<1> QED BY <1>1, FullInit, FullStep, PTL DEF Spec

-----------------------------------------------------------------------------
(* Closed events *)

(* The event stays as it is, and no task takes up a handling of it.        *)
LEMMA SettledStays ==
  ASSUME IInv, NEW e \in EventIds, Settled(e), event'[e] = event[e],
         \/ task' = task
         \/ \E t \in Tasks : \E row : /\ task' = [task EXCEPT ![t] = row]
                                      /\ row.pc = "handle" => row.id # e
  PROVE  Settled(e)'
<1>1. CASE task' = task
  BY <1>1 DEF Settled, Exists
<1>2. ASSUME NEW t \in Tasks, NEW row, task' = [task EXCEPT ![t] = row],
             row.pc = "handle" => row.id # e
      PROVE  Settled(e)'
  <2>1. task'[t] = row /\ \A u \in Tasks \ {t} : task'[u] = task[u]
    BY <1>2 DEF IInv, TypeInv, TasksOK
  <2> QED BY <1>2, <2>1 DEF Settled, Exists
<1> QED BY <1>1, <1>2

LEMMA SettledRow ==
  ASSUME IInv, NEW e \in EventIds, Settled(e), event'[e] = event[e],
         NEW t \in Tasks, NEW row, task' = [task EXCEPT ![t] = row],
         row.pc = "handle" => row.id # e
  PROVE  Settled(e)'
BY SettledStays

(* Resolving leaves alone what is not among the events it is for.          *)
LEMMA NotResolved ==
  ASSUME NEW E, NEW e \in EventIds, e \notin E, ResolveAll(E) PROVE event'[e] = event[e]
BY DEF ResolveAll

LEMMA StepSettles ==
  ASSUME IInv, NEW t \in Tasks, Step(t), NEW e \in EventIds, Settled(e) PROVE Settled(e)'
<1>1. CASE MarkOffline(t)
  <2>1. PICK row \in TaskRow : task' = [task EXCEPT ![t] = row] /\ row.pc # "handle"
    BY <1>1, MarkOfflineRow
  <2> QED BY <1>1, <2>1, SettledRow DEF MarkOffline
<1>2. CASE EvaluateSeat(t)
  <2>1. PICK keys \in SUBSET Key, seats \in SUBSET Seats :
          task' = [task EXCEPT ![t] = Creating(keys, seats)]
    BY <1>2, EvaluateSeatRow
  <2> QED BY <1>2, <2>1, CreatingPc, SettledRow DEF EvaluateSeat
<1>3. CASE FindPending(t)
  <2>1. PICK key \in task[t].todo :
          task' = [task EXCEPT ![t] = IF Pending(key) = {}
                     THEN [task[t] EXCEPT !.pc = "create", !.key = key]
                     ELSE Creating(task[t].todo \ {key}, task[t].seats)]
    BY <1>3 DEF FindPending, Continue
  <2> DEFINE found == Creating(task[t].todo \ {key}, task[t].seats)
             absent == [task[t] EXCEPT !.pc = "create", !.key = key]
  <2>2. absent.pc = "create"
    BY TaskType DEF TaskRow
  <2>3. found.pc # "handle"
    BY CreatingPc
  <2>4. \/ task' = [task EXCEPT ![t] = absent]
        \/ task' = [task EXCEPT ![t] = found]
    BY <2>1
  <2>5. event'[e] = event[e]
    BY <1>3 DEF FindPending
  <2> HIDE DEF found, absent
  <2>6. PICK row : task' = [task EXCEPT ![t] = row] /\ row.pc # "handle"
    BY <2>2, <2>3, <2>4
  <2> QED BY <2>5, <2>6, SettledRow
<1>4. CASE CreateEvent(t)
  <2>1. event'[e] = event[e]
    BY <1>4 DEF CreateEvent, Settled, Exists, IInv, TypeInv, EventsOK
  <2>2. \/ task' = [task EXCEPT ![t] = Creating(task[t].todo \ {task[t].key}, task[t].seats)]
        \/ task' = [task EXCEPT ![t] = [task[t] EXCEPT !.pc = "refind"]]
    BY <1>4 DEF CreateEvent, Continue
  <2>3. [task[t] EXCEPT !.pc = "refind"].pc = "refind"
    BY TaskType DEF TaskRow
  <2>4. Creating(task[t].todo \ {task[t].key}, task[t].seats).pc # "handle"
    BY CreatingPc
  <2> QED BY <2>1, <2>2, <2>3, <2>4, SettledRow
<1>5. CASE FindAgain(t)
  <2>1. \/ task' = [task EXCEPT ![t] = Creating(task[t].todo \ {task[t].key}, task[t].seats)]
        \/ task' = [task EXCEPT ![t] = Idle]
    BY <1>5 DEF FindAgain, Continue
  <2>2. Creating(task[t].todo \ {task[t].key}, task[t].seats).pc # "handle"
    BY CreatingPc
  <2>3. Idle.pc # "handle"
    BY DEF Idle
  <2> QED BY <1>5, <2>1, <2>2, <2>3, SettledRow DEF FindAgain
<1>6. CASE ResolvePending(t)
  <2>1. e \notin Pending(task[t].key)
    BY DEF Pending, Settled
  <2>2. event'[e] = event[e] /\ task' = [task EXCEPT ![t] = Idle]
    BY <1>6, <2>1, NotResolved DEF ResolvePending, Continue
  <2>3. Idle.pc # "handle"
    BY DEF Idle
  <2> QED BY <2>2, <2>3, SettledRow
<1>7. CASE HandleUpdate(t)
  <2>1. task[t].id # e
    BY <1>7 DEF HandleUpdate, Settled
  <2>2. event'[e] = event[e] /\ task' = [task EXCEPT ![t] = Idle]
    BY <1>7, <2>1 DEF HandleUpdate, Continue
  <2>3. Idle.pc # "handle"
    BY DEF Idle
  <2> QED BY <2>2, <2>3, SettledRow
<1> QED BY <1>1, <1>2, <1>3, <1>4, <1>5, <1>6, <1>7 DEF Step

(* No scan or message begins with a handling, and none begins of what is   *)
(* closed.                                                                 *)
LEMMA BeginSettles ==
  ASSUME IInv, NEW t \in Tasks, Begin(t), NEW e \in EventIds, Settled(e) PROVE Settled(e)'
<1>1. event' = event
  BY DEF Begin, NoShowScan, UsageScan, DeviceReconcile, OccupancyScan, Heartbeat, HandleAnomaly
<1>2. \E row : Start(t, row) /\ (row.pc = "handle" => row.id # e)
  <2>1. ASSUME NEW R \in SUBSET Reservations, NoShowScan(t, R) \/ UsageScan(t, R)
        PROVE  \E keys : Start(t, Creating(keys, {}))
    BY <2>1 DEF NoShowScan, UsageScan
  <2>2. ASSUME NEW D \in SUBSET Devices, DeviceReconcile(t, D)
        PROVE  \E row : Start(t, row) /\ row.pc = "mark"
    <3>1. [Idle EXCEPT !.pc = "mark", !.devices = D].pc = "mark"
      BY DEF Idle
    <3> QED BY <2>2, <3>1 DEF DeviceReconcile
  <2>3. ASSUME OccupancyScan(t) PROVE \E row : Start(t, row) /\ row.pc = "scan"
    <3> DEFINE row == [Idle EXCEPT !.pc = "scan", !.seats = {s \in Seats : DeviceOf(s) # Null}]
    <3>1. row.pc = "scan"
      BY DEF Idle
    <3>2. Start(t, row)
      BY <2>3 DEF OccupancyScan
    <3> QED BY <3>1, <3>2
  <2>4. ASSUME NEW d \in Devices, Heartbeat(t, d)
        PROVE  \E row : Start(t, row) /\ row.pc \in {"idle", "resolve"}
    <3>1. \A key : [Idle EXCEPT !.pc = "resolve", !.key = key].pc = "resolve"
      BY DEF Idle
    <3>2. Idle.pc = "idle"
      BY DEF Idle
    <3> QED BY <2>4, <3>1, <3>2 DEF Heartbeat
  <2>5. ASSUME NEW f \in EventIds, NEW status \in Statuses, HandleAnomaly(t, f, status)
        PROVE  \E row : Start(t, row) /\ row.id # e
    <3> DEFINE row == [Idle EXCEPT !.pc = "handle", !.id = f, !.status = status]
    <3>1. row.id = f
      BY DEF Idle
    <3>2. f # e /\ Start(t, row)
      BY <2>5 DEF HandleAnomaly, Settled
    <3> HIDE DEF row
    <3> QED BY <3>1, <3>2
  <2> QED BY <2>1, <2>2, <2>3, <2>4, <2>5, CreatingPc DEF Begin
<1>3. PICK row : Start(t, row) /\ (row.pc = "handle" => row.id # e)
  BY <1>2
<1> QED BY <1>1, <1>3, SettledRow DEF Start

(* Once no handling of a closed event is under way, the event stays closed *)
(* and none begins: a handling reads the status first, and what a release  *)
(* or a heartbeat resolves is still open (handleAnomaly, createPendingOnce,*)
(* resolvePending, releaseSeat).                                           *)
THEOREM ClosedEventsSettle == Spec => ClosedSettles
<1>1. IInv /\ [Next]_vars => [\A e \in EventIds : Settled(e) => Settled(e)']_vars
  <2> SUFFICES ASSUME IInv, Next, NEW e \in EventIds, Settled(e) PROVE Settled(e)'
    OBVIOUS
  <2>1. ASSUME NEW t \in Tasks, Fails(t) PROVE Settled(e)'
    <3>1. task' = [task EXCEPT ![t] = Idle] /\ event' = event
      BY <2>1 DEF Fails, Continue
    <3>2. Idle.pc # "handle"
      BY DEF Idle
    <3> QED BY <3>1, <3>2, SettledRow
  <2>2. ASSUME NEW r \in Reservations, CheckIn(r) \/ ExtendLate(r) \/ StayEnds(r) PROVE Settled(e)'
    BY <2>2, SettledStays DEF CheckIn, ExtendLate, StayEnds
  <2>3. ASSUME NEW r \in Reservations, ReleaseSeat(r) PROVE Settled(e)'
    <3>1. e \notin ReleasedEvents(r)
      BY DEF ReleasedEvents, Settled, ActiveStatus
    <3>2. event'[e] = event[e] /\ task' = task
      BY <2>3, <3>1, NotResolved DEF ReleaseSeat
    <3> QED BY <3>2, SettledStays
  <2>4. ASSUME NEW d \in Devices, Rebind(d) PROVE Settled(e)'
    BY <2>4, SettledStays DEF Rebind
  <2>5. ASSUME NEW t \in Tasks, Step(t) \/ Begin(t) PROVE Settled(e)'
    BY <2>5, StepSettles, BeginSettles
  <2> QED BY <2>1, <2>2, <2>3, <2>4, <2>5 DEF Next
<1> QED BY <1>1, Invariance, PTL DEF Spec, ClosedSettles

=============================================================================
