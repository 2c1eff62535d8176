--------------------------- MODULE MessagesProofs ---------------------------
(***************************************************************************)
(* Theorems about what the API tells administrators and terminals, for     *)
(* every number of terminals, handlers, connections, topics, messages and  *)
(* failures: first about TerminalSync and BrokerLink as MCMessages         *)
(* instantiates them (its constants are theirs, and take any value), then  *)
(* about the behaviours of MCMessages, with AnomaliesProofs for the part   *)
(* that is Anomalies.                                                      *)
(***************************************************************************)
EXTENDS MCMessages, AnomaliesProofs, FiniteSetTheorems, FunctionTheorems, SequenceTheorems

-----------------------------------------------------------------------------
(* Terminals                                                               *)

(* TerminalSync's assumptions on its constants.                            *)
TerminalsOK == Sync!NullAssumption /\ Sync!InputAssumption

SeatRow == [status: Sync!SeatStatus, window: Sync!Phase, maintenance: BOOLEAN]
CacheRow == [display: Sync!Layout \cup {Null}, light: Sync!Light \cup {Null}]
TerminalRow == [display: Sync!Layout \cup {Null}, light: Sync!Light \cup {Null}, mode: BOOLEAN]

SeatsOK ==
  /\ seat \in [Screens -> SeatRow]
  /\ \A d \in Screens : seat[d].window # "none" <=> seat[d].status = "RESERVED"

ShownOK == cache \in [Screens -> CacheRow] /\ terminal \in [Screens -> TerminalRow]

WorldOK ==
  /\ online \in [Screens -> BOOLEAN]
  /\ connected \in BOOLEAN /\ linked \subseteq Screens
  /\ failures \in 0 .. MaxCrashes

CheckingIn == {"checkedInDisplay", "checkedInLight"}

(* A handler knows the terminal its next step is about, and what to show.  *)
TaskOK(row) ==
  /\ row = [pc |-> row.pc, todo |-> row.todo, about |-> row.about]
  /\ row.pc \in Sync!Pc /\ row.todo \subseteq Screens
  /\ row.pc = "syncPublish" => row.about.of \in Screens /\ row.about.is \in Sync!Layout
  /\ row.pc = "publishToken" => row.about.of \in Screens
  /\ row.pc = "command" => row.about.of \in Screens /\ row.about.is \in BOOLEAN
  /\ row.pc = "mark" => row.about \subseteq Screens
  /\ row.pc \in CheckingIn => \E d \in Screens : row.todo = {d}

TerminalTasksOK ==
  /\ task = [t \in Sync!Publishers |-> task[t]]
  /\ \A t \in Sync!Publishers : TaskOK(task[t])

TerminalTypeInv == SeatsOK /\ ShownOK /\ WorldOK /\ TerminalTasksOK

-----------------------------------------------------------------------------
(* Seats and tasks *)

LEMMA IdleHandlerOK == TaskOK(Sync!Idle) /\ Sync!Idle.pc = "idle"
BY DEF TaskOK, Sync!Idle, Sync!Pc, CheckingIn

LEMMA LoopOK ==
  ASSUME NEW todo \in SUBSET Screens, NEW pc \in {"sync", "issue", "resyncDevice"}
  PROVE  TaskOK(Sync!Loop(pc, todo)) /\ Sync!Loop(pc, todo).pc \in {pc, "idle"}
<1>1. CASE todo = {}
  BY <1>1, IdleHandlerOK DEF Sync!Loop
<1>2. CASE todo # {}
  <2>1. Sync!Loop(pc, todo) = [pc |-> pc, todo |-> todo, about |-> Null]
    BY <1>2 DEF Sync!Loop, Sync!Idle
  <2> QED BY <2>1 DEF TaskOK, Sync!Pc, CheckingIn
<1> QED BY <1>1, <1>2

LEMMA TerminalTaskGoesOn ==
  ASSUME TerminalTasksOK, NEW t \in Sync!Publishers, NEW row, TaskOK(row),
         task' = [task EXCEPT ![t] = row]
  PROVE  TerminalTasksOK' /\ task'[t] = row
<1>1. \A u \in Sync!Publishers : task'[u] = IF u = t THEN row ELSE task[u]
  BY DEF TerminalTasksOK
<1>2. task' = [u \in Sync!Publishers |-> task'[u]]
  BY <1>1 DEF TerminalTasksOK
<1> QED BY <1>1, <1>2 DEF TerminalTasksOK

LEMMA LayoutType ==
  ASSUME SeatsOK, NEW d \in Screens PROVE Sync!LayoutOf(seat[d]) \in Sync!Layout
BY DEF SeatsOK, SeatRow, Sync!LayoutOf, Sync!Layout

LEMMA LightType == ASSUME NEW layout \in Sync!Layout PROVE Sync!LightOf(layout) \in Sync!Light
BY DEF Sync!LightOf, Sync!Layout, Sync!SeatStatus, Sync!Using, Sync!Light

(* The status of one seat.                                                 *)
LEMMA SeatBecomesOK ==
  ASSUME SeatsOK, NEW d \in Screens, NEW status \in Sync!SeatStatus, NEW window \in Sync!Phase,
         window # "none" <=> status = "RESERVED", Sync!SeatBecomes(d, status, window)
  PROVE  SeatsOK'
<1>1. seat[d] \in SeatRow
  BY DEF SeatsOK
<1> DEFINE row == [[seat[d] EXCEPT !.status = status] EXCEPT !.window = window]
<1>2. row \in SeatRow /\ row.status = status /\ row.window = window
  BY <1>1 DEF SeatRow
<1>3. seat' = [seat EXCEPT ![d] = row]
  BY DEF Sync!SeatBecomes, SeatsOK
<1> HIDE DEF row
<1> QED BY <1>2, <1>3 DEF SeatsOK

-----------------------------------------------------------------------------
(* What is published *)

LEMMA PublishBothOK ==
  ASSUME ShownOK, NEW d \in Screens, NEW layout \in Sync!Layout, NEW light \in Sync!Light,
         Sync!PublishBoth(d, layout, light)
  PROVE  ShownOK'
<1>1. cache' \in [Screens -> CacheRow]
  BY DEF Sync!PublishBoth, ShownOK, CacheRow
<1>2. terminal' \in [Screens -> TerminalRow]
  BY DEF Sync!PublishBoth, ShownOK, TerminalRow
<1> QED BY <1>1, <1>2 DEF ShownOK

LEMMA PublishDisplayOK ==
  ASSUME ShownOK, NEW d \in Screens, NEW layout \in Sync!Layout, Sync!PublishDisplay(d, layout)
  PROVE  ShownOK'
<1>1. cache' \in [Screens -> CacheRow]
  BY DEF Sync!PublishDisplay, ShownOK, CacheRow
<1>2. terminal' \in [Screens -> TerminalRow]
  BY DEF Sync!PublishDisplay, ShownOK, TerminalRow
<1> QED BY <1>1, <1>2 DEF ShownOK

LEMMA PublishLightOK ==
  ASSUME ShownOK, NEW d \in Screens, NEW light \in Sync!Light, Sync!PublishLight(d, light)
  PROVE  ShownOK'
<1>1. cache' \in [Screens -> CacheRow]
  BY DEF Sync!PublishLight, ShownOK, CacheRow
<1>2. terminal' \in [Screens -> TerminalRow]
  BY DEF Sync!PublishLight, ShownOK, TerminalRow
<1> QED BY <1>1, <1>2 DEF ShownOK

LEMMA CachedOK ==
  ASSUME ShownOK, NEW d \in Screens, NEW layout \in Sync!Layout
  PROVE  Sync!CachedLayout(d, layout) \in Sync!Layout /\ Sync!CachedLight(d,
        layout) \in Sync!Light
<1>1. cache[d] \in CacheRow
  BY DEF ShownOK
<1> QED BY <1>1, LightType DEF Sync!CachedLayout, Sync!CachedLight, CacheRow

-----------------------------------------------------------------------------
(* The types *)

LEMMA SameSeats == ASSUME SeatsOK, seat' = seat PROVE SeatsOK'
BY DEF SeatsOK

LEMMA SameShown == ASSUME ShownOK, UNCHANGED <<cache, terminal>> PROVE ShownOK'
BY DEF ShownOK

LEMMA SameWorld == ASSUME WorldOK, UNCHANGED Sync!world PROVE WorldOK'
BY DEF WorldOK, Sync!world

LEMMA SyncTypes ==
  ASSUME TerminalsOK, TerminalTypeInv, NEW t \in Sync!Publishers,
         Sync!SyncRead(t) \/ Sync!SyncPublish(t) \/ Sync!Command(t)
  PROVE  TerminalTypeInv'
<1> USE DEF TerminalTypeInv
<1>0. TaskOK(task[t])
  BY DEF TerminalTasksOK
<1>1. CASE Sync!SyncRead(t)
  <2>1. PICK d \in task[t].todo :
          task' = [task EXCEPT ![t] = [pc |-> "syncPublish", todo |-> task[t].todo,
                    about |-> [of |-> d, is |-> Sync!LayoutOf(seat[d])]]]
    BY <1>1 DEF Sync!SyncRead, Sync!Continue
  <2> DEFINE row == [pc |-> "syncPublish", todo |-> task[t].todo,
                     about |-> [of |-> d, is |-> Sync!LayoutOf(seat[d])]]
  <2>2. TaskOK(row)
    BY <1>0, LayoutType DEF TaskOK, Sync!Pc, CheckingIn
  <2> HIDE DEF row
  <2>3. TerminalTasksOK'
    BY <2>1, <2>2, TerminalTaskGoesOn DEF row
  <2> QED BY <1>1, <2>3, SameSeats, SameShown, SameWorld DEF Sync!SyncRead
<1>2. CASE Sync!SyncPublish(t)
  <2> DEFINE d == task[t].about.of
             layout == task[t].about.is
  <2>1. d \in Screens /\ layout \in Sync!Layout /\ task[t].todo \ {d} \in SUBSET Screens
    BY <1>0, <1>2 DEF Sync!SyncPublish, TaskOK
  <2>2. ShownOK'
    <3>1. Sync!PublishBoth(d, Sync!CachedLayout(d, layout), Sync!CachedLight(d, layout))
      BY <1>2 DEF Sync!SyncPublish
    <3> HIDE DEF d, layout
    <3> QED BY <2>1, <3>1, CachedOK, PublishBothOK
  <2>3. TerminalTasksOK'
    BY <1>2, <2>1, LoopOK, TerminalTaskGoesOn DEF Sync!SyncPublish, Sync!Continue
  <2> QED BY <1>2, <2>2, <2>3, SameSeats, SameWorld DEF Sync!SyncPublish
<1>3. CASE Sync!Command(t)
  <2> DEFINE d == task[t].about.of
  <2>1. d \in Screens /\ {d} \in SUBSET Screens /\ task[t].about.is \in BOOLEAN
    BY <1>0, <1>3 DEF Sync!Command, TaskOK
  <2>2. ShownOK'
    <3>1. terminal' \in [Screens -> TerminalRow]
      BY <1>3, <2>1 DEF Sync!Command, ShownOK, TerminalRow
    <3> QED BY <1>3, <3>1 DEF Sync!Command, ShownOK
  <2>3. TerminalTasksOK'
    BY <1>3, <2>1, LoopOK, TerminalTaskGoesOn DEF Sync!Command, Sync!Continue
  <2> QED BY <1>3, <2>2, <2>3, SameSeats, SameWorld DEF Sync!Command
<1> QED BY <1>1, <1>2, <1>3

LEMMA CheckInTypes ==
  ASSUME TerminalsOK, TerminalTypeInv, NEW t \in Sync!Publishers,
         (\E d \in Screens : Sync!CheckIn(t,
             d)) \/ Sync!CheckedInDisplay(t) \/ Sync!CheckedInLight(t)
  PROVE  TerminalTypeInv'
<1> USE DEF TerminalTypeInv
<1>0. TaskOK(task[t])
  BY DEF TerminalTasksOK
<1>1. ASSUME NEW d \in Screens, Sync!CheckIn(t, d) PROVE TerminalTypeInv'
  <2>1. Sync!Loop("checkedInDisplay", {d})
          = [pc |-> "checkedInDisplay", todo |-> {d}, about |-> Null]
    BY DEF Sync!Loop, Sync!Idle
  <2>2. TaskOK(Sync!Loop("checkedInDisplay", {d}))
    BY <2>1 DEF TaskOK, Sync!Pc, CheckingIn
  <2>3. TerminalTasksOK'
    BY <1>1, <2>2, TerminalTaskGoesOn DEF Sync!CheckIn, Sync!Start
  <2>4. SeatsOK'
    BY <1>1, SeatBecomesOK DEF Sync!CheckIn, Sync!SeatStatus, Sync!Using, Sync!Phase
  <2> QED BY <1>1, <2>3, <2>4, SameShown, SameWorld DEF Sync!CheckIn
<1>2. CASE Sync!CheckedInDisplay(t)
  <2>1. PICK d \in task[t].todo : Sync!PublishDisplay(d, "OCCUPIED")
    BY <1>2 DEF Sync!CheckedInDisplay
  <2>2. d \in Screens
    BY <1>0 DEF TaskOK
  <2>3. ShownOK'
    BY <2>1, <2>2, PublishDisplayOK DEF Sync!Layout, Sync!SeatStatus, Sync!Using
  <2> DEFINE row == [task[t] EXCEPT !.pc = "checkedInLight"]
  <2>4. TaskOK(row)
    BY <1>0, <1>2 DEF Sync!CheckedInDisplay, TaskOK, Sync!Pc, CheckingIn
  <2>5. TerminalTasksOK'
    BY <1>2, <2>4, TerminalTaskGoesOn DEF Sync!CheckedInDisplay, Sync!Continue
  <2> QED BY <1>2, <2>3, <2>5, SameSeats, SameWorld DEF Sync!CheckedInDisplay
<1>3. CASE Sync!CheckedInLight(t)
  <2>1. PICK d \in task[t].todo : Sync!PublishLight(d, "OCCUPIED")
    BY <1>3 DEF Sync!CheckedInLight
  <2>2. d \in Screens
    BY <1>0 DEF TaskOK
  <2>3. ShownOK'
    BY <2>1, <2>2, PublishLightOK DEF Sync!Light
  <2>4. TerminalTasksOK'
    BY <1>3, IdleHandlerOK, TerminalTaskGoesOn DEF Sync!CheckedInLight, Sync!Continue
  <2> QED BY <1>3, <2>3, <2>4, SameSeats, SameWorld DEF Sync!CheckedInLight
<1> QED BY <1>1, <1>2, <1>3

LEMMA TokenTypes ==
  ASSUME TerminalsOK, TerminalTypeInv, NEW t \in Sync!Publishers,
         Sync!RefreshFind(t) \/ Sync!Issue(t) \/ Sync!PublishToken(t) \/ Sync!ResyncDevice(t) \/ Sync!ResyncFind(t)
  PROVE  TerminalTypeInv'
<1> USE DEF TerminalTypeInv
<1>0. TaskOK(task[t])
  BY DEF TerminalTasksOK
<1>1. ASSUME NEW row, TaskOK(row), task' = [task EXCEPT ![t] = row],
             UNCHANGED <<seat, cache, terminal, Sync!world>>
      PROVE  TerminalTypeInv'
  BY <1>1, TerminalTaskGoesOn, SameSeats, SameShown, SameWorld
<1>2. CASE Sync!RefreshFind(t)
  <2> DEFINE waiting == {d \in Screens : seat[d].window = "open"}
  <2>1. waiting \in SUBSET Screens
    OBVIOUS
  <2>2. task' = [task EXCEPT ![t] = Sync!Loop("issue", waiting)]
    BY <1>2 DEF Sync!RefreshFind, Sync!Start
  <2> HIDE DEF waiting
  <2>3. TaskOK(Sync!Loop("issue", waiting))
    BY <2>1, LoopOK
  <2> QED BY <1>1, <1>2, <2>2, <2>3 DEF Sync!RefreshFind
<1>3. CASE Sync!Issue(t)
  <2>1. PICK d \in task[t].todo :
          task' = [task EXCEPT ![t] =
            IF online[d] THEN [pc |-> "publishToken", todo |-> task[t].todo,
                               about |-> [of |-> d, is |-> "RESERVED"]]
                         ELSE Sync!Loop("issue", task[t].todo \ {d})]
    BY <1>3 DEF Sync!Issue, Sync!Continue
  <2>2. d \in Screens /\ task[t].todo \ {d} \in SUBSET Screens
    BY <1>0 DEF TaskOK
  <2> DEFINE made == [pc |-> "publishToken", todo |-> task[t].todo,
                      about |-> [of |-> d, is |-> "RESERVED"]]
             rest == Sync!Loop("issue", task[t].todo \ {d})
             row == IF online[d] THEN made ELSE rest
  <2>3. TaskOK(made)
    BY <1>0, <2>2 DEF TaskOK, Sync!Pc, CheckingIn
  <2>4. TaskOK(rest)
    BY <2>2, LoopOK
  <2>5. task' = [task EXCEPT ![t] = row]
    BY <2>1
  <2> HIDE DEF made, rest
  <2>6. TaskOK(row)
    BY <2>3, <2>4
  <2> HIDE DEF row
  <2> QED BY <1>1, <1>3, <2>5, <2>6 DEF Sync!Issue
<1>4. CASE Sync!PublishToken(t)
  <2> DEFINE d == task[t].about.of
  <2>1. d \in Screens /\ task[t].todo \ {d} \in SUBSET Screens
    BY <1>0, <1>4 DEF Sync!PublishToken, TaskOK
  <2>2. ShownOK'
    BY <1>4, <2>1, PublishBothOK
       DEF Sync!PublishToken, Sync!PublishReserved, Sync!Layout, Sync!SeatStatus, Sync!Light
  <2>3. TerminalTasksOK'
    BY <1>4, <2>1, LoopOK, TerminalTaskGoesOn DEF Sync!PublishToken, Sync!Continue
  <2> QED BY <1>4, <2>2, <2>3, SameSeats, SameWorld DEF Sync!PublishToken
<1>5. CASE Sync!ResyncDevice(t)
  <2> DEFINE row == [task[t] EXCEPT !.pc = "resyncFind"]
  <2>1. TaskOK(row)
    BY <1>0, <1>5 DEF Sync!ResyncDevice, TaskOK, Sync!Pc, CheckingIn
  <2>2. \/ task' = [task EXCEPT ![t] = row]
        \/ task' = [task EXCEPT ![t] = Sync!Idle]
    BY <1>5 DEF Sync!ResyncDevice, Sync!Continue
  <2> HIDE DEF row
  <2> QED BY <1>1, <1>5, <2>1, <2>2, IdleHandlerOK DEF Sync!ResyncDevice
<1>6. CASE Sync!ResyncFind(t)
  <2>1. PICK d \in task[t].todo :
          \/ task' = [task EXCEPT ![t] = Sync!Idle]
          \/ task' = [task EXCEPT ![t] = Sync!Loop("issue", {d})]
          \/ task' = [task EXCEPT ![t] = [pc |-> "publishToken", todo |-> {d},
                                          about |-> [of |-> d, is |-> "RESERVED"]]]
    BY <1>6 DEF Sync!ResyncFind, Sync!Continue
  <2>2. d \in Screens /\ {d} \in SUBSET Screens
    BY <1>0 DEF TaskOK
  <2>3. TaskOK(Sync!Loop("issue", {d}))
    BY <2>2, LoopOK
  <2> DEFINE made == [pc |-> "publishToken", todo |-> {d},
                      about |-> [of |-> d, is |-> "RESERVED"]]
  <2>4. TaskOK(made)
    BY <2>2 DEF TaskOK, Sync!Pc, CheckingIn
  <2>5. \/ task' = [task EXCEPT ![t] = Sync!Idle]
        \/ task' = [task EXCEPT ![t] = Sync!Loop("issue", {d})]
        \/ task' = [task EXCEPT ![t] = made]
    BY <2>1
  <2> HIDE DEF made
  <2> QED BY <1>1, <1>6, <2>3, <2>4, <2>5, IdleHandlerOK DEF Sync!ResyncFind
<1> QED BY <1>2, <1>3, <1>4, <1>5, <1>6

LEMMA MarkTypes ==
  ASSUME TerminalTypeInv, NEW t \in Sync!Publishers, Sync!MarkOffline(t)
  PROVE  TerminalTypeInv'
<1> USE DEF TerminalTypeInv
<1>1. TaskOK(task[t]) /\ task[t].pc = "mark"
  BY DEF TerminalTasksOK, Sync!MarkOffline
<1>2. PICK d \in task[t].todo :
        LET rest == task[t].todo \ {d}
            marked == task[t].about \cup {c \in {d} : online[c]} IN
        /\ online' = [online EXCEPT ![d] = FALSE]
        /\ task' = [task EXCEPT ![t] = IF rest = {} THEN Sync!Loop("sync", marked)
                      ELSE [pc |-> "mark", todo |-> rest, about |-> marked]]
  BY DEF Sync!MarkOffline, Sync!Continue
<1> DEFINE rest == task[t].todo \ {d}
           marked == task[t].about \cup {c \in {d} : online[c]}
           row == [pc |-> "mark", todo |-> rest, about |-> marked]
<1>3. marked \in SUBSET Screens
  BY <1>1 DEF TaskOK
<1>4. TaskOK(row)
  <2>1. rest \in SUBSET Screens
    BY <1>1 DEF TaskOK
  <2> HIDE DEF rest, marked
  <2> QED BY <1>3, <2>1 DEF TaskOK, CheckingIn, Sync!Pc
<1>5. \/ task' = [task EXCEPT ![t] = row]
      \/ task' = [task EXCEPT ![t] = Sync!Loop("sync", marked)]
  BY <1>2
<1> HIDE DEF row, marked
<1>6. TerminalTasksOK'
  BY <1>3, <1>4, <1>5, LoopOK, TerminalTaskGoesOn
<1>7. WorldOK'
  BY <1>2 DEF WorldOK, Sync!MarkOffline
<1> QED BY <1>6, <1>7, SameSeats, SameShown DEF Sync!MarkOffline

LEMMA BeginTypes ==
  ASSUME TerminalsOK, TerminalTypeInv, NEW t \in Sync!Publishers,
         \/ \E d \in Screens : Sync!Heartbeat(t, d) \/ Sync!ReleaseSeat(t, d)
         \/ \E d \in Screens, maintenance \in BOOLEAN : Sync!SetMaintenance(t, d, maintenance)
         \/ \E D \in SUBSET Screens : Sync!UsageScan(t, D) \/ Sync!DeviceReconcile(t, D)
         \/ Sync!NoShowScan(t)
  PROVE  TerminalTypeInv'
<1> USE DEF TerminalTypeInv
<1>1. ASSUME NEW todo \in SUBSET Screens, NEW pc \in {"sync", "resyncDevice"},
             Sync!Start(t, Sync!Loop(pc, todo))
      PROVE  TerminalTasksOK'
  BY <1>1, LoopOK, TerminalTaskGoesOn DEF Sync!Start
<1>2. ASSUME NEW d \in Screens, Sync!Heartbeat(t, d) PROVE TerminalTypeInv'
  <2> DEFINE pc == IF seat[d].status = "RESERVED" THEN "resyncDevice" ELSE "sync"
  <2>1. pc \in {"sync", "resyncDevice"} /\ {d} \in SUBSET Screens
    OBVIOUS
  <2>2. Sync!Start(t, Sync!Loop(pc, {d}))
    BY <1>2 DEF Sync!Heartbeat
  <2> HIDE DEF pc
  <2>3. TerminalTasksOK'
    BY <1>1, <2>1, <2>2
  <2>4. WorldOK'
    BY <1>2 DEF Sync!Heartbeat, WorldOK
  <2> QED BY <1>2, <2>3, <2>4, SameSeats, SameShown DEF Sync!Heartbeat
<1>3. ASSUME NEW d \in Screens, Sync!ReleaseSeat(t, d) PROVE TerminalTypeInv'
  <2>1. TerminalTasksOK'
    BY <1>1, <1>3 DEF Sync!ReleaseSeat
  <2>2. SeatsOK'
    BY <1>3, SeatBecomesOK DEF Sync!ReleaseSeat, Sync!SeatStatus, Sync!Phase
  <2> QED BY <1>3, <2>1, <2>2, SameShown, SameWorld DEF Sync!ReleaseSeat
<1>4. ASSUME NEW d \in Screens, NEW maintenance \in BOOLEAN,
             Sync!SetMaintenance(t, d, maintenance)
      PROVE  TerminalTypeInv'
  <2> DEFINE row == [pc |-> "command", todo |-> {d},
                     about |-> [of |-> d, is |-> maintenance]]
  <2>1. TaskOK(row)
    BY DEF TaskOK, Sync!Pc, CheckingIn
  <2>2. TerminalTasksOK'
    BY <1>4, <2>1, TerminalTaskGoesOn DEF Sync!SetMaintenance, Sync!Start
  <2>3. SeatsOK'
    BY <1>4 DEF Sync!SetMaintenance, SeatsOK, SeatRow
  <2> QED BY <1>4, <2>2, <2>3, SameShown, SameWorld DEF Sync!SetMaintenance
<1>5. ASSUME NEW D \in SUBSET Screens, Sync!UsageScan(t, D) PROVE TerminalTypeInv'
  <2>1. TerminalTasksOK'
    BY <1>1, <1>5 DEF Sync!UsageScan
  <2>2. SeatsOK'
    <3>1. PICK next \in Sync!SeatStatus :
            /\ \A d \in D : next \in Sync!Successors(seat[d].status)
            /\ seat' = [d \in Screens |->
                 IF d \in D THEN [seat[d] EXCEPT !.status = next] ELSE seat[d]]
      BY <1>5 DEF Sync!UsageScan
    <3>2. ASSUME NEW d \in Screens
          PROVE  seat'[d] \in SeatRow /\ (seat'[d].window # "none" <=> seat'[d].status = "RESERVED")
      <4>1. seat[d] \in SeatRow /\ (seat[d].window # "none" <=> seat[d].status = "RESERVED")
        BY DEF SeatsOK
      <4>2. CASE d \in D
        <5>1. next # "RESERVED" /\ seat[d].status # "RESERVED"
          BY <3>1, <4>2 DEF Sync!Successors
        <5>2. seat'[d] = [seat[d] EXCEPT !.status = next]
          BY <3>1, <4>2
        <5> QED BY <4>1, <5>1, <5>2 DEF SeatRow
      <4>3. CASE d \notin D
        BY <3>1, <4>1, <4>3
      <4> QED BY <4>2, <4>3
    <3>3. seat' = [d \in Screens |-> seat'[d]]
      BY <3>1
    <3> QED BY <3>2, <3>3 DEF SeatsOK
  <2> QED BY <1>5, <2>1, <2>2, SameShown, SameWorld DEF Sync!UsageScan
<1>6. ASSUME NEW D \in SUBSET Screens, Sync!DeviceReconcile(t, D) PROVE TerminalTypeInv'
  <2> DEFINE row == [pc |-> "mark", todo |-> D, about |-> {}]
  <2>1. TaskOK(row)
    BY DEF TaskOK, Sync!Pc, CheckingIn
  <2>2. TerminalTasksOK'
    BY <1>6, <2>1, TerminalTaskGoesOn DEF Sync!DeviceReconcile, Sync!Start
  <2> QED BY <1>6, <2>2, SameSeats, SameShown, SameWorld DEF Sync!DeviceReconcile
<1>7. CASE Sync!NoShowScan(t)
  <2> DEFINE due == {d \in Screens : seat[d].window = "late"}
  <2>1. due \in SUBSET Screens
    OBVIOUS
  <2>2. /\ Sync!Start(t, Sync!Loop("sync", due))
        /\ seat' = [d \in Screens |-> IF d \in due
             THEN [seat[d] EXCEPT !.status = "FREE", !.window = "none"] ELSE seat[d]]
    BY <1>7 DEF Sync!NoShowScan
  <2> HIDE DEF due
  <2>3. TerminalTasksOK'
    BY <1>1, <2>1, <2>2
  <2>4. SeatsOK'
    <3>1. ASSUME NEW d \in Screens
          PROVE  seat'[d] \in SeatRow /\ (seat'[d].window # "none" <=> seat'[d].status = "RESERVED")
      <4>1. seat[d] \in SeatRow /\ (seat[d].window # "none" <=> seat[d].status = "RESERVED")
        BY DEF SeatsOK
      <4>2. CASE d \in due
        <5>1. seat'[d] = [seat[d] EXCEPT !.status = "FREE", !.window = "none"]
          BY <2>2, <4>2
        <5> QED BY <4>1, <5>1 DEF SeatRow, Sync!SeatStatus, Sync!Phase
      <4>3. CASE d \notin due
        BY <2>2, <4>1, <4>3
      <4> QED BY <4>2, <4>3
    <3>2. seat' = [d \in Screens |-> seat'[d]]
      BY <2>2
    <3> QED BY <3>1, <3>2 DEF SeatsOK
  <2> QED BY <1>7, <2>3, <2>4, SameShown, SameWorld DEF Sync!NoShowScan
<1> QED BY <1>2, <1>3, <1>4, <1>5, <1>6, <1>7

LEMMA WorldTypes ==
  ASSUME TerminalsOK, TerminalTypeInv,
         \/ \E d \in Screens :
              \/ Sync!Reserve(d) \/ Sync!CancelOrLeave(d) \/ Sync!Extend(d) \/ Sync!WindowMoves(d)
              \/ Sync!TerminalComesOrGoes(d)
         \/ \E t \in Sync!Publishers : Sync!Throws(t)
         \/ Sync!BrokerComesOrGoes \/ Sync!Restart
  PROVE  TerminalTypeInv'
<1> USE DEF TerminalTypeInv
<1>1. ASSUME NEW d \in Screens,
             Sync!Reserve(d) \/ Sync!CancelOrLeave(d) \/ Sync!Extend(d) \/ Sync!WindowMoves(d)
      PROVE  TerminalTypeInv'
  <2>1. SeatsOK'
    BY <1>1, SeatBecomesOK
       DEF Sync!Reserve, Sync!CancelOrLeave, Sync!Extend, Sync!WindowMoves, Sync!SeatStatus,
           Sync!Using, Sync!Phase
  <2>2. UNCHANGED <<cache, terminal, task, Sync!world>>
    BY <1>1 DEF Sync!Reserve, Sync!CancelOrLeave, Sync!Extend, Sync!WindowMoves
  <2>3. TerminalTasksOK'
    BY <2>2 DEF TerminalTasksOK
  <2> QED BY <2>1, <2>2, <2>3, SameShown, SameWorld
<1>2. ASSUME NEW d \in Screens, Sync!TerminalComesOrGoes(d) PROVE TerminalTypeInv'
  BY <1>2, SameSeats, SameShown DEF Sync!TerminalComesOrGoes, WorldOK, TerminalTasksOK
<1>3. ASSUME NEW t \in Sync!Publishers, Sync!Throws(t) PROVE TerminalTypeInv'
  <2>1. TerminalTasksOK'
    BY <1>3, IdleHandlerOK, TerminalTaskGoesOn DEF Sync!Throws, Sync!Continue
  <2>2. WorldOK'
    BY <1>3 DEF Sync!Throws, WorldOK, TerminalsOK, Sync!InputAssumption
  <2> QED BY <1>3, <2>1, <2>2, SameSeats, SameShown DEF Sync!Throws
<1>4. CASE Sync!BrokerComesOrGoes
  BY <1>4, SameSeats, SameShown DEF Sync!BrokerComesOrGoes, WorldOK, TerminalTasksOK
<1>5. CASE Sync!Restart
  <2>1. TerminalTasksOK'
    BY <1>5, IdleHandlerOK DEF Sync!Restart, TerminalTasksOK
  <2>2. WorldOK'
    BY <1>5 DEF Sync!Restart, WorldOK, TerminalsOK, Sync!InputAssumption
  <2>3. ShownOK'
    BY <1>5 DEF Sync!Restart, ShownOK, CacheRow
  <2> QED BY <1>5, <2>1, <2>2, <2>3, SameSeats DEF Sync!Restart
<1> QED BY <1>1, <1>2, <1>3, <1>4, <1>5

LEMMA NextTypes == ASSUME TerminalsOK, TerminalTypeInv,
    [Sync!Next]_(Sync!vars) PROVE TerminalTypeInv'
<1>1. ASSUME NEW t \in Sync!Publishers, Sync!Step(t) PROVE TerminalTypeInv'
  BY <1>1, MarkTypes, SyncTypes, CheckInTypes, TokenTypes DEF Sync!Step
<1>2. ASSUME NEW t \in Sync!Publishers, Sync!Begin(t) PROVE TerminalTypeInv'
  <2>1. Maintenance \subseteq BOOLEAN
    BY DEF TerminalsOK, Sync!InputAssumption
  <2> QED BY <1>2, <2>1, CheckInTypes, BeginTypes DEF Sync!Begin
<1>3. ASSUME NEW t \in Sync!Publishers, Sync!RefreshFind(t) PROVE TerminalTypeInv'
  BY <1>3, TokenTypes
<1>4. CASE UNCHANGED Sync!vars
  BY <1>4 DEF Sync!vars, TerminalTypeInv, SeatsOK, ShownOK, WorldOK, TerminalTasksOK
<1> QED BY <1>1, <1>2, <1>3, <1>4, WorldTypes DEF Sync!Next, Sync!Publishers

LEMMA InitTypes == ASSUME TerminalsOK, Sync!Init PROVE TerminalTypeInv
<1>1. SeatsOK
  BY DEF Sync!Init, SeatsOK, SeatRow, Sync!SeatStatus, Sync!Phase
<1>2. ShownOK
  BY DEF Sync!Init, ShownOK, CacheRow, TerminalRow
<1>3. WorldOK
  BY DEF Sync!Init, WorldOK, TerminalsOK, Sync!InputAssumption
<1>4. TerminalTasksOK
  BY IdleHandlerOK DEF Sync!Init, TerminalTasksOK
<1> QED BY <1>1, <1>2, <1>3, <1>4 DEF TerminalTypeInv

LEMMA TypeInvariance == ASSUME TerminalsOK PROVE Sync!Spec => []TerminalTypeInv
BY InitTypes, NextTypes, PTL DEF Sync!Spec

(* The types of what is stored, cached and shown, and that a seat has a    *)
(* check-in window exactly while it is reserved.                           *)
THEOREM TerminalTypesInvariant == ASSUME TerminalsOK PROVE Sync!Spec => []Sync!TypeOK
<1>1. TerminalTypeInv => Sync!TypeOK
  BY DEF TerminalTypeInv, SeatsOK, ShownOK, WorldOK, TerminalTasksOK, TaskOK, Sync!TypeOK,
      SeatRow, CacheRow,
         TerminalRow
<1> QED BY <1>1, TypeInvariance, PTL

-----------------------------------------------------------------------------
(* Display and light *)

(* The light is never cached without the display, and the light of a       *)
(* check-in comes after its display.                                       *)
Shown(d) == cache[d].display # Null

LitInv ==
  /\ \A d \in Screens : cache[d].light # Null => Shown(d)
  /\ \A t \in Sync!Publishers : task[t].pc = "checkedInLight" =>
       \A d \in task[t].todo : Shown(d)

(* What a step keeps: the invariant, and the pairs but for a check-in.     *)
Kept == LitInv' /\ Sync!SplitByCheckIn

LEMMA LoopPc ==
  ASSUME NEW pc, NEW todo PROVE Sync!Loop(pc, todo).pc \in {pc, "idle"}
<1>1. CASE todo = {}
  BY <1>1, IdleHandlerOK DEF Sync!Loop
<1>2. CASE todo # {}
  <2>1. Sync!Loop(pc, todo) = [pc |-> pc, todo |-> todo, about |-> Null]
    BY <1>2 DEF Sync!Loop, Sync!Idle
  <2> QED BY <2>1
<1> QED BY <1>1, <1>2

(* Nothing that is shown is forgotten, and one task goes on.               *)
LEMMA LitGoesOn ==
  ASSUME TerminalTypeInv, LitInv, NEW t \in Sync!Publishers, NEW row,
         task' = [task EXCEPT ![t] = row],
         row.pc = "checkedInLight" => \A d \in row.todo : Shown(d)',
         \A d \in Screens : /\ Shown(d) => Shown(d)'
                            /\ cache'[d].light # Null => Shown(d)'
  PROVE  LitInv'
<1>1. \A u \in Sync!Publishers : task'[u] = IF u = t THEN row ELSE task[u]
  BY DEF TerminalTypeInv, TerminalTasksOK
<1>2. ASSUME NEW u \in Sync!Publishers, task'[u].pc = "checkedInLight", NEW d \in task'[u].todo
      PROVE  Shown(d)'
  <2>1. CASE u = t
    BY <1>1, <1>2, <2>1
  <2>2. CASE u # t
    <3>1. task[u].pc = "checkedInLight" /\ d \in task[u].todo /\ task[u].todo \subseteq Screens
      BY <1>1, <1>2, <2>2 DEF TerminalTypeInv, TerminalTasksOK, TaskOK
    <3> QED BY <3>1 DEF LitInv
  <2> QED BY <2>1, <2>2
<1> QED BY <1>2 DEF LitInv

(* A step that publishes nothing.                                          *)
LEMMA NothingPublished ==
  ASSUME TerminalTypeInv, LitInv, cache' = cache,
         NEW t \in Sync!Publishers, NEW row, task' = [task EXCEPT ![t] = row],
         row.pc # "checkedInLight"
  PROVE  Kept
<1>1. Sync!SplitByCheckIn
  BY DEF Sync!SplitByCheckIn, Sync!Paired
<1>2. LitInv'
  BY LitGoesOn DEF LitInv, Shown
<1> QED BY <1>1, <1>2 DEF Kept

LEMMA NothingChanges ==
  ASSUME LitInv, UNCHANGED <<cache, task>> PROVE Kept
BY DEF Kept, LitInv, Shown, Sync!SplitByCheckIn, Sync!Paired

(* A publication of both, of one status if the cache was of one before.    *)
LEMMA BothPublished ==
  ASSUME TerminalsOK, TerminalTypeInv, LitInv,
         NEW t \in Sync!Publishers, NEW row, task' = [task EXCEPT ![t] = row],
         row.pc # "checkedInLight",
         NEW d \in Screens, NEW layout \in Sync!Layout, NEW light \in Sync!Light,
         Sync!PublishBoth(d, layout, light),
         Sync!Paired(d) => light = Sync!LightOf(layout)
  PROVE  Kept
<1>1. /\ cache'[d] = [display |-> layout, light |-> light]
      /\ \A e \in Screens \ {d} : cache'[e] = cache[e]
  BY DEF Sync!PublishBoth, TerminalTypeInv, ShownOK
<1>2. layout # Null
  BY DEF TerminalsOK, Sync!NullAssumption
<1>3. \A e \in Screens : (Shown(e) => Shown(e)') /\ (cache'[e].light # Null => Shown(e)')
  BY <1>1, <1>2 DEF Shown, LitInv
<1>4. LitInv'
  BY <1>3, LitGoesOn
<1>5. ASSUME NEW e \in Screens, Sync!Paired(e) PROVE Sync!Paired(e)'
  <2>1. CASE e = d
    BY <1>1, <1>5, <2>1 DEF Sync!Paired, Sync!LightOf
  <2>2. CASE e # d
    BY <1>1, <1>5, <2>2 DEF Sync!Paired, Sync!LightOf
  <2> QED BY <2>1, <2>2
<1>6. Sync!SplitByCheckIn
  BY <1>5 DEF Sync!SplitByCheckIn
<1> QED BY <1>4, <1>6 DEF Kept

(* A synchronisation of any age repeats both or builds both.               *)
LEMMA PublishesKept ==
  ASSUME TerminalsOK, TerminalTypeInv, LitInv, NEW t \in Sync!Publishers,
         Sync!SyncPublish(t) \/ Sync!PublishToken(t)
  PROVE  Kept
<1>0. TaskOK(task[t]) /\ ShownOK
  BY DEF TerminalTypeInv, TerminalTasksOK
<1>1. CASE Sync!PublishToken(t)
  <2> DEFINE d == task[t].about.of
             row == Sync!Loop("issue", task[t].todo \ {d})
  <2>1. d \in Screens
    BY <1>0, <1>1 DEF Sync!PublishToken, TaskOK
  <2>2. task' = [task EXCEPT ![t] = row] /\ Sync!PublishBoth(d, "RESERVED", "RESERVED")
    BY <1>1 DEF Sync!PublishToken, Sync!Continue, Sync!PublishReserved
  <2>3. row.pc # "checkedInLight"
    BY LoopPc
  <2>4. /\ "RESERVED" \in Sync!Layout /\ "RESERVED" \in Sync!Light
        /\ Sync!LightOf("RESERVED") = "RESERVED"
    BY DEF Sync!LightOf, Sync!Layout, Sync!SeatStatus, Sync!Light
  <2> HIDE DEF d, row
  <2> QED BY <2>1, <2>2, <2>3, <2>4, BothPublished
<1>2. CASE Sync!SyncPublish(t)
  <2> DEFINE d == task[t].about.of
             layout == task[t].about.is
             row == Sync!Loop("sync", task[t].todo \ {d})
  <2>1. d \in Screens /\ layout \in Sync!Layout
    BY <1>0, <1>2 DEF Sync!SyncPublish, TaskOK
  <2>2. /\ task' = [task EXCEPT ![t] = row]
        /\ Sync!PublishBoth(d, Sync!CachedLayout(d, layout), Sync!CachedLight(d, layout))
    BY <1>2 DEF Sync!SyncPublish, Sync!Continue
  <2>3. row.pc # "checkedInLight"
    BY LoopPc
  <2> HIDE DEF d, layout, row
  <2>4. Sync!CachedLayout(d, layout) \in Sync!Layout /\ Sync!CachedLight(d, layout) \in Sync!Light
    BY <1>0, <2>1, CachedOK
  <2>5. ASSUME Sync!Paired(d)
        PROVE  Sync!CachedLight(d, layout) = Sync!LightOf(Sync!CachedLayout(d, layout))
    <3>1. CASE cache[d].display = Null
      <4>1. cache[d].light = Null
        BY <2>1, <3>1 DEF LitInv, Shown
      <4> QED BY <3>1, <4>1 DEF Sync!CachedLayout, Sync!CachedLight
    <3>2. CASE cache[d].display # Null
      <4>1. cache[d].display \in Sync!Layout
        BY <1>0, <2>1, <3>2 DEF ShownOK, CacheRow
      <4>2. Sync!LightOf(cache[d].display) # Null
        BY <4>1, LightType DEF TerminalsOK, Sync!NullAssumption
      <4>3. cache[d].light = Sync!LightOf(cache[d].display)
        BY <2>5, <3>2 DEF Sync!Paired, Sync!LightOf
      <4> QED BY <3>2, <4>2, <4>3 DEF Sync!CachedLayout, Sync!CachedLight
    <3> QED BY <3>1, <3>2
  <2> QED BY <2>1, <2>2, <2>3, <2>4, <2>5, BothPublished
<1> QED BY <1>1, <1>2

(* The two publications of a check-in, of the terminal it is about.        *)
LEMMA CheckedInKept ==
  ASSUME TerminalsOK, TerminalTypeInv, LitInv, NEW t \in Sync!Publishers,
         Sync!CheckedInDisplay(t) \/ Sync!CheckedInLight(t)
  PROVE  Kept
<1>0. TaskOK(task[t]) /\ ShownOK
  BY DEF TerminalTypeInv, TerminalTasksOK
<1>1. PICK d \in Screens : task[t].todo = {d}
  BY <1>0 DEF Sync!CheckedInDisplay, Sync!CheckedInLight, TaskOK, CheckingIn
<1>2. ASSUME \A e \in Screens \ {d} : cache'[e] = cache[e] PROVE Sync!SplitByCheckIn
  <2> SUFFICES ASSUME NEW e \in Screens, Sync!Paired(e), ~Sync!Paired(e)', e # d PROVE FALSE
    BY <1>1 DEF Sync!SplitByCheckIn
  <2> QED BY <1>2 DEF Sync!Paired, Sync!LightOf
<1>3. CASE Sync!CheckedInDisplay(t)
  <2> DEFINE row == [task[t] EXCEPT !.pc = "checkedInLight"]
  <2>1. task' = [task EXCEPT ![t] = row] /\ Sync!PublishDisplay(d, "OCCUPIED")
    BY <1>1, <1>3 DEF Sync!CheckedInDisplay, Sync!Continue
  <2>2. row.todo = {d}
    BY <1>0, <1>1 DEF TaskOK
  <2>3. cache'[d].display = "OCCUPIED" /\ \A e \in Screens \ {d} : cache'[e] = cache[e]
    BY <1>0, <2>1 DEF Sync!PublishDisplay, ShownOK, CacheRow
  <2>4. "OCCUPIED" # Null
    BY DEF TerminalsOK, Sync!NullAssumption, Sync!Light
  <2>5. \A e \in Screens : (Shown(e) => Shown(e)') /\ (cache'[e].light # Null => Shown(e)')
    BY <2>3, <2>4 DEF Shown, LitInv
  <2>6. Shown(d)'
    BY <2>3, <2>4 DEF Shown
  <2> HIDE DEF row
  <2>7. LitInv'
    BY <2>1, <2>2, <2>5, <2>6, LitGoesOn
  <2> QED BY <1>2, <2>3, <2>7 DEF Kept
<1>4. CASE Sync!CheckedInLight(t)
  <2>1. task' = [task EXCEPT ![t] = Sync!Idle] /\ Sync!PublishLight(d, "OCCUPIED")
    BY <1>1, <1>4 DEF Sync!CheckedInLight, Sync!Continue
  <2>2. /\ cache'[d].display = cache[d].display
        /\ \A e \in Screens \ {d} : cache'[e] = cache[e]
    BY <1>0, <2>1 DEF Sync!PublishLight, ShownOK, CacheRow
  <2>3. Shown(d)
    BY <1>1, <1>4 DEF Sync!CheckedInLight, LitInv
  <2>4. \A e \in Screens : (Shown(e) => Shown(e)') /\ (cache'[e].light # Null => Shown(e)')
    BY <2>2, <2>3 DEF Shown, LitInv
  <2>5. LitInv'
    BY <2>1, <2>4, IdleHandlerOK, LitGoesOn
  <2> QED BY <1>2, <2>2, <2>5 DEF Kept
<1> QED BY <1>3, <1>4

(* The other steps of handlers publish nothing.                            *)
LEMMA StepKept ==
  ASSUME TerminalsOK, TerminalTypeInv, LitInv, NEW t \in Sync!Publishers,
         Sync!Step(t) \/ Sync!Throws(t)
  PROVE  Kept
<1>0. TaskOK(task[t])
  BY DEF TerminalTypeInv, TerminalTasksOK
<1>1. \A pc : [task[t] EXCEPT !.pc = pc].pc = pc
  BY <1>0 DEF TaskOK
<1>2. CASE Sync!MarkOffline(t)
  <2>1. PICK d \in task[t].todo :
          LET rest == task[t].todo \ {d}
              marked == task[t].about \cup {c \in {d} : online[c]} IN
          task' = [task EXCEPT ![t] = IF rest = {} THEN Sync!Loop("sync", marked)
                     ELSE [pc |-> "mark", todo |-> rest, about |-> marked]]
    BY <1>2 DEF Sync!MarkOffline, Sync!Continue
  <2> DEFINE rest == task[t].todo \ {d}
             marked == task[t].about \cup {c \in {d} : online[c]}
             goesOn == [pc |-> "mark", todo |-> rest, about |-> marked]
  <2>2. goesOn.pc = "mark" /\ Sync!Loop("sync", marked).pc # "checkedInLight"
    BY <1>0, <1>2, LoopPc DEF Sync!MarkOffline, TaskOK
  <2>3. \/ task' = [task EXCEPT ![t] = goesOn]
        \/ task' = [task EXCEPT ![t] = Sync!Loop("sync", marked)]
    BY <2>1
  <2>4. cache' = cache
    BY <1>2 DEF Sync!MarkOffline
  <2> HIDE DEF goesOn, marked
  <2> QED BY <2>2, <2>3, <2>4, NothingPublished
<1>3. CASE Sync!SyncRead(t)
  <2>1. PICK d \in task[t].todo :
          task' = [task EXCEPT ![t] = [pc |-> "syncPublish", todo |-> task[t].todo,
                    about |-> [of |-> d, is |-> Sync!LayoutOf(seat[d])]]]
    BY <1>3 DEF Sync!SyncRead, Sync!Continue
  <2> DEFINE row == [pc |-> "syncPublish", todo |-> task[t].todo,
                     about |-> [of |-> d, is |-> Sync!LayoutOf(seat[d])]]
  <2>2. task' = [task EXCEPT ![t] = row] /\ row.pc = "syncPublish"
    BY <2>1
  <2>3. cache' = cache
    BY <1>3 DEF Sync!SyncRead
  <2> HIDE DEF row
  <2> QED BY <2>2, <2>3, NothingPublished
<1>4. CASE Sync!Command(t)
  BY <1>4, LoopPc, NothingPublished DEF Sync!Command, Sync!Continue
<1>5. CASE Sync!Issue(t)
  <2>1. PICK d \in task[t].todo :
          \/ task' = [task EXCEPT ![t] = [pc |-> "publishToken", todo |-> task[t].todo,
                                          about |-> [of |-> d, is |-> "RESERVED"]]]
          \/ task' = [task EXCEPT ![t] = Sync!Loop("issue", task[t].todo \ {d})]
    BY <1>5 DEF Sync!Issue, Sync!Continue
  <2>2. PICK row : task' = [task EXCEPT ![t] = row] /\ row.pc # "checkedInLight"
    BY <2>1, LoopPc
  <2> QED BY <1>5, <2>2, NothingPublished DEF Sync!Issue
<1>6. CASE Sync!ResyncDevice(t)
  <2>1. \/ task' = [task EXCEPT ![t] = [task[t] EXCEPT !.pc = "resyncFind"]]
        \/ task' = [task EXCEPT ![t] = Sync!Idle]
    BY <1>6 DEF Sync!ResyncDevice, Sync!Continue
  <2> QED BY <1>1, <1>6, <2>1, IdleHandlerOK, NothingPublished DEF Sync!ResyncDevice
<1>7. CASE Sync!ResyncFind(t)
  <2>1. PICK d \in task[t].todo :
          \/ task' = [task EXCEPT ![t] = Sync!Idle]
          \/ task' = [task EXCEPT ![t] = Sync!Loop("issue", {d})]
          \/ task' = [task EXCEPT ![t] = [pc |-> "publishToken", todo |-> {d},
                                          about |-> [of |-> d, is |-> "RESERVED"]]]
    BY <1>7 DEF Sync!ResyncFind, Sync!Continue
  <2>2. PICK row : task' = [task EXCEPT ![t] = row] /\ row.pc # "checkedInLight"
    BY <2>1, LoopPc, IdleHandlerOK
  <2> QED BY <1>7, <2>2, NothingPublished DEF Sync!ResyncFind
<1>8. CASE Sync!Throws(t)
  BY <1>8, IdleHandlerOK, NothingPublished DEF Sync!Throws, Sync!Continue
<1> QED BY <1>2, <1>3, <1>4, <1>5, <1>6, <1>7, <1>8, PublishesKept, CheckedInKept DEF Sync!Step

LEMMA BeginKept ==
  ASSUME TerminalTypeInv, LitInv, NEW t \in Sync!Publishers, Sync!Begin(t) \/ Sync!RefreshFind(t)
  PROVE  Kept
<1>1. cache' = cache
  BY DEF Sync!Begin, Sync!CheckIn, Sync!Heartbeat, Sync!ReleaseSeat, Sync!SetMaintenance,
         Sync!UsageScan, Sync!DeviceReconcile, Sync!NoShowScan, Sync!RefreshFind
<1>2. ASSUME NEW pc, pc # "checkedInLight", NEW todo, Sync!Start(t, Sync!Loop(pc, todo))
      PROVE  Kept
  <2>1. Sync!Loop(pc, todo).pc # "checkedInLight"
    BY <1>2, LoopPc
  <2> QED BY <1>1, <1>2, <2>1, NothingPublished DEF Sync!Start
<1>3. ASSUME NEW row, row.pc # "checkedInLight", Sync!Start(t, row) PROVE Kept
  BY <1>1, <1>3, NothingPublished DEF Sync!Start
<1>4. ASSUME NEW d \in Screens, Sync!CheckIn(t, d) \/ Sync!Heartbeat(t, d) \/ Sync!ReleaseSeat(t, d)
      PROVE  Kept
  <2>1. \E pc \in {"checkedInDisplay", "sync", "resyncDevice"} : Sync!Start(t, Sync!Loop(pc, {d}))
    BY <1>4 DEF Sync!CheckIn, Sync!Heartbeat, Sync!ReleaseSeat
  <2> QED BY <1>2, <2>1
<1>5. ASSUME NEW d \in Screens, NEW maintenance \in Maintenance,
             Sync!SetMaintenance(t, d, maintenance)
      PROVE  Kept
  BY <1>3, <1>5 DEF Sync!SetMaintenance
<1>6. ASSUME NEW D \in SUBSET Screens, Sync!UsageScan(t, D) \/ Sync!DeviceReconcile(t, D)
      PROVE  Kept
  BY <1>2, <1>3, <1>6 DEF Sync!UsageScan, Sync!DeviceReconcile
<1>7. CASE Sync!NoShowScan(t)
  BY <1>2, <1>7 DEF Sync!NoShowScan
<1>8. CASE Sync!RefreshFind(t)
  BY <1>2, <1>8 DEF Sync!RefreshFind
<1> QED BY <1>4, <1>5, <1>6, <1>7, <1>8 DEF Sync!Begin

LEMMA NextKept ==
  ASSUME TerminalsOK, TerminalTypeInv, LitInv, [Sync!Next]_(Sync!vars) PROVE Kept
<1>1. CASE UNCHANGED <<cache, task>>
  BY <1>1, NothingChanges
<1>2. ASSUME NEW d \in Screens,
             \/ Sync!Reserve(d) \/ Sync!CancelOrLeave(d) \/ Sync!Extend(d) \/ Sync!WindowMoves(d)
             \/ Sync!TerminalComesOrGoes(d)
      PROVE  Kept
  BY <1>1, <1>2 DEF Sync!Reserve, Sync!CancelOrLeave, Sync!Extend, Sync!WindowMoves,
                    Sync!TerminalComesOrGoes
<1>3. CASE Sync!BrokerComesOrGoes
  BY <1>1, <1>3 DEF Sync!BrokerComesOrGoes
<1>4. CASE Sync!Restart
  <2>1. \A d \in Screens : cache'[d].display = Null /\ cache'[d].light = Null
    BY <1>4 DEF Sync!Restart
  <2>2. \A t \in Sync!Publishers : task'[t].pc = "idle"
    BY <1>4, IdleHandlerOK DEF Sync!Restart
  <2> QED BY <2>1, <2>2 DEF Kept, LitInv, Shown, Sync!SplitByCheckIn, Sync!Paired
<1>5. CASE UNCHANGED Sync!vars
  BY <1>1, <1>5 DEF Sync!vars
<1>6. ASSUME NEW t \in Sync!Publishers, Sync!Step(t) \/ Sync!Throws(t) PROVE Kept
  BY <1>6, StepKept
<1>7. ASSUME NEW t \in Sync!Publishers, Sync!Begin(t) \/ Sync!RefreshFind(t) PROVE Kept
  BY <1>7, BeginKept
<1> QED BY <1>2, <1>3, <1>4, <1>5, <1>6, <1>7 DEF Sync!Next, Sync!Publishers

LEMMA InitLit == ASSUME Sync!Init PROVE LitInv
<1>1. \A d \in Screens : cache[d].display = Null /\ cache[d].light = Null
  BY DEF Sync!Init
<1>2. \A t \in Sync!Publishers : task[t].pc = "idle"
  BY IdleHandlerOK DEF Sync!Init
<1> QED BY <1>1, <1>2 DEF LitInv, Shown

(* With whatever overlaps, breaks off, is lost or restarts, only the two   *)
(* publications of a check-in set a terminal's display and light at odds:  *)
(* a synchronisation repeats both from the cache or builds both, and a     *)
(* token brings both (synchronizeDevice, publishQrToken, checkIn).         *)
THEOREM OnlyCheckInSplits == ASSUME TerminalsOK PROVE Sync!Spec => Sync!LightsSplitByCheckIn
<1>1. TerminalTypeInv /\ LitInv /\ [Sync!Next]_(Sync!vars) => LitInv' /\ [Sync!SplitByCheckIn]_(Sync!vars)
  BY NextKept DEF Kept
<1> QED BY <1>1, InitLit, TypeInvariance, PTL DEF Sync!Spec, Sync!LightsSplitByCheckIn

-----------------------------------------------------------------------------
(* The order of the messages                                               *)

(* Messages are unanswered in the order they were asked for, the broker    *)
(* has the first of them, and all are newer than what was answered.        *)
Ordered(s, new) ==
  /\ s \in Seq(Nat)
  /\ \A i \in 1 .. Len(s) : s[i] <= new
  /\ \A i, j \in 1 .. Len(s) : i < j => s[i] < s[j]

OrderInv ==
  /\ published \in Nat /\ accepted \in Nat /\ taken \in Nat
  /\ Ordered(inflight, published)
  /\ \A i \in 1 .. Len(inflight) : accepted < inflight[i]
  /\ at \in 0 .. Len(inflight)
  /\ at > 0 => taken = inflight[at]
  /\ accepted <= taken /\ taken <= published

LEMMA BrokerInitHolds == Broker!Init => OrderInv
BY DEF Broker!Init, OrderInv, Ordered

LEMMA PublishJsonKeeps == ASSUME OrderInv, Broker!PublishJson PROVE OrderInv'
<1> DEFINE new == Append(inflight, published + 1)
<1>1. /\ inflight \in Seq(Nat) /\ published \in Nat
      /\ at \in 0 .. Len(inflight) /\ accepted \in Nat /\ taken \in Nat
  BY DEF OrderInv, Ordered
<1>2. /\ new \in Seq(Nat) /\ Len(new) = Len(inflight) + 1
      /\ new[Len(inflight) + 1] = published + 1
      /\ \A i \in 1 .. Len(inflight) : new[i] = inflight[i]
  BY <1>1
<1>3. inflight' = new \/ inflight' = inflight
  BY DEF Broker!PublishJson
<1> HIDE DEF new
<1>4. published' = published + 1 /\ accepted' = accepted /\ at' = at /\ taken' = taken
  BY DEF Broker!PublishJson, Broker!QOS, Broker!link, Broker!subs
<1>5. CASE inflight' = new
  <2>1. accepted <= published
    BY <1>1 DEF OrderInv
  <2>2. \A i \in 1 .. Len(inflight) :
          inflight[i] \in Nat /\ inflight[i] <= published /\ accepted < inflight[i]
    BY <1>1 DEF OrderInv, Ordered
  <2>3. \A i \in 1 .. Len(new) : i \in 1 .. Len(inflight) \/ i = Len(inflight) + 1
    BY <1>1, <1>2
  <2>4. \A i \in 1 .. Len(new) : new[i] <= published + 1 /\ accepted < new[i]
    <3> SUFFICES ASSUME NEW i \in 1 .. Len(new)
                 PROVE  new[i] <= published + 1 /\ accepted < new[i]
      OBVIOUS
    <3>1. CASE i \in 1 .. Len(inflight)
      <4>1. new[i] = inflight[i]
        BY <1>2, <3>1
      <4>2. inflight[i] \in Nat /\ inflight[i] <= published /\ accepted < inflight[i]
        BY <2>2, <3>1
      <4> QED BY <1>1, <4>1, <4>2
    <3>2. CASE i = Len(inflight) + 1
      <4>1. new[i] = published + 1
        BY <1>2, <3>2
      <4> QED BY <1>1, <2>1, <4>1
    <3> QED BY <2>3, <3>1, <3>2
  <2>5. \A i, j \in 1 .. Len(new) : i < j => new[i] < new[j]
    <3> SUFFICES ASSUME NEW i \in 1 .. Len(new), NEW j \in 1 .. Len(new), i < j
                 PROVE  new[i] < new[j]
      OBVIOUS
    <3>1. i \in 1 .. Len(inflight)
      BY <1>1, <1>2
    <3>2. CASE j \in 1 .. Len(inflight)
      <4>1. inflight[i] < inflight[j]
        BY <3>1, <3>2 DEF OrderInv, Ordered
      <4> QED BY <1>2, <3>1, <3>2, <4>1
    <3>3. CASE j = Len(inflight) + 1
      <4>1. new[i] = inflight[i] /\ new[j] = published + 1
        BY <1>2, <3>1, <3>3
      <4>2. inflight[i] \in Nat /\ inflight[i] <= published
        BY <2>2, <3>1
      <4> QED BY <1>1, <4>1, <4>2
    <3> QED BY <2>3, <3>2, <3>3
  <2>6. Ordered(new, published + 1)
    BY <1>2, <2>4, <2>5 DEF Ordered
  <2>7. at > 0 => taken = new[at]
    BY <1>1, <1>2 DEF OrderInv
  <2>8. accepted <= taken /\ taken <= published
    BY DEF OrderInv
  <2> QED BY <1>1, <1>2, <1>4, <1>5, <2>4, <2>6, <2>7, <2>8 DEF OrderInv
<1>6. CASE inflight' = inflight
  BY <1>1, <1>4, <1>6 DEF OrderInv, Ordered
<1> QED BY <1>3, <1>5, <1>6

LEMMA BrokerTakesKeeps == ASSUME OrderInv, Broker!BrokerTakes PROVE OrderInv'
<1>1. /\ inflight' = inflight /\ at' = at + 1 /\ taken' = inflight[at + 1]
      /\ published' = published /\ accepted' = accepted /\ at < Len(inflight)
  BY DEF Broker!BrokerTakes, Broker!link, Broker!subs
<1>2. inflight \in Seq(Nat) /\ at \in 0 .. Len(inflight) /\ at + 1 \in 1 .. Len(inflight)
  BY <1>1 DEF OrderInv, Ordered
<1>3. /\ inflight[at + 1] \in Nat /\ inflight[at + 1] <= published
      /\ accepted < inflight[at + 1]
  BY <1>2 DEF OrderInv, Ordered
<1> QED BY <1>1, <1>2, <1>3 DEF OrderInv, Ordered

LEMMA AcknowledgedKeeps == ASSUME OrderInv, Broker!Acknowledged PROVE OrderInv'
<1> DEFINE rest == Tail(inflight)
<1>1. /\ inflight' = rest /\ at' = at - 1 /\ accepted' = Head(inflight)
      /\ published' = published /\ taken' = taken /\ at > 0
  BY DEF Broker!Acknowledged, Broker!link, Broker!subs
<1>2. inflight \in Seq(Nat) /\ at \in 1 .. Len(inflight) /\ inflight # <<>>
  BY <1>1 DEF OrderInv, Ordered
<1>3. /\ rest \in Seq(Nat) /\ Len(rest) = Len(inflight) - 1
      /\ \A i \in 1 .. Len(rest) : rest[i] = inflight[i + 1]
      /\ Head(inflight) = inflight[1] /\ Len(inflight) \in Nat
  BY <1>2
<1> HIDE DEF rest
<1>4. taken = inflight[at]
  BY <1>1 DEF OrderInv
<1>5. \A i, j \in 1 .. Len(inflight) : i < j => inflight[i] < inflight[j]
  BY DEF OrderInv, Ordered
<1>6. inflight[1] \in Nat /\ inflight[1] <= inflight[at]
  <2>1. CASE at = 1
    BY <1>2, <2>1
  <2>2. CASE at > 1
    BY <1>2, <1>5, <2>2
  <2> QED BY <1>2, <2>1, <2>2
<1>7. \A i \in 1 .. Len(rest) : inflight[1] < rest[i]
  <2> TAKE i \in 1 .. Len(rest)
  <2>1. i + 1 \in 1 .. Len(inflight) /\ 1 \in 1 .. Len(inflight) /\ 1 < i + 1
    BY <1>2, <1>3
  <2>2. inflight[1] < inflight[i + 1]
    BY <1>5, <2>1
  <2> QED BY <1>3, <2>2
<1>8. Ordered(rest, published)
  <2>1. \A i \in 1 .. Len(inflight) : inflight[i] <= published
    BY DEF OrderInv, Ordered
  <2>2. \A i \in 1 .. Len(rest) : rest[i] <= published
    <3> TAKE i \in 1 .. Len(rest)
    <3>1. i + 1 \in 1 .. Len(inflight)
      BY <1>3
    <3> QED BY <1>3, <2>1, <3>1
  <2>3. \A i, j \in 1 .. Len(rest) : i < j => rest[i] < rest[j]
    <3> SUFFICES ASSUME NEW i \in 1 .. Len(rest), NEW j \in 1 .. Len(rest), i < j
                 PROVE  rest[i] < rest[j]
      OBVIOUS
    <3>1. i + 1 \in 1 .. Len(inflight) /\ j + 1 \in 1 .. Len(inflight) /\ i + 1 < j + 1
      BY <1>3
    <3>2. inflight[i + 1] < inflight[j + 1]
      BY <1>5, <3>1
    <3> QED BY <1>3, <3>2
  <2> QED BY <1>3, <2>2, <2>3 DEF Ordered
<1>9. at - 1 > 0 => taken = rest[at - 1]
  BY <1>2, <1>3, <1>4
<1> QED BY <1>1, <1>2, <1>3, <1>4, <1>6, <1>7, <1>8, <1>9 DEF OrderInv

(* A lost connection makes the broker take again what it has not answered. *)
LEMMA LoseKeeps == ASSUME OrderInv, Broker!Lose PROVE OrderInv'
<1>1. /\ inflight' = inflight /\ at' = 0
      /\ published' = published /\ taken' = taken /\ accepted' = accepted
  BY DEF Broker!Lose, Broker!QOS
<1> QED BY <1>1 DEF OrderInv, Ordered

LEMMA CloseKeeps == ASSUME OrderInv, Broker!Close PROVE OrderInv'
<1>1. /\ inflight' = <<>> /\ at' = 0
      /\ published' = published /\ taken' = taken /\ accepted' = accepted
  BY DEF Broker!Close
<1> QED BY <1>1 DEF OrderInv, Ordered

LEMMA BrokerStepHolds == OrderInv /\ [Broker!Next]_(Broker!vars) => OrderInv'
<1> SUFFICES ASSUME OrderInv, [Broker!Next]_(Broker!vars) PROVE OrderInv'
  OBVIOUS
<1>1. UNCHANGED Broker!messages => OrderInv'
  BY DEF Broker!messages, OrderInv, Ordered
<1>2. CASE Broker!Connect \/ (\E t \in Topics : Broker!Subscribe(t)) \/ (\E k \in Rounds : Broker!Answer(k))
  BY <1>1, <1>2 DEF Broker!Connect, Broker!Subscribe, Broker!Answer, Broker!SubscribeClient
<1>3. CASE UNCHANGED Broker!vars
  BY <1>1, <1>3 DEF Broker!vars
<1> QED BY <1>2, <1>3, PublishJsonKeeps, BrokerTakesKeeps, AcknowledgedKeeps,
           LoseKeeps, CloseKeeps DEF Broker!Next

LEMMA BrokerInvariance == Broker!Spec => []OrderInv
BY BrokerInitHolds, BrokerStepHolds, PTL DEF Broker!Spec

(* However connections are lost and messages sent again: what was answered *)
(* with TRUE is the broker's, and what it has last is not older            *)
(* (MqttBrokerService.publishJson).                                        *)
THEOREM AcceptedArrivesInvariant == Broker!Spec => []Broker!AcceptedArrives
<1>1. OrderInv => Broker!AcceptedArrives
  BY DEF OrderInv, Broker!AcceptedArrives
<1> QED BY <1>1, BrokerInvariance, PTL

-----------------------------------------------------------------------------
(* The types of the broker's connection                                    *)

(* A round of a map of n topics.                                           *)
RoundOf(n) == [topic: 1 .. n, all: BOOLEAN, sent: BOOLEAN]

NoneTwice(s) == \A i, j \in 1 .. Len(s) : s[i] = s[j] => i = j

(* Every topic is in the map once, and rounds are within it.               *)
RoundsOK ==
  /\ client \in {"open", "ended"} /\ connected \in BOOLEAN
  /\ connected => client = "open"
  /\ subscriptions \in Seq(Topics) /\ NoneTwice(subscriptions)
  /\ task \in [Rounds -> RoundOf(Len(subscriptions)) \cup {Null}]
  /\ granted \subseteq Broker!Range(subscriptions)
  /\ ~connected => \A k \in Rounds : task[k] # Null => ~task[k].sent

LEMMA FollowingRound ==
  ASSUME subscriptions \in Seq(Topics), NEW r \in RoundOf(Len(subscriptions)),
         NEW c \in BOOLEAN
  PROVE  /\ Broker!Following(r, c) \in RoundOf(Len(subscriptions)) \cup {Null}
         /\ Broker!Following(r, c) # Null => Broker!Following(r, c).sent = c
<1>1. CASE r.all /\ r.topic < Len(subscriptions)
  <2>1. Broker!Following(r, c) = [r EXCEPT !.topic = r.topic + 1, !.sent = c]
    BY <1>1 DEF Broker!Following
  <2>2. r.topic + 1 \in 1 .. Len(subscriptions)
    BY <1>1 DEF RoundOf
  <2> QED BY <2>1, <2>2 DEF RoundOf
<1>2. CASE ~(r.all /\ r.topic < Len(subscriptions))
  BY <1>2 DEF Broker!Following
<1> QED BY <1>1, <1>2

LEMMA ConnectRounds == ASSUME RoundsOK, Broker!Connect PROVE RoundsOK'
<1> DEFINE waiting == [k \in Rounds |->
             IF task[k] = Null THEN Null ELSE [task[k] EXCEPT !.sent = TRUE]]
<1>1. /\ client' = "open" /\ connected' = TRUE /\ granted' = {}
      /\ subscriptions' = subscriptions
  BY DEF Broker!Connect
<1>2. waiting \in [Rounds -> RoundOf(Len(subscriptions)) \cup {Null}]
  <2> SUFFICES ASSUME NEW k \in Rounds, task[k] # Null
               PROVE  [task[k] EXCEPT !.sent = TRUE] \in RoundOf(Len(subscriptions))
    OBVIOUS
  <2> QED BY DEF RoundsOK, RoundOf
<1>3. \/ task' = waiting
      \/ /\ Len(subscriptions) # 0
         /\ \E k \in Rounds :
              task' = [waiting EXCEPT ![k] = [topic |-> 1, all |-> TRUE, sent |-> TRUE]]
  BY DEF Broker!Connect, Broker!Resubscribes, RoundsOK
<1> HIDE DEF waiting
<1>4. Len(subscriptions) \in Nat
  BY DEF RoundsOK
<1>5. Len(subscriptions) # 0 =>
        [topic |-> 1, all |-> TRUE, sent |-> TRUE] \in RoundOf(Len(subscriptions))
  BY <1>4 DEF RoundOf
<1>6. task' \in [Rounds -> RoundOf(Len(subscriptions)) \cup {Null}]
  BY <1>2, <1>3, <1>5
<1> QED BY <1>1, <1>6 DEF RoundsOK

LEMMA LoseRounds == ASSUME RoundsOK, Broker!Lose PROVE RoundsOK'
<1>1. /\ connected' = FALSE /\ granted' = {} /\ client' = client
      /\ subscriptions' = subscriptions
      /\ task' = [k \in Rounds |->
           IF task[k] = Null THEN Null
           ELSE IF task[k].sent THEN Broker!Following(task[k], FALSE) ELSE task[k]]
  BY DEF Broker!Lose
<1>2. ASSUME NEW k \in Rounds
      PROVE  /\ task'[k] \in RoundOf(Len(subscriptions)) \cup {Null}
             /\ task'[k] # Null => ~task'[k].sent
  <2>1. CASE task[k] = Null
    BY <1>1, <2>1
  <2>2. CASE task[k] # Null
    <3>1. task[k] \in RoundOf(Len(subscriptions)) /\ subscriptions \in Seq(Topics)
      BY <2>2 DEF RoundsOK
    <3>2. /\ Broker!Following(task[k], FALSE) \in RoundOf(Len(subscriptions)) \cup {Null}
          /\ Broker!Following(task[k], FALSE) # Null => ~Broker!Following(task[k], FALSE).sent
      BY <3>1, FollowingRound
    <3> QED BY <1>1, <2>2, <3>1, <3>2
  <2> QED BY <2>1, <2>2
<1>3. task' \in [Rounds -> RoundOf(Len(subscriptions)) \cup {Null}]
  BY <1>1, <1>2
<1> QED BY <1>1, <1>2, <1>3 DEF RoundsOK

LEMMA SubscribeRounds ==
  ASSUME RoundsOK, NEW t \in Topics, Broker!Subscribe(t)
  PROVE  RoundsOK'
<1> DEFINE n == Len(subscriptions)
<1>1. /\ UNCHANGED <<client, connected, granted>>
      /\ subscriptions' = Append(subscriptions, t)
      /\ t \notin Broker!Range(subscriptions)
      /\ \/ task' = task
         \/ /\ connected
            /\ \E k \in Rounds :
                 task' = [task EXCEPT ![k] = [topic |-> n + 1, all |-> FALSE, sent |-> TRUE]]
  BY DEF Broker!Subscribe, Broker!link
<1>2. subscriptions \in Seq(Topics) /\ n \in Nat
  BY DEF RoundsOK
<1>3. /\ subscriptions' \in Seq(Topics) /\ Len(subscriptions') = n + 1
      /\ \A i \in 1 .. n : subscriptions'[i] = subscriptions[i]
      /\ subscriptions'[n + 1] = t
  BY <1>1, <1>2, AppendProperties
<1>4. NoneTwice(subscriptions')
  <2>1. \A i \in 1 .. n : subscriptions[i] # t
    BY <1>1, <1>2 DEF Broker!Range
  <2>2. \A i \in 1 .. (n + 1) : i \in 1 .. n \/ i = n + 1
    BY <1>2
  <2>3. \A i, j \in 1 .. n : subscriptions[i] = subscriptions[j] => i = j
    BY DEF RoundsOK, NoneTwice
  <2> HIDE DEF n
  <2> QED BY <1>3, <2>1, <2>2, <2>3 DEF NoneTwice
<1>5. RoundOf(n) \subseteq RoundOf(n + 1)
      /\ [topic |-> n + 1, all |-> FALSE, sent |-> TRUE] \in RoundOf(n + 1)
  BY <1>2 DEF RoundOf
<1>6. task \in [Rounds -> RoundOf(n + 1) \cup {Null}]
  BY <1>5 DEF RoundsOK
<1>7. task' \in [Rounds -> RoundOf(n + 1) \cup {Null}]
  BY <1>1, <1>5, <1>6
<1>8. granted' \subseteq Broker!Range(subscriptions')
  <2>1. Broker!Range(subscriptions) \subseteq Broker!Range(subscriptions')
    <3>1. DOMAIN subscriptions = 1 .. n /\ DOMAIN subscriptions' = 1 .. (n + 1)
      BY <1>2, <1>3
    <3>2. 1 .. n \subseteq 1 .. (n + 1)
      BY <1>2
    <3> QED BY <1>3, <3>1, <3>2 DEF Broker!Range
  <2> QED BY <1>1, <2>1 DEF RoundsOK
<1>9. ~connected' => \A k \in Rounds : task'[k] # Null => ~task'[k].sent
  BY <1>1 DEF RoundsOK
<1> QED BY <1>1, <1>3, <1>4, <1>7, <1>8, <1>9 DEF RoundsOK

LEMMA AnswerRounds ==
  ASSUME RoundsOK, NEW k \in Rounds, Broker!Answer(k)
  PROVE  RoundsOK'
<1>1. PICK ok \in BOOLEAN : Broker!SubscribeClient(k, ok)
  BY DEF Broker!Answer
<1>2. /\ UNCHANGED <<client, connected, subscriptions>> /\ connected
      /\ task[k] # Null
      /\ task' = [task EXCEPT ![k] = Broker!Following(task[k], TRUE)]
      /\ granted' \in {granted, granted \cup {subscriptions[task[k].topic]}}
  BY <1>1 DEF Broker!SubscribeClient, Broker!link
<1>3. task[k] \in RoundOf(Len(subscriptions)) /\ subscriptions \in Seq(Topics)
  BY <1>2 DEF RoundsOK
<1>4. Broker!Following(task[k], TRUE) \in RoundOf(Len(subscriptions)) \cup {Null}
  BY <1>3, FollowingRound
<1>5. task' \in [Rounds -> RoundOf(Len(subscriptions)) \cup {Null}]
  BY <1>2, <1>4 DEF RoundsOK
<1>6. subscriptions[task[k].topic] \in Broker!Range(subscriptions)
  BY <1>3 DEF RoundOf, Broker!Range
<1> QED BY <1>2, <1>5, <1>6 DEF RoundsOK

LEMMA NextRounds == ASSUME RoundsOK, [Broker!Next]_(Broker!vars) PROVE RoundsOK'
<1>1. CASE UNCHANGED <<client, connected, subscriptions, task, granted>>
  BY <1>1 DEF RoundsOK
<1>2. CASE Broker!PublishJson \/ Broker!BrokerTakes \/ Broker!Acknowledged
  BY <1>1, <1>2 DEF Broker!PublishJson, Broker!BrokerTakes, Broker!Acknowledged,
                    Broker!link, Broker!subs
<1>3. CASE Broker!Close
  BY <1>3 DEF Broker!Close, RoundsOK
<1>4. CASE UNCHANGED Broker!vars
  BY <1>1, <1>4 DEF Broker!vars, Broker!link, Broker!subs
<1> QED BY <1>2, <1>3, <1>4, ConnectRounds, LoseRounds, SubscribeRounds, AnswerRounds
        DEF Broker!Next

LEMMA InitRounds == ASSUME Broker!Init PROVE RoundsOK
<1>1. subscriptions = <<>> /\ subscriptions \in Seq(Topics) /\ NoneTwice(subscriptions)
  BY DEF Broker!Init, NoneTwice
<1>2. task \in [Rounds -> RoundOf(Len(subscriptions)) \cup {Null}]
  BY DEF Broker!Init
<1>3. client = "open" /\ connected = FALSE /\ granted = {}
      /\ \A k \in Rounds : task[k] = Null
  BY DEF Broker!Init
<1> QED BY <1>1, <1>2, <1>3 DEF RoundsOK

(* No topic is twice in the map: it has no more entries than there are     *)
(* topics.                                                                 *)
LEMMA NoMoreThanTopics ==
  ASSUME IsFiniteSet(Topics), RoundsOK
  PROVE  /\ Len(subscriptions) <= Broker!Cardinality(Topics)
         /\ Broker!Cardinality(Topics) \in Nat
<1>1. subscriptions \in [1 .. Len(subscriptions) -> Topics] /\ Len(subscriptions) \in Nat
  BY DEF RoundsOK
<1>2. subscriptions \in Injection(1 .. Len(subscriptions), Topics)
  BY <1>1 DEF RoundsOK, NoneTwice, Injection, IsInjective
<1>3. Cardinality(1 .. Len(subscriptions)) <= Cardinality(Topics)
  BY <1>2, FS_Injection
<1>4. Cardinality(1 .. Len(subscriptions)) = Len(subscriptions)
  <2>1. PICK n \in Nat : n = Len(subscriptions)
    BY <1>1
  <2>2. Cardinality(1 .. n) = n
    BY FS_Interval
  <2> QED BY <2>1, <2>2
<1>5. Broker!Cardinality(Topics) = Cardinality(Topics)
  BY DEF Broker!Cardinality, Cardinality
<1> QED BY <1>3, <1>4, <1>5, FS_CardinalityType

LEMMA BrokerTypes ==
  ASSUME IsFiniteSet(Topics), RoundsOK, OrderInv
  PROVE  Broker!TypeOK
<1>1. Len(subscriptions) <= Broker!Cardinality(Topics) /\ Broker!Cardinality(Topics) \in Nat
      /\ Len(subscriptions) \in Nat
  BY NoMoreThanTopics DEF RoundsOK
<1>2. RoundOf(Len(subscriptions)) \subseteq Broker!Round
  BY <1>1 DEF RoundOf, Broker!Round
<1>3. task \in [Rounds -> Broker!Round \cup {Null}]
  BY <1>2 DEF RoundsOK
<1>4. Broker!Range(subscriptions) \subseteq Topics
  BY DEF RoundsOK, Broker!Range
<1>5. Len(inflight) >= at /\ taken \in 0 .. published
  BY DEF OrderInv, Ordered
<1> QED BY <1>3, <1>4, <1>5 DEF RoundsOK, Broker!TypeOK

-----------------------------------------------------------------------------
(* All of them: the parts of a behaviour of MCMessages                     *)

MessagesInv ==
  /\ part = "events" => IInv
  /\ part = "terminals" => TerminalTypeInv
  /\ part = "broker" => RoundsOK /\ OrderInv

LEMMA InitMessages == ASSUME AllInit PROVE MessagesInv
<1>1. TerminalsOK
  BY TerminalAssumption DEF TerminalsOK
<1> QED BY <1>1, InitHolds, InitTypes, InitRounds, BrokerInitHolds DEF AllInit, MessagesInv

LEMMA NextMessages == ASSUME MessagesInv, [AllNext]_all PROVE MessagesInv'
<1>1. TerminalsOK
  BY TerminalAssumption DEF TerminalsOK
<1>2. part' = part
  BY DEF AllNext, all
<1>3. CASE part = "events"
  <2>1. [Next]_vars
    BY <1>3 DEF AllNext, all, own, shared, vars
  <2> QED BY <1>2, <1>3, <2>1, StepHolds DEF MessagesInv
<1>4. CASE part = "terminals"
  <2>1. [Sync!Next]_(Sync!vars)
    BY <1>4 DEF AllNext, all, terminals, shared, Sync!vars
  <2> QED BY <1>1, <1>2, <1>4, <2>1, NextTypes DEF MessagesInv
<1>5. CASE part = "broker"
  <2>1. [Broker!Next]_(Broker!vars)
    BY <1>5 DEF AllNext, all, broker, shared, Broker!vars, Broker!link, Broker!subs,
                Broker!messages
  <2> QED BY <1>2, <1>5, <2>1, NextRounds, BrokerStepHolds DEF MessagesInv
<1> QED BY <1>2, <1>3, <1>4, <1>5 DEF MessagesInv

LEMMA MessagesInvariance == AllSpec => []MessagesInv
BY InitMessages, NextMessages, PTL DEF AllSpec

(* The types of what anomalies.service.ts, mqtt-command-bus.service.ts and *)
(* mqtt-broker.service.ts keep, and that a round of subscriptions never    *)
(* leaves the map, in which no topic is twice.  The part "handling" is     *)
(* module Anomalies with constants of its own: TypesInvariant is of it.    *)
THEOREM TypesCorrect ==
  ASSUME IsFiniteSet(Topics) PROVE AllSpec => [](part # "handling" => Types)
<1>1. IInv => TypeOK
  BY DEF IInv, TypeInv, Rows, EventsOK, EventOK, TasksOK, Made, TypeOK, Exists
<1>2. part = "terminals" /\ TerminalTypeInv => Sync!TypeOK
  BY DEF TerminalTypeInv, SeatsOK, ShownOK, WorldOK, TerminalTasksOK, TaskOK, Sync!TypeOK,
         SeatRow, CacheRow, TerminalRow
<1>3. MessagesInv => (part # "handling" => Types)
  BY <1>1, <1>2, BrokerTypes DEF MessagesInv, Types
<1> QED BY <1>3, MessagesInvariance, PTL

(* In every behaviour of the run's parts, only the two publications of a   *)
(* check-in set a terminal's display and light at odds (synchronizeDevice, *)
(* publishQrToken, checkIn).                                               *)
THEOREM LightsSplitOnlyByCheckIn == AllSpec => LightsSplitByCheckIn
<1> DEFINE Inv == part = "terminals" => LitInv
<1>1. AllInit => Inv
  BY InitLit DEF AllInit
<1>2. MessagesInv /\ Inv /\ [AllNext]_all =>
        Inv' /\ [part = "terminals" => Sync!SplitByCheckIn]_all
  <2> SUFFICES ASSUME MessagesInv, Inv, [AllNext]_all, part = "terminals"
               PROVE  Kept /\ part' = part
    BY DEF AllNext, all, Kept
  <2>1. part' = part /\ [Sync!Next]_(Sync!vars)
    BY DEF AllNext, all, terminals, shared, Sync!vars
  <2>2. TerminalsOK
    BY TerminalAssumption DEF TerminalsOK
  <2> QED BY <2>1, <2>2, NextKept DEF MessagesInv
<1> QED BY <1>1, <1>2, MessagesInvariance, PTL DEF AllSpec, LightsSplitByCheckIn

(* However connections are lost and messages sent again: what was answered *)
(* with TRUE is the broker's, and what it has last is not older            *)
(* (MqttBrokerService.publishJson).                                        *)
THEOREM AcceptedCorrect == AllSpec => []AcceptedArrives
<1>1. MessagesInv => AcceptedArrives
  BY DEF MessagesInv, OrderInv, AcceptedArrives, Broker!AcceptedArrives
<1> QED BY <1>1, MessagesInvariance, PTL
=============================================================================
