---------------------------- MODULE TerminalSync ----------------------------
(***************************************************************************)
(* What a seat's terminal shows.  Handlers publish after their commit, the *)
(* command bus keeps the payload published last and repeats it at every    *)
(* synchronisation, and a message is lost while the API or the terminal is *)
(* away from the broker.  A terminal is bound to its seat throughout, and  *)
(* the two go by one name.                                                 *)
(***************************************************************************)
EXTENDS Integers, FiniteSets

CONSTANTS
  Devices, Null,
  Jobs,          \* bound: handlers and scans that publish at once
  Refreshes,     \* bound: token refreshes that run at once
  Maintenance,   \* maintenance flags administrators may ask for
  Faults,        \* what may go wrong
  MaxFailures    \* bound: exceptions and restarts

Publishers == Jobs \cup Refreshes

Using == {"OCCUPIED", "ENDING_SOON", "PENDING_RELEASE"}
SeatStatus == {"FREE", "RESERVED"} \cup Using
Layout == SeatStatus \cup {"MAINTENANCE"}
Light == {"FREE", "RESERVED", "OCCUPIED", "WARNING", "ERROR"}
Phase == {"none", "early", "open", "late"}    \* of the check-in window

NullAssumption == Null \notin Layout \cup Light \cup Devices
InputAssumption == Maintenance \subseteq BOOLEAN /\ MaxFailures \in Nat
FaultAssumption == Faults \subseteq {"broker", "terminal", "exception", "restart"}

VARIABLES
  seat,       \* tables seats, reservations: status, window, maintenance
  online,     \* devices.online_status
  cache,      \* latestDisplayPayloads, latestLightPayloads
  connected,  \* the API is connected to the broker
  linked,     \* terminals connected to the broker
  terminal,   \* what the terminal shows, and the mode it was commanded into
  task,       \* handlers that have committed and not yet published
  failures

vars == <<seat, online, cache, connected, linked, terminal, task, failures>>
world == <<online, connected, linked, failures>>

LightOf(layout) ==
  CASE layout = "MAINTENANCE" -> "ERROR"
    [] layout \in {"ENDING_SOON", "PENDING_RELEASE"} -> "WARNING"
    [] OTHER -> layout

LayoutOf(row) == IF row.maintenance THEN "MAINTENANCE" ELSE row.status

Idle == [pc |-> "idle", todo |-> {}, about |-> Null]
Loop(pc, todo) == IF todo = {} THEN Idle ELSE [Idle EXCEPT !.pc = pc, !.todo = todo]

Init ==
  /\ seat = [d \in Devices |->
       [status |-> "FREE", window |-> "none", maintenance |-> FALSE]]
  /\ online = [d \in Devices |-> TRUE]
  /\ cache = [d \in Devices |-> [display |-> Null, light |-> Null]]
  /\ connected = TRUE
  /\ linked = Devices
  /\ terminal = [d \in Devices |-> [display |-> Null, light |-> Null, mode |-> FALSE]]
  /\ task = [t \in Publishers |-> Idle]
  /\ failures = 0

Start(t, rest) ==
  /\ task[t] = Idle
  /\ task' = [task EXCEPT ![t] = rest]

Continue(t, rest) == task' = [task EXCEPT ![t] = rest]

-----------------------------------------------------------------------------
(* The command bus *)

Arrives(d) == connected /\ d \in linked

PublishDisplay(d, layout) ==
  /\ cache' = [cache EXCEPT ![d].display = layout]
  /\ terminal' = IF Arrives(d) THEN [terminal EXCEPT ![d].display = layout] ELSE terminal

PublishLight(d, light) ==
  /\ cache' = [cache EXCEPT ![d].light = light]
  /\ terminal' = IF Arrives(d) THEN [terminal EXCEPT ![d].light = light] ELSE terminal

PublishBoth(d, layout, light) ==
  /\ cache' = [cache EXCEPT ![d] = [display |-> layout, light |-> light]]
  /\ terminal' = IF Arrives(d)
       THEN [terminal EXCEPT ![d].display = layout, ![d].light = light] ELSE terminal

(* Defect: a synchronisation keeps to the cache for the display only.      *)
CachedLightBuilt(d, layout) == LightOf(layout)

CachedLayout(d, layout) == IF cache[d].display = Null THEN layout ELSE cache[d].display
CachedLight(d, layout) ==
  IF cache[d].light = Null THEN LightOf(layout) ELSE cache[d].light

(* A synchronisation reads the seat, and then repeats the cached payload.  *)
SyncRead(t) ==
  /\ task[t].pc = "sync"
  /\ \E d \in task[t].todo :
       Continue(t, [pc |-> "syncPublish", todo |-> task[t].todo,
                    about |-> [of |-> d, is |-> LayoutOf(seat[d])]])
  /\ UNCHANGED <<seat, cache, terminal, world>>

SyncPublish(t) ==
  LET d == task[t].about.of  layout == task[t].about.is IN
  /\ task[t].pc = "syncPublish"
  /\ PublishBoth(d, CachedLayout(d, layout), CachedLight(d, layout))
  /\ Continue(t, Loop("sync", task[t].todo \ {d}))
  /\ UNCHANGED <<seat, world>>

-----------------------------------------------------------------------------
(* Handlers that publish nothing *)

SeatBecomes(d, status, window) ==
  seat' = [seat EXCEPT ![d].status = status, ![d].window = window]

Reserve(d) ==
  /\ seat[d].status = "FREE" /\ ~seat[d].maintenance /\ online[d]
  /\ SeatBecomes(d, "RESERVED", "early")
  /\ UNCHANGED <<cache, terminal, task, world>>

CancelOrLeave(d) ==
  /\ seat[d].status # "FREE"
  /\ SeatBecomes(d, "FREE", "none")
  /\ UNCHANGED <<cache, terminal, task, world>>

Extend(d) ==
  /\ seat[d].status = "ENDING_SOON"
  /\ SeatBecomes(d, "OCCUPIED", "none")
  /\ UNCHANGED <<cache, terminal, task, world>>

WindowMoves(d) ==
  /\ \/ seat[d].window = "early" /\ SeatBecomes(d, "RESERVED", "open")
     \/ seat[d].window = "open" /\ SeatBecomes(d, "RESERVED", "late")
  /\ UNCHANGED <<cache, terminal, task, world>>

-----------------------------------------------------------------------------
(* Check-in: the display, and once it is acknowledged the light            *)

CheckIn(t, d) ==
  /\ seat[d].window = "open" /\ online[d]
  /\ SeatBecomes(d, "OCCUPIED", "none")
  /\ Start(t, Loop("checkedInDisplay", {d}))
  /\ UNCHANGED <<cache, terminal, world>>

CheckedInDisplay(t) ==
  /\ task[t].pc = "checkedInDisplay"
  /\ \E d \in task[t].todo : PublishDisplay(d, "OCCUPIED")
  /\ Continue(t, [task[t] EXCEPT !.pc = "checkedInLight"])
  /\ UNCHANGED <<seat, world>>

CheckedInLight(t) ==
  /\ task[t].pc = "checkedInLight"
  /\ \E d \in task[t].todo : PublishLight(d, "OCCUPIED")
  /\ Continue(t, Idle)
  /\ UNCHANGED <<seat, world>>

-----------------------------------------------------------------------------
(* Tokens: the refresh and the re-sync of a reserved seat                  *)

RefreshFind(t) ==
  LET waiting == {d \in Devices : seat[d].window = "open"} IN
  /\ waiting # {}
  /\ Start(t, Loop("issue", waiting))
  /\ UNCHANGED <<seat, cache, terminal, world>>

(* A token is made for an online terminal only.                            *)
Issue(t) ==
  /\ task[t].pc = "issue"
  /\ \E d \in task[t].todo :
       Continue(t, IF online[d]
         THEN [pc |-> "publishToken", todo |-> task[t].todo,
               about |-> [of |-> d, is |-> "RESERVED"]]
         ELSE Loop("issue", task[t].todo \ {d}))
  /\ UNCHANGED <<seat, cache, terminal, world>>

(* Defect: the token is made and not published.                            *)
PublishTokenNowhere(d) == UNCHANGED <<cache, terminal>>

PublishReserved(d) == PublishBoth(d, "RESERVED", "RESERVED")

PublishToken(t) ==
  LET d == task[t].about.of IN
  /\ task[t].pc = "publishToken"
  /\ PublishReserved(d)
  /\ Continue(t, Loop("issue", task[t].todo \ {d}))
  /\ UNCHANGED <<seat, world>>

ResyncDevice(t) ==
  /\ task[t].pc = "resyncDevice"
  /\ Continue(t, IF \E d \in task[t].todo : online[d]
                 THEN [task[t] EXCEPT !.pc = "resyncFind"] ELSE Idle)
  /\ UNCHANGED <<seat, cache, terminal, world>>

(* A token in force is reused, or one is issued.                           *)
ResyncFind(t) ==
  /\ task[t].pc = "resyncFind"
  /\ \E d \in task[t].todo :
       \/ seat[d].window # "open" /\ Continue(t, Idle)
       \/ seat[d].window = "open" /\ Continue(t, Loop("issue", {d}))
       \/ /\ seat[d].window = "open"
          /\ Continue(t, [pc |-> "publishToken", todo |-> {d},
                          about |-> [of |-> d, is |-> "RESERVED"]])
  /\ UNCHANGED <<seat, cache, terminal, world>>

-----------------------------------------------------------------------------
(* Heartbeats and the scans, which synchronise what they changed           *)

Heartbeat(t, d) ==
  /\ ~online[d]
  /\ online' = [online EXCEPT ![d] = TRUE]
  /\ Start(t, Loop(IF seat[d].status = "RESERVED" THEN "resyncDevice" ELSE "sync", {d}))
  /\ UNCHANGED <<seat, cache, terminal, connected, linked, failures>>

(* The silent devices are looked up together and marked one by one, and    *)
(* those that were online are synchronised.                                *)
DeviceReconcile(t, D) ==
  /\ D # {} /\ \A d \in D : online[d]
  /\ Start(t, [pc |-> "mark", todo |-> D, about |-> {}])
  /\ UNCHANGED <<seat, cache, terminal, world>>

MarkOffline(t) ==
  /\ task[t].pc = "mark"
  /\ \E d \in task[t].todo :
       LET rest == task[t].todo \ {d}
           marked == task[t].about \cup {c \in {d} : online[c]} IN
       /\ online' = [online EXCEPT ![d] = FALSE]
       /\ Continue(t, IF rest = {} THEN Loop("sync", marked)
                      ELSE [pc |-> "mark", todo |-> rest, about |-> marked])
  /\ UNCHANGED <<seat, cache, terminal, connected, linked, failures>>

NoShowScan(t) ==
  LET due == {d \in Devices : seat[d].window = "late"} IN
  /\ due # {}
  /\ seat' = [d \in Devices |-> IF d \in due
       THEN [seat[d] EXCEPT !.status = "FREE", !.window = "none"] ELSE seat[d]]
  /\ Start(t, Loop("sync", due))
  /\ UNCHANGED <<cache, terminal, world>>

(* The end of a stay comes nearer: it ends, or is kept by who stays on.    *)
Successors(status) ==
  CASE status = "OCCUPIED" -> {"ENDING_SOON", "PENDING_RELEASE", "FREE"}
    [] status = "ENDING_SOON" -> {"PENDING_RELEASE", "FREE"}
    [] status = "PENDING_RELEASE" -> {"FREE"}
    [] OTHER -> {}

UsageScan(t, D) ==
  /\ D # {}
  /\ \E next \in SeatStatus :
       /\ \A d \in D : next \in Successors(seat[d].status)
       /\ seat' = [d \in Devices |->
            IF d \in D THEN [seat[d] EXCEPT !.status = next] ELSE seat[d]]
  /\ Start(t, Loop("sync", D))
  /\ UNCHANGED <<cache, terminal, world>>

-----------------------------------------------------------------------------
(* The administrator *)

ReleaseSeat(t, d) ==
  /\ seat[d].status # "FREE"
  /\ SeatBecomes(d, "FREE", "none")
  /\ Start(t, Loop("sync", {d}))
  /\ UNCHANGED <<cache, terminal, world>>

SetMaintenance(t, d, maintenance) ==
  /\ seat' = [seat EXCEPT ![d].maintenance = maintenance]
  /\ Start(t, [pc |-> "command", todo |-> {d}, about |-> [of |-> d, is |-> maintenance]])
  /\ UNCHANGED <<cache, terminal, world>>

(* Commands are not cached: one that is lost is not repeated.              *)
Command(t) ==
  LET d == task[t].about.of IN
  /\ task[t].pc = "command"
  /\ terminal' = IF Arrives(d)
       THEN [terminal EXCEPT ![d].mode = task[t].about.is] ELSE terminal
  /\ Continue(t, Loop("sync", {d}))
  /\ UNCHANGED <<seat, cache, world>>

-----------------------------------------------------------------------------
(* Faults *)

BrokerComesOrGoes ==
  /\ "broker" \in Faults
  /\ connected' = ~connected
  /\ UNCHANGED <<seat, online, cache, linked, terminal, task, failures>>

TerminalComesOrGoes(d) ==
  /\ "terminal" \in Faults
  /\ linked' = IF d \in linked THEN linked \ {d} ELSE linked \cup {d}
  /\ UNCHANGED <<seat, online, cache, connected, terminal, task, failures>>

(* A publication or statement throws: the handler or scan ends there.      *)
Throws(t) ==
  /\ "exception" \in Faults /\ failures < MaxFailures
  /\ task[t] # Idle
  /\ failures' = failures + 1
  /\ Continue(t, Idle)
  /\ UNCHANGED <<seat, online, cache, connected, linked, terminal>>

Restart ==
  /\ "restart" \in Faults /\ failures < MaxFailures
  /\ failures' = failures + 1
  /\ task' = [t \in Publishers |-> Idle]
  /\ cache' = [d \in Devices |-> [display |-> Null, light |-> Null]]
  /\ UNCHANGED <<seat, online, connected, linked, terminal>>

-----------------------------------------------------------------------------

Step(t) ==
  \/ MarkOffline(t) \/ SyncRead(t) \/ SyncPublish(t) \/ Command(t)
  \/ CheckedInDisplay(t) \/ CheckedInLight(t)
  \/ Issue(t) \/ PublishToken(t) \/ ResyncDevice(t) \/ ResyncFind(t)

Begin(t) ==
  \/ \E d \in Devices : CheckIn(t, d) \/ Heartbeat(t, d) \/ ReleaseSeat(t, d)
  \/ \E d \in Devices, maintenance \in Maintenance : SetMaintenance(t, d, maintenance)
  \/ \E D \in SUBSET Devices : UsageScan(t, D) \/ DeviceReconcile(t, D)
  \/ NoShowScan(t)

Next ==
  \/ \E t \in Publishers : Step(t) \/ Throws(t)
  \/ \E t \in Jobs : Begin(t)
  \/ \E t \in Refreshes : RefreshFind(t)
  \/ \E d \in Devices :
       \/ Reserve(d) \/ CancelOrLeave(d) \/ Extend(d) \/ WindowMoves(d)
       \/ TerminalComesOrGoes(d)
  \/ BrokerComesOrGoes \/ Restart

Spec == Init /\ [][Next]_vars

(* A handler awaits nothing but the database and the broker, and           *)
(* setInterval starts the refresh again and again.                         *)
FairSpec ==
  /\ Spec
  /\ \A t \in Publishers : WF_vars(Step(t))
  /\ \A t \in Refreshes : WF_vars(RefreshFind(t))

-----------------------------------------------------------------------------
(* Properties *)

Pc == {"idle", "mark", "sync", "syncPublish", "checkedInDisplay", "checkedInLight", "issue",
       "publishToken", "resyncDevice", "resyncFind", "command"}

TypeOK ==
  /\ seat \in [Devices ->
       [status: SeatStatus, window: Phase, maintenance: BOOLEAN]]
  /\ \A d \in Devices : seat[d].window # "none" <=> seat[d].status = "RESERVED"
  /\ online \in [Devices -> BOOLEAN]
  /\ cache \in [Devices -> [display: Layout \cup {Null}, light: Light \cup {Null}]]
  /\ connected \in BOOLEAN /\ linked \subseteq Devices
  /\ terminal \in [Devices ->
       [display: Layout \cup {Null}, light: Light \cup {Null}, mode: BOOLEAN]]
  /\ \A t \in Publishers : task[t].pc \in Pc /\ task[t].todo \subseteq Devices
  /\ failures \in 0 .. MaxFailures

Quiet == \A t \in Publishers : task[t] = Idle

Paired(d) == cache[d].display # Null => cache[d].light = LightOf(cache[d].display)

(* The display and the light a terminal was given last belong to one       *)
(* status, and whatever overlaps, fails or restarts, only the two          *)
(* publications of a check-in, a step apart, set them at odds: tokens and  *)
(* synchronisations of any age never do.                                   *)
SplitByCheckIn ==
  \A d \in Devices :
    Paired(d) /\ ~Paired(d)' =>
      \E t \in Publishers :
        d \in task[t].todo /\ (CheckedInDisplay(t) \/ CheckedInLight(t))

LightsSplitByCheckIn == [][SplitByCheckIn]_vars

(* Whatever was lost before: a seat that stays open for check-in, its      *)
(* terminal online and reachable, comes to show the token and its light.   *)
WaitingShowsToken ==
  \A d \in Devices :
    <>[](seat[d].window = "open" /\ online[d] /\ Arrives(d))
      => <>[](terminal[d].display = "RESERVED" /\ terminal[d].light = "RESERVED")

-----------------------------------------------------------------------------
(* What the code does not keep: in no run, TLC finds each of them violated *)

(* Nothing being published, display and light belong to one status (a      *)
(* token comes between a check-in's display and its light, and stays so).  *)
LightMatchesDisplay == Quiet => \A d \in Devices : Paired(d)

(* A terminal that comes back is sent the state of its seat, unless that   *)
(* changes while it is being read (it is sent the cached payload).         *)
RecoveredShowsPresent ==
  [][\A t \in Publishers : SyncPublish(t) =>
       LET d == task[t].about.of IN
       task[t].about.is = LayoutOf(seat[d]) => cache'[d].display = LayoutOf(seat[d])]_vars

(* Every change of a seat's status is published to its terminal (those of  *)
(* reserving, cancelling, extending and leaving are not).                  *)
QuietShowsStatus ==
  Quiet => \A d \in Devices :
    terminal[d].display # Null => terminal[d].display = LayoutOf(seat[d])
=============================================================================
