---------------------------- MODULE Reservations ----------------------------
(***************************************************************************)
(* The reservation life cycle of the SmartSeat API: booking, QR check-in,  *)
(* extension, release, no-show and expiry, with the tables those handlers  *)
(* share.                                                                  *)
(*                                                                         *)
(* Every writer of the reservation table runs in one Serializable          *)
(* transaction, so it is one action here.  The QR token jobs (the refresh  *)
(* timer and the re-sync of a recovered device) run outside transactions   *)
(* and await between statements, so each statement is an action.           *)
(***************************************************************************)
EXTENDS Integers, FiniteSets

CONSTANTS
  Users, Seats, Devices,
  ReservationIds, TokenIds,   \* primary keys the instance may hand out
  RefreshJobs,                \* runs of the refresh timer under way at once
  SyncJobs,                   \* runs of the re-sync under way at once
  Null,                       \* the database null
  CheckinStartOffset,         \* check-in opens this long before the start
  CheckinDeadlineOffset,      \* and closes this long after it
  QrTokenTtl,
  EndingSoonWindow,
  MinValidStudy,              \* shortest study record that counts
  Slots,                      \* <<start, end>> a booking request may carry
  ExtendedEnds,               \* end times an extension request may carry
  Conditions,                 \* column values other services may write
  MaxLag,                     \* bound: age of a request's clock at commit
  MaxTime                     \* bound: last instant of the instance

ASSUME NullAssumption ==
  /\ Null \notin Users \cup Seats \cup Devices \cup ReservationIds
  /\ Null \notin Int

ASSUME OffsetAssumption ==
  /\ CheckinStartOffset \in Nat
  /\ CheckinDeadlineOffset \in Nat
  /\ QrTokenTtl \in Nat
  /\ EndingSoonWindow \in Nat
  /\ MinValidStudy \in Nat \ {0}

ASSUME BoundAssumption ==
  /\ IsFiniteSet(ReservationIds)
  /\ MaxLag \in Nat
  /\ MaxTime \in Nat

Jobs == RefreshJobs \cup SyncJobs

WaitingOrIn == {"WAITING_CHECKIN", "CHECKED_IN"}
EndedStatus ==
  {"FINISHED", "CANCELLED", "NO_SHOW", "USER_RELEASED", "ADMIN_RELEASED"}
ReservationStatus == {"NONE"} \cup WaitingOrIn \cup EndedStatus
UsingStatus == {"OCCUPIED", "ENDING_SOON", "PENDING_RELEASE"}
SeatStatus == {"FREE", "RESERVED"} \cup UsingStatus
Presence == {"PRESENT", "ABSENT", "UNKNOWN", "ERROR"}
StudySource == {"TIME_FINISHED", "USER_RELEASED", "ADMIN_RELEASED"}

(* The columns of a seat, and of the device bound to it, that other        *)
(* services own and the reservation handlers read.                         *)
SeatColumns ==
  [reservable: BOOLEAN,       \* AVAILABLE and not under maintenance
   presence: Presence,
   device: Devices \cup {Null},
   online: BOOLEAN]           \* the bound device is ONLINE

ASSUME InputAssumption ==
  /\ Slots \subseteq Int \X Int
  /\ ExtendedEnds \subseteq Int
  /\ Conditions \subseteq SeatColumns

Time == Int

ReservationRow ==
  [status: ReservationStatus, user: Users \cup {Null}, seat: Seats \cup {Null},
   start: Time, end: Time,
   checkedInAt: Time \cup {Null}, releasedAt: Time \cup {Null}]

TokenRow ==
  [status: {"NONE", "UNUSED", "USED", "EXPIRED", "INVALIDATED"},
   reservation: ReservationIds \cup {Null}, device: Devices \cup {Null},
   expiredAt: Time]

StudyRow ==
  [start: Time, end: Time, source: StudySource, valid: BOOLEAN]

(* A column that holds a row's values never holds null in their place.     *)
ASSUME NullRowAssumption == Null \notin StudyRow

CheckInRow ==
  [reservation: ReservationIds, user: Users, token: TokenIds, at: Time]

JobPc == {"idle", "find", "seat", "device", "create",
          "syncFind", "syncExpire", "syncReuse"}

JobRow ==
  [pc: JobPc, at: Time, todo: SUBSET ReservationIds,
   seat: Seats \cup {Null}, device: Devices \cup {Null}]

VARIABLES
  now,        \* the wall clock
  res,        \* res[r]: row of table reservations; status NONE: not inserted
  business,   \* business[s]: seats.business_status
  column,     \* column[s]: the seat's columns owned by other services
  qr,         \* qr[k]: row of table qr_tokens; status NONE: not inserted
  checkIns,   \* table checkin_records
  study,      \* study[r]: the study record of r, Null before it is inserted
  noShows,    \* noShows[u]: users.no_show_count_week, _month alike
  job         \* job[j]: a token job between two of its awaits

tables == <<res, business, qr, checkIns, study, noShows>>
vars == <<now, res, business, column, qr, checkIns, study, noShows, job>>

-----------------------------------------------------------------------------
(* Initial state *)

NoReservation ==
  [status |-> "NONE", user |-> Null, seat |-> Null, start |-> 0, end |-> 0,
   checkedInAt |-> Null, releasedAt |-> Null]

NoToken ==
  [status |-> "NONE", reservation |-> Null, device |-> Null, expiredAt |-> 0]

IdleJob ==
  [pc |-> "idle", at |-> 0, todo |-> {}, seat |-> Null, device |-> Null]

(* One device is never bound to two seats.                                 *)
BoundOnce(col) ==
  \A s, t \in Seats :
     s # t /\ col[s].device # Null => col[s].device # col[t].device

Init ==
  /\ now = 0
  /\ res = [r \in ReservationIds |-> NoReservation]
  /\ business = [s \in Seats |-> "FREE"]
  /\ column \in [Seats -> Conditions]
  /\ BoundOnce(column)
  /\ qr = [k \in TokenIds |-> NoToken]
  /\ checkIns = {}
  /\ study = [r \in ReservationIds |-> Null]
  /\ noShows = [u \in Users |-> 0]
  /\ job = [j \in Jobs |-> IdleJob]

-----------------------------------------------------------------------------
(* Helpers *)

(* An instant that a handler committing now may have read as new Date().   *)
Clock == (now - MaxLag) .. now

Active(r) == res[r].status \in WaitingOrIn

CheckinStart(r) == res[r].start - CheckinStartOffset
CheckinDeadline(r) == res[r].start + CheckinDeadlineOffset
InCheckinWindow(r, t) == CheckinStart(r) <= t /\ t <= CheckinDeadline(r)

(* [a, b) meets the half-open interval of the active reservation r.        *)
Overlaps(r, a, b) == Active(r) /\ res[r].start < b /\ res[r].end > a

(* Defect: bookings are compared by seat only.                             *)
NoOverlapOnSeat(u, s, a, b, except) ==
  \A r \in ReservationIds \ except : res[r].seat = s => ~ Overlaps(r, a, b)

(* assertNoOverlappingReservation, leaving out the reservations except.    *)
NoOverlap(u, s, a, b, except) ==
  \A r \in ReservationIds \ except :
     res[r].user = u \/ res[r].seat = s => ~ Overlaps(r, a, b)

(* The updates of a reservation's row: a check-in, an extension, and the   *)
(* one every ending writes.                                                *)
CheckedInRow(row, at) ==
  [row EXCEPT !.status = "CHECKED_IN", !.checkedInAt = at]
ExtendedRow(row, newEnd) == [row EXCEPT !.end = newEnd]
EndedRow(row, status, at) ==
  [row EXCEPT !.status = status, !.releasedAt = at]

(* releaseSeatIfNoActiveReservation, over the seats of the reservations R  *)
(* that end in this transaction.                                           *)
ReleaseSeats(R) ==
  [s \in Seats |->
     IF /\ \E r \in R : res[r].seat = s
        /\ \A r \in ReservationIds \ R : res[r].seat = s => ~ Active(r)
     THEN "FREE" ELSE business[s]]

(* invalidateUnusedQrTokensForReservation, over the reservations R.        *)
Invalidate(R) ==
  [k \in TokenIds |->
     IF qr[k].status = "UNUSED" /\ qr[k].reservation \in R
     THEN [qr[k] EXCEPT !.status = "INVALIDATED"] ELSE qr[k]]

(* Defect: a stay too short to count gets no record.                       *)
StudyRecordOfLongStay(r, end, source, forcedInvalid) ==
  IF \/ res[r].checkedInAt = Null \/ study[r] # Null
     \/ end - res[r].checkedInAt < MinValidStudy
  THEN study[r]
  ELSE [start |-> res[r].checkedInAt, end |-> end, source |-> source,
        valid |-> ~ forcedInvalid]

(* upsertFromReservation: nothing without a check-in, and the update       *)
(* branch of the upsert is empty, so the first record of r stays.          *)
StudyRecordOf(r, end, source, forcedInvalid) ==
  IF res[r].checkedInAt = Null \/ study[r] # Null
  THEN study[r]
  ELSE [start |-> res[r].checkedInAt, end |-> end, source |-> source,
        valid |-> ~ forcedInvalid /\ end - res[r].checkedInAt >= MinValidStudy]

-----------------------------------------------------------------------------
(* Requests of students and administrators *)

(* Defect: only the overlap check protects the seat.                       *)
SeatOpen(s) == column[s].reservable

SeatCanBeReserved(s) == column[s].reservable /\ business[s] = "FREE"

CreateReservation(u, s, slot) ==
  /\ slot[1] < slot[2]
  /\ SeatCanBeReserved(s)
  /\ NoOverlap(u, s, slot[1], slot[2], {})
  /\ \E r \in ReservationIds :
       /\ res[r].status = "NONE"
       /\ res' = [res EXCEPT ![r] =
                    [status |-> "WAITING_CHECKIN", user |-> u, seat |-> s,
                     start |-> slot[1], end |-> slot[2],
                     checkedInAt |-> Null, releasedAt |-> Null]]
  /\ business' = [business EXCEPT ![s] = "RESERVED"]
  /\ UNCHANGED <<now, column, qr, checkIns, study, noShows, job>>

(* Defect: the token stands for the reservation's status.                  *)
TokenAdmits(u, k, t) ==
  LET r == qr[k].reservation
      device == column[res[r].seat].device
  IN /\ qr[k].status = "UNUSED" /\ t < qr[k].expiredAt
     /\ res[r].user = u /\ InCheckinWindow(r, t)
     /\ device = qr[k].device /\ column[res[r].seat].online

(* The token, the reservation and the device all still allow the check-in. *)
CheckInAllowed(u, k, t) ==
  LET r == qr[k].reservation
      s == res[r].seat
  IN /\ qr[k].status = "UNUSED" /\ t < qr[k].expiredAt
     /\ res[r].user = u /\ res[r].status = "WAITING_CHECKIN"
     /\ InCheckinWindow(r, t)
     /\ column[s].device = qr[k].device /\ column[s].online

(* The expired-token update of a rejected check-in is rolled back with it, *)
(* so only the accepted request is a step.                                 *)
CheckIn(u, k, t) ==
  LET r == qr[k].reservation
      s == res[r].seat
  IN /\ CheckInAllowed(u, k, t)
     /\ res' = [res EXCEPT ![r] = CheckedInRow(@, t)]
     /\ business' = [business EXCEPT ![s] = "OCCUPIED"]
     /\ qr' = [Invalidate({r}) EXCEPT ![k] = [qr[k] EXCEPT !.status = "USED"]]
     /\ checkIns' = checkIns \cup
          {[reservation |-> r, user |-> u, token |-> k, at |-> t]}
     /\ UNCHANGED <<now, column, study, noShows, job>>

(* cancelReservation stamps releasedAt inside the transaction.             *)
CancelReservation(u, r) ==
  /\ res[r].user = u /\ res[r].status = "WAITING_CHECKIN"
  /\ res' = [res EXCEPT ![r] = EndedRow(@, "CANCELLED", now)]
  /\ qr' = Invalidate({r})
  /\ business' = ReleaseSeats({r})
  /\ UNCHANGED <<now, column, checkIns, study, noShows, job>>

(* Defect: the extended seat keeps the status of the old end.              *)
ExtendKeepsStatus(u, r, newEnd, t) ==
  /\ res[r].user = u /\ res[r].status = "CHECKED_IN"
  /\ res[r].end > t
  /\ newEnd > res[r].end
  /\ NoOverlap(u, res[r].seat, res[r].end, newEnd, {r})
  /\ res' = [res EXCEPT ![r] = ExtendedRow(@, newEnd)]
  /\ UNCHANGED <<now, business, column, qr, checkIns, study, noShows, job>>

ExtendReservation(u, r, newEnd, t) ==
  /\ res[r].user = u /\ res[r].status = "CHECKED_IN"
  /\ res[r].end > t
  /\ newEnd > res[r].end
  /\ NoOverlap(u, res[r].seat, res[r].end, newEnd, {r})
  /\ res' = [res EXCEPT ![r] = ExtendedRow(@, newEnd)]
  /\ business' = [business EXCEPT ![res[r].seat] = "OCCUPIED"]
  /\ UNCHANGED <<now, column, qr, checkIns, study, noShows, job>>

ReleaseCurrentUsage(u, r, t) ==
  /\ res[r].user = u /\ res[r].status = "CHECKED_IN"
  /\ res' = [res EXCEPT ![r] = EndedRow(@, "USER_RELEASED", t)]
  /\ study' = [study EXCEPT ![r] = StudyRecordOf(r, t, "USER_RELEASED", FALSE)]
  /\ business' = ReleaseSeats({r})
  /\ UNCHANGED <<now, column, qr, checkIns, noShows, job>>

(* What an administrator's release leaves as the seat's bookability:       *)
(* maintenance when the request does not restore it, an offline device     *)
(* keeps it closed, and otherwise the maintenance flag and the sensor      *)
(* error this module does not keep decide.                                 *)
RestoredReservable(s, restore) ==
  IF ~ restore \/ (column[s].device # Null /\ ~ column[s].online)
  THEN {FALSE} ELSE BOOLEAN

(* AdminService.releaseSeat.  The anomalies it handles and the maintenance *)
(* record and action log it writes are other components' tables.           *)
AdminReleaseSeat(r, t, restore, exclude) ==
  /\ Active(r)
  /\ res' = [res EXCEPT ![r] = EndedRow(@, "ADMIN_RELEASED", t)]
  /\ qr' = Invalidate({r})
  /\ study' = [study EXCEPT ![r] =
                 IF res[r].status = "CHECKED_IN"
                 THEN StudyRecordOf(r, t, "ADMIN_RELEASED", exclude)
                 ELSE study[r]]
  /\ business' = [business EXCEPT ![res[r].seat] = "FREE"]
  /\ \E open \in RestoredReservable(res[r].seat, restore) :
       column' = [column EXCEPT ![res[r].seat] = [@ EXCEPT !.reservable = open]]
  /\ UNCHANGED <<now, checkIns, noShows, job>>

-----------------------------------------------------------------------------
(* Scheduled scans.  t is the instant the scan read before its transaction.*)

(* Defect: somebody on the seat passes for its student.                    *)
DueEmptyNoShows(t) == {r \in ReservationIds :
                      /\ res[r].status = "WAITING_CHECKIN"
                      /\ CheckinDeadline(r) < t
                      /\ column[res[r].seat].presence # "PRESENT"}

DueNoShows(t) == {r \in ReservationIds :
                 res[r].status = "WAITING_CHECKIN" /\ CheckinDeadline(r) < t}

(* Defect: what earlier scans counted is counted again.                    *)
EverLapsedOf(u, t) ==
  {r \in ReservationIds :
     /\ res[r].user = u /\ CheckinDeadline(r) < t
     /\ res[r].status \in {"WAITING_CHECKIN", "NO_SHOW"}}

LapsedOf(u, t) == {r \in DueNoShows(t) : res[r].user = u}

NoShowScan(t) ==
  /\ res' = [r \in ReservationIds |->
               IF r \in DueNoShows(t)
               THEN EndedRow(res[r], "NO_SHOW", t)
               ELSE res[r]]
  /\ qr' = Invalidate(DueNoShows(t))
  /\ noShows' = [u \in Users |-> noShows[u] + Cardinality(LapsedOf(u, t))]
  /\ business' = ReleaseSeats(DueNoShows(t))
  /\ UNCHANGED <<now, column, checkIns, study, job>>

Ended(r, t) == res[r].status = "CHECKED_IN" /\ res[r].end <= t
StillPresent(r) == column[res[r].seat].presence = "PRESENT"

(* Defect: a seat already awaiting release is not looked at again.         *)
DueFirstFinishes(t) ==
  {r \in ReservationIds :
     /\ Ended(r, t) /\ ~ StillPresent(r)
     /\ business[res[r].seat] # "PENDING_RELEASE"}

(* Past their end with nobody detected: finished.                          *)
DueFinishes(t) == {r \in ReservationIds : Ended(r, t) /\ ~ StillPresent(r)}

EndingSoon(s, t) ==
  \E r \in ReservationIds :
     /\ res[r].seat = s /\ res[r].status = "CHECKED_IN"
     /\ t < res[r].end /\ res[r].end - t <= EndingSoonWindow

(* Defect: the scan only knows seats that end soon or are free.            *)
ScannedFree(s, t) ==
  IF EndingSoon(s, t) THEN "ENDING_SOON" ELSE ReleaseSeats(DueFinishes(t))[s]

(* Defect: any old stay on the seat makes it await its release.            *)
ScannedHistory(s, t) ==
  IF \E r \in ReservationIds :
       res[r].seat = s /\ res[r].end <= t /\ StillPresent(r)
  THEN "PENDING_RELEASE"
  ELSE IF EndingSoon(s, t) THEN "ENDING_SOON" ELSE ReleaseSeats(DueFinishes(t))[s]

(* The seat status the scan leaves.                                        *)
ScannedBusiness(s, t) ==
  IF \E r \in ReservationIds : res[r].seat = s /\ Ended(r, t) /\ StillPresent(r)
  THEN "PENDING_RELEASE"
  ELSE IF EndingSoon(s, t) THEN "ENDING_SOON" ELSE ReleaseSeats(DueFinishes(t))[s]

UsageScan(t) ==
  /\ res' = [r \in ReservationIds |->
               IF r \in DueFinishes(t)
               THEN EndedRow(res[r], "FINISHED", res[r].end)
               ELSE res[r]]
  /\ study' = [r \in ReservationIds |->
                 IF r \in DueFinishes(t)
                 THEN StudyRecordOf(r, res[r].end, "TIME_FINISHED", FALSE)
                 ELSE study[r]]
  /\ business' = [s \in Seats |-> ScannedBusiness(s, t)]
  /\ UNCHANGED <<now, column, qr, checkIns, noShows, job>>

-----------------------------------------------------------------------------
(* QR token jobs.  refreshActiveQrTokens is started by a timer whether or  *)
(* not the last run has ended; syncReservedCheckinStateForDevice by the    *)
(* heartbeat of a device that was offline.  Both keep the instant at which *)
(* they started and the rows they read.                                    *)

(* Defect: used tokens expire too.                                         *)
ExpireUsedTokens(at, R) ==
  [k \in TokenIds |->
     IF /\ qr[k].status \in {"UNUSED", "USED"} /\ qr[k].expiredAt <= at
        /\ qr[k].reservation \in R
     THEN [qr[k] EXCEPT !.status = "EXPIRED"] ELSE qr[k]]

ExpireTokens(at, R) ==
  [k \in TokenIds |->
     IF /\ qr[k].status = "UNUSED" /\ qr[k].expiredAt <= at
        /\ qr[k].reservation \in R
     THEN [qr[k] EXCEPT !.status = "EXPIRED"] ELSE qr[k]]

WaitingInWindow(at) ==
  {r \in ReservationIds :
     res[r].status = "WAITING_CHECKIN" /\ InCheckinWindow(r, at)}

(* The loop body is done with a reservation: on to the next, or finish.    *)
Continue(j, rest) ==
  job' = [job EXCEPT ![j] =
            IF rest = {} THEN IdleJob
            ELSE [@ EXCEPT !.pc = "seat", !.todo = rest,
                           !.seat = Null, !.device = Null]]

JobOnly == UNCHANGED <<now, res, business, column, qr, checkIns, study, noShows>>
JobAndTokensOnly ==
  UNCHANGED <<now, res, business, column, checkIns, study, noShows>>

RefreshExpire(j) ==
  /\ job[j].pc = "idle"
  /\ qr' = ExpireTokens(now, ReservationIds)
  /\ job' = [job EXCEPT ![j] = [IdleJob EXCEPT !.pc = "find", !.at = now]]
  /\ JobAndTokensOnly

RefreshFind(j) ==
  /\ job[j].pc = "find"
  /\ Continue(j, WaitingInWindow(job[j].at))
  /\ JobOnly

(* findMany orders by check-in deadline.                                   *)
Earliest(R) ==
  {r \in R : \A r2 \in R : CheckinDeadline(r) <= CheckinDeadline(r2)}

(* Defect: a seat without a device is not skipped.                         *)
IssueReadSeatBlindly(j) ==
  /\ job[j].pc = "seat"
  /\ \E r \in Earliest(job[j].todo) :
       job' = [job EXCEPT ![j] =
                 [@ EXCEPT !.pc = "device", !.seat = res[r].seat,
                           !.device = column[res[r].seat].device]]
  /\ JobOnly

(* createQrTokenForReservation, first read: the seat's device.             *)
IssueReadSeat(j) ==
  /\ job[j].pc = "seat"
  /\ \E r \in Earliest(job[j].todo) :
       LET d == column[res[r].seat].device
       IN IF d = Null
          THEN Continue(j, job[j].todo \ {r})
          ELSE job' = [job EXCEPT ![j] =
                         [@ EXCEPT !.pc = "device", !.device = d,
                                   !.seat = res[r].seat]]
  /\ JobOnly

(* Second read: the device must still be that seat's, and online.          *)
IssueReadDevice(j) ==
  /\ job[j].pc = "device"
  /\ \E r \in Earliest(job[j].todo) :
       /\ res[r].seat = job[j].seat
       /\ IF /\ column[job[j].seat].device = job[j].device
             /\ column[job[j].seat].online
          THEN job' = [job EXCEPT ![j] = [@ EXCEPT !.pc = "create"]]
          ELSE Continue(j, job[j].todo \ {r})
  /\ JobOnly

(* The insert rechecks neither the reservation nor the device.  The state  *)
(* published to the terminal afterwards is not kept in this module.        *)
IssueCreate(j) ==
  /\ job[j].pc = "create"
  /\ \E r \in Earliest(job[j].todo), k \in TokenIds :
       /\ res[r].seat = job[j].seat
       /\ qr[k].status = "NONE"
       /\ qr' = [qr EXCEPT ![k] =
                   [status |-> "UNUSED", reservation |-> r,
                    device |-> job[j].device,
                    expiredAt |-> job[j].at + QrTokenTtl]]
       /\ Continue(j, job[j].todo \ {r})
  /\ JobAndTokensOnly

SyncReadDevice(j, s) ==
  /\ job[j].pc = "idle"
  /\ column[s].device # Null /\ column[s].online
  /\ job' = [job EXCEPT ![j] =
               [pc |-> "syncFind", at |-> now, todo |-> {}, seat |-> s,
                device |-> column[s].device]]
  /\ JobOnly

SyncFindReservation(j) ==
  /\ job[j].pc = "syncFind"
  /\ LET found == {r \in WaitingInWindow(job[j].at) : res[r].seat = job[j].seat}
     IN IF found = {}
        THEN job' = [job EXCEPT ![j] = IdleJob]
        ELSE \E r \in Earliest(found) :
               job' = [job EXCEPT ![j] =
                         [@ EXCEPT !.pc = "syncExpire", !.todo = {r}]]
  /\ JobOnly

SyncExpire(j) ==
  /\ job[j].pc = "syncExpire"
  /\ qr' = ExpireTokens(job[j].at, job[j].todo)
  /\ job' = [job EXCEPT ![j] = [@ EXCEPT !.pc = "syncReuse"]]
  /\ JobAndTokensOnly

(* A token still good for this device is shown again; otherwise one is     *)
(* made as in the refresh.                                                 *)
SyncReuse(j) ==
  /\ job[j].pc = "syncReuse"
  /\ IF \E k \in TokenIds :
          /\ qr[k].status = "UNUSED" /\ qr[k].reservation \in job[j].todo
          /\ qr[k].device = job[j].device /\ qr[k].expiredAt > job[j].at
     THEN job' = [job EXCEPT ![j] = IdleJob]
     ELSE Continue(j, job[j].todo)
  /\ JobOnly

(* A statement of the job throws, or the process restarts.                 *)
JobFails(j) ==
  /\ job[j].pc # "idle"
  /\ job' = [job EXCEPT ![j] = IdleJob]
  /\ JobOnly

-----------------------------------------------------------------------------
(* Environment *)

(* Heartbeats, the offline scan, presence reports, binding and maintenance *)
(* write these columns, in any combination and at any time; none of them   *)
(* writes the business status.                                             *)
OtherServicesWrite(s) ==
  /\ \E c \in Conditions : column' = [column EXCEPT ![s] = c]
  /\ BoundOnce(column')
  /\ UNCHANGED <<now, tables, job>>

Tick ==
  /\ now < MaxTime
  /\ now' = now + 1
  /\ UNCHANGED <<tables, column, job>>

-----------------------------------------------------------------------------
StudentStep ==
  \/ \E u \in Users, s \in Seats, slot \in Slots : CreateReservation(u, s, slot)
  \/ \E u \in Users, k \in TokenIds, t \in Clock : CheckIn(u, k, t)
  \/ \E u \in Users, r \in ReservationIds : CancelReservation(u, r)
  \/ \E u \in Users, r \in ReservationIds, e \in ExtendedEnds, t \in Clock :
       ExtendReservation(u, r, e, t)
  \/ \E u \in Users, r \in ReservationIds, t \in Clock :
       ReleaseCurrentUsage(u, r, t)

AdminStep ==
  \E r \in ReservationIds, t \in Clock, restore, exclude \in BOOLEAN :
     AdminReleaseSeat(r, t, restore, exclude)

ScanStep == \E t \in Clock : NoShowScan(t) \/ UsageScan(t)

RefreshStep(j) == RefreshExpire(j) \/ RefreshFind(j)

SyncStep(j) ==
  \/ \E s \in Seats : SyncReadDevice(j, s)
  \/ SyncFindReservation(j) \/ SyncExpire(j) \/ SyncReuse(j)

IssueStep(j) ==
  IssueReadSeat(j) \/ IssueReadDevice(j) \/ IssueCreate(j) \/ JobFails(j)

JobStep ==
  \/ \E j \in RefreshJobs : RefreshStep(j)
  \/ \E j \in SyncJobs : SyncStep(j)
  \/ \E j \in Jobs : IssueStep(j)

Next ==
  \/ StudentStep \/ AdminStep
  \/ ScanStep
  \/ JobStep
  \/ \E s \in Seats : OtherServicesWrite(s)
  \/ Tick

Spec == Init /\ [][Next]_vars

(* setInterval starts the scans again and again, each reads the clock      *)
(* afresh and a failed transaction is not fatal, so a scan that stays due  *)
(* commits; users are never fair.                                          *)
Fairness ==
  /\ WF_vars(NoShowScan(now)) /\ WF_vars(UsageScan(now))
  /\ WF_vars(Tick)

FairSpec == Spec /\ Fairness

-----------------------------------------------------------------------------
(* Every row and every token job keeps the types of its columns.           *)
ColumnsOK ==
  /\ now \in Time
  /\ res \in [ReservationIds -> ReservationRow]
  /\ business \in [Seats -> SeatStatus]
  /\ column \in [Seats -> SeatColumns]
  /\ qr \in [TokenIds -> TokenRow]
  /\ checkIns \subseteq CheckInRow
  /\ study \in [ReservationIds -> StudyRow \cup {Null}]
  /\ noShows \in [Users -> Nat]
  /\ job \in [Jobs -> JobRow]

(* Foreign keys: rows and the reads a job keeps refer to inserted rows.     *)
RowsLinked ==
  /\ \A r \in ReservationIds :
       res[r].status # "NONE" => res[r].user \in Users /\ res[r].seat \in Seats
  /\ \A k \in TokenIds :
       qr[k].status # "NONE" =>
         /\ qr[k].reservation \in ReservationIds
         /\ res[qr[k].reservation].status # "NONE"
  /\ \A j \in Jobs :
       /\ \A r \in job[j].todo : res[r].status # "NONE"
       /\ job[j].pc \in {"device", "create"} => job[j].device \in Devices

(* Type invariant: the columns' types and the foreign keys.                *)
TypeOK == ColumnsOK /\ RowsLinked

(* No seat carries two active reservations, and the business status that   *)
(* CreateReservation trusts says what the reservation table says: FREE     *)
(* when nothing is active on the seat, RESERVED while its reservation      *)
(* waits, a using status while it is checked in.                           *)
OneActivePerSeat ==
  \A r1, r2 \in ReservationIds :
     Active(r1) /\ Active(r2) /\ res[r1].seat = res[r2].seat => r1 = r2

StatusAgrees(r) ==
  /\ res[r].status = "WAITING_CHECKIN" => business[res[r].seat] = "RESERVED"
  /\ res[r].status = "CHECKED_IN" => business[res[r].seat] \in UsingStatus

SeatFollowsReservation ==
  /\ OneActivePerSeat
  /\ \A r \in ReservationIds : StatusAgrees(r)
  /\ \A s \in Seats :
       business[s] # "FREE" =>
         \E r \in ReservationIds : Active(r) /\ res[r].seat = s

(* However bookings and extensions interleave, a student never holds two   *)
(* active reservations for overlapping times, on any seats.                *)
NoDoubleBooking ==
  \A r1, r2 \in ReservationIds :
     r1 # r2 /\ Active(r1) /\ res[r1].user = res[r2].user
       => ~ Overlaps(r2, res[r1].start, res[r1].end)

(* Every check-in of a reservation is the doing of one token: issued for   *)
(* that reservation, used once, before it expired and inside the check-in  *)
(* window, by the student who booked; no token is used without it.  Tokens *)
(* a refresh issues after the reservation ended admit nobody.              *)
CheckInsAccountedFor ==
  /\ \A c \in checkIns :
       /\ res[c.reservation].checkedInAt = c.at
       /\ res[c.reservation].user = c.user
       /\ InCheckinWindow(c.reservation, c.at)
       /\ qr[c.token].status = "USED"
       /\ qr[c.token].reservation = c.reservation
       /\ c.at < qr[c.token].expiredAt
  /\ \A c1, c2 \in checkIns : c1.reservation = c2.reservation => c1 = c2
  /\ \A k \in TokenIds :
       qr[k].status = "USED" => \E c \in checkIns : c.token = k
  /\ \A r \in ReservationIds :
       res[r].checkedInAt # Null => \E c \in checkIns : c.reservation = r

(* A reservation has a study record exactly when it ended after a check-in,*)
(* whoever ended it first, and the record carries that ending's instant    *)
(* and source.                                                             *)
StudyMatchesEnding ==
  \A r \in ReservationIds :
    /\ study[r] # Null <=>
         res[r].status \in EndedStatus /\ res[r].checkedInAt # Null
    /\ res[r].status \in {"CANCELLED", "NO_SHOW"} => res[r].checkedInAt = Null
    /\ study[r] # Null =>
         /\ study[r].start = res[r].checkedInAt
         /\ study[r].end = res[r].releasedAt
         /\ study[r].source =
              IF res[r].status = "FINISHED" THEN "TIME_FINISHED"
              ELSE res[r].status

(* Each reservation that lapsed is counted once against its student, and   *)
(* nothing else is.                                                        *)
NoShowsCounted ==
  \A u \in Users :
    noShows[u] = Cardinality({r \in ReservationIds :
                                res[r].user = u /\ res[r].status = "NO_SHOW"})

(* The two clock-driven seat states are never shown early: PENDING_RELEASE *)
(* only past the end of the stay, ENDING_SOON only inside the window, also *)
(* when a late extension crosses the scan that set them.                   *)
ClockStatesDue ==
  \A r \in ReservationIds :
    res[r].status = "CHECKED_IN" =>
      /\ business[res[r].seat] = "PENDING_RELEASE" => res[r].end <= now
      /\ business[res[r].seat] = "ENDING_SOON" =>
           res[r].end - now <= EndingSoonWindow

(* An ended reservation and its study record never change again, whatever  *)
(* stale tokens, late requests or scans still arrive for it.               *)
EndedIsFinal ==
  [][\A r \in ReservationIds :
       res[r].status \in EndedStatus =>
         res'[r] = res[r] /\ study'[r] = study[r]]_vars

(* The component implements seat leases: a seat is held by its active      *)
(* reservation exactly while its business status is not FREE, leases begin *)
(* by check-in, and an ended reservation gave its seat up in that step.    *)
Holder ==
  [s \in Seats |->
     IF business[s] = "FREE" THEN Null
     ELSE CHOOSE r \in ReservationIds : Active(r) /\ res[r].seat = s]

LeaseStage ==
  [r \in ReservationIds |->
     CASE res[r].status = "NONE" -> "unborn"
       [] res[r].status = "WAITING_CHECKIN" -> "waiting"
       [] res[r].status = "CHECKED_IN" -> "using"
       [] OTHER -> "over"]

Lease == INSTANCE SeatLease WITH
  Leases <- ReservationIds, Nobody <- Null,
  holder <- Holder, stage <- LeaseStage

ImplementsLease == Lease!LeaseSpec

(* A reservation nobody checks in to does not hold its seat for ever: once *)
(* its window has closed it ends.                                          *)
WaitingResolves ==
  \A r \in ReservationIds :
    (res[r].status = "WAITING_CHECKIN" /\ CheckinDeadline(r) < now)
      ~> res[r].status # "WAITING_CHECKIN"

(* A stay that reached its end is finished, extended, or shown as awaiting *)
(* release.                                                                *)
OverdueSettles ==
  \A r \in ReservationIds :
    Ended(r, now) ~> (~ Ended(r, now) \/ business[res[r].seat] = "PENDING_RELEASE")

(* When the sensor of a seat stops reporting anybody for good, the seat    *)
(* does not stay with a stay that is over.                                 *)
AbsentSeatFreed ==
  \A s \in Seats :
    <>[](column[s].presence # "PRESENT") =>
      []<>(\A r \in ReservationIds : res[r].seat = s => ~ Ended(r, now))
=============================================================================
