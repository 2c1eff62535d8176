------------------------- MODULE ReservationsProofs -------------------------
(***************************************************************************)
(* Theorems about Reservations, for every value of its constants: types    *)
(* and foreign keys; seats' statuses, bookings, study records, endings,    *)
(* clock states, check-ins and no-shows; and that it implements SeatLease. *)
(***************************************************************************)
EXTENDS Reservations, FiniteSetTheorems, TLAPS

USE DEF Time

-----------------------------------------------------------------------------
(* What the updates of a row leave.                                        *)

(* A check-in changes a row's status and check-in instant, nothing else.   *)
LEMMA CheckedInRowFields ==
  ASSUME NEW row \in ReservationRow, NEW at \in Time
  PROVE  LET new == CheckedInRow(row, at)
         IN /\ new \in ReservationRow
            /\ new.status = "CHECKED_IN" /\ new.checkedInAt = at
            /\ new.user = row.user /\ new.seat = row.seat
            /\ new.start = row.start /\ new.end = row.end
            /\ new.releasedAt = row.releasedAt
  BY DEF CheckedInRow, ReservationRow, ReservationStatus, WaitingOrIn

(* An extension changes a row's end, nothing else.                         *)
LEMMA ExtendedRowFields ==
  ASSUME NEW row \in ReservationRow, NEW end \in Time
  PROVE  LET new == ExtendedRow(row, end)
         IN /\ new \in ReservationRow
            /\ new.end = end /\ new.status = row.status
            /\ new.user = row.user /\ new.seat = row.seat
            /\ new.start = row.start /\ new.checkedInAt = row.checkedInAt
            /\ new.releasedAt = row.releasedAt
  BY DEF ExtendedRow, ReservationRow

(* An ending changes a row's status and release instant, nothing else.     *)
LEMMA EndedRowFields ==
  ASSUME NEW row \in ReservationRow, NEW status \in EndedStatus, NEW at \in Time
  PROVE  LET new == EndedRow(row, status, at)
         IN /\ new \in ReservationRow
            /\ new.status = status /\ new.releasedAt = at
            /\ new.user = row.user /\ new.seat = row.seat
            /\ new.start = row.start /\ new.end = row.end
            /\ new.checkedInAt = row.checkedInAt
  BY DEF EndedRow, ReservationRow, ReservationStatus

-----------------------------------------------------------------------------
(* What steps have in common.                                              *)

(* The reservations R, all active, end in this step and no other changes.  *)
RowsEnd(R) ==
  /\ R \subseteq ReservationIds
  /\ res' \in [ReservationIds -> ReservationRow]
  /\ \A r \in R :
       /\ Active(r)
       /\ res'[r].status \in EndedStatus
       /\ res'[r].user = res[r].user /\ res'[r].seat = res[r].seat
       /\ res'[r].start = res[r].start /\ res'[r].end = res[r].end
       /\ res'[r].checkedInAt = res[r].checkedInAt
       /\ res'[r].releasedAt \in Time
  /\ \A r \in ReservationIds \ R : res'[r] = res[r]

(* Tokens may change status, but none is inserted or moved.                *)
TokensStay ==
  /\ qr' \in [TokenIds -> TokenRow]
  /\ \A k \in TokenIds :
       /\ qr'[k].reservation = qr[k].reservation
       /\ qr'[k].status = "NONE" <=> qr[k].status = "NONE"

(* Reservations keep their student and their seat; new ones have both.     *)
RowsStay ==
  /\ res' \in [ReservationIds -> ReservationRow]
  /\ \A r \in ReservationIds :
       /\ res[r].status # "NONE" => res'[r].status # "NONE"
       /\ res'[r].status # "NONE" =>
            res'[r].user \in Users /\ res'[r].seat \in Seats

(* Invalidating tokens keeps every token's row and its reservation.        *)
LEMMA InvalidateTokensStay ==
  ASSUME ColumnsOK, NEW R, qr' = Invalidate(R)
  PROVE  TokensStay
  BY DEF ColumnsOK, TokensStay, TokenRow, Invalidate

(* A step that writes no token keeps every token's row.                    *)
LEMMA UnchangedTokensStay ==
  ASSUME ColumnsOK, qr' = qr
  PROVE  TokensStay
  BY DEF ColumnsOK, TokensStay

(* Freeing seats leaves every seat a seat status.                          *)
LEMMA ReleaseSeatsType ==
  ASSUME ColumnsOK, NEW R
  PROVE  ReleaseSeats(R) \in [Seats -> SeatStatus]
  BY DEF ColumnsOK, SeatStatus, ReleaseSeats

(* What upsertFromReservation leaves is a study record or null.            *)
LEMMA StudyRecordType ==
  ASSUME ColumnsOK, NEW r \in ReservationIds, NEW end \in Time,
         NEW source \in StudySource, NEW forced \in BOOLEAN
  PROVE  StudyRecordOf(r, end, source, forced) \in StudyRow \cup {Null}
  <1>1. CASE res[r].checkedInAt = Null \/ study[r] # Null
    BY <1>1 DEF ColumnsOK, StudyRecordOf
  <1>2. CASE ~ (res[r].checkedInAt = Null \/ study[r] # Null)
    <2>1. res[r].checkedInAt \in Time
      BY <1>2 DEF ColumnsOK, ReservationRow
    <2>2. (~ forced /\ end - res[r].checkedInAt >= MinValidStudy) \in BOOLEAN
      OBVIOUS
    <2> QED
      BY <1>2, <2>1, <2>2 DEF StudyRecordOf, StudyRow
  <1> QED BY <1>1, <1>2

(* Ending reservations loses no row and no foreign key.                    *)
LEMMA RowsEndStay ==
  ASSUME TypeOK, NEW R, RowsEnd(R)
  PROVE  RowsStay
  BY DEF TypeOK, RowsLinked, RowsEnd, RowsStay, Active, WaitingOrIn,
         EndedStatus

(* When rows, tokens and job reads stay, so do the foreign keys.           *)
LEMMA LinksStay ==
  ASSUME TypeOK, RowsStay, TokensStay, job' = job
  PROVE  RowsLinked'
  <1>1. \A k \in TokenIds :
          qr'[k].status # "NONE" =>
            /\ qr'[k].reservation \in ReservationIds
            /\ res'[qr'[k].reservation].status # "NONE"
    BY DEF TypeOK, RowsLinked, RowsStay, TokensStay
  <1>2. \A j \in Jobs : \A r \in job[j].todo : r \in ReservationIds
    BY DEF TypeOK, ColumnsOK, JobRow
  <1>3. \A j \in Jobs :
          /\ \A r \in job'[j].todo : res'[r].status # "NONE"
          /\ job'[j].pc \in {"device", "create"} => job'[j].device \in Devices
    BY <1>2 DEF TypeOK, RowsLinked, RowsStay
  <1> QED BY <1>1, <1>3 DEF RowsLinked, RowsStay

-----------------------------------------------------------------------------
(* Which step ends what.                                                   *)

(* The instants a handler may have read are integers.                      *)
LEMMA ClockType ==
  ASSUME ColumnsOK
  PROVE  now \in Int /\ Clock \subseteq Int
  BY BoundAssumption DEF ColumnsOK, Clock

(* One reservation ends.                                                   *)
LEMMA OneRowEnds ==
  ASSUME ColumnsOK, NEW r \in ReservationIds, Active(r),
         NEW status \in EndedStatus, NEW at \in Time,
         res' = [res EXCEPT ![r] = EndedRow(res[r], status, at)]
  PROVE  RowsEnd({r}) /\ res'[r].status = status /\ res'[r].releasedAt = at
  <1>1. res[r] \in ReservationRow
    BY DEF ColumnsOK
  <1>2. /\ res'[r] = EndedRow(res[r], status, at)
        /\ \A r2 \in ReservationIds \ {r} : res'[r2] = res[r2]
    BY DEF ColumnsOK
  <1>3. res' \in [ReservationIds -> ReservationRow]
    BY <1>1, EndedRowFields DEF ColumnsOK
  <1> QED
    BY <1>1, <1>2, <1>3, EndedRowFields DEF RowsEnd

(* A scan ends the reservations R.                                         *)
LEMMA ScannedRowsEnd ==
  ASSUME ColumnsOK, NEW R \in SUBSET ReservationIds, \A r \in R : Active(r),
         NEW status \in EndedStatus, NEW at \in [R -> Time],
         res' = [r \in ReservationIds |-> res'[r]],
         \A r \in R : res'[r] = EndedRow(res[r], status, at[r]),
         \A r \in ReservationIds \ R : res'[r] = res[r]
  PROVE  /\ RowsEnd(R)
         /\ \A r \in R : res'[r].status = status /\ res'[r].releasedAt = at[r]
  <1>1. \A r \in ReservationIds : res[r] \in ReservationRow
    BY DEF ColumnsOK
  <1>2. \A r \in ReservationIds : res'[r] \in ReservationRow
    BY <1>1, EndedRowFields
  <1>3. res' \in [ReservationIds -> ReservationRow]
    BY <1>2
  <1> QED
    BY <1>1, <1>3, EndedRowFields DEF RowsEnd

(* A cancellation ends its waiting reservation and no other.               *)
LEMMA CancelEnds ==
  ASSUME TypeOK, NEW u \in Users, NEW r \in ReservationIds,
         CancelReservation(u, r)
  PROVE  /\ RowsEnd({r}) /\ res'[r].status = "CANCELLED"
         /\ res[r].status = "WAITING_CHECKIN"
  <1>1. Active(r) /\ "CANCELLED" \in EndedStatus /\ now \in Time
    BY ClockType DEF TypeOK, CancelReservation, Active, WaitingOrIn, EndedStatus
  <1>2. res' = [res EXCEPT ![r] = EndedRow(res[r], "CANCELLED", now)]
    BY DEF CancelReservation
  <1> QED BY <1>1, <1>2, OneRowEnds DEF TypeOK, CancelReservation

(* A student's release ends the stay it names and no other.                *)
LEMMA ReleaseEnds ==
  ASSUME TypeOK, NEW u \in Users, NEW r \in ReservationIds, NEW t \in Clock,
         ReleaseCurrentUsage(u, r, t)
  PROVE  /\ RowsEnd({r}) /\ res[r].status = "CHECKED_IN"
         /\ res'[r].status = "USER_RELEASED" /\ res'[r].releasedAt = t
  <1>1. Active(r) /\ "USER_RELEASED" \in EndedStatus /\ t \in Time
    BY ClockType
    DEF TypeOK, ReleaseCurrentUsage, Active, WaitingOrIn, EndedStatus
  <1>2. res' = [res EXCEPT ![r] = EndedRow(res[r], "USER_RELEASED", t)]
    BY DEF ReleaseCurrentUsage
  <1> QED BY <1>1, <1>2, OneRowEnds DEF TypeOK, ReleaseCurrentUsage

(* An administrator's release ends one active reservation.                 *)
LEMMA AdminReleaseEnds ==
  ASSUME TypeOK, NEW r \in ReservationIds, NEW t \in Clock,
         NEW restore \in BOOLEAN, NEW exclude \in BOOLEAN,
         AdminReleaseSeat(r, t, restore, exclude)
  PROVE  /\ RowsEnd({r})
         /\ res'[r].status = "ADMIN_RELEASED" /\ res'[r].releasedAt = t
  <1>1. Active(r) /\ "ADMIN_RELEASED" \in EndedStatus /\ t \in Time
    BY ClockType DEF TypeOK, AdminReleaseSeat, EndedStatus
  <1>2. res' = [res EXCEPT ![r] = EndedRow(res[r], "ADMIN_RELEASED", t)]
    BY DEF AdminReleaseSeat
  <1> QED BY <1>1, <1>2, OneRowEnds DEF TypeOK

(* The no-show scan ends the due waiting reservations only.                *)
LEMMA NoShowScanEnds ==
  ASSUME TypeOK, NEW t \in Clock, NoShowScan(t)
  PROVE  /\ RowsEnd(DueNoShows(t))
         /\ \A r \in DueNoShows(t) : /\ res'[r].status = "NO_SHOW"
                                  /\ res[r].status = "WAITING_CHECKIN"
  <1> DEFINE at == [r \in DueNoShows(t) |-> t]
  <1>1. /\ DueNoShows(t) \in SUBSET ReservationIds
        /\ \A r \in DueNoShows(t) : Active(r) /\ res[r].status = "WAITING_CHECKIN"
        /\ "NO_SHOW" \in EndedStatus
    BY DEF DueNoShows, Active, WaitingOrIn, EndedStatus
  <1>2. ColumnsOK /\ at \in [DueNoShows(t) -> Time]
    BY ClockType DEF TypeOK
  <1>3. /\ res' = [r \in ReservationIds |-> res'[r]]
        /\ \A r \in DueNoShows(t) : res'[r] = EndedRow(res[r], "NO_SHOW", at[r])
        /\ \A r \in ReservationIds \ DueNoShows(t) : res'[r] = res[r]
    BY <1>1 DEF NoShowScan
  <1> HIDE DEF at
  <1>4. /\ RowsEnd(DueNoShows(t))
        /\ \A r \in DueNoShows(t) : res'[r].status = "NO_SHOW"
    BY <1>1, <1>2, <1>3, ScannedRowsEnd
  <1> QED BY <1>1, <1>4

(* The usage scan ends the due stays only.                                 *)
LEMMA UsageScanEnds ==
  ASSUME TypeOK, NEW t \in Clock, UsageScan(t)
  PROVE  /\ RowsEnd(DueFinishes(t))
         /\ \A r \in DueFinishes(t) : /\ res[r].status = "CHECKED_IN"
                                   /\ res'[r].status = "FINISHED"
                                   /\ res'[r].releasedAt = res[r].end
  <1> DEFINE at == [r \in DueFinishes(t) |-> res[r].end]
  <1>1. /\ DueFinishes(t) \in SUBSET ReservationIds
        /\ \A r \in DueFinishes(t) : Active(r) /\ res[r].status = "CHECKED_IN"
        /\ "FINISHED" \in EndedStatus
    BY DEF DueFinishes, Ended, Active, WaitingOrIn, EndedStatus
  <1>2. ColumnsOK /\ at \in [DueFinishes(t) -> Time]
    BY <1>1 DEF TypeOK, ColumnsOK, ReservationRow
  <1>3. /\ res' = [r \in ReservationIds |-> res'[r]]
        /\ \A r \in DueFinishes(t) : res'[r] = EndedRow(res[r], "FINISHED", at[r])
        /\ \A r \in ReservationIds \ DueFinishes(t) : res'[r] = res[r]
    BY <1>1 DEF UsageScan
  <1>4. \A r \in DueFinishes(t) : at[r] = res[r].end
    OBVIOUS
  <1> HIDE DEF at
  <1>5. /\ RowsEnd(DueFinishes(t))
        /\ \A r \in DueFinishes(t) : res'[r].status = "FINISHED"
                                  /\ res'[r].releasedAt = at[r]
    BY <1>1, <1>2, <1>3, ScannedRowsEnd
  <1> QED BY <1>1, <1>4, <1>5

-----------------------------------------------------------------------------
(* Type correctness: the columns' types and the foreign keys, together,    *)
(* are inductive.                                                          *)

(* The initial tables are well typed.                                      *)
LEMMA InitTypeInv == Init => TypeOK
  BY NullAssumption, InputAssumption
  DEF Init, TypeOK, ColumnsOK, RowsLinked, NoReservation, NoToken, IdleJob,
      ReservationRow, TokenRow, JobRow, JobPc, SeatStatus, ReservationStatus

(* A booking inserts a well-typed row.                                     *)
LEMMA CreateTypeInv ==
  ASSUME TypeOK, NEW u \in Users, NEW s \in Seats, NEW slot \in Slots,
         CreateReservation(u, s, slot)
  PROVE  TypeOK'
  <1> DEFINE row == [status |-> "WAITING_CHECKIN", user |-> u, seat |-> s,
                     start |-> slot[1], end |-> slot[2],
                     checkedInAt |-> Null, releasedAt |-> Null]
  <1>1. slot[1] \in Int /\ slot[2] \in Int
    BY InputAssumption
  <1>2. PICK r \in ReservationIds :
          res[r].status = "NONE" /\ res' = [res EXCEPT ![r] = row]
    BY DEF CreateReservation
  <1>3. row \in ReservationRow /\ row.status # "NONE"
        /\ row.user \in Users /\ row.seat \in Seats
    BY <1>1 DEF ReservationRow, ReservationStatus, WaitingOrIn
  <1> HIDE DEF row
  <1>4. /\ business' = [business EXCEPT ![s] = "RESERVED"]
        /\ UNCHANGED <<now, column, qr, checkIns, study, noShows, job>>
    BY DEF CreateReservation
  <1>5. RowsStay
    BY <1>2, <1>3 DEF TypeOK, ColumnsOK, RowsLinked, RowsStay
  <1>6. ColumnsOK'
    BY <1>4, <1>5 DEF TypeOK, ColumnsOK, RowsStay, SeatStatus
  <1> QED BY <1>4, <1>5, <1>6, UnchangedTokensStay, LinksStay DEF TypeOK

(* A check-in keeps every token's row and its reservation.                 *)
LEMMA CheckInTokensStay ==
  ASSUME ColumnsOK, NEW R, NEW k \in TokenIds, qr[k].status # "NONE",
         qr' = [Invalidate(R) EXCEPT ![k] = [qr[k] EXCEPT !.status = "USED"]]
  PROVE  TokensStay
  BY DEF ColumnsOK, TokensStay, TokenRow, Invalidate

(* A check-in keeps the types and the foreign keys.                        *)
LEMMA CheckInTypeInv ==
  ASSUME TypeOK, NEW u \in Users, NEW k \in TokenIds, NEW t \in Clock,
         CheckIn(u, k, t)
  PROVE  TypeOK'
  <1> DEFINE r == qr[k].reservation
  <1>1. /\ r \in ReservationIds /\ res[r].seat \in Seats /\ t \in Int
        /\ res[r] \in ReservationRow /\ res[r].user \in Users
    BY ClockType DEF TypeOK, RowsLinked, ColumnsOK, CheckIn, CheckInAllowed
  <1>2. /\ res' = [res EXCEPT ![r] = CheckedInRow(res[r], t)]
        /\ business' = [business EXCEPT ![res[r].seat] = "OCCUPIED"]
        /\ qr' = [Invalidate({r}) EXCEPT ![k] = [qr[k] EXCEPT !.status = "USED"]]
        /\ checkIns' = checkIns \cup
             {[reservation |-> r, user |-> u, token |-> k, at |-> t]}
        /\ UNCHANGED <<now, column, study, noShows, job>>
    BY DEF CheckIn, CheckInAllowed
  <1> HIDE DEF r
  <1>3. RowsStay
    <2>1. /\ CheckedInRow(res[r], t) \in ReservationRow
          /\ CheckedInRow(res[r], t).status # "NONE"
          /\ CheckedInRow(res[r], t).user = res[r].user
          /\ CheckedInRow(res[r], t).seat = res[r].seat
      BY <1>1, CheckedInRowFields
    <2> QED
      BY <1>1, <1>2, <2>1 DEF TypeOK, ColumnsOK, RowsLinked, RowsStay
  <1>4. TokensStay
    BY <1>2, CheckInTokensStay DEF TypeOK, CheckIn, CheckInAllowed, r
  <1>5. checkIns' \subseteq CheckInRow
    BY <1>1, <1>2 DEF TypeOK, ColumnsOK, CheckInRow
  <1>6. business' \in [Seats -> SeatStatus]
    BY <1>2 DEF TypeOK, ColumnsOK, SeatStatus, UsingStatus
  <1>7. ColumnsOK'
    BY <1>2, <1>3, <1>4, <1>5, <1>6 DEF TypeOK, ColumnsOK, RowsStay, TokensStay
  <1> QED BY <1>2, <1>3, <1>4, <1>7, LinksStay DEF TypeOK

(* An extension keeps the types and the foreign keys.                      *)
LEMMA ExtendTypeInv ==
  ASSUME TypeOK, NEW u \in Users, NEW r \in ReservationIds,
         NEW e \in ExtendedEnds, NEW t \in Clock,
         ExtendReservation(u, r, e, t)
  PROVE  TypeOK'
  <1>1. e \in Time /\ res[r] \in ReservationRow
    BY InputAssumption DEF TypeOK, ColumnsOK
  <1>2. /\ res' = [res EXCEPT ![r] = ExtendedRow(res[r], e)]
        /\ business' = [business EXCEPT ![res[r].seat] = "OCCUPIED"]
        /\ UNCHANGED <<now, column, qr, checkIns, study, noShows, job>>
    BY DEF ExtendReservation
  <1>3. RowsStay
    <2>1. /\ ExtendedRow(res[r], e) \in ReservationRow
          /\ ExtendedRow(res[r], e).status = res[r].status
          /\ ExtendedRow(res[r], e).user = res[r].user
          /\ ExtendedRow(res[r], e).seat = res[r].seat
      BY <1>1, ExtendedRowFields
    <2> QED
      BY <1>1, <1>2, <2>1 DEF TypeOK, ColumnsOK, RowsLinked, RowsStay
  <1>4. ColumnsOK'
    BY <1>2, <1>3 DEF TypeOK, ColumnsOK, RowsStay, SeatStatus, UsingStatus
  <1> QED BY <1>2, <1>3, <1>4, UnchangedTokensStay, LinksStay DEF TypeOK

(* A cancellation keeps the types and the foreign keys.                    *)
LEMMA CancelTypeInv ==
  ASSUME TypeOK, NEW u \in Users, NEW r \in ReservationIds,
         CancelReservation(u, r)
  PROVE  TypeOK'
  <1>1. RowsEnd({r})
    BY CancelEnds
  <1>2. /\ qr' = Invalidate({r}) /\ business' = ReleaseSeats({r})
        /\ UNCHANGED <<now, column, checkIns, study, noShows, job>>
    BY DEF CancelReservation
  <1>3. TokensStay
    BY <1>2, InvalidateTokensStay DEF TypeOK
  <1>4. ColumnsOK'
    BY <1>1, <1>2, <1>3, ReleaseSeatsType DEF TypeOK, ColumnsOK, RowsEnd, TokensStay
  <1> QED BY <1>1, <1>2, <1>3, <1>4, RowsEndStay, LinksStay DEF TypeOK

(* A student's release keeps the types and the foreign keys.               *)
LEMMA ReleaseTypeInv ==
  ASSUME TypeOK, NEW u \in Users, NEW r \in ReservationIds, NEW t \in Clock,
         ReleaseCurrentUsage(u, r, t)
  PROVE  TypeOK'
  <1> DEFINE record == StudyRecordOf(r, t, "USER_RELEASED", FALSE)
  <1>1. RowsEnd({r})
    BY ReleaseEnds
  <1>2. /\ study' = [study EXCEPT ![r] = record]
        /\ business' = ReleaseSeats({r})
        /\ UNCHANGED <<now, column, qr, checkIns, noShows, job>>
    BY DEF ReleaseCurrentUsage
  <1>3. record \in StudyRow \cup {Null}
    BY ClockType, StudyRecordType DEF TypeOK, StudySource
  <1> HIDE DEF record
  <1>4. ColumnsOK'
    BY <1>1, <1>2, <1>3, ReleaseSeatsType DEF TypeOK, ColumnsOK, RowsEnd
  <1> QED
    BY <1>1, <1>2, <1>4, UnchangedTokensStay, RowsEndStay, LinksStay DEF TypeOK

(* An administrator's release keeps the types and the foreign keys.        *)
LEMMA AdminReleaseTypeInv ==
  ASSUME TypeOK, NEW r \in ReservationIds, NEW t \in Clock,
         NEW restore \in BOOLEAN, NEW exclude \in BOOLEAN,
         AdminReleaseSeat(r, t, restore, exclude)
  PROVE  TypeOK'
  <1> DEFINE record == IF res[r].status = "CHECKED_IN"
                       THEN StudyRecordOf(r, t, "ADMIN_RELEASED", exclude)
                       ELSE study[r]
  <1>1. RowsEnd({r})
    BY AdminReleaseEnds
  <1>2. /\ qr' = Invalidate({r})
        /\ study' = [study EXCEPT ![r] = record]
        /\ business' = [business EXCEPT ![res[r].seat] = "FREE"]
        /\ UNCHANGED <<now, checkIns, noShows, job>>
    BY DEF AdminReleaseSeat
  <1>3. record \in StudyRow \cup {Null}
    BY ClockType, StudyRecordType DEF TypeOK, ColumnsOK, StudySource
  <1>4. column' \in [Seats -> SeatColumns]
    <2>1. PICK open \in RestoredReservable(res[r].seat, restore) :
            column' = [column EXCEPT ![res[r].seat] = [@ EXCEPT !.reservable = open]]
      BY DEF AdminReleaseSeat
    <2>2. open \in BOOLEAN
      BY DEF RestoredReservable
    <2> QED BY <2>1, <2>2 DEF TypeOK, ColumnsOK, SeatColumns
  <1> HIDE DEF record
  <1>5. TokensStay
    BY <1>2, InvalidateTokensStay DEF TypeOK
  <1>6. ColumnsOK'
    BY <1>1, <1>2, <1>3, <1>4, <1>5
    DEF TypeOK, ColumnsOK, RowsEnd, TokensStay, SeatStatus
  <1> QED BY <1>1, <1>2, <1>5, <1>6, RowsEndStay, LinksStay DEF TypeOK

(* The no-show scan keeps the types and the foreign keys.                  *)
LEMMA NoShowScanTypeInv ==
  ASSUME TypeOK, NEW t \in Clock, NoShowScan(t)
  PROVE  TypeOK'
  <1>1. RowsEnd(DueNoShows(t))
    BY NoShowScanEnds
  <1>2. /\ qr' = Invalidate(DueNoShows(t)) /\ business' = ReleaseSeats(DueNoShows(t))
        /\ UNCHANGED <<now, column, checkIns, study, job>>
    BY DEF NoShowScan
  <1>3. noShows' \in [Users -> Nat]
    <2>1. \A u \in Users : LapsedOf(u, t) \subseteq ReservationIds
      BY DEF LapsedOf, DueNoShows
    <2>2. \A u \in Users : Cardinality(LapsedOf(u, t)) \in Nat
      BY <2>1, BoundAssumption, FS_Subset, FS_CardinalityType
    <2>3. noShows' = [u \in Users |-> noShows[u] + Cardinality(LapsedOf(u, t))]
      BY DEF NoShowScan
    <2> QED BY <2>2, <2>3 DEF TypeOK, ColumnsOK
  <1>4. TokensStay
    BY <1>2, InvalidateTokensStay DEF TypeOK
  <1>5. ColumnsOK'
    BY <1>1, <1>2, <1>3, <1>4, ReleaseSeatsType
    DEF TypeOK, ColumnsOK, RowsEnd, TokensStay
  <1> QED BY <1>1, <1>2, <1>4, <1>5, RowsEndStay, LinksStay DEF TypeOK

(* The usage scan keeps the types and the foreign keys.                    *)
LEMMA UsageScanTypeInv ==
  ASSUME TypeOK, NEW t \in Clock, UsageScan(t)
  PROVE  TypeOK'
  <1>1. RowsEnd(DueFinishes(t))
    BY UsageScanEnds
  <1>2. UNCHANGED <<now, column, qr, checkIns, noShows, job>>
    BY DEF UsageScan
  <1>3. study' \in [ReservationIds -> StudyRow \cup {Null}]
    <2> DEFINE record(r) == StudyRecordOf(r, res[r].end, "TIME_FINISHED", FALSE)
    <2>1. \A r \in ReservationIds : record(r) \in StudyRow \cup {Null}
      BY StudyRecordType DEF TypeOK, ColumnsOK, ReservationRow, StudySource
    <2>2. study' = [r \in ReservationIds |->
                      IF r \in DueFinishes(t) THEN record(r) ELSE study[r]]
      BY DEF UsageScan
    <2> HIDE DEF record
    <2> QED BY <2>1, <2>2 DEF TypeOK, ColumnsOK
  <1>4. business' \in [Seats -> SeatStatus]
    <2>1. \A s \in Seats : ScannedBusiness(s, t) \in SeatStatus
      BY ReleaseSeatsType DEF TypeOK, ScannedBusiness, SeatStatus, UsingStatus
    <2> QED BY <2>1 DEF UsageScan
  <1>5. ColumnsOK'
    BY <1>1, <1>2, <1>3, <1>4 DEF TypeOK, ColumnsOK, RowsEnd
  <1> QED
    BY <1>1, <1>2, <1>5, UnchangedTokensStay, RowsEndStay, LinksStay DEF TypeOK

(* A token job moves to row, and the tokens it leaves are linked.          *)
JobMoves(j, row) ==
  /\ row \in JobRow
  /\ \A r \in row.todo : res[r].status # "NONE"
  /\ row.pc \in {"device", "create"} => row.device \in Devices
  /\ job' = [job EXCEPT ![j] = row]
  /\ UNCHANGED <<now, res, business, column, checkIns, study, noShows>>
  /\ qr' \in [TokenIds -> TokenRow]
  /\ \A k \in TokenIds :
       qr'[k].status # "NONE" =>
         /\ qr'[k].reservation \in ReservationIds
         /\ res[qr'[k].reservation].status # "NONE"

(* A job that only moves keeps the types and the foreign keys.             *)
LEMMA JobMovesTypeInv ==
  ASSUME TypeOK, NEW j \in Jobs, NEW row, JobMoves(j, row)
  PROVE  TypeOK'
  <1>1. ColumnsOK'
    BY DEF TypeOK, ColumnsOK, JobMoves
  <1>2. \A j2 \in Jobs :
          /\ \A r \in job'[j2].todo : res'[r].status # "NONE"
          /\ job'[j2].pc \in {"device", "create"} => job'[j2].device \in Devices
    BY DEF TypeOK, ColumnsOK, RowsLinked, JobMoves
  <1>3. RowsLinked'
    BY <1>2 DEF TypeOK, RowsLinked, JobMoves
  <1> QED BY <1>1, <1>3 DEF TypeOK

(* The idle job is a job row.                                              *)
LEMMA IdleJobRow ==
  /\ IdleJob \in JobRow /\ IdleJob.todo = {} /\ IdleJob.pc = "idle"
  BY DEF IdleJob, JobRow, JobPc

(* New or expired tokens that name inserted rows keep the links.           *)
LEMMA TokensLinked ==
  ASSUME TypeOK, qr' = qr \/ \E at, R : qr' = ExpireTokens(at, R)
  PROVE  /\ qr' \in [TokenIds -> TokenRow]
         /\ \A k \in TokenIds :
              qr'[k].status # "NONE" =>
                /\ qr'[k].reservation \in ReservationIds
                /\ res[qr'[k].reservation].status # "NONE"
  <1>1. CASE qr' = qr
    BY <1>1 DEF TypeOK, ColumnsOK, RowsLinked
  <1>2. ASSUME NEW at, NEW R, qr' = ExpireTokens(at, R)
        PROVE  TokensStay
    BY <1>2 DEF TypeOK, ColumnsOK, TokensStay, TokenRow, ExpireTokens
  <1>3. CASE \E at, R : qr' = ExpireTokens(at, R)
    BY <1>2, <1>3 DEF TypeOK, RowsLinked, TokensStay
  <1> QED BY <1>1, <1>3

(* Going on to the next reservation is a well-typed move of the job.       *)
LEMMA ContinueMoves ==
  ASSUME TypeOK, NEW j \in Jobs, NEW rest \in SUBSET ReservationIds,
         \A r \in rest : res[r].status # "NONE",
         Continue(j, rest)
  PROVE  \E row \in JobRow :
           /\ job' = [job EXCEPT ![j] = row]
           /\ \A r \in row.todo : res[r].status # "NONE"
           /\ row.pc \notin {"device", "create"}
  <1> DEFINE row == [job[j] EXCEPT !.pc = "seat", !.todo = rest,
                                   !.seat = Null, !.device = Null]
  <1>1. row \in JobRow /\ row.pc = "seat" /\ row.todo = rest
    BY DEF TypeOK, ColumnsOK, JobRow, JobPc
  <1>2. job' = [job EXCEPT ![j] = IF rest = {} THEN IdleJob ELSE row]
    BY DEF Continue
  <1> HIDE DEF row
  <1> QED BY <1>1, <1>2, IdleJobRow

(* Every statement of a token job keeps the types and the links.           *)
LEMMA JobStepTypeInv ==
  ASSUME TypeOK, JobStep
  PROVE  TypeOK'
  <1>1. ASSUME NEW j \in Jobs, RefreshExpire(j)
        PROVE  TypeOK'
    <2> DEFINE row == [IdleJob EXCEPT !.pc = "find", !.at = now]
    <2>1. row \in JobRow /\ row.todo = {} /\ row.pc = "find"
      BY ClockType DEF TypeOK, IdleJob, JobRow, JobPc
    <2>2. /\ job' = [job EXCEPT ![j] = row]
          /\ qr' = ExpireTokens(now, ReservationIds)
          /\ UNCHANGED <<now, res, business, column, checkIns, study, noShows>>
      BY <1>1 DEF RefreshExpire, JobAndTokensOnly
    <2> HIDE DEF row
    <2>3. JobMoves(j, row)
      BY <2>1, <2>2, TokensLinked DEF JobMoves
    <2> QED BY <2>3, JobMovesTypeInv
  <1>2. ASSUME NEW j \in Jobs, RefreshFind(j)
        PROVE  TypeOK'
    <2> DEFINE rest == WaitingInWindow(job[j].at)
    <2>1. /\ rest \in SUBSET ReservationIds
          /\ \A r \in rest : res[r].status # "NONE"
      BY DEF WaitingInWindow
    <2>2. /\ Continue(j, rest)
          /\ UNCHANGED <<now, res, business, column, qr, checkIns, study, noShows>>
      BY <1>2 DEF RefreshFind, JobOnly
    <2> HIDE DEF rest
    <2> QED BY <2>1, <2>2, ContinueMoves, TokensLinked, JobMovesTypeInv DEF JobMoves
  <1>3. ASSUME NEW j \in Jobs, IssueReadSeat(j)
        PROVE  TypeOK'
    <2>1. /\ job[j] \in JobRow
          /\ \A r \in job[j].todo : r \in ReservationIds /\ res[r].status # "NONE"
      BY DEF TypeOK, ColumnsOK, RowsLinked, JobRow
    <2>2. UNCHANGED <<now, res, business, column, qr, checkIns, study, noShows>>
      BY <1>3 DEF IssueReadSeat, JobOnly
    <2>3. PICK r \in Earliest(job[j].todo) :
            LET d == column[res[r].seat].device
            IN IF d = Null
               THEN Continue(j, job[j].todo \ {r})
               ELSE job' = [job EXCEPT ![j] =
                              [@ EXCEPT !.pc = "device", !.device = d,
                                        !.seat = res[r].seat]]
      BY <1>3 DEF IssueReadSeat
    <2> DEFINE d == column[res[r].seat].device
               rest == job[j].todo \ {r}
               row == [job[j] EXCEPT !.pc = "device", !.device = d,
                                     !.seat = res[r].seat]
    <2>4. r \in ReservationIds /\ res[r].seat \in Seats
      BY <2>1 DEF TypeOK, RowsLinked, Earliest
    <2>5. d \in Devices \cup {Null}
      BY <2>4 DEF TypeOK, ColumnsOK, SeatColumns
    <2>6. CASE d = Null
      <3>1. /\ rest \in SUBSET ReservationIds
            /\ \A r2 \in rest : res[r2].status # "NONE"
        BY <2>1
      <3>2. Continue(j, rest)
        BY <2>3, <2>6
      <3> HIDE DEF rest
      <3> QED BY <2>2, <3>1, <3>2, ContinueMoves, TokensLinked, JobMovesTypeInv
              DEF JobMoves
    <2>7. CASE d # Null
      <3>1. /\ row \in JobRow /\ row.todo = job[j].todo
            /\ row.pc = "device" /\ row.device = d
        BY <2>1, <2>4, <2>5 DEF JobRow, JobPc
      <3>2. job' = [job EXCEPT ![j] = row]
        BY <2>3, <2>7
      <3> HIDE DEF row, d
      <3>3. JobMoves(j, row)
        BY <2>1, <2>2, <2>5, <2>7, <3>1, <3>2, TokensLinked DEF JobMoves
      <3> QED BY <3>3, JobMovesTypeInv
    <2> QED BY <2>6, <2>7
  <1>4. ASSUME NEW j \in Jobs, IssueReadDevice(j)
        PROVE  TypeOK'
    <2>1. /\ job[j] \in JobRow /\ job[j].pc = "device"
          /\ job[j].device \in Devices
          /\ \A r \in job[j].todo : r \in ReservationIds /\ res[r].status # "NONE"
      BY <1>4 DEF TypeOK, ColumnsOK, RowsLinked, JobRow, IssueReadDevice
    <2>2. UNCHANGED <<now, res, business, column, qr, checkIns, study, noShows>>
      BY <1>4 DEF IssueReadDevice, JobOnly
    <2> DEFINE row == [job[j] EXCEPT !.pc = "create"]
    <2>3. PICK r \in Earliest(job[j].todo) :
            \/ job' = [job EXCEPT ![j] = row]
            \/ Continue(j, job[j].todo \ {r})
      BY <1>4 DEF IssueReadDevice
    <2>4. CASE Continue(j, job[j].todo \ {r})
      <3> DEFINE rest == job[j].todo \ {r}
      <3>1. /\ rest \in SUBSET ReservationIds
            /\ \A r2 \in rest : res[r2].status # "NONE"
        BY <2>1
      <3>2. Continue(j, rest)
        BY <2>4
      <3> HIDE DEF rest
      <3> QED BY <2>2, <3>1, <3>2, ContinueMoves, TokensLinked, JobMovesTypeInv
              DEF JobMoves
    <2>5. CASE job' = [job EXCEPT ![j] = row]
      <3>1. /\ row \in JobRow /\ row.todo = job[j].todo
            /\ row.device = job[j].device
        BY <2>1 DEF JobRow, JobPc
      <3>2. job' = [job EXCEPT ![j] = row]
        BY <2>5
      <3> HIDE DEF row
      <3>3. JobMoves(j, row)
        BY <2>1, <2>2, <3>1, <3>2, TokensLinked DEF JobMoves
      <3> QED BY <3>3, JobMovesTypeInv
    <2> QED BY <2>3, <2>4, <2>5
  <1>5. ASSUME NEW j \in Jobs, IssueCreate(j)
        PROVE  TypeOK'
    <2>1. /\ job[j] \in JobRow /\ job[j].device \in Devices
          /\ \A r \in job[j].todo : r \in ReservationIds /\ res[r].status # "NONE"
      BY <1>5 DEF TypeOK, ColumnsOK, RowsLinked, JobRow, IssueCreate
    <2>2. UNCHANGED <<now, res, business, column, checkIns, study, noShows>>
      BY <1>5 DEF IssueCreate, JobAndTokensOnly
    <2>3. PICK r \in Earliest(job[j].todo), k \in TokenIds :
            /\ qr' = [qr EXCEPT ![k] =
                        [status |-> "UNUSED", reservation |-> r,
                         device |-> job[j].device,
                         expiredAt |-> job[j].at + QrTokenTtl]]
            /\ Continue(j, job[j].todo \ {r})
      BY <1>5 DEF IssueCreate
    <2> DEFINE rest == job[j].todo \ {r}
               token == [status |-> "UNUSED", reservation |-> r,
                         device |-> job[j].device,
                         expiredAt |-> job[j].at + QrTokenTtl]
    <2>4. r \in ReservationIds /\ res[r].status # "NONE"
      BY <2>1 DEF Earliest
    <2>5. token \in TokenRow /\ token.reservation = r
      BY <2>1, <2>4, OffsetAssumption DEF TokenRow, JobRow
    <2>6. /\ rest \in SUBSET ReservationIds
          /\ \A r2 \in rest : res[r2].status # "NONE"
      BY <2>1
    <2>7. qr' = [qr EXCEPT ![k] = token] /\ Continue(j, rest)
      BY <2>3
    <2> HIDE DEF token, rest
    <2>8. /\ qr' \in [TokenIds -> TokenRow]
          /\ \A k2 \in TokenIds :
               qr'[k2].status # "NONE" =>
                 /\ qr'[k2].reservation \in ReservationIds
                 /\ res[qr'[k2].reservation].status # "NONE"
      BY <2>4, <2>5, <2>7 DEF TypeOK, ColumnsOK, RowsLinked
    <2> QED BY <2>2, <2>6, <2>7, <2>8, ContinueMoves, JobMovesTypeInv
            DEF JobMoves
  <1>6. ASSUME NEW j \in Jobs, NEW s \in Seats, SyncReadDevice(j, s)
        PROVE  TypeOK'
    <2> DEFINE row == [pc |-> "syncFind", at |-> now, todo |-> {}, seat |-> s,
                       device |-> column[s].device]
    <2>1. row \in JobRow /\ row.todo = {} /\ row.pc = "syncFind"
      BY ClockType DEF TypeOK, ColumnsOK, SeatColumns, JobRow, JobPc
    <2>2. /\ job' = [job EXCEPT ![j] = row]
          /\ UNCHANGED <<now, res, business, column, qr, checkIns, study, noShows>>
      BY <1>6 DEF SyncReadDevice, JobOnly
    <2> HIDE DEF row
    <2>3. JobMoves(j, row)
      BY <2>1, <2>2, TokensLinked DEF JobMoves
    <2> QED BY <2>3, JobMovesTypeInv
  <1>7. ASSUME NEW j \in Jobs, SyncFindReservation(j) \/ SyncExpire(j)
        PROVE  TypeOK'
    <2>1. /\ job[j] \in JobRow
          /\ \A r \in job[j].todo : r \in ReservationIds /\ res[r].status # "NONE"
      BY DEF TypeOK, ColumnsOK, RowsLinked, JobRow
    <2>2. UNCHANGED <<now, res, business, column, checkIns, study, noShows>>
      BY <1>7 DEF SyncFindReservation, SyncExpire, JobOnly, JobAndTokensOnly
    <2>3. qr' = qr \/ qr' = ExpireTokens(job[j].at, job[j].todo)
      BY <1>7 DEF SyncFindReservation, SyncExpire, JobOnly
    <2> DEFINE found == {r \in WaitingInWindow(job[j].at) : res[r].seat = job[j].seat}
               row1(r) == [job[j] EXCEPT !.pc = "syncExpire", !.todo = {r}]
               row2 == [job[j] EXCEPT !.pc = "syncReuse"]
    <2>4. \/ job' = [job EXCEPT ![j] = IdleJob]
          \/ \E r \in Earliest(found) : job' = [job EXCEPT ![j] = row1(r)]
          \/ job' = [job EXCEPT ![j] = row2]
      BY <1>7 DEF SyncFindReservation, SyncExpire
    <2>5. ASSUME NEW r \in Earliest(found)
          PROVE  /\ row1(r) \in JobRow /\ row1(r).pc = "syncExpire"
                 /\ row1(r).todo = {r} /\ res[r].status # "NONE"
      BY <2>1 DEF Earliest, WaitingInWindow, JobRow, JobPc
    <2>6. /\ row2 \in JobRow /\ row2.pc = "syncReuse"
          /\ row2.todo = job[j].todo
      BY <2>1 DEF JobRow, JobPc
    <2> HIDE DEF row1, row2, found
    <2>7. \E row \in JobRow :
            /\ job' = [job EXCEPT ![j] = row]
            /\ \A r \in row.todo : res[r].status # "NONE"
            /\ row.pc \notin {"device", "create"}
      BY <2>1, <2>4, <2>5, <2>6, IdleJobRow
    <2>8. PICK row \in JobRow : JobMoves(j, row)
      BY <2>2, <2>3, <2>7, TokensLinked DEF JobMoves
    <2> QED BY <2>8, JobMovesTypeInv
  <1>8. ASSUME NEW j \in Jobs, SyncReuse(j) \/ JobFails(j)
        PROVE  TypeOK'
    <2>1. /\ job[j].todo \in SUBSET ReservationIds
          /\ \A r \in job[j].todo : res[r].status # "NONE"
      BY DEF TypeOK, ColumnsOK, RowsLinked, JobRow
    <2>2. UNCHANGED <<now, res, business, column, qr, checkIns, study, noShows>>
      BY <1>8 DEF SyncReuse, JobFails, JobOnly
    <2>3. job' = [job EXCEPT ![j] = IdleJob] \/ Continue(j, job[j].todo)
      BY <1>8 DEF SyncReuse, JobFails
    <2>4. \E row \in JobRow :
            /\ job' = [job EXCEPT ![j] = row]
            /\ \A r \in row.todo : res[r].status # "NONE"
            /\ row.pc \notin {"device", "create"}
      BY <2>1, <2>3, ContinueMoves, IdleJobRow
    <2>5. PICK row \in JobRow : JobMoves(j, row)
      BY <2>2, <2>4, TokensLinked DEF JobMoves
    <2> QED BY <2>5, JobMovesTypeInv
  <1> QED
    BY <1>1, <1>2, <1>3, <1>4, <1>5, <1>6, <1>7, <1>8
    DEF JobStep, RefreshStep, SyncStep, IssueStep, Jobs

(* Other services' writes and the clock keep the types.                    *)
LEMMA EnvironmentTypeInv ==
  ASSUME TypeOK, (\E s \in Seats : OtherServicesWrite(s)) \/ Tick
  PROVE  TypeOK'
  <1>1. CASE \E s \in Seats : OtherServicesWrite(s)
    <2>1. PICK s \in Seats : OtherServicesWrite(s)
      BY <1>1
    <2>2. column' \in [Seats -> SeatColumns]
      BY <2>1, InputAssumption DEF TypeOK, ColumnsOK, OtherServicesWrite
    <2>3. ColumnsOK'
      BY <2>1, <2>2 DEF TypeOK, ColumnsOK, OtherServicesWrite, tables
    <2>4. RowsLinked'
      BY <2>1 DEF TypeOK, RowsLinked, OtherServicesWrite, tables
    <2> QED BY <2>3, <2>4 DEF TypeOK
  <1>2. CASE Tick
    BY <1>2 DEF TypeOK, ColumnsOK, RowsLinked, Tick, tables
  <1> QED BY <1>1, <1>2

(* The columns of every row and job keep their types, and the references   *)
(* between them stay to inserted rows, in every reachable state.           *)
THEOREM TypeCorrect == Spec => []TypeOK
  <1>1. Init => TypeOK
    BY InitTypeInv
  <1>2. TypeOK /\ [Next]_vars => TypeOK'
    <2> SUFFICES ASSUME TypeOK, [Next]_vars PROVE TypeOK'
      OBVIOUS
    <2>1. CASE StudentStep
      BY <2>1, CreateTypeInv, CheckInTypeInv, CancelTypeInv, ExtendTypeInv,
         ReleaseTypeInv DEF StudentStep
    <2>2. CASE AdminStep
      BY <2>2, AdminReleaseTypeInv DEF AdminStep
    <2>3. CASE ScanStep
      BY <2>3, NoShowScanTypeInv, UsageScanTypeInv DEF ScanStep
    <2>4. CASE JobStep
      BY <2>4, JobStepTypeInv
    <2>5. CASE (\E s \in Seats : OtherServicesWrite(s)) \/ Tick
      BY <2>5, EnvironmentTypeInv
    <2>6. CASE UNCHANGED vars
      BY <2>6 DEF TypeOK, ColumnsOK, RowsLinked, vars
    <2> QED BY <2>1, <2>2, <2>3, <2>4, <2>5, <2>6 DEF Next
  <1> QED BY <1>1, <1>2, PTL DEF Spec

-----------------------------------------------------------------------------
(* The steps of the token jobs and of the environment leave reservations,  *)
(* seats and study records alone.                                          *)

QuietStep ==
  \/ JobStep \/ (\E s \in Seats : OtherServicesWrite(s)) \/ Tick
  \/ UNCHANGED vars

(* Token jobs, other services and the clock write no reservation.          *)
LEMMA QuietSteps ==
  QuietStep => UNCHANGED <<res, business, study, noShows, checkIns>>
  <1>1. JobStep => UNCHANGED <<res, business, study, noShows, checkIns>>
    BY DEF JobStep, RefreshStep, SyncStep, IssueStep, RefreshExpire, RefreshFind,
           IssueReadSeat, IssueReadDevice, IssueCreate, SyncReadDevice,
           SyncFindReservation, SyncExpire, SyncReuse, JobFails, JobOnly,
           JobAndTokensOnly
  <1>2. (\E s \in Seats : OtherServicesWrite(s)) \/ Tick \/ UNCHANGED vars
          => UNCHANGED <<res, business, study, noShows, checkIns>>
    BY DEF OtherServicesWrite, Tick, tables, vars
  <1> QED BY <1>1, <1>2 DEF QuietStep

(* Every step is a request, a scan, or writes no reservation.              *)
LEMMA StepKinds ==
  [Next]_vars =>
    StudentStep \/ AdminStep \/ ScanStep \/ QuietStep
  BY DEF Next, QuietStep

(* Every instant a handler may have read is at most now.                   *)
LEMMA ClockHoldsNow ==
  ASSUME ColumnsOK
  PROVE  now \in Clock
  BY BoundAssumption DEF ColumnsOK, Clock

-----------------------------------------------------------------------------
(* A seat's business status follows its reservation.                       *)

(* Initially every seat is free and carries no reservation.                *)
LEMMA InitSeat == Init => SeatFollowsReservation
  BY DEF Init, SeatFollowsReservation, OneActivePerSeat, StatusAgrees, Active,
         NoReservation, WaitingOrIn

(* Nothing is active on a seat whose status is FREE.                       *)
LEMMA FreeSeatHasNoActive ==
  ASSUME SeatFollowsReservation, NEW s \in Seats, business[s] = "FREE",
         NEW r \in ReservationIds, Active(r)
  PROVE  res[r].seat # s
  BY DEF SeatFollowsReservation, StatusAgrees, Active, WaitingOrIn, UsingStatus

(* A booking takes a free seat, so the seat agrees with its row.           *)
LEMMA CreateSeat ==
  ASSUME TypeOK, SeatFollowsReservation,
         NEW u \in Users, NEW s \in Seats, NEW slot \in Slots,
         CreateReservation(u, s, slot)
  PROVE  SeatFollowsReservation'
  <1>1. PICK r \in ReservationIds :
          /\ res[r].status = "NONE"
          /\ res'[r].status = "WAITING_CHECKIN" /\ res'[r].seat = s
          /\ \A r2 \in ReservationIds \ {r} : res'[r2] = res[r2]
    BY DEF CreateReservation, TypeOK, ColumnsOK
  <1>2. /\ business' = [business EXCEPT ![s] = "RESERVED"] /\ business[s] = "FREE"
        /\ business \in [Seats -> SeatStatus]
    BY DEF CreateReservation, SeatCanBeReserved, TypeOK, ColumnsOK
  <1>3. \A r2 \in ReservationIds : Active(r2) => res[r2].seat # s
    BY <1>2, FreeSeatHasNoActive
  <1>4. OneActivePerSeat'
    BY <1>1, <1>3 DEF SeatFollowsReservation, OneActivePerSeat, Active, WaitingOrIn
  <1>5. \A r2 \in ReservationIds : StatusAgrees(r2)'
    BY <1>1, <1>2, <1>3
    DEF SeatFollowsReservation, StatusAgrees, Active, WaitingOrIn, TypeOK, RowsLinked
  <1>6. \A s2 \in Seats : business'[s2] # "FREE" =>
          \E r2 \in ReservationIds : Active(r2)' /\ res'[r2].seat = s2
    BY <1>1, <1>2 DEF SeatFollowsReservation, Active, WaitingOrIn
  <1> QED BY <1>4, <1>5, <1>6 DEF SeatFollowsReservation

(* The reservation r stays active on its seat, whose status is set to a    *)
(* using status, and nothing else about seats changes.                     *)
LEMMA SeatUsed ==
  ASSUME TypeOK, SeatFollowsReservation, NEW r \in ReservationIds, Active(r),
         NEW status \in UsingStatus,
         res'[r].status = "CHECKED_IN", res'[r].seat = res[r].seat,
         \A r2 \in ReservationIds \ {r} : res'[r2] = res[r2],
         business' = [business EXCEPT ![res[r].seat] = status]
  PROVE  SeatFollowsReservation'
  <1> DEFINE s == res[r].seat
  <1>1. s \in Seats /\ business \in [Seats -> SeatStatus]
    BY DEF TypeOK, ColumnsOK, RowsLinked, Active, WaitingOrIn
  <1>2. \A r2 \in ReservationIds : Active(r2)' <=> Active(r2)
    BY DEF Active, WaitingOrIn
  <1>3. \A r2 \in ReservationIds : res'[r2].seat = res[r2].seat
    OBVIOUS
  <1>4. OneActivePerSeat'
    BY <1>2, <1>3 DEF SeatFollowsReservation, OneActivePerSeat
  <1>5. \A r2 \in ReservationIds : StatusAgrees(r2)'
    <2>1. \A r2 \in ReservationIds \ {r} : Active(r2) => res[r2].seat # s
      BY DEF SeatFollowsReservation, OneActivePerSeat
    <2>2. StatusAgrees(r)'
      BY <1>1 DEF StatusAgrees
    <2>3. \A r2 \in ReservationIds \ {r} : StatusAgrees(r2)'
      BY <1>1, <2>1
      DEF SeatFollowsReservation, StatusAgrees, Active, WaitingOrIn, TypeOK, RowsLinked
    <2> QED BY <2>2, <2>3
  <1>6. \A s2 \in Seats : business'[s2] # "FREE" =>
          \E r2 \in ReservationIds : Active(r2)' /\ res'[r2].seat = s2
    BY <1>1, <1>2 DEF SeatFollowsReservation
  <1> QED BY <1>4, <1>5, <1>6 DEF SeatFollowsReservation

(* The reservations R end.  A seat of theirs is freed unless another one   *)
(* is active on it; a seat may be given another using status only for a    *)
(* reservation that stays checked in.                                      *)
LEMMA SeatsReleased ==
  ASSUME TypeOK, SeatFollowsReservation, NEW R, RowsEnd(R),
         business' \in [Seats -> SeatStatus],
         \A s \in Seats :
           \/ business'[s] = ReleaseSeats(R)[s]
           \/ /\ business'[s] \in UsingStatus
              /\ \E r \in ReservationIds \ R :
                   res[r].status = "CHECKED_IN" /\ res[r].seat = s
  PROVE  SeatFollowsReservation'
  <1>1. \A r \in ReservationIds :
          /\ Active(r)' <=> Active(r) /\ r \notin R
          /\ res'[r].seat = res[r].seat
    BY DEF RowsEnd, Active, WaitingOrIn, EndedStatus
  <1>2. \A r \in ReservationIds : Active(r) => res[r].seat \in Seats
    BY DEF TypeOK, RowsLinked, Active, WaitingOrIn
  <1>3. OneActivePerSeat'
    BY <1>1 DEF SeatFollowsReservation, OneActivePerSeat
  <1>4. ASSUME NEW r \in ReservationIds
        PROVE  StatusAgrees(r)'
    <2>1. CASE r \in R
      BY <2>1 DEF RowsEnd, StatusAgrees, EndedStatus
    <2>2. CASE r \notin R /\ ~ Active(r)
      BY <2>2 DEF RowsEnd, StatusAgrees, Active, WaitingOrIn
    <2>3. CASE r \notin R /\ Active(r)
      <3> DEFINE s == res[r].seat
      <3>1. s \in Seats /\ res'[r] = res[r]
        BY <1>2, <2>3 DEF RowsEnd
      <3>2. CASE business'[s] = ReleaseSeats(R)[s]
        <4>1. business'[s] = business[s]
          BY <2>3, <3>1, <3>2 DEF ReleaseSeats
        <4> QED BY <3>1, <4>1 DEF SeatFollowsReservation, StatusAgrees
      <3>3. CASE /\ business'[s] \in UsingStatus
                 /\ \E r2 \in ReservationIds \ R :
                      res[r2].status = "CHECKED_IN" /\ res[r2].seat = s
        <4>1. res[r].status = "CHECKED_IN"
          BY <2>3, <3>3
          DEF SeatFollowsReservation, OneActivePerSeat, Active, WaitingOrIn
        <4> QED BY <3>1, <3>3, <4>1 DEF StatusAgrees
      <3> QED BY <3>1, <3>2, <3>3
    <2> QED BY <2>1, <2>2, <2>3
  <1>5. ASSUME NEW s \in Seats, business'[s] # "FREE"
        PROVE  \E r \in ReservationIds : Active(r)' /\ res'[r].seat = s
    <2>1. CASE business'[s] = ReleaseSeats(R)[s]
      <3>1. business'[s] = business[s]
        BY <1>5, <2>1 DEF ReleaseSeats
      <3>2. PICK r \in ReservationIds : Active(r) /\ res[r].seat = s
        BY <1>5, <3>1 DEF SeatFollowsReservation
      <3>3. r \in R => \E r2 \in ReservationIds \ R :
                         Active(r2) /\ res[r2].seat = s
        BY <1>5, <2>1, <3>2 DEF ReleaseSeats
      <3> QED BY <1>1, <3>2, <3>3
    <2>2. CASE \E r \in ReservationIds \ R :
                 res[r].status = "CHECKED_IN" /\ res[r].seat = s
      BY <1>1, <2>2 DEF Active, WaitingOrIn
    <2> QED BY <2>1, <2>2
  <1> QED BY <1>3, <1>4, <1>5 DEF SeatFollowsReservation

(* Every step keeps the seats agreeing with the reservations.              *)
LEMMA NextSeat ==
  ASSUME TypeOK, SeatFollowsReservation, [Next]_vars
  PROVE  SeatFollowsReservation'
  <1>1. ASSUME NEW u \in Users, NEW k \in TokenIds, NEW t \in Clock,
               CheckIn(u, k, t)
        PROVE  SeatFollowsReservation'
    <2> DEFINE r == qr[k].reservation
    <2>1. /\ r \in ReservationIds /\ res[r] \in ReservationRow /\ t \in Time
          /\ Active(r)
      BY <1>1, ClockType DEF TypeOK, ColumnsOK, RowsLinked, CheckIn, CheckInAllowed, Active, WaitingOrIn
    <2>2. /\ res' = [res EXCEPT ![r] = CheckedInRow(res[r], t)]
          /\ business' = [business EXCEPT ![res[r].seat] = "OCCUPIED"]
      BY <1>1 DEF CheckIn, CheckInAllowed
    <2> HIDE DEF r
    <2>3. /\ res'[r] = CheckedInRow(res[r], t)
          /\ \A r2 \in ReservationIds \ {r} : res'[r2] = res[r2]
      BY <2>1, <2>2 DEF TypeOK, ColumnsOK
    <2>4. res'[r].status = "CHECKED_IN" /\ res'[r].seat = res[r].seat
      BY <2>1, <2>3, CheckedInRowFields
    <2> QED BY <2>1, <2>2, <2>3, <2>4, SeatUsed DEF UsingStatus
  <1>2. ASSUME NEW u \in Users, NEW r \in ReservationIds,
               NEW e \in ExtendedEnds, NEW t \in Clock,
               ExtendReservation(u, r, e, t)
        PROVE  SeatFollowsReservation'
    <2>1. /\ res[r] \in ReservationRow /\ e \in Time
          /\ res[r].status = "CHECKED_IN" /\ Active(r)
      BY <1>2, InputAssumption
      DEF TypeOK, ColumnsOK, ExtendReservation, Active, WaitingOrIn
    <2>2. /\ res' = [res EXCEPT ![r] = ExtendedRow(res[r], e)]
          /\ business' = [business EXCEPT ![res[r].seat] = "OCCUPIED"]
      BY <1>2 DEF ExtendReservation
    <2>3. /\ res'[r] = ExtendedRow(res[r], e)
          /\ \A r2 \in ReservationIds \ {r} : res'[r2] = res[r2]
      BY <2>1, <2>2 DEF TypeOK, ColumnsOK
    <2>4. res'[r].status = "CHECKED_IN" /\ res'[r].seat = res[r].seat
      BY <2>1, <2>3, ExtendedRowFields
    <2> QED BY <2>1, <2>2, <2>3, <2>4, SeatUsed DEF UsingStatus
  <1>3. ASSUME NEW u \in Users, NEW r \in ReservationIds, NEW t \in Clock,
               CancelReservation(u, r) \/ ReleaseCurrentUsage(u, r, t)
        PROVE  SeatFollowsReservation'
    <2>1. RowsEnd({r})
      BY <1>3, CancelEnds, ReleaseEnds
    <2>2. business' = ReleaseSeats({r})
      BY <1>3 DEF CancelReservation, ReleaseCurrentUsage
    <2> QED BY <2>1, <2>2, SeatsReleased, ReleaseSeatsType DEF TypeOK
  <1>4. ASSUME NEW r \in ReservationIds, NEW t \in Clock,
               NEW restore \in BOOLEAN, NEW exclude \in BOOLEAN,
               AdminReleaseSeat(r, t, restore, exclude)
        PROVE  SeatFollowsReservation'
    <2>1. RowsEnd({r}) /\ Active(r)
      BY <1>4, AdminReleaseEnds DEF RowsEnd
    <2>2. /\ business' = [business EXCEPT ![res[r].seat] = "FREE"]
          /\ business \in [Seats -> SeatStatus]
      BY <1>4 DEF AdminReleaseSeat, TypeOK, ColumnsOK
    <2>3. \A r2 \in ReservationIds \ {r} : res[r2].seat = res[r].seat => ~ Active(r2)
      BY <2>1 DEF SeatFollowsReservation, OneActivePerSeat
    <2>4. business' \in [Seats -> SeatStatus]
      BY <2>2 DEF SeatStatus
    <2>5. \A s \in Seats : business'[s] = ReleaseSeats({r})[s]
      BY <2>2, <2>3 DEF ReleaseSeats
    <2> QED BY <2>1, <2>4, <2>5, SeatsReleased
  <1>5. ASSUME NEW t \in Clock, NoShowScan(t)
        PROVE  SeatFollowsReservation'
    <2>1. RowsEnd(DueNoShows(t))
      BY <1>5, NoShowScanEnds
    <2>2. business' = ReleaseSeats(DueNoShows(t))
      BY <1>5 DEF NoShowScan
    <2> QED BY <2>1, <2>2, SeatsReleased, ReleaseSeatsType DEF TypeOK
  <1>6. ASSUME NEW t \in Clock, UsageScan(t)
        PROVE  SeatFollowsReservation'
    <2>1. RowsEnd(DueFinishes(t))
      BY <1>6, UsageScanEnds
    <2>2. \A s \in Seats : business'[s] = ScannedBusiness(s, t)
      BY <1>6 DEF UsageScan
    <2>3. business' \in [Seats -> SeatStatus]
      BY <1>6, UsageScanTypeInv DEF TypeOK, ColumnsOK
    <2>4. \A r \in DueFinishes(t) : Ended(r, t) /\ ~ StillPresent(r)
      BY DEF DueFinishes
    <2>5. \A r \in ReservationIds :
            res[r].status = "CHECKED_IN" /\ t < res[r].end => ~ Ended(r, t)
      BY ClockType DEF Ended, TypeOK, ColumnsOK, ReservationRow
    <2>6. ASSUME NEW s \in Seats
          PROVE  \/ business'[s] = ReleaseSeats(DueFinishes(t))[s]
                 \/ /\ business'[s] \in UsingStatus
                    /\ \E r \in ReservationIds \ DueFinishes(t) :
                         res[r].status = "CHECKED_IN" /\ res[r].seat = s
      <3>1. CASE \E r \in ReservationIds :
                   res[r].seat = s /\ Ended(r, t) /\ StillPresent(r)
        BY <2>2, <2>4, <3>1 DEF ScannedBusiness, EndingSoon, UsingStatus, Ended
      <3>2. CASE /\ ~ \E r \in ReservationIds :
                        res[r].seat = s /\ Ended(r, t) /\ StillPresent(r)
                 /\ \E r \in ReservationIds :
                      /\ res[r].seat = s /\ res[r].status = "CHECKED_IN"
                      /\ t < res[r].end
                      /\ res[r].end - t <= EndingSoonWindow
        BY <2>2, <2>4, <2>5, <3>2 DEF ScannedBusiness, EndingSoon, UsingStatus
      <3> QED BY <2>2, <3>1, <3>2 DEF ScannedBusiness, EndingSoon
    <2> QED BY <2>1, <2>3, <2>6, SeatsReleased
  <1>7. ASSUME UNCHANGED <<res, business>>
        PROVE  SeatFollowsReservation'
    BY <1>7 DEF SeatFollowsReservation, OneActivePerSeat, StatusAgrees, Active
  <1>8. CASE StudentStep
    <2>1. CASE \E u \in Users, s \in Seats, slot \in Slots :
                 CreateReservation(u, s, slot)
      BY <2>1, CreateSeat
    <2>2. CASE \E u \in Users, r \in ReservationIds :
                 CancelReservation(u, r)
      BY <2>2, <1>3, ClockHoldsNow DEF TypeOK
    <2>3. CASE \E u \in Users, r \in ReservationIds, t \in Clock :
                 ReleaseCurrentUsage(u, r, t)
      BY <2>3, <1>3
    <2> QED BY <1>8, <1>1, <1>2, <2>1, <2>2, <2>3 DEF StudentStep
  <1>9. CASE AdminStep
    BY <1>4, <1>9 DEF AdminStep
  <1>10. CASE QuietStep
    BY <1>7, <1>10, QuietSteps
  <1> QED BY <1>5, <1>6, <1>8, <1>9, <1>10, StepKinds DEF ScanStep

(* No seat carries two active reservations and each seat's business status *)
(* tells the stage of its reservation, which is what CreateReservation     *)
(* relies on when it only looks at the status.                             *)
THEOREM SeatCorrect == Spec => []SeatFollowsReservation
  BY TypeCorrect, InitSeat, NextSeat, PTL DEF Spec

-----------------------------------------------------------------------------
(* What each kind of step does to the reservations' rows.                  *)

(* Row r is inserted for a slot that meets nothing of its user or seat.    *)
RowBooked(r) ==
  /\ r \in ReservationIds /\ res[r].status = "NONE"
  /\ res'[r].status = "WAITING_CHECKIN"
  /\ res'[r].checkedInAt = Null
  /\ res'[r].start \in Time /\ res'[r].end \in Time
  /\ res'[r].start < res'[r].end
  /\ NoOverlap(res'[r].user, res'[r].seat, res'[r].start, res'[r].end, {})
  /\ \A r2 \in ReservationIds \ {r} : res'[r2] = res[r2]

(* Row r is checked in.                                                    *)
RowCheckedIn(r) ==
  /\ r \in ReservationIds /\ res[r].status = "WAITING_CHECKIN"
  /\ res'[r].status = "CHECKED_IN" /\ res'[r].checkedInAt \in Time
  /\ res'[r].user = res[r].user /\ res'[r].seat = res[r].seat
  /\ res'[r].start = res[r].start /\ res'[r].end = res[r].end
  /\ business' = [business EXCEPT ![res[r].seat] = "OCCUPIED"]
  /\ \A r2 \in ReservationIds \ {r} : res'[r2] = res[r2]

(* Row r is extended into time that nothing of its user or seat takes.     *)
RowExtended(r) ==
  /\ r \in ReservationIds
  /\ res[r].status = "CHECKED_IN" /\ res'[r].status = "CHECKED_IN"
  /\ res'[r].checkedInAt = res[r].checkedInAt
  /\ res'[r].user = res[r].user /\ res'[r].seat = res[r].seat
  /\ res'[r].start = res[r].start
  /\ res'[r].end \in Time /\ res'[r].end > res[r].end
  /\ NoOverlap(res[r].user, res[r].seat, res[r].end, res'[r].end, {r})
  /\ business' = [business EXCEPT ![res[r].seat] = "OCCUPIED"]
  /\ \A r2 \in ReservationIds \ {r} : res'[r2] = res[r2]

(* A booking is a RowBooked step that writes no study record.              *)
LEMMA CreateBooks ==
  ASSUME TypeOK, NEW u \in Users, NEW s \in Seats, NEW slot \in Slots,
         CreateReservation(u, s, slot)
  PROVE  /\ \E r \in ReservationIds : RowBooked(r)
         /\ business[s] = "FREE"
         /\ business' = [business EXCEPT ![s] = "RESERVED"]
         /\ UNCHANGED <<now, study, noShows, checkIns>>
  <1> DEFINE row == [status |-> "WAITING_CHECKIN", user |-> u, seat |-> s,
                     start |-> slot[1], end |-> slot[2],
                     checkedInAt |-> Null, releasedAt |-> Null]
  <1>1. PICK r \in ReservationIds :
          res[r].status = "NONE" /\ res' = [res EXCEPT ![r] = row]
    BY DEF CreateReservation
  <1>2. /\ res'[r] = row /\ \A r2 \in ReservationIds \ {r} : res'[r2] = res[r2]
    BY <1>1 DEF TypeOK, ColumnsOK
  <1>3. /\ slot[1] \in Time /\ slot[2] \in Time /\ slot[1] < slot[2]
        /\ NoOverlap(u, s, slot[1], slot[2], {})
    BY InputAssumption DEF CreateReservation
  <1>4. RowBooked(r)
    BY <1>1, <1>2, <1>3 DEF RowBooked
  <1> QED BY <1>4 DEF CreateReservation, SeatCanBeReserved

(* A check-in is a RowCheckedIn step that writes no study record.          *)
LEMMA CheckInChecksIn ==
  ASSUME TypeOK, NEW u \in Users, NEW k \in TokenIds, NEW t \in Clock,
         CheckIn(u, k, t)
  PROVE  /\ \E r \in ReservationIds : RowCheckedIn(r)
         /\ UNCHANGED <<now, study, noShows>>
  <1> DEFINE r == qr[k].reservation
  <1>1. /\ r \in ReservationIds /\ res[r] \in ReservationRow /\ t \in Time
        /\ res[r].status = "WAITING_CHECKIN"
    BY ClockType DEF TypeOK, ColumnsOK, RowsLinked, CheckIn, CheckInAllowed
  <1>2. /\ res' = [res EXCEPT ![r] = CheckedInRow(res[r], t)]
        /\ business' = [business EXCEPT ![res[r].seat] = "OCCUPIED"]
    BY DEF CheckIn, CheckInAllowed
  <1> HIDE DEF r
  <1>3. /\ res'[r] = CheckedInRow(res[r], t)
        /\ \A r2 \in ReservationIds \ {r} : res'[r2] = res[r2]
    BY <1>1, <1>2 DEF TypeOK, ColumnsOK
  <1>4. RowCheckedIn(r)
    BY <1>1, <1>2, <1>3, CheckedInRowFields DEF RowCheckedIn
  <1> QED BY <1>1, <1>4 DEF CheckIn, CheckInAllowed

(* An extension is a RowExtended step that writes no study record.         *)
LEMMA ExtendExtends ==
  ASSUME TypeOK, NEW u \in Users, NEW r \in ReservationIds,
         NEW e \in ExtendedEnds, NEW t \in Clock,
         ExtendReservation(u, r, e, t)
  PROVE  RowExtended(r) /\ UNCHANGED <<now, study, noShows, checkIns>>
  <1>1. /\ res[r] \in ReservationRow /\ e \in Time
        /\ res[r].status = "CHECKED_IN" /\ res[r].user = u /\ e > res[r].end
        /\ NoOverlap(u, res[r].seat, res[r].end, e, {r})
    BY InputAssumption DEF TypeOK, ColumnsOK, ExtendReservation
  <1>2. /\ res' = [res EXCEPT ![r] = ExtendedRow(res[r], e)]
        /\ business' = [business EXCEPT ![res[r].seat] = "OCCUPIED"]
        /\ UNCHANGED <<now, study, noShows, checkIns>>
    BY DEF ExtendReservation
  <1>3. /\ res'[r] = ExtendedRow(res[r], e)
        /\ \A r2 \in ReservationIds \ {r} : res'[r2] = res[r2]
    BY <1>1, <1>2 DEF TypeOK, ColumnsOK
  <1>4. RowExtended(r)
    BY <1>1, <1>2, <1>3, ExtendedRowFields DEF RowExtended
  <1> QED BY <1>2, <1>4

(* Every step that touches a reservation's row books one, checks one in,   *)
(* extends one or ends some.                                               *)
LEMMA RowSteps ==
  ASSUME TypeOK, [Next]_vars
  PROVE  \/ \E r \in ReservationIds : RowBooked(r) \/ RowExtended(r)
         \/ /\ \E u \in Users, k \in TokenIds, t \in Clock : CheckIn(u, k, t)
            /\ \E r \in ReservationIds : RowCheckedIn(r)
         \/ \E R \in SUBSET ReservationIds : RowsEnd(R)
         \/ QuietStep
  <1>1. CASE StudentStep
    <2>1. CASE \E u \in Users, s \in Seats, slot \in Slots :
                 CreateReservation(u, s, slot)
      BY <2>1, CreateBooks
    <2>2. CASE \E u \in Users, k \in TokenIds, t \in Clock : CheckIn(u, k, t)
      BY <2>2, CheckInChecksIn
    <2>3. CASE \E u \in Users, r \in ReservationIds, e \in ExtendedEnds,
                 t \in Clock : ExtendReservation(u, r, e, t)
      BY <2>3, ExtendExtends
    <2>4. CASE \E u \in Users, r \in ReservationIds : CancelReservation(u, r)
      BY <2>4, CancelEnds
    <2>5. CASE \E u \in Users, r \in ReservationIds, t \in Clock :
                 ReleaseCurrentUsage(u, r, t)
      BY <2>5, ReleaseEnds
    <2> QED BY <1>1, <2>1, <2>2, <2>3, <2>4, <2>5 DEF StudentStep
  <1>2. CASE AdminStep
    BY <1>2, AdminReleaseEnds DEF AdminStep
  <1>3. CASE ScanStep
    BY <1>3, NoShowScanEnds, UsageScanEnds DEF ScanStep, RowsEnd
  <1> QED BY <1>1, <1>2, <1>3, StepKinds

-----------------------------------------------------------------------------
(* No double booking.  An extension is only checked against the time it    *)
(* adds, which is enough because an active reservation takes some time.    *)

BookingInv ==
  /\ NoDoubleBooking
  /\ \A r \in ReservationIds : Active(r) => res[r].start < res[r].end

(* Initially nobody holds a booking.                                       *)
LEMMA InitBooking == Init => BookingInv
  BY DEF Init, BookingInv, NoDoubleBooking, Overlaps, Active, NoReservation,
         WaitingOrIn

(* Every step keeps one student's active bookings disjoint.                *)
LEMMA NextBooking ==
  ASSUME TypeOK, BookingInv, [Next]_vars
  PROVE  BookingInv'
  <1>1. \A r \in ReservationIds : res[r].start \in Int /\ res[r].end \in Int
    BY DEF TypeOK, ColumnsOK, ReservationRow
  <1>2. ASSUME NEW r \in ReservationIds, RowBooked(r)
        PROVE  BookingInv'
    <2>1. \A r2 \in ReservationIds \ {r} :
            /\ Active(r2)' <=> Active(r2)
            /\ Active(r2) /\ res[r2].user = res'[r].user =>
                 ~ (res[r2].start < res'[r].end /\ res[r2].end > res'[r].start)
      BY <1>2 DEF RowBooked, NoOverlap, Overlaps, Active
    <2>2. NoDoubleBooking'
      BY <1>1, <1>2, <2>1
      DEF RowBooked, BookingInv, NoDoubleBooking, Overlaps, Active
    <2> QED BY <1>2, <2>1, <2>2 DEF RowBooked, BookingInv
  <1>3. ASSUME NEW r \in ReservationIds, RowCheckedIn(r)
        PROVE  BookingInv'
    <2>1. \A r2 \in ReservationIds :
            /\ Active(r2)' <=> Active(r2)
            /\ res'[r2].user = res[r2].user
            /\ res'[r2].start = res[r2].start /\ res'[r2].end = res[r2].end
      BY <1>3 DEF RowCheckedIn, Active, WaitingOrIn
    <2> QED BY <2>1 DEF BookingInv, NoDoubleBooking, Overlaps
  <1>4. ASSUME NEW r \in ReservationIds, RowExtended(r)
        PROVE  BookingInv'
    <2>1. \A r2 \in ReservationIds :
            /\ Active(r2)' <=> Active(r2)
            /\ res'[r2].user = res[r2].user /\ res'[r2].start = res[r2].start
            /\ r2 # r => res'[r2].end = res[r2].end
      BY <1>4 DEF RowExtended, Active, WaitingOrIn
    <2>2. Active(r) /\ res'[r].end > res[r].end /\ res'[r].end \in Int
      BY <1>4 DEF RowExtended, Active, WaitingOrIn
    <2>3. \A r2 \in ReservationIds \ {r} :
            Active(r2) /\ res[r2].user = res[r].user =>
              /\ ~ (res[r2].start < res'[r].end /\ res[r2].end > res[r].end)
              /\ ~ (res[r2].start < res[r].end /\ res[r2].end > res[r].start)
              /\ res[r2].start < res[r2].end
      BY <1>4, <2>2 DEF RowExtended, NoOverlap, Overlaps, BookingInv, NoDoubleBooking
    <2>4. \A r2 \in ReservationIds \ {r} :
            Active(r2) /\ res[r2].user = res[r].user =>
              ~ (res[r2].start < res'[r].end /\ res[r2].end > res[r].start)
      BY <1>1, <2>2, <2>3
    <2>5. ASSUME NEW r1 \in ReservationIds, NEW r2 \in ReservationIds, r1 # r2,
                 Active(r1), res[r1].user = res[r2].user
          PROVE  ~ Overlaps(r2, res[r1].start, res[r1].end)'
      <3>1. CASE r1 = r
        BY <2>1, <2>4, <2>5, <3>1 DEF Overlaps
      <3>2. CASE r2 = r
        BY <1>1, <2>1, <2>4, <2>5, <3>2 DEF Overlaps
      <3>3. CASE r1 # r /\ r2 # r
        BY <2>1, <2>5, <3>3 DEF Overlaps, BookingInv, NoDoubleBooking
      <3> QED BY <3>1, <3>2, <3>3
    <2>6. \A r2 \in ReservationIds : Active(r2) => res'[r2].start < res'[r2].end
      BY <1>1, <2>1, <2>2 DEF BookingInv
    <2> QED BY <2>1, <2>5, <2>6 DEF BookingInv, NoDoubleBooking
  <1>5. ASSUME NEW R, RowsEnd(R)
        PROVE  BookingInv'
    <2>1. \A r \in ReservationIds :
            /\ Active(r)' => Active(r)
            /\ Active(r)' => res'[r] = res[r]
            /\ res'[r].user = res[r].user
            /\ res'[r].start = res[r].start /\ res'[r].end = res[r].end
      BY <1>5 DEF RowsEnd, Active, WaitingOrIn, EndedStatus
    <2> QED BY <2>1 DEF BookingInv, NoDoubleBooking, Overlaps
  <1>6. CASE QuietStep
    BY <1>6, QuietSteps DEF BookingInv, NoDoubleBooking, Overlaps, Active
  <1> QED BY <1>2, <1>3, <1>4, <1>5, <1>6, RowSteps

(* No student ever holds two active reservations for overlapping times,    *)
(* however many seats, requests and extensions interleave.                 *)
THEOREM BookingCorrect == Spec => []NoDoubleBooking
  <1>1. BookingInv => NoDoubleBooking
    BY DEF BookingInv
  <1> QED BY <1>1, TypeCorrect, InitBooking, NextBooking, PTL DEF Spec

-----------------------------------------------------------------------------
(* Study records.  A record is only made for a stay that has none, because *)
(* an active reservation has no record and is checked in exactly when its  *)
(* status says so; both are part of the invariant.                         *)

SourceOf(status) == IF status = "FINISHED" THEN "TIME_FINISHED" ELSE status

StudyInv ==
  /\ StudyMatchesEnding
  /\ \A r \in ReservationIds :
       /\ res[r].status = "WAITING_CHECKIN" => res[r].checkedInAt = Null
       /\ res[r].status = "CHECKED_IN" => res[r].checkedInAt # Null

(* The reservations R end, those that were checked in with a record.       *)
StaysEnd(R) ==
  /\ RowsEnd(R)
  /\ \A r \in R :
       \/ /\ res[r].status = "WAITING_CHECKIN"
          /\ res'[r].status \in {"CANCELLED", "NO_SHOW", "ADMIN_RELEASED"}
          /\ study'[r] = study[r]
       \/ /\ res[r].status = "CHECKED_IN"
          /\ res'[r].status \in {"FINISHED", "USER_RELEASED", "ADMIN_RELEASED"}
          /\ \E forced \in BOOLEAN :
               study'[r] = StudyRecordOf(r, res'[r].releasedAt,
                                         SourceOf(res'[r].status), forced)
  /\ \A r \in ReservationIds \ R : study'[r] = study[r]

(* Every step that ends reservations records their stays.                  *)
LEMMA AllStaysEnd ==
  ASSUME TypeOK, [Next]_vars
  PROVE  \/ \E r \in ReservationIds :
              /\ RowBooked(r) \/ RowCheckedIn(r) \/ RowExtended(r)
              /\ study' = study
         \/ \E R \in SUBSET ReservationIds : StaysEnd(R)
         \/ QuietStep
  <1>0. study \in [ReservationIds -> StudyRow \cup {Null}]
    BY DEF TypeOK, ColumnsOK
  <1>1. ASSUME NEW u \in Users, NEW r \in ReservationIds,
               CancelReservation(u, r)
        PROVE  StaysEnd({r})
    BY <1>1, CancelEnds DEF StaysEnd, CancelReservation
  <1>2. ASSUME NEW u \in Users, NEW r \in ReservationIds, NEW t \in Clock,
               ReleaseCurrentUsage(u, r, t)
        PROVE  StaysEnd({r})
    <2>1. study' = [study EXCEPT ![r] =
                      StudyRecordOf(r, t, "USER_RELEASED", FALSE)]
      BY <1>2 DEF ReleaseCurrentUsage
    <2>2. study'[r] = StudyRecordOf(r, t, "USER_RELEASED", FALSE)
          /\ \A r2 \in ReservationIds \ {r} : study'[r2] = study[r2]
      BY <1>0, <2>1
    <2>3. /\ RowsEnd({r}) /\ res[r].status = "CHECKED_IN"
          /\ res'[r].status = "USER_RELEASED" /\ res'[r].releasedAt = t
      BY <1>2, ReleaseEnds
    <2> QED BY <2>2, <2>3 DEF StaysEnd, SourceOf
  <1>3. ASSUME NEW r \in ReservationIds, NEW t \in Clock,
               NEW restore \in BOOLEAN, NEW exclude \in BOOLEAN,
               AdminReleaseSeat(r, t, restore, exclude)
        PROVE  StaysEnd({r})
    <2> DEFINE record == IF res[r].status = "CHECKED_IN"
                         THEN StudyRecordOf(r, t, "ADMIN_RELEASED", exclude)
                         ELSE study[r]
    <2>1. study' = [study EXCEPT ![r] = record] /\ Active(r)
      BY <1>3 DEF AdminReleaseSeat
    <2>2. study'[r] = record
          /\ \A r2 \in ReservationIds \ {r} : study'[r2] = study[r2]
      BY <1>0, <2>1
    <2>3. /\ RowsEnd({r})
          /\ res'[r].status = "ADMIN_RELEASED" /\ res'[r].releasedAt = t
      BY <1>3, AdminReleaseEnds
    <2> QED BY <2>1, <2>2, <2>3 DEF StaysEnd, SourceOf, Active, WaitingOrIn
  <1>4. ASSUME NEW t \in Clock, NoShowScan(t)
        PROVE  StaysEnd(DueNoShows(t))
    BY <1>4, NoShowScanEnds DEF StaysEnd, NoShowScan
  <1>5. ASSUME NEW t \in Clock, UsageScan(t)
        PROVE  StaysEnd(DueFinishes(t))
    <2>1. /\ \A r \in DueFinishes(t) :
               study'[r] = StudyRecordOf(r, res[r].end, "TIME_FINISHED", FALSE)
          /\ \A r \in ReservationIds \ DueFinishes(t) : study'[r] = study[r]
      BY <1>5 DEF UsageScan, DueFinishes
    <2> QED BY <1>5, <2>1, UsageScanEnds DEF StaysEnd, SourceOf
  <1>6. CASE StudentStep
    <2>1. CASE \E u \in Users, s \in Seats, slot \in Slots :
                 CreateReservation(u, s, slot)
      BY <2>1, CreateBooks
    <2>2. CASE \E u \in Users, k \in TokenIds, t \in Clock : CheckIn(u, k, t)
      BY <2>2, CheckInChecksIn
    <2>3. CASE \E u \in Users, r \in ReservationIds, e \in ExtendedEnds,
                 t \in Clock : ExtendReservation(u, r, e, t)
      BY <2>3, ExtendExtends
    <2> QED BY <1>1, <1>2, <1>6, <2>1, <2>2, <2>3 DEF StudentStep
  <1>7. CASE AdminStep
    BY <1>3, <1>7 DEF AdminStep
  <1>8. CASE ScanStep
    BY <1>4, <1>5, <1>8 DEF ScanStep, StaysEnd, RowsEnd
  <1> QED BY <1>6, <1>7, <1>8, StepKinds

(* The first record of a stay carries its check-in, end and source.        *)
LEMMA NewRecord ==
  ASSUME TypeOK, NEW r \in ReservationIds, NEW end \in Time,
         NEW source \in StudySource, NEW forced \in BOOLEAN,
         res[r].checkedInAt # Null, study[r] = Null
  PROVE  LET record == StudyRecordOf(r, end, source, forced)
         IN /\ record # Null
            /\ record.start = res[r].checkedInAt /\ record.end = end
            /\ record.source = source
  <1> DEFINE row == [start |-> res[r].checkedInAt, end |-> end, source |-> source,
                     valid |-> ~ forced /\ end - res[r].checkedInAt >= MinValidStudy]
  <1>1. res[r].checkedInAt \in Time
    BY DEF TypeOK, ColumnsOK, ReservationRow
  <1>2. row \in StudyRow
    BY <1>1 DEF StudyRow
  <1>3. StudyRecordOf(r, end, source, forced) = row
    BY DEF StudyRecordOf
  <1> QED BY <1>2, <1>3, NullRowAssumption

(* Initially there is no study record.                                     *)
LEMMA InitStudy == Init => StudyInv
  BY DEF Init, StudyInv, StudyMatchesEnding, NoReservation, EndedStatus

(* Every step keeps study records matching endings.                        *)
LEMMA NextStudy ==
  ASSUME TypeOK, StudyInv, [Next]_vars
  PROVE  StudyInv'
  <1>1. ASSUME NEW r \in ReservationIds,
               RowBooked(r) \/ RowCheckedIn(r) \/ RowExtended(r), study' = study
        PROVE  StudyInv'
    <2>1. study'[r] = Null /\ res'[r].status \in WaitingOrIn
      BY <1>1 DEF RowBooked, RowCheckedIn, RowExtended, StudyInv,
                  StudyMatchesEnding, EndedStatus, WaitingOrIn
    <2>2. /\ res'[r].status = "WAITING_CHECKIN" => res'[r].checkedInAt = Null
          /\ res'[r].status = "CHECKED_IN" => res'[r].checkedInAt # Null
      BY <1>1, NullAssumption DEF RowBooked, RowCheckedIn, RowExtended, StudyInv
    <2>3. \A r2 \in ReservationIds \ {r} : res'[r2] = res[r2]
      BY <1>1 DEF RowBooked, RowCheckedIn, RowExtended
    <2> QED
      BY <1>1, <2>1, <2>2, <2>3
      DEF StudyInv, StudyMatchesEnding, EndedStatus, WaitingOrIn
  <1>2. ASSUME NEW R \in SUBSET ReservationIds, StaysEnd(R)
        PROVE  StudyInv'
    <2> DEFINE Matches(r) ==
                 /\ study'[r] # Null <=>
                      res'[r].status \in EndedStatus /\ res'[r].checkedInAt # Null
                 /\ res'[r].status \in {"CANCELLED", "NO_SHOW"} =>
                      res'[r].checkedInAt = Null
                 /\ study'[r] # Null =>
                      /\ study'[r].start = res'[r].checkedInAt
                      /\ study'[r].end = res'[r].releasedAt
                      /\ study'[r].source = SourceOf(res'[r].status)
    <2>1. ASSUME NEW r \in R, res[r].status = "WAITING_CHECKIN"
          PROVE  Matches(r)
      <3>1. res[r].checkedInAt = Null /\ study[r] = Null
        BY <2>1 DEF StudyInv, StudyMatchesEnding, EndedStatus
      <3> QED BY <1>2, <2>1, <3>1 DEF StaysEnd, RowsEnd
    <2>2. ASSUME NEW r \in R, res[r].status = "CHECKED_IN"
          PROVE  Matches(r)
      <3>1. res[r].checkedInAt # Null /\ study[r] = Null
        BY <2>2 DEF StudyInv, StudyMatchesEnding, EndedStatus
      <3>2. /\ res'[r].status \in {"FINISHED", "USER_RELEASED", "ADMIN_RELEASED"}
            /\ res'[r].checkedInAt = res[r].checkedInAt
            /\ res'[r].releasedAt \in Time
        BY <1>2, <2>2 DEF StaysEnd, RowsEnd
      <3>3. PICK forced \in BOOLEAN :
              study'[r] = StudyRecordOf(r, res'[r].releasedAt,
                                        SourceOf(res'[r].status), forced)
        BY <1>2, <2>2 DEF StaysEnd
      <3>4. SourceOf(res'[r].status) \in StudySource
        BY <3>2 DEF SourceOf, StudySource
      <3>5. /\ study'[r] # Null
            /\ study'[r].start = res[r].checkedInAt
            /\ study'[r].end = res'[r].releasedAt
            /\ study'[r].source = SourceOf(res'[r].status)
        BY <3>1, <3>2, <3>3, <3>4, NewRecord
      <3> QED BY <3>1, <3>2, <3>5 DEF EndedStatus
    <2>3. ASSUME NEW r \in ReservationIds \ R
          PROVE  Matches(r)
      BY <1>2, <2>3 DEF StaysEnd, RowsEnd, StudyInv, StudyMatchesEnding, SourceOf
    <2>4. \A r \in ReservationIds : Matches(r)
      BY <1>2, <2>1, <2>2, <2>3 DEF StaysEnd
    <2>5. StudyMatchesEnding'
      BY <2>4 DEF StudyMatchesEnding, SourceOf
    <2>6. \A r \in ReservationIds :
            /\ res'[r].status = "WAITING_CHECKIN" => res'[r].checkedInAt = Null
            /\ res'[r].status = "CHECKED_IN" => res'[r].checkedInAt # Null
      BY <1>2 DEF StaysEnd, RowsEnd, StudyInv, EndedStatus
    <2> QED BY <2>5, <2>6 DEF StudyInv
  <1>3. CASE QuietStep
    BY <1>3, QuietSteps DEF StudyInv, StudyMatchesEnding
  <1> QED BY <1>1, <1>2, <1>3, AllStaysEnd

(* A reservation has a study record exactly when it ended after a          *)
(* check-in, and the record tells how and when it ended.                   *)
THEOREM StudyCorrect == Spec => []StudyMatchesEnding
  <1>1. StudyInv => StudyMatchesEnding
    BY DEF StudyInv
  <1> QED BY <1>1, TypeCorrect, InitStudy, NextStudy, PTL DEF Spec

-----------------------------------------------------------------------------
(* Ended reservations.                                                     *)

(* No step changes an ended reservation or its record.                     *)
LEMMA NextFinal ==
  ASSUME TypeOK, [Next]_vars, NEW r \in ReservationIds,
         res[r].status \in EndedStatus
  PROVE  res'[r] = res[r] /\ study'[r] = study[r]
  <1>1. ~ Active(r) /\ res[r].status # "NONE"
    BY DEF Active, WaitingOrIn, EndedStatus
  <1>2. ASSUME NEW r2 \in ReservationIds,
               RowBooked(r2) \/ RowCheckedIn(r2) \/ RowExtended(r2)
        PROVE  res'[r] = res[r]
    BY <1>1, <1>2 DEF RowBooked, RowCheckedIn, RowExtended, Active, WaitingOrIn
  <1>3. ASSUME NEW R \in SUBSET ReservationIds, StaysEnd(R)
        PROVE  res'[r] = res[r] /\ study'[r] = study[r]
    BY <1>1, <1>3 DEF StaysEnd, RowsEnd
  <1> QED BY <1>2, <1>3, AllStaysEnd, QuietSteps

(* Nothing changes an ended reservation or its study record: neither a     *)
(* late request, nor a stale token, nor a scan.                            *)
THEOREM FinalCorrect == Spec => EndedIsFinal
  <1>1. TypeOK /\ [Next]_vars =>
          [\A r \in ReservationIds :
             res[r].status \in EndedStatus =>
               res'[r] = res[r] /\ study'[r] = study[r]]_vars
    BY NextFinal
  <1> QED BY <1>1, TypeCorrect, PTL DEF Spec, EndedIsFinal

-----------------------------------------------------------------------------
(* The seat states the clock drives.                                       *)

(* No step shows a clock-driven seat status early.                         *)
LEMMA NextClockStates ==
  ASSUME TypeOK, SeatFollowsReservation, ClockStatesDue, [Next]_vars
  PROVE  ClockStatesDue'
  <1>0. /\ business \in [Seats -> SeatStatus] /\ now \in Int
        /\ \A r \in ReservationIds :
             /\ res[r].end \in Int
             /\ Active(r) => res[r].seat \in Seats
    BY DEF TypeOK, ColumnsOK, RowsLinked, ReservationRow, Active, WaitingOrIn
  <1>1. ASSUME NEW s \in Seats, NEW r \in ReservationIds, RowBooked(r), business[s] = "FREE",
               business' = [business EXCEPT ![s] = "RESERVED"], now' = now
        PROVE  ClockStatesDue'
    <2>1. \A r2 \in ReservationIds :
            res'[r2].status = "CHECKED_IN" => res'[r2] = res[r2] /\ Active(r2)
      BY <1>1 DEF RowBooked, Active, WaitingOrIn
    <2>2. \A r2 \in ReservationIds : Active(r2) => res[r2].seat # s
      BY <1>1, FreeSeatHasNoActive
    <2> QED BY <1>0, <1>1, <2>1, <2>2 DEF ClockStatesDue
  <1>2. ASSUME NEW r \in ReservationIds, RowCheckedIn(r) \/ RowExtended(r), now' = now
        PROVE  ClockStatesDue'
    <2>1. /\ Active(r) /\ res'[r].seat = res[r].seat
          /\ business' = [business EXCEPT ![res[r].seat] = "OCCUPIED"]
          /\ \A r2 \in ReservationIds \ {r} : res'[r2] = res[r2]
      BY <1>2 DEF RowCheckedIn, RowExtended, Active, WaitingOrIn
    <2>2. \A r2 \in ReservationIds \ {r} : Active(r2) => res[r2].seat # res[r].seat
      BY <2>1 DEF SeatFollowsReservation, OneActivePerSeat
    <2> QED BY <1>0, <1>2, <2>1, <2>2 DEF ClockStatesDue, Active, WaitingOrIn
  <1>3. ASSUME NEW R \in SUBSET ReservationIds, RowsEnd(R), now' = now,
               \A r \in ReservationIds \ R : res[r].status = "CHECKED_IN" =>
                  \/ business'[res[r].seat] = business[res[r].seat]
                  \/ business'[res[r].seat] = "PENDING_RELEASE" /\ Ended(r, now)
                  \/ /\ business'[res[r].seat] = "ENDING_SOON"
                     /\ res[r].end - now <= EndingSoonWindow
        PROVE  ClockStatesDue'
    <2>1. \A r \in ReservationIds :
            res'[r].status = "CHECKED_IN" => r \notin R /\ res'[r] = res[r]
      BY <1>3 DEF RowsEnd, EndedStatus
    <2> QED BY <1>0, <1>3, <2>1 DEF ClockStatesDue, Ended
  <1>4. ASSUME NEW R \in SUBSET ReservationIds, NEW r \in ReservationIds \ R,
               Active(r)
        PROVE  ReleaseSeats(R)[res[r].seat] = business[res[r].seat]
    BY <1>0, <1>4 DEF ReleaseSeats
  <1>5. CASE StudentStep
    <2>1. CASE \E u \in Users, s \in Seats, slot \in Slots :
                 CreateReservation(u, s, slot)
      BY <1>1, <2>1, CreateBooks
    <2>2. CASE \E u \in Users, k \in TokenIds, t \in Clock : CheckIn(u, k, t)
      BY <1>2, <2>2, CheckInChecksIn
    <2>3. CASE \E u \in Users, r \in ReservationIds, e \in ExtendedEnds,
                 t \in Clock : ExtendReservation(u, r, e, t)
      BY <1>2, <2>3, ExtendExtends
    <2>4. ASSUME NEW u \in Users, NEW r \in ReservationIds, NEW t \in Clock,
                 CancelReservation(u, r) \/ ReleaseCurrentUsage(u, r, t)
          PROVE  ClockStatesDue'
      <3>1. RowsEnd({r})
        BY <2>4, CancelEnds, ReleaseEnds
      <3>2. business' = ReleaseSeats({r}) /\ now' = now
        BY <2>4 DEF CancelReservation, ReleaseCurrentUsage
      <3>3. \A r2 \in ReservationIds \ {r} : res[r2].status = "CHECKED_IN" =>
              business'[res[r2].seat] = business[res[r2].seat]
        BY <1>4, <3>2 DEF Active, WaitingOrIn
      <3> QED BY <1>3, <3>1, <3>2, <3>3
    <2>5. CASE \E u \in Users, r \in ReservationIds : CancelReservation(u, r)
      BY <2>4, <2>5, ClockHoldsNow DEF TypeOK
    <2> QED BY <1>5, <2>1, <2>2, <2>3, <2>4, <2>5 DEF StudentStep
  <1>6. CASE AdminStep
    <2>1. PICK r \in ReservationIds, t \in Clock, restore \in BOOLEAN,
               exclude \in BOOLEAN : AdminReleaseSeat(r, t, restore, exclude)
      BY <1>6 DEF AdminStep
    <2>2. RowsEnd({r}) /\ Active(r)
      BY <2>1, AdminReleaseEnds DEF RowsEnd
    <2>3. business' = [business EXCEPT ![res[r].seat] = "FREE"] /\ now' = now
      BY <2>1 DEF AdminReleaseSeat
    <2>4. \A r2 \in ReservationIds \ {r} : res[r2].status = "CHECKED_IN" =>
            business'[res[r2].seat] = business[res[r2].seat]
      BY <1>0, <2>2, <2>3
      DEF SeatFollowsReservation, OneActivePerSeat, Active, WaitingOrIn
    <2> QED BY <1>3, <2>2, <2>3, <2>4
  <1>7. ASSUME NEW t \in Clock, NoShowScan(t)
        PROVE  ClockStatesDue'
    <2>1. /\ RowsEnd(DueNoShows(t)) /\ DueNoShows(t) \in SUBSET ReservationIds
          /\ business' = ReleaseSeats(DueNoShows(t)) /\ now' = now
      BY <1>7, NoShowScanEnds DEF NoShowScan, DueNoShows
    <2>2. \A r \in ReservationIds \ DueNoShows(t) : res[r].status = "CHECKED_IN" =>
            business'[res[r].seat] = business[res[r].seat]
      BY <1>4, <2>1 DEF Active, WaitingOrIn
    <2> QED BY <1>3, <2>1, <2>2
  <1>8. ASSUME NEW t \in Clock, UsageScan(t)
        PROVE  ClockStatesDue'
    <2>0. t \in Int /\ t <= now
      BY <1>0, BoundAssumption DEF Clock
    <2>1. /\ RowsEnd(DueFinishes(t)) /\ DueFinishes(t) \in SUBSET ReservationIds
          /\ now' = now /\ \A s \in Seats : business'[s] = ScannedBusiness(s, t)
      BY <1>8, UsageScanEnds DEF UsageScan, DueFinishes
    <2>2. ASSUME NEW r \in ReservationIds \ DueFinishes(t),
                 res[r].status = "CHECKED_IN"
          PROVE  \/ business'[res[r].seat] = business[res[r].seat]
                 \/ business'[res[r].seat] = "PENDING_RELEASE" /\ Ended(r, now)
                 \/ /\ business'[res[r].seat] = "ENDING_SOON"
                    /\ res[r].end - now <= EndingSoonWindow
      <3>1. Active(r) /\ res[r].seat \in Seats
        BY <1>0, <2>2 DEF Active, WaitingOrIn
      <3>2. \A r2 \in ReservationIds :
              res[r2].status = "CHECKED_IN" /\ res[r2].seat = res[r].seat => r2 = r
        BY <3>1 DEF SeatFollowsReservation, OneActivePerSeat, Active, WaitingOrIn
      <3>3. CASE \E r2 \in ReservationIds :
                   res[r2].seat = res[r].seat /\ Ended(r2, t) /\ StillPresent(r2)
        BY <1>0, <2>0, <2>1, <3>1, <3>2, <3>3 DEF ScannedBusiness, EndingSoon, Ended
      <3>4. CASE /\ ~ \E r2 \in ReservationIds :
                        res[r2].seat = res[r].seat /\ Ended(r2, t) /\ StillPresent(r2)
                 /\ \E r2 \in ReservationIds :
                      /\ res[r2].seat = res[r].seat
                      /\ res[r2].status = "CHECKED_IN"
                      /\ t < res[r2].end
                      /\ res[r2].end - t <= EndingSoonWindow
        <4>1. res[r].end - t <= EndingSoonWindow
          BY <3>2, <3>4
        <4>2. res[r].end - now <= EndingSoonWindow
          BY <1>0, <2>0, <4>1, OffsetAssumption
        <4> QED
          BY <4>2, <2>1, <3>1, <3>2, <3>4 DEF ScannedBusiness, EndingSoon
      <3>5. ReleaseSeats(DueFinishes(t))[res[r].seat] = business[res[r].seat]
        BY <1>4, <2>1, <2>2, <3>1
      <3> QED BY <2>1, <3>1, <3>3, <3>4, <3>5 DEF ScannedBusiness, EndingSoon
    <2> QED BY <1>3, <2>1, <2>2
  <1>9. CASE QuietStep
    <2>1. now' = now \/ now' = now + 1
      BY <1>9
      DEF QuietStep, JobStep, RefreshStep, SyncStep, IssueStep, RefreshExpire,
          RefreshFind, IssueReadSeat, IssueReadDevice, IssueCreate,
          SyncReadDevice, SyncFindReservation, SyncExpire, SyncReuse, JobFails,
          JobOnly, JobAndTokensOnly, OtherServicesWrite, Tick, vars
    <2>2. UNCHANGED <<res, business>>
      BY <1>9, QuietSteps
    <2> QED BY <1>0, <2>1, <2>2, OffsetAssumption DEF ClockStatesDue
  <1> QED BY <1>5, <1>6, <1>7, <1>8, <1>9, StepKinds DEF ScanStep

(* A seat is shown as awaiting release only past the end of its stay, and  *)
(* as ending soon only inside the window, extensions included.             *)
THEOREM ClockStatesCorrect == Spec => []ClockStatesDue
  <1>1. Init => ClockStatesDue
    BY DEF Init, ClockStatesDue, NoReservation
  <1> QED BY <1>1, TypeCorrect, SeatCorrect, NextClockStates, PTL DEF Spec

-----------------------------------------------------------------------------
(* Check-ins.  The invariant adds that the table of check-ins is about     *)
(* reservations that are past waiting, and that a waiting one has no       *)
(* check-in instant: otherwise a later booking or check-in could take the  *)
(* row of an earlier one.                                                  *)

CheckInInv ==
  /\ CheckInsAccountedFor
  /\ \A c \in checkIns :
       res[c.reservation].status \notin {"NONE", "WAITING_CHECKIN"}
  /\ \A r \in ReservationIds :
       res[r].status = "WAITING_CHECKIN" => res[r].checkedInAt = Null

(* Used tokens stay as they are, and no token becomes a used one.          *)
UsedTokensStay ==
  /\ \A k \in TokenIds : qr[k].status = "USED" => qr'[k] = qr[k]
  /\ \A k \in TokenIds : qr'[k].status = "USED" => qr[k].status = "USED"

(* Invalidating and expiring pass used tokens by.                          *)
LEMMA UsedTokensPassedBy ==
  ASSUME ColumnsOK,
         \/ qr' = qr
         \/ \E R : qr' = Invalidate(R)
         \/ \E at, R : qr' = ExpireTokens(at, R)
  PROVE  UsedTokensStay
  <1>1. CASE qr' = qr
    BY <1>1 DEF UsedTokensStay
  <1>2. CASE \E R : qr' = Invalidate(R)
    BY <1>2 DEF UsedTokensStay, Invalidate, ColumnsOK, TokenRow
  <1>3. CASE \E at, R : qr' = ExpireTokens(at, R)
    BY <1>3 DEF UsedTokensStay, ExpireTokens, ColumnsOK, TokenRow
  <1> QED BY <1>1, <1>2, <1>3

(* A token that is issued was not there, and is unused.                    *)
LEMMA IssuedTokensStay ==
  ASSUME ColumnsOK, NEW j \in Jobs, IssueCreate(j)
  PROVE  UsedTokensStay
  <1>1. PICK k, row :
          /\ k \in TokenIds /\ qr[k].status = "NONE" /\ row.status = "UNUSED"
          /\ qr' = [qr EXCEPT ![k] = row]
    BY DEF IssueCreate
  <1>2. \A k2 \in TokenIds : qr'[k2] = IF k2 = k THEN row ELSE qr[k2]
    BY <1>1 DEF ColumnsOK
  <1> QED BY <1>1, <1>2 DEF UsedTokensStay

(* Only a check-in uses a token.                                           *)
LEMMA OthersUseNoToken ==
  ASSUME TypeOK, [Next]_vars,
         \A u \in Users, k \in TokenIds, t \in Clock : ~ CheckIn(u, k, t)
  PROVE  UsedTokensStay /\ checkIns' = checkIns
  <1>0. ColumnsOK
    BY DEF TypeOK
  <1>1. CASE StudentStep
    <2>1. (qr' = qr \/ \E R : qr' = Invalidate(R)) /\ checkIns' = checkIns
      BY <1>1 DEF StudentStep, CreateReservation, CancelReservation,
                  ExtendReservation, ReleaseCurrentUsage
    <2> QED BY <1>0, <2>1, UsedTokensPassedBy
  <1>2. CASE AdminStep \/ ScanStep
    <2>1. (qr' = qr \/ \E R : qr' = Invalidate(R)) /\ checkIns' = checkIns
      BY <1>2 DEF AdminStep, ScanStep, AdminReleaseSeat, NoShowScan, UsageScan
    <2> QED BY <1>0, <2>1, UsedTokensPassedBy
  <1>3. CASE JobStep
    <2>1. CASE \E j \in Jobs : IssueCreate(j)
      BY <1>0, <2>1, IssuedTokensStay DEF IssueCreate, JobAndTokensOnly
    <2>2. CASE ~ \E j \in Jobs : IssueCreate(j)
      <3>1. /\ qr' = qr \/ \E at, R : qr' = ExpireTokens(at, R)
            /\ checkIns' = checkIns
        BY <1>3, <2>2
        DEF JobStep, RefreshStep, SyncStep, IssueStep, RefreshExpire, RefreshFind,
            IssueReadSeat, IssueReadDevice, SyncReadDevice, SyncFindReservation,
            SyncExpire, SyncReuse, JobFails, JobOnly, JobAndTokensOnly
      <3> QED BY <1>0, <3>1, UsedTokensPassedBy
    <2> QED BY <2>1, <2>2
  <1>4. CASE (\E s \in Seats : OtherServicesWrite(s)) \/ Tick \/ UNCHANGED vars
    <2>1. qr' = qr /\ checkIns' = checkIns
      BY <1>4 DEF OtherServicesWrite, Tick, tables, vars
    <2> QED BY <1>0, <2>1, UsedTokensPassedBy
  <1> QED BY <1>1, <1>2, <1>3, <1>4 DEF Next

(* Steps that use no token keep every check-in accounted for: checked-in   *)
(* rows keep user, start and check-in instant, and none becomes one.       *)
LEMMA OthersKeepCheckIns ==
  ASSUME TypeOK, CheckInInv, [Next]_vars, UsedTokensStay, checkIns' = checkIns,
         \A u \in Users, k \in TokenIds, t \in Clock : ~ CheckIn(u, k, t)
  PROVE  CheckInInv'
  <1> DEFINE Kept(r) ==
        /\ res[r].status = "NONE" => res'[r].status \in {"NONE", "WAITING_CHECKIN"}
        /\ res[r].status # "NONE" =>
             /\ res'[r].user = res[r].user /\ res'[r].start = res[r].start
             /\ res'[r].checkedInAt = res[r].checkedInAt
        /\ res[r].status \notin {"NONE", "WAITING_CHECKIN"} =>
             res'[r].status \notin {"NONE", "WAITING_CHECKIN"}
        /\ res'[r].checkedInAt # Null => res'[r].checkedInAt = res[r].checkedInAt
        /\ res'[r].status = "WAITING_CHECKIN" =>
             \/ res'[r].checkedInAt = Null
             \/ res[r].status = "WAITING_CHECKIN"
  <1>1. ASSUME NEW r \in ReservationIds
        PROVE  Kept(r)
    <2>1. ASSUME NEW r2 \in ReservationIds, RowBooked(r2)
          PROVE  Kept(r)
      BY <2>1 DEF RowBooked
    <2>2. ASSUME NEW r2 \in ReservationIds, RowExtended(r2)
          PROVE  Kept(r)
      BY <2>2 DEF RowExtended
    <2>3. ASSUME NEW R \in SUBSET ReservationIds, RowsEnd(R)
          PROVE  Kept(r)
      BY <2>3 DEF RowsEnd, Active, WaitingOrIn, EndedStatus
    <2>4. CASE QuietStep
      BY <2>4, QuietSteps
    <2> QED BY <2>1, <2>2, <2>3, <2>4, RowSteps
  <1>2. \A c \in checkIns : c.reservation \in ReservationIds /\ c.token \in TokenIds
    BY DEF TypeOK, ColumnsOK, CheckInRow
  <1>3. ASSUME NEW c \in checkIns
        PROVE  /\ res'[c.reservation].checkedInAt = c.at
               /\ res'[c.reservation].user = c.user
               /\ InCheckinWindow(c.reservation, c.at)'
               /\ qr'[c.token].status = "USED"
               /\ qr'[c.token].reservation = c.reservation
               /\ c.at < qr'[c.token].expiredAt
               /\ res'[c.reservation].status \notin {"NONE", "WAITING_CHECKIN"}
    <2>1. Kept(c.reservation) /\ res[c.reservation].status \notin {"NONE", "WAITING_CHECKIN"}
      BY <1>1, <1>2 DEF CheckInInv
    <2>2. qr'[c.token] = qr[c.token]
      BY <1>2 DEF CheckInInv, CheckInsAccountedFor, UsedTokensStay
    <2> QED BY <2>1, <2>2
            DEF CheckInInv, CheckInsAccountedFor, InCheckinWindow, CheckinStart, CheckinDeadline
  <1>4. \A k \in TokenIds : qr'[k].status = "USED" => \E c \in checkIns : c.token = k
    BY DEF UsedTokensStay, CheckInInv, CheckInsAccountedFor
  <1>5. \A r \in ReservationIds :
          res'[r].checkedInAt # Null => \E c \in checkIns : c.reservation = r
    BY <1>1 DEF CheckInInv, CheckInsAccountedFor
  <1>6. \A r \in ReservationIds :
          res'[r].status = "WAITING_CHECKIN" => res'[r].checkedInAt = Null
    BY <1>1 DEF CheckInInv
  <1>7. \A c1, c2 \in checkIns : c1.reservation = c2.reservation => c1 = c2
    BY DEF CheckInInv, CheckInsAccountedFor
  <1> QED BY <1>3, <1>4, <1>5, <1>6, <1>7 DEF CheckInInv, CheckInsAccountedFor

(* A check-in adds the one entry that its row and its token call for.      *)
LEMMA CheckInKeepsCheckIns ==
  ASSUME TypeOK, CheckInInv, NEW u \in Users, NEW k \in TokenIds, NEW t \in Clock,
         CheckIn(u, k, t)
  PROVE  CheckInInv'
  <1> DEFINE r == qr[k].reservation
             new == [reservation |-> r, user |-> u, token |-> k, at |-> t]
  <1>1. /\ r \in ReservationIds /\ res[r] \in ReservationRow /\ t \in Time
        /\ res[r].status = "WAITING_CHECKIN" /\ res[r].user = u
        /\ qr[k].status = "UNUSED" /\ t < qr[k].expiredAt
        /\ InCheckinWindow(r, t)
    <2>1. /\ res[r].status = "WAITING_CHECKIN" /\ res[r].user = u
          /\ qr[k].status = "UNUSED" /\ t < qr[k].expiredAt
          /\ InCheckinWindow(r, t)
      BY DEF CheckIn, CheckInAllowed
    <2>2. r \in ReservationIds /\ res[r] \in ReservationRow
      BY <2>1 DEF TypeOK, ColumnsOK, RowsLinked
    <2> QED BY <2>1, <2>2, ClockType DEF TypeOK
  <1>2. /\ res' = [res EXCEPT ![r] = CheckedInRow(res[r], t)]
        /\ qr' = [Invalidate({r}) EXCEPT ![k] = [qr[k] EXCEPT !.status = "USED"]]
        /\ checkIns' = checkIns \cup {new}
    <2>1. res' = [res EXCEPT ![r] = CheckedInRow(res[r], t)]
      BY DEF CheckIn
    <2>2. qr' = [Invalidate({r}) EXCEPT ![k] = [qr[k] EXCEPT !.status = "USED"]]
      BY DEF CheckIn
    <2>3. checkIns' = checkIns \cup {new}
      BY DEF CheckIn
    <2> QED BY <2>1, <2>2, <2>3
  <1> HIDE DEF r
  <1>11. new.reservation = r /\ new.token = k
    OBVIOUS
  <1>3. /\ res'[r].checkedInAt = t /\ res'[r].status = "CHECKED_IN"
        /\ res'[r].user = u /\ res'[r].start = res[r].start
        /\ \A r2 \in ReservationIds \ {r} : res'[r2] = res[r2]
    BY <1>1, <1>2, CheckedInRowFields DEF TypeOK, ColumnsOK
  <1>4. /\ qr'[k].status = "USED" /\ qr'[k].reservation = r
        /\ qr'[k].expiredAt = qr[k].expiredAt
    BY <1>2 DEF TypeOK, ColumnsOK, TokenRow, Invalidate, r
  <1>5. \A k2 \in TokenIds \ {k} :
          /\ qr[k2].status = "USED" => qr'[k2] = qr[k2]
          /\ qr'[k2].status = "USED" => qr[k2].status = "USED"
    BY <1>2 DEF TypeOK, ColumnsOK, TokenRow, Invalidate
  <1>6. \A c \in checkIns :
          /\ c.reservation \in ReservationIds \ {r} /\ c.token \in TokenIds \ {k}
    BY <1>1 DEF TypeOK, ColumnsOK, CheckInRow, CheckInInv, CheckInsAccountedFor
  <1>7. ASSUME NEW c \in checkIns'
        PROVE  /\ res'[c.reservation].checkedInAt = c.at
               /\ res'[c.reservation].user = c.user
               /\ InCheckinWindow(c.reservation, c.at)'
               /\ qr'[c.token].status = "USED"
               /\ qr'[c.token].reservation = c.reservation
               /\ c.at < qr'[c.token].expiredAt
               /\ res'[c.reservation].status \notin {"NONE", "WAITING_CHECKIN"}
    <2>1. CASE c = new
      BY <1>1, <1>3, <1>4, <2>1 DEF InCheckinWindow, CheckinStart, CheckinDeadline
    <2>2. CASE c \in checkIns
      <3>1. res'[c.reservation] = res[c.reservation] /\ qr'[c.token] = qr[c.token]
        BY <1>3, <1>5, <1>6, <2>2 DEF CheckInInv, CheckInsAccountedFor
      <3> QED
        BY <2>2, <3>1
        DEF CheckInInv, CheckInsAccountedFor, InCheckinWindow, CheckinStart,
            CheckinDeadline
    <2> QED BY <1>2, <2>1, <2>2
  <1>8. \A c1, c2 \in checkIns' : c1.reservation = c2.reservation => c1 = c2
    <2> HIDE DEF new
    <2>1. ASSUME NEW c1 \in checkIns', NEW c2 \in checkIns',
                 c1.reservation = c2.reservation
          PROVE  c1 = c2
      BY <1>2, <1>6, <1>11, <2>1 DEF CheckInInv, CheckInsAccountedFor
    <2> QED BY <2>1
  <1>9. \A k2 \in TokenIds : qr'[k2].status = "USED" => \E c \in checkIns' : c.token = k2
    <2>1. new \in checkIns' /\ checkIns \subseteq checkIns'
      BY <1>2
    <2> HIDE DEF new
    <2> QED BY <1>5, <1>11, <2>1 DEF CheckInInv, CheckInsAccountedFor
  <1>10. \A r2 \in ReservationIds :
          /\ res'[r2].checkedInAt # Null => \E c \in checkIns' : c.reservation = r2
          /\ res'[r2].status = "WAITING_CHECKIN" => res'[r2].checkedInAt = Null
    <2>1. new \in checkIns' /\ checkIns \subseteq checkIns'
      BY <1>2
    <2> HIDE DEF new
    <2> QED BY <1>3, <1>11, <2>1 DEF CheckInInv, CheckInsAccountedFor
  <1> QED BY <1>7, <1>8, <1>9, <1>10 DEF CheckInInv, CheckInsAccountedFor

(* Every check-in is the doing of one token, and every used token of one.  *)
THEOREM CheckInsCorrect == Spec => []CheckInsAccountedFor
  <1>1. Init => CheckInInv
    BY DEF Init, CheckInInv, CheckInsAccountedFor, NoReservation, NoToken
  <1>2. TypeOK /\ CheckInInv /\ [Next]_vars => CheckInInv'
    <2> SUFFICES ASSUME TypeOK, CheckInInv, [Next]_vars PROVE CheckInInv'
      OBVIOUS
    <2>1. CASE \E u \in Users, k \in TokenIds, t \in Clock : CheckIn(u, k, t)
      BY <2>1, CheckInKeepsCheckIns
    <2>2. CASE \A u \in Users, k \in TokenIds, t \in Clock : ~ CheckIn(u, k, t)
      <3>1. UsedTokensStay /\ checkIns' = checkIns
        BY <2>2, OthersUseNoToken
      <3> QED BY <2>2, <3>1, OthersKeepCheckIns
    <2> QED BY <2>1, <2>2
  <1>3. CheckInInv => CheckInsAccountedFor
    BY DEF CheckInInv
  <1> QED BY <1>1, <1>2, <1>3, TypeCorrect, PTL DEF Spec

-----------------------------------------------------------------------------
(* No-shows.  The scan counts the rows it ends, and these were not in the  *)
(* set of no-shows before, so the two cardinalities add up.                *)

(* The no-shows of a student, which NoShowsCounted counts.                 *)
NoShowsOf(u) ==
  {r \in ReservationIds : res[r].user = u /\ res[r].status = "NO_SHOW"}

(* Rows that keep their students and neither come to nor leave NO_SHOW,    *)
(* the counters being left alone.                                          *)
CountsStay ==
  /\ noShows' = noShows
  /\ \A r \in ReservationIds :
       \/ res'[r] = res[r]
       \/ /\ res[r].status # "NO_SHOW" /\ res'[r].status # "NO_SHOW"

(* A scan ends the rows it counts, and no student's row twice.             *)
LEMMA ScanCounts ==
  ASSUME TypeOK, NoShowsCounted, NEW t \in Clock, NoShowScan(t),
         NEW u \in Users
  PROVE  noShows'[u] = Cardinality(NoShowsOf(u)')
  <1>1. RowsEnd(DueNoShows(t)) /\ \A r \in DueNoShows(t) : res'[r].status = "NO_SHOW"
    BY NoShowScanEnds
  <1>2. noShows'[u] = noShows[u] + Cardinality(LapsedOf(u, t))
    BY DEF NoShowScan
  <1>3. noShows[u] = Cardinality(NoShowsOf(u))
    BY DEF NoShowsCounted, NoShowsOf
  <1>4. NoShowsOf(u)' = NoShowsOf(u) \cup LapsedOf(u, t)
    <2>1. ASSUME NEW r \in ReservationIds
          PROVE  r \in NoShowsOf(u)' <=> r \in NoShowsOf(u) \/ r \in LapsedOf(u, t)
      <3>1. CASE r \in DueNoShows(t)
        BY <1>1, <3>1 DEF RowsEnd, NoShowsOf, LapsedOf, Active, WaitingOrIn
      <3>2. CASE r \notin DueNoShows(t)
        BY <1>1, <3>2 DEF RowsEnd, NoShowsOf, LapsedOf
      <3> QED BY <3>1, <3>2
    <2> QED BY <2>1 DEF NoShowsOf, LapsedOf, DueNoShows
  <1>5. NoShowsOf(u) \cap LapsedOf(u, t) = {}
    BY DEF NoShowsOf, LapsedOf, DueNoShows
  <1>6. /\ IsFiniteSet(NoShowsOf(u)) /\ IsFiniteSet(LapsedOf(u, t))
        /\ Cardinality(NoShowsOf(u)) \in Nat /\ Cardinality(LapsedOf(u, t)) \in Nat
    BY BoundAssumption, FS_Subset, FS_CardinalityType
    DEF NoShowsOf, LapsedOf, DueNoShows
  <1>7. Cardinality(NoShowsOf(u) \cup LapsedOf(u, t))
          = Cardinality(NoShowsOf(u)) + Cardinality(LapsedOf(u, t))
    BY <1>5, <1>6, FS_Union, FS_EmptySet
  <1> QED BY <1>2, <1>3, <1>4, <1>7

(* No other step makes a reservation a no-show, or counts one.             *)
LEMMA OthersDoNotCount ==
  ASSUME TypeOK, [Next]_vars, \A t \in Clock : ~ NoShowScan(t)
  PROVE  CountsStay
  <1>1. CASE StudentStep
    <2>1. ASSUME NEW u \in Users, NEW s \in Seats, NEW slot \in Slots,
                 CreateReservation(u, s, slot)
          PROVE  CountsStay
      BY <2>1, CreateBooks DEF CountsStay, RowBooked
    <2>2. ASSUME NEW u \in Users, NEW k \in TokenIds, NEW t \in Clock,
                 CheckIn(u, k, t)
          PROVE  CountsStay
      BY <2>2, CheckInChecksIn DEF CountsStay, RowCheckedIn
    <2>3. ASSUME NEW u \in Users, NEW r \in ReservationIds, CancelReservation(u, r)
          PROVE  CountsStay
      BY <2>3, CancelEnds DEF CountsStay, RowsEnd, CancelReservation
    <2>4. ASSUME NEW u \in Users, NEW r \in ReservationIds,
                 NEW e \in ExtendedEnds, NEW t \in Clock,
                 ExtendReservation(u, r, e, t)
          PROVE  CountsStay
      BY <2>4, ExtendExtends DEF CountsStay, RowExtended
    <2>5. ASSUME NEW u \in Users, NEW r \in ReservationIds, NEW t \in Clock,
                 ReleaseCurrentUsage(u, r, t)
          PROVE  CountsStay
      BY <2>5, ReleaseEnds DEF CountsStay, RowsEnd, ReleaseCurrentUsage
    <2> QED BY <1>1, <2>1, <2>2, <2>3, <2>4, <2>5 DEF StudentStep
  <1>2. CASE AdminStep
    <2>1. PICK r \in ReservationIds, t \in Clock, restore \in BOOLEAN,
               exclude \in BOOLEAN : AdminReleaseSeat(r, t, restore, exclude)
      BY <1>2 DEF AdminStep
    <2>2. RowsEnd({r}) /\ res'[r].status = "ADMIN_RELEASED"
      BY <2>1, AdminReleaseEnds
    <2> QED BY <2>1, <2>2
            DEF CountsStay, RowsEnd, AdminReleaseSeat, Active, WaitingOrIn
  <1>3. ASSUME NEW t \in Clock, UsageScan(t)
        PROVE  CountsStay
    BY <1>3, UsageScanEnds DEF CountsStay, RowsEnd, UsageScan
  <1>4. CASE QuietStep
    BY <1>4, QuietSteps DEF CountsStay
  <1> QED BY <1>1, <1>2, <1>3, <1>4, StepKinds DEF ScanStep

(* Every no-show is counted against its student once, and nothing else.    *)
THEOREM NoShowsCorrect == Spec => []NoShowsCounted
  <1>1. Init => NoShowsCounted
    <2> SUFFICES ASSUME Init, NEW u \in Users
                 PROVE  noShows[u] = Cardinality(NoShowsOf(u))
      BY DEF NoShowsCounted, NoShowsOf
    <2>1. NoShowsOf(u) = {}
      BY DEF Init, NoReservation, NoShowsOf
    <2> QED BY <2>1, FS_EmptySet DEF Init
  <1>2. TypeOK /\ NoShowsCounted /\ [Next]_vars => NoShowsCounted'
    <2> SUFFICES ASSUME TypeOK, NoShowsCounted, [Next]_vars
                 PROVE  NoShowsCounted'
      OBVIOUS
    <2>1. CASE \E t \in Clock : NoShowScan(t)
      BY <2>1, ScanCounts DEF NoShowsCounted, NoShowsOf
    <2>2. CASE \A t \in Clock : ~ NoShowScan(t)
      <3>1. CountsStay
        BY <2>2, OthersDoNotCount
      <3>2. \A u \in Users : NoShowsOf(u)' = NoShowsOf(u)
        BY <3>1 DEF CountsStay, NoShowsOf
      <3> QED BY <3>1, <3>2 DEF CountsStay, NoShowsCounted, NoShowsOf
    <2> QED BY <2>1, <2>2
  <1> QED BY <1>1, <1>2, TypeCorrect, PTL DEF Spec

-----------------------------------------------------------------------------
(* The refinement of SeatLease.  The mapping looks at the business status  *)
(* of a seat; since that follows the reservations, it can be read off the  *)
(* reservation table, and every step of the table is a step of the leases. *)

(* The mapping read off the reservation table alone: a seat is held by the *)
(* reservation that is active on it, and by nobody where there is none.    *)
HolderKnown ==
  /\ Holder = [s \in Seats |-> Holder[s]]
  /\ \A s \in Seats, r \in ReservationIds :
       Holder[s] = r <=> Active(r) /\ res[r].seat = s
  /\ \A s \in Seats : Holder[s] \in ReservationIds \cup {Null}

(* When seats follow their reservations the mapping is that.               *)
LEMMA HolderIsKnown == TypeOK /\ SeatFollowsReservation => HolderKnown
  <1> SUFFICES ASSUME TypeOK, SeatFollowsReservation PROVE HolderKnown
    OBVIOUS
  <1>1. ASSUME NEW s \in Seats, business[s] = "FREE"
        PROVE  /\ Holder[s] = Null
               /\ \A r \in ReservationIds : ~ (Active(r) /\ res[r].seat = s)
    BY <1>1, FreeSeatHasNoActive DEF Holder
  <1>2. ASSUME NEW s \in Seats, business[s] # "FREE"
        PROVE  /\ Holder[s] \in ReservationIds
               /\ Active(Holder[s]) /\ res[Holder[s]].seat = s
    <2>1. \E r \in ReservationIds : Active(r) /\ res[r].seat = s
      BY <1>2 DEF SeatFollowsReservation
    <2>2. Holder[s] = CHOOSE r \in ReservationIds : Active(r) /\ res[r].seat = s
      BY <1>2 DEF Holder
    <2> QED BY <2>1, <2>2
  <1>3. ASSUME NEW s \in Seats, NEW r \in ReservationIds
        PROVE  Holder[s] = r <=> Active(r) /\ res[r].seat = s
    BY <1>1, <1>2, NullAssumption DEF SeatFollowsReservation, OneActivePerSeat
  <1>4. \A s \in Seats : Holder[s] \in ReservationIds \cup {Null}
    BY <1>1, <1>2
  <1>5. Holder = [s \in Seats |-> Holder[s]]
    BY DEF Holder
  <1> QED BY <1>3, <1>4, <1>5 DEF HolderKnown

(* How far a lease has come is its reservation's status.                   *)
StageKnown ==
  /\ LeaseStage = [r \in ReservationIds |-> LeaseStage[r]]
  /\ \A r \in ReservationIds :
       /\ LeaseStage[r] = "unborn" <=> res[r].status = "NONE"
       /\ LeaseStage[r] = "waiting" <=> res[r].status = "WAITING_CHECKIN"
       /\ LeaseStage[r] = "using" <=> res[r].status = "CHECKED_IN"
       /\ LeaseStage[r] = "over" <=> res[r].status \in EndedStatus

(* The stages partition the statuses.                                      *)
LEMMA StageIsKnown == TypeOK => StageKnown
  <1> SUFFICES ASSUME TypeOK PROVE StageKnown
    OBVIOUS
  <1>1. \A r \in ReservationIds : res[r].status \in ReservationStatus
    BY DEF TypeOK, ColumnsOK, ReservationRow
  <1>2. LeaseStage = [r \in ReservationIds |-> LeaseStage[r]]
    BY DEF LeaseStage
  <1>3. ASSUME NEW r \in ReservationIds
        PROVE  LeaseStage[r] =
          IF res[r].status = "NONE" THEN "unborn"
          ELSE IF res[r].status = "WAITING_CHECKIN" THEN "waiting"
          ELSE IF res[r].status = "CHECKED_IN" THEN "using" ELSE "over"
    BY DEF LeaseStage
  <1> QED BY <1>1, <1>2, <1>3
          DEF StageKnown, ReservationStatus, WaitingOrIn, EndedStatus

(* Before and after a step the mapping is read off the table.              *)
MappingKnown == HolderKnown /\ StageKnown

(* A booking grants its seat to a lease that was not yet.                  *)
LEMMA BookedGrants ==
  ASSUME TypeOK', SeatFollowsReservation', MappingKnown, MappingKnown',
         NEW r \in ReservationIds, RowBooked(r)
  PROVE  \E s \in Seats : Lease!Grant(s, r)
  <1> DEFINE s == res'[r].seat
  <1>1. s \in Seats /\ Active(r)' /\ ~ Active(r)
    BY DEF RowBooked, TypeOK, RowsLinked, Active, WaitingOrIn
  <1>2. \A r2 \in ReservationIds \ {r} :
          (Active(r2)' <=> Active(r2)) /\ res'[r2].seat = res[r2].seat
    BY DEF RowBooked, Active
  <1>3. \A r2 \in ReservationIds : ~ (Active(r2) /\ res[r2].seat = s)
    BY <1>1, <1>2 DEF SeatFollowsReservation, OneActivePerSeat
  <1>4. Holder[s] = Null
    BY <1>1, <1>3 DEF MappingKnown, HolderKnown
  <1>5. Holder' = [Holder EXCEPT ![s] = r]
    <2>1. Holder'[s] = r
      BY <1>1 DEF MappingKnown, HolderKnown
    <2>2. ASSUME NEW s2 \in Seats, s2 # s
          PROVE  Holder'[s2] = Holder[s2]
      BY <1>1, <1>2, <2>2 DEF MappingKnown, HolderKnown
    <2> QED BY <1>1, <2>1, <2>2 DEF MappingKnown, HolderKnown
  <1>6. /\ LeaseStage[r] = "unborn"
        /\ LeaseStage' = [LeaseStage EXCEPT ![r] = "waiting"]
    <2>1. LeaseStage[r] = "unborn" /\ LeaseStage'[r] = "waiting"
      BY DEF MappingKnown, StageKnown, RowBooked
    <2>2. ASSUME NEW r2 \in ReservationIds \ {r}
          PROVE  LeaseStage'[r2] = LeaseStage[r2]
      BY DEF RowBooked, LeaseStage
    <2> QED BY <2>1, <2>2 DEF MappingKnown, StageKnown
  <1> QED BY <1>1, <1>4, <1>5, <1>6 DEF Lease!Grant

(* Rows that keep seat and activity leave every seat with its holder.      *)
LEMMA HoldersStay ==
  ASSUME MappingKnown, MappingKnown',
         \A r \in ReservationIds :
           (Active(r)' <=> Active(r)) /\ (Active(r) => res'[r].seat = res[r].seat)
  PROVE  Holder' = Holder
  <1>1. ASSUME NEW s \in Seats
        PROVE  Holder'[s] = Holder[s]
    BY DEF MappingKnown, HolderKnown
  <1> QED BY <1>1 DEF MappingKnown, HolderKnown

(* A check-in begins the lease that holds the seat.                        *)
LEMMA CheckedInBegins ==
  ASSUME TypeOK, MappingKnown, MappingKnown',
         NEW r \in ReservationIds, RowCheckedIn(r)
  PROVE  \E s \in Seats : Lease!Begin(s)
  <1> DEFINE s == res[r].seat
  <1>1. s \in Seats /\ Active(r)
    BY DEF RowCheckedIn, TypeOK, RowsLinked, Active, WaitingOrIn
  <1>2. Holder[s] = r /\ r # Null
    BY <1>1, NullAssumption DEF MappingKnown, HolderKnown
  <1>3. Holder' = Holder
    BY HoldersStay DEF RowCheckedIn, Active, WaitingOrIn
  <1>4. /\ LeaseStage[r] = "waiting"
        /\ LeaseStage' = [LeaseStage EXCEPT ![r] = "using"]
    <2>1. LeaseStage[r] = "waiting" /\ LeaseStage'[r] = "using"
      BY DEF MappingKnown, StageKnown, RowCheckedIn
    <2>2. ASSUME NEW r2 \in ReservationIds \ {r}
          PROVE  LeaseStage'[r2] = LeaseStage[r2]
      BY DEF RowCheckedIn, LeaseStage
    <2> QED BY <2>1, <2>2 DEF MappingKnown, StageKnown
  <1> QED BY <1>1, <1>2, <1>3, <1>4 DEF Lease!Begin

(* Endings give up the seats of the reservations that end, and no other.   *)
LEMMA RowsEndEnds ==
  ASSUME TypeOK, MappingKnown, MappingKnown', NEW R, RowsEnd(R)
  PROVE  \E S \in SUBSET Seats : Lease!End(S)
  <1> DEFINE S == {s \in Seats : \E r \in R : res[r].seat = s}
  <1>1. \A r \in R : r \in ReservationIds /\ Active(r) /\ res[r].seat \in S
    BY DEF RowsEnd, TypeOK, RowsLinked, Active, WaitingOrIn
  <1>2. \A r \in ReservationIds :
          /\ Active(r)' <=> Active(r) /\ r \notin R
          /\ res'[r].seat = res[r].seat
    BY DEF RowsEnd, Active, WaitingOrIn, EndedStatus
  <1>3. ASSUME NEW s \in Seats
        PROVE  s \in S <=> Holder[s] \in R
    BY <1>1 DEF MappingKnown, HolderKnown
  <1>4. \A s \in S : Holder[s] # Null
    BY <1>1, <1>3, NullAssumption
  <1>5. Holder' = [s \in Seats |-> IF s \in S THEN Null ELSE Holder[s]]
    <2>1. ASSUME NEW s \in S
          PROVE  Holder'[s] = Null
      <3>1. s \in Seats /\ Holder[s] \in R
        BY <1>3
      <3>2. \A r \in ReservationIds : ~ (Active(r)' /\ res'[r].seat = s)
        BY <1>2, <3>1 DEF MappingKnown, HolderKnown
      <3> QED BY <3>1, <3>2 DEF MappingKnown, HolderKnown
    <2>2. ASSUME NEW s \in Seats, s \notin S
          PROVE  Holder'[s] = Holder[s]
      BY <1>2, <1>3, <2>2 DEF MappingKnown, HolderKnown
    <2> HIDE DEF S
    <2> QED BY <2>1, <2>2 DEF MappingKnown, HolderKnown
  <1>6. ASSUME NEW r \in ReservationIds
        PROVE  r \in R <=> \E s \in S : Holder[s] = r
    BY <1>1, <1>3 DEF MappingKnown, HolderKnown
  <1>7. LeaseStage' = [r \in ReservationIds |->
          IF \E s \in S : Holder[s] = r THEN "over" ELSE LeaseStage[r]]
    <2>1. \A r \in R : LeaseStage'[r] = "over"
      BY <1>1 DEF MappingKnown, StageKnown, RowsEnd
    <2>2. ASSUME NEW r \in ReservationIds \ R
          PROVE  LeaseStage'[r] = LeaseStage[r]
      BY DEF RowsEnd, LeaseStage
    <2> HIDE DEF S
    <2>3. ASSUME NEW r \in ReservationIds
          PROVE  LeaseStage'[r] =
                   IF \E s \in S : Holder[s] = r THEN "over" ELSE LeaseStage[r]
      BY <1>6, <2>1, <2>2
    <2> QED BY <2>3 DEF MappingKnown, StageKnown
  <1> HIDE DEF S
  <1>8. S \in SUBSET Seats
    BY DEF S
  <1> QED BY <1>4, <1>5, <1>7, <1>8 DEF Lease!End

(* Initially nobody holds a seat.                                          *)
LEMMA InitLease == Init => Lease!LeaseInit
  BY DEF Init, Lease!LeaseInit, Holder, LeaseStage, NoReservation

(* Every step is a step of the leases or changes none.                     *)
LEMMA NextLease ==
  ASSUME TypeOK, TypeOK', SeatFollowsReservation', MappingKnown, MappingKnown',
         [Next]_vars
  PROVE  [Lease!LeaseNext]_(Lease!leaseVars)
  <1>1. ASSUME NEW r \in ReservationIds, RowBooked(r)
        PROVE  Lease!LeaseNext
    BY <1>1, BookedGrants DEF Lease!LeaseNext
  <1>2. ASSUME NEW r \in ReservationIds, RowCheckedIn(r)
        PROVE  Lease!LeaseNext
    BY <1>2, CheckedInBegins DEF Lease!LeaseNext
  <1>3. ASSUME NEW r \in ReservationIds, RowExtended(r)
        PROVE  UNCHANGED Lease!leaseVars
    <2>1. Holder' = Holder
      BY <1>3, HoldersStay DEF RowExtended, Active, WaitingOrIn
    <2>2. \A r2 \in ReservationIds : res'[r2].status = res[r2].status
      BY <1>3 DEF RowExtended
    <2>3. LeaseStage' = LeaseStage
      BY <2>2 DEF LeaseStage
    <2> QED BY <2>1, <2>3 DEF Lease!leaseVars
  <1>4. ASSUME NEW R \in SUBSET ReservationIds, RowsEnd(R)
        PROVE  Lease!LeaseNext
    BY <1>4, RowsEndEnds DEF Lease!LeaseNext
  <1>5. CASE QuietStep
    <2>1. res' = res
      BY <1>5, QuietSteps
    <2>2. Holder' = Holder
      BY <2>1, HoldersStay DEF Active
    <2>3. LeaseStage' = LeaseStage
      BY <2>1 DEF LeaseStage
    <2> QED BY <2>2, <2>3 DEF Lease!leaseVars
  <1> QED BY <1>1, <1>2, <1>3, <1>4, <1>5, RowSteps

(* The handlers, scans and jobs implement seat leases.                     *)
THEOREM LeaseCorrect == Spec => ImplementsLease
  <1>1. TypeOK /\ SeatFollowsReservation => MappingKnown
    BY HolderIsKnown, StageIsKnown DEF MappingKnown
  <1>2. TypeOK /\ TypeOK' /\ SeatFollowsReservation' /\ MappingKnown /\ MappingKnown'
          /\ [Next]_vars => [Lease!LeaseNext]_(Lease!leaseVars)
    BY NextLease
  <1> QED
    BY <1>1, <1>2, TypeCorrect, SeatCorrect, InitLease, PTL
    DEF Spec, ImplementsLease, Lease!LeaseSpec
=============================================================================
