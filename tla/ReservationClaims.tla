-------------------------- MODULE ReservationClaims --------------------------
(***************************************************************************)
(* What the repository's documents say of reservations and its code does   *)
(* not do.  Each formula is a document's sentence; TLC shows how the       *)
(* program of module Reservations departs from it.                         *)
(***************************************************************************)
EXTENDS Reservations

CONSTANTS WeekLength

ASSUME WeekAssumption == WeekLength \in Nat \ {0}

(* docs/PRD.md: at one time a user has only one reservation in progress.   *)
(* The code only refuses slots that overlap.  Check-in opens before a slot *)
(* begins, so a student who has checked in may check in to his next        *)
(* booking, on another seat, while his first stay has not ended.           *)
OneUsagePerUser ==
  \A r1, r2 \in ReservationIds :
     /\ res[r1].status = "CHECKED_IN" /\ res[r2].status = "CHECKED_IN"
     /\ res[r1].user = res[r2].user
     => r1 = r2

Week(t) == t \div WeekLength

(* docs/PRD.md: no_show_count_week is this week's number of no-shows.  The *)
(* scan increments the column and nothing ever resets it.  (In no run.)    *)
NoShowsOfThisWeek ==
  \A u \in Users :
    noShows[u] =
      Cardinality({r \in ReservationIds :
                     /\ res[r].user = u /\ res[r].status = "NO_SHOW"
                     /\ Week(res[r].releasedAt) = Week(now)})

(* docs/PRD.md: while the device is offline no new check-in token is made. *)
(* The token is inserted after the statement that read the device's        *)
(* status, and the device may go offline in between.                       *)
TokensOnlyOnline ==
  [][\A k \in TokenIds :
       qr[k].status = "NONE" /\ qr'[k].status # "NONE" =>
         \E s \in Seats : column[s].device = qr'[k].device /\ column[s].online]_vars

(* docs/PLAN.md: the state diagram enters PENDING_RELEASE from ENDING_SOON *)
(* only.  A stay no scan saw inside the ending-soon window goes there      *)
(* straight from OCCUPIED.                                                 *)
PendingReleaseAfterEndingSoon ==
  [][\A s \in Seats :
       business'[s] = "PENDING_RELEASE" =>
         business[s] \in {"ENDING_SOON", "PENDING_RELEASE"}]_vars
=============================================================================
