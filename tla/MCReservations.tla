--------------------------- MODULE MCReservations ---------------------------
(* Instances of Reservations for TLC. *)
EXTENDS ReservationClaims, TLC

CONSTANTS d1, d2

Columns(reservable, presence, device, online) ==
  [reservable |-> reservable, presence |-> presence,
   device |-> device, online |-> online]

(* A working seat, empty or with somebody on it.                           *)
WorkingConditions ==
  {Columns(TRUE, p, d1, TRUE) : p \in {"ABSENT", "PRESENT"}}

(* A terminal that drops out, is replaced, or is taken down.               *)
DeviceConditions ==
  {Columns(TRUE, "UNKNOWN", d1, TRUE), Columns(FALSE, "UNKNOWN", d1, FALSE),
   Columns(TRUE, "UNKNOWN", d2, TRUE), Columns(TRUE, "UNKNOWN", Null, FALSE)}

(* Two seats with a terminal each.                                         *)
TwoSeatConditions ==
  {Columns(TRUE, "ABSENT", d, TRUE) : d \in {d1, d2}}

(* Check-in is open at once and stays open past the whole instance.        *)
EarlySlots == {<<0, 1>>, <<1, 2>>}

(* One booking, open for check-in until instant 1.                         *)
OpenSlot == {<<0, 1>>}

(* Bookings that touch, overlap, and one that is rejected for its length.  *)
ShortSlots == {<<0, 1>>, <<1, 2>>, <<0, 2>>, <<1, 1>>}

Symmetry ==
  Permutations(Users) \cup Permutations(ReservationIds)
    \cup Permutations(TokenIds)

(* Sound where the conditions treat the two terminals alike.               *)
SeatSymmetry ==
  Symmetry \cup Permutations(Seats) \cup Permutations(Devices)
=============================================================================
