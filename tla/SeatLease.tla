----------------------------- MODULE SeatLease -----------------------------
(***************************************************************************)
(* What the reservation component promises about a seat, without tables,   *)
(* tokens, clocks or scans: a seat is leased to one holder at a time; a    *)
(* lease is granted on a free seat only, may begin to be used once, and    *)
(* when it ends, used or not, it ends for good and frees the seat.         *)
(***************************************************************************)
CONSTANTS Seats, Leases, Nobody

VARIABLES
  holder,  \* holder[s]: the lease that holds seat s, or Nobody
  stage    \* stage[l]: how far lease l has come

leaseVars == <<holder, stage>>

Stage == {"unborn", "waiting", "using", "over"}

LeaseInit ==
  /\ holder = [s \in Seats |-> Nobody]
  /\ stage = [l \in Leases |-> "unborn"]

Grant(s, l) ==
  /\ holder[s] = Nobody /\ stage[l] = "unborn"
  /\ holder' = [holder EXCEPT ![s] = l]
  /\ stage' = [stage EXCEPT ![l] = "waiting"]

Begin(s) ==
  /\ holder[s] # Nobody /\ stage[holder[s]] = "waiting"
  /\ stage' = [stage EXCEPT ![holder[s]] = "using"]
  /\ UNCHANGED holder

(* The seats S are given up together: a scan ends several leases at once.  *)
End(S) ==
  /\ \A s \in S : holder[s] # Nobody
  /\ holder' = [s \in Seats |-> IF s \in S THEN Nobody ELSE holder[s]]
  /\ stage' = [l \in Leases |->
                 IF \E s \in S : holder[s] = l THEN "over" ELSE stage[l]]

LeaseNext ==
  \/ \E s \in Seats, l \in Leases : Grant(s, l)
  \/ \E s \in Seats : Begin(s)
  \/ \E S \in SUBSET Seats : End(S)

LeaseSpec == LeaseInit /\ [][LeaseNext]_leaseVars
=============================================================================
