----------------------------- MODULE MCAccounts -----------------------------
(***************************************************************************)
(* One run over Login, under two restrictions, and StudyStats: who an      *)
(* account belongs to, and what it is shown of its studies.  A behaviour   *)
(* is of the kind that part names:                                         *)
(*   oidc    callbacks repeated and overlapping, states expire, the mode   *)
(*           and the redirect change                                       *)
(*   first   first logins overlap, two of three people show one openid,    *)
(*           the configuration is not yet there, one request breaks off    *)
(*   boards  two users' stays over a Monday's midnight, this and last      *)
(*           week's boards, changes between a board's two reads            *)
(***************************************************************************)
EXTENDS Login, TLC

CONSTANTS o1, o2, u1, p1, n1

(* The constants of StudyStats.                                            *)
CONSTANTS Users, Students, AnonymousName, Limit, MinTime, MaxTime, MaxRecords

VARIABLES part, now, checkedInAt, records, enabled, request, board

accounts == vars
studies == <<now, checkedInAt, records, enabled, request, board>>
all == <<part, accounts, studies>>

(* What the providers say of people: an openid, perhaps with a unionid; a  *)
(* subject with a number.                                                  *)
Wechat == {{o1}, {o1, u1}, {o2}}
Oidc == {{p1, n1}}
Shown == [m \in Modes |-> IF m = "WECHAT" THEN Wechat ELSE Oidc]
OidcOrNone == {Null} \cup [mode: {"OIDC"}, redirect: Redirects]

(* The parts of Login: requests show identities of a set, and what the     *)
(* other part is about does not happen.                                    *)
Show(ids) == \A t \in Tasks : task'[t].ids \in ids \cup {{}}

OidcNext == Next /\ Show(Oidc \cup {{o1}}) /\ failures' = 0

FirstNext ==
  /\ Next /\ Show(Wechat) /\ \A t \in Tasks : task'[t].op # "update"
  /\ config' \in {Null, [mode |-> "WECHAT", redirect |-> 1]}

(* The last hours of a Sunday and the first of Monday; user 2 comes first  *)
(* by anonymous name.                                                      *)
Boards == INSTANCE StudyStats

SecondFirst == <<2, 1>>

ASSUME BoardAssumption == Boards!TimeAssumption /\ Boards!NameAssumption

NoStudies ==
  /\ now = Null /\ checkedInAt = Null /\ records = Null
  /\ enabled = Null /\ request = Null /\ board = Null

AllInit ==
  \/ part = "oidc" /\ Init /\ config # Null /\ NoStudies
  \/ part = "first" /\ Init /\ config = Null /\ NoStudies
  \/ part = "boards" /\ Boards!Init /\ Init /\ config = Null

AllNext ==
  \/ part = "oidc" /\ OidcNext /\ UNCHANGED <<part, studies>>
  \/ part = "first" /\ FirstNext /\ UNCHANGED <<part, studies>>
  \/ part = "boards" /\ Boards!Next /\ UNCHANGED <<part, accounts>>

AllSpec == AllInit /\ [][AllNext]_all

Symmetry == Permutations(Tasks) \cup Permutations(UserIds) \cup Permutations(States)

-----------------------------------------------------------------------------
(* The properties of the modules; the other invariants of Login hold in    *)
(* all of the parts.                                                       *)

(* The type invariants of Login and StudyStats.                            *)
Types == TypeOK /\ (part = "boards" => Boards!TypeOK)

(* StudyStats' properties: no board is computed in the other parts.        *)

(* This week's board and a user's own statistics, computed apart, say the  *)
(* same (getLeaderboard, getMyStats).                                      *)
BoardAgreesWithStats == Boards!BoardAgreesWithStats

(* A week's streak is the run of days that reached that week, whatever is  *)
(* studied afterwards (findStreakRecordsForEligibleUsers).                 *)
StreakOfItsWeek == Boards!StreakOfItsWeek

(* Who has left the boards is on none, also who left it between the reads. *)
OptOutRespected == Boards!OptOutRespected
=============================================================================
