----------------------------- MODULE StudyStats -----------------------------
(***************************************************************************)
(* Study records, the statistics a student sees of them, and the weekly    *)
(* boards: weeks and days are Shanghai's, boards are computed when they    *)
(* are asked for, and the streak board reads the records twice, with       *)
(* endings of stays and changes of mind in between.                        *)
(* The unit of time is eight hours, which is Shanghai's distance from UTC; *)
(* instant 0 is the epoch's, a Thursday.                                   *)
(***************************************************************************)
EXTENDS Integers, FiniteSets, Sequences

CONSTANTS
  Users,           \* user ids, ordered as numbers
  Students,        \* those who have the role STUDENT
  AnonymousName,   \* their anonymous names' order; names may be equal
  Limit,           \* LEADERBOARD_ENTRY_LIMIT
  MinTime, MaxTime,  \* instants modelled
  MaxRecords,      \* bound
  Null

TimeAssumption == MaxTime \in Nat /\ MinTime \in 0..MaxTime /\ Limit \in Nat \ {0}

NameAssumption ==
  Users \subseteq Nat /\ Students \subseteq Users /\ AnonymousName \in [Users -> Nat]

OFFSET == 1   \* ASIA_SHANGHAI_OFFSET_MS
DAY == 3
WEEK == 7 * DAY
MIN_VALID == 1   \* a shorter stay is invalid
MaxStay == 2     \* bound

Metrics == {"WEEKLY_DURATION", "WEEKLY_VISITS", "STREAK_DAYS"}

VARIABLES
  now,
  checkedInAt,  \* users at their seats
  records,      \* study_records
  enabled,      \* users.leaderboard_enabled
  request,      \* a streak board between its two reads
  board         \* what the last step answered, or Null

data == <<checkedInAt, records, enabled>>
vars == <<now, data, request, board>>

Record == [user: Users, start: Nat, duration: Nat, validFlag: BOOLEAN]

Init ==
  /\ now = MinTime
  /\ checkedInAt = [u \in Users |-> Null]
  /\ records = {}
  /\ enabled = [u \in Users |-> TRUE]
  /\ request = Null /\ board = Null

-----------------------------------------------------------------------------
(* Days and weeks *)

LocalDay(t) == (t + OFFSET) \div DAY
UtcWeekday(day) == (day + 4) % 7   \* 0 is Sunday

ToDateKey(t) == LocalDay(t) * DAY - OFFSET

StartOfWeek(t) ==
  (LocalDay(t) - ((UtcWeekday(LocalDay(t)) + 6) % 7)) * DAY - OFFSET

-----------------------------------------------------------------------------
(* What records amount to *)

(* Array.sort of a set whose elements Before puts in order.                *)
Sorted(S, Before(_, _)) ==
  CHOOSE s \in [1..Cardinality(S) -> S] :
    \A i, j \in 1..Cardinality(S) : i < j => Before(s[i], s[j])

(* The units of time of all records, each counted once.                    *)
SumDuration(rs) == Cardinality(UNION {{r} \X (1..r.duration) : r \in rs})

(* The days, latest first, as far as each follows on the next.             *)
StreakDays(rs) ==
  LET days == Sorted({ToDateKey(r.start) : r \in rs}, LAMBDA a, b : a > b)
      unbroken == {k \in 1..Len(days) : \A i \in 1..(k - 1) : days[i] - days[i + 1] = DAY}
  IN  Cardinality(unbroken)

MetricValue(metric, rs) ==
  CASE metric = "WEEKLY_DURATION" -> SumDuration(rs)
    [] metric = "WEEKLY_VISITS"   -> Cardinality(rs)
    [] metric = "STREAK_DAYS"     -> StreakDays(rs)

InWeek(rs, week) == {r \in rs : r.validFlag /\ week <= r.start /\ r.start < week + WEEK}

(* getMyStats *)
MyStats(u, at) ==
  LET mine == {r \in records : r.user = u /\ r.validFlag /\ r.start <= at}
      weeks == InWeek(mine, StartOfWeek(at))
  IN  [metric \in Metrics |->
         MetricValue(metric, IF metric = "STREAK_DAYS" THEN mine ELSE weeks)]

-----------------------------------------------------------------------------
(* Boards *)

Eligible(rs) == {r \in rs : enabled[r.user] /\ r.user \in Students}

Ahead(a, b) ==
  \/ a.value > b.value
  \/ a.value = b.value /\ AnonymousName[a.user] < AnonymousName[b.user]
  \/ a.value = b.value /\ AnonymousName[a.user] = AnonymousName[b.user] /\ a.user < b.user

RankLeaderboard(metric, rs) ==
  LET valued == {[user |-> u, value |-> MetricValue(metric, {r \in rs : r.user = u})] :
                   u \in {r.user : r \in rs}}
  IN  Sorted({e \in valued : e.value > 0}, Ahead)

OwnRank(ranked, me) == {i \in DOMAIN ranked : ranked[i].user = me}

Answer(asked, rs) ==
  LET ranked == RankLeaderboard(asked.metric, rs) IN
  board' = [asked |-> asked,
            entries |-> SubSeq(ranked, 1, IF Len(ranked) < Limit THEN Len(ranked) ELSE Limit),
            current |-> OwnRank(ranked, asked.me)]

(* A board is asked for at any instant's week, this week's if none is named.*)
GetLeaderboard(me, metric, week) ==
  LET eligible == Eligible(InWeek(records, week))
      asked == [me |-> me, metric |-> metric, week |-> week, now |-> now,
                users |-> {r.user : r \in eligible}]
  IN
  /\ request = Null
  /\ IF metric = "STREAK_DAYS" /\ eligible # {}
       THEN request' = asked /\ board' = Null
       ELSE Answer(asked, eligible) /\ UNCHANGED request
  /\ UNCHANGED <<now, data>>

(* Defect: records after the week's end.                                   *)
StreakRecordsLater(asked) ==
  {r \in records : r.validFlag /\ r.user \in asked.users /\ r.start <= asked.now}

(* Defect: records of the week alone.                                      *)
StreakRecordsOfWeek(asked) == {r \in InWeek(records, asked.week) : r.user \in asked.users}

StreakRecords(asked) ==
  {r \in records : r.validFlag /\ r.user \in asked.users
                   /\ r.start < asked.week + WEEK /\ r.start <= asked.now}

(* Defect: who takes part is not asked again.                              *)
StreakEligibleBefore(asked) == StreakRecords(asked)

StreakEligible(asked) == Eligible(StreakRecords(asked))

(* findStreakRecordsForEligibleUsers                                       *)
FindStreakRecords ==
  /\ request # Null
  /\ Answer(request, StreakEligible(request))
  /\ request' = Null
  /\ UNCHANGED <<now, data>>

-----------------------------------------------------------------------------
(* What changes them *)

CheckIn(u) ==
  /\ u \in Students
  /\ checkedInAt[u] = Null /\ Cardinality(records) < MaxRecords
  /\ checkedInAt' = [checkedInAt EXCEPT ![u] = now]
  /\ board' = Null
  /\ UNCHANGED <<now, records, enabled, request>>

Duration(u) == now - checkedInAt[u]

(* The stay ends, marked invalid by an administrator perhaps.              *)
UpsertFromReservation(u, marked) ==
  LET duration == Duration(u) IN
  /\ checkedInAt[u] # Null
  /\ records' = records \cup
       {[user |-> u, start |-> checkedInAt[u], duration |-> duration,
         validFlag |-> ~marked /\ duration >= MIN_VALID]}
  /\ checkedInAt' = [checkedInAt EXCEPT ![u] = Null]
  /\ board' = Null
  /\ UNCHANGED <<now, enabled, request>>

UpdateLeaderboardPreference(u) ==
  /\ enabled' = [enabled EXCEPT ![u] = ~@]
  /\ board' = Null
  /\ UNCHANGED <<now, checkedInAt, records, request>>

Tick ==
  /\ now < MaxTime /\ now' = now + 1
  /\ \A u \in Users : checkedInAt[u] # Null => now < checkedInAt[u] + MaxStay
  /\ request # Null => now = request.now
  /\ board' = Null
  /\ UNCHANGED <<data, request>>

Next ==
  \/ Tick \/ FindStreakRecords
  \/ \E u \in Users :
       \/ CheckIn(u) \/ UpdateLeaderboardPreference(u)
       \/ \E marked \in BOOLEAN : UpsertFromReservation(u, marked)
       \/ \E metric \in Metrics, week \in {StartOfWeek(t) : t \in MinTime..now} :
            GetLeaderboard(u, metric, week)

Spec == Init /\ [][Next]_vars

-----------------------------------------------------------------------------
(* Properties *)

TypeOK ==
  /\ now \in MinTime..MaxTime
  /\ checkedInAt \in [Users -> Nat \cup {Null}]
  /\ records \subseteq Record /\ \A r \in records : r.start + r.duration <= now
  /\ enabled \in [Users -> BOOLEAN]

Answered == board' # Null
Listed == {board'.entries[i] : i \in DOMAIN board'.entries}

(* What this week's board says of a user is what the user's own statistics *)
(* say at that moment, although the two are computed apart.                *)
BoardAgreesWithStats ==
  [][Answered /\ board'.asked.week = StartOfWeek(board'.asked.now)
     => \A e \in Listed :
          e.value = MyStats(e.user, board'.asked.now)[board'.asked.metric]]_vars

Studied(u, before) ==
  {LocalDay(r.start) : r \in {x \in records : x.user = u /\ x.validFlag /\ x.start < before}}

(* A past week's streak is the run of days that reached that week: its last *)
(* day lies in the week, and what was studied later does not change it.    *)
StreakOfItsWeek ==
  [][Answered /\ board'.asked.metric = "STREAK_DAYS"
     => \A e \in Listed :
          LET asked == board'.asked
              last == LocalDay(asked.week) + 6
              days == Studied(e.user, asked.week + WEEK) \cap Studied(e.user, asked.now + 1)
          IN  \E d \in (last - 6)..last :
                /\ (d - e.value + 1)..d \subseteq days
                /\ d - e.value \notin days /\ \A x \in days : x <= d]_vars

(* Who has left the boards is on none, also who left it between the reads. *)
OptOutRespected == [][Answered => \A e \in Listed : enabled[e.user]]_vars
=============================================================================
