# SmartSeat: a verification development

SmartSeat is a campus seat-reservation system: a NestJS API over PostgreSQL
(`apps/api`), seat terminals with presence sensors that talk to it over MQTT, and a
miniapp for students and administrators (`apps/miniapp`). This directory holds TLA+
modules of its core logic, TLC configurations that check them on small instances, and
TLAPS proofs of the properties that matter most.

`PROJECT.json` lists the components, the runs, which source lines every definition
models, the hazards with the properties that cover them, and the theorems.

## 1. Inventory

| Component (source) | State | Operations | Hard behaviour | What makes it correct | Modelled in |
|---|---|---|---|---|---|
| **Reservations** (`modules/reservations`) | `reservations`, `qr_tokens`, `checkin_records`, `seats.business_status`, no-show counters | create, check in, cancel, extend, release; no-show scan, usage scan; token refresh, token re-sync | Serializable transactions decide by a clock read before they start; token jobs are not transactions and overlap; the seat's status duplicates what the reservation table says | seat status follows the reservations; no overlapping bookings; one check-in, one token; endings are final and match study records; nothing waits for ever | `Reservations`, `SeatLease` |
| **Study records** (`modules/study-records`) | `study_records` | insert on every ending of a stay; statistics, streaks, leaderboards | week and day borders in Asia/Shanghai; a board reads twice | a record per ended stay; boards and statistics agree; who left the boards is on none | `Reservations`, `StudyStats` |
| **Admin** (`modules/admin`) | action log, maintenance records; writes seats, devices, reservations, anomalies | release a seat, seat and device maintenance, handle anomaly | terminal and log follow the commit; anomaly handling is READ COMMITTED | a closed anomaly stays closed once earlier handlings are over; maintenance and its records agree | `SeatDevice`, `Anomalies`, `TerminalSync`, `Login` |
| **Automatic rules** (`jobs/auto-rules.service.ts`) | timers only | four scans: no-show, usage, occupancy anomalies, device reconcile | a timer starts a scan whether or not the last one ended; anomalies and syncs follow the commit | a transition is reported, once; no anomaly without its cause | `Anomalies`, `PresenceWindow`, `TerminalSync` |
| **Devices, Seats** (`modules/devices`, `modules/seats`) | `devices`, `seats` availability columns, bindings | heartbeat, offline scan, bind, unbind, enable | READ COMMITTED transactions and one handler without any; rows read before they are updated | availability agrees with maintenance and device; bindings are unique; a silent device is found | `SeatDevice` |
| **Sensors** (`modules/sensors`) | `sensor_readings`, presence columns | record a report, evaluate the stability window, apply | two transactions around an evaluation; reports out of order | presence is stable exactly when the readings gave it throughout | `PresenceWindow`, `SeatDevice` |
| **Command bus** (`mqtt-command-bus.service.ts`) | last payload per device, in memory | publish, re-sync a device | the cache survives what it describes; broker may be away | nothing but a check-in sets light and display at odds; a seat open for check-in comes to show its token | `TerminalSync` |
| **Broker connection** (`mqtt-broker.service.ts`) | connection, map of subscriptions | connect, subscribe, publish, close | clean sessions, rounds of subscriptions that overlap, messages sent again | in the end everything is subscribed to; what was answered has arrived, in order | `BrokerLink` |
| **Anomalies** (`modules/anomalies`) | `anomaly_events` | create pending once, resolve pending, handle | find-then-create under a partial unique index | one pending event per cause; events and reservations agree; closed events settle | `Anomalies` |
| **Auth, Users** (`modules/auth`, `modules/users`) | users, OIDC states, login configuration | sign and consume a state, first login, change of mode | concurrent first logins, repeated callbacks | a state lets one callback pass; one first administrator; one account per identity; everybody gets in | `Login` |
| **Miniapp session** (`apps/miniapp/src/stores`, `router`) | session in memory and in storage | login, refresh, logout, launch, guards | answers that arrive after logout or another login; no answer at all; restarts | memory holds nothing the storage does not; the launch page leads on | `MiniappSession` |

How they interact. The API's services share one database; a reservation handler reads
seat and device columns that heartbeats, presence reports and administrators write, and
alone writes `business_status` (with the administrator's release). The scans are started
by timers. A device's recovery starts the token re-sync. Handlers publish to terminals
after their commit, and the command bus remembers what it published last. Heartbeats and
presence reports arrive through the broker connection's subscriptions. The miniapp's
session is what a login leaves behind.

## 2. How the modules fit together

* `SeatLease` is the abstract specification of `Reservations`, which implements it
  (`ImplementsLease`).
* `Reservations` lets other services write seat and device columns at any time
  (`OtherServicesWrite`); who these are is `SeatDevice`.
* `SeatDevice` takes a report's stable presence as given; `PresenceWindow` says when
  there is one.
* `TerminalSync` and `Anomalies` keep of a reservation's life only its status, and start
  where a handler of `Reservations` or a scan has committed.
* `BrokerLink` says what becomes of `TerminalSync`'s publications between API and broker.
* `Login` ends with a token, with which `MiniappSession` begins.

The components meet in the database and in the status of seats and devices, not in each
other's steps; products of two such modules have been kept small by giving each the
other's outputs as free choices, which allows more than the composition does.

Most modules are checked for several instances, and four runs check several modules:
`MCSeats`, `MCMessages`, `MCAccounts` and `MCProgress` are disjoint sums. A variable
`part`, set in the initial state and never changed, names the instance that moves; the
rest stands still. Where a module takes part more than once, its parts are restrictions
of one instance (`SeatDevice` in `MCSeats`, `Login` in `MCAccounts`): the constants are
the union of what the parts need, and a conjunct of the part's next-state relation says
what does not happen in it. A property is then about one part, or, where it holds
whatever the part, about all.

`MCSeats`, `MCMessages` and `MCAccounts` leave the constants of their instances to the
configuration, renamed where two instances share a name (`Reporters` are the tasks of
`PresenceWindow`, `Screens` the devices and `MaxCrashes` the failures of `TerminalSync`,
`Rounds` the tasks of `BrokerLink`). So their theorems are about every instance and about
the very definitions the runs check.

## 3. Modules of the reservation life cycle

`Reservations.tla` has one variable per table (or per column the component owns):
`res`, `qr`, `checkIns`, `study`, `noShows`, `business` (the seats' business status),
`column` (the seat and device columns other services own), `job` (the token jobs between
two of their awaits) and `now`.

* *Transactions.* Every handler that writes the reservation table runs in one
  Serializable transaction, hence in one action: `CreateReservation`, `CheckIn`,
  `CancelReservation`, `ExtendReservation`, `ReleaseCurrentUsage`, `AdminReleaseSeat`,
  `NoShowScan`, `UsageScan`. A rejected request changes nothing (its transaction rolls
  back, also the update that marks an expired token), so only accepted requests are
  steps. The scans handle all due rows in one step as the code does in one transaction.
* *Clocks.* Handlers read `now` before their transaction. An action takes an instant
  `t` out of `Clock`, the last `MaxLag` instants, so old requests and old scans commit
  after newer ones. `cancelReservation` alone reads the clock inside.
* *Token jobs.* `refreshActiveQrTokens` and `syncReservedCheckinStateForDevice` are not
  transactions: each of their statements is an action (`RefreshExpire`, `RefreshFind`,
  `IssueReadSeat`, `IssueReadDevice`, `IssueCreate`, `SyncReadDevice`,
  `SyncFindReservation`, `SyncExpire`, `SyncReuse`) and everything else may happen in
  between. Several runs of each may be under way. `JobFails` stands for an exception and
  for a restart of the process: jobs live in memory only.
* *Other services* write their columns at any time (`OtherServicesWrite`), in any
  combination the instance's `Conditions` allow.
* *Left out.* Payloads to terminals, logging, free-text reasons, the read-only queries,
  and the anomalies and logs of the administrator's release.

`SeatLease.tla` is what the component promises without tables, clocks and tokens: a seat
is granted to one lease when it is free, the lease may begin to be used once, and it ends
for good, giving the seat up in the same step. `Reservations` implements it under the
mapping `Holder`, `LeaseStage`.

`ReservationClaims.tla` states sentences of the documents that the code departs from.
`MCReservations.tla` holds the instances. Inside `Reservations.tla`, a definition marked
*Defect* is the neighbouring definition with one plausible mistake; each property is
known to fail under one of them.

## 4. Modules of the other components

**`SeatDevice`** (devices, seats, admin, sensors). `device`, `seat`, `binding`, `opened`
(open maintenance records) and `logged` are tables; `tx[p]` is a transaction between two
statements, with what it has read. At READ COMMITTED every statement that reads is a
step and the writes appear with the commit; a device row that was written early stays
locked until then (`Unlocked`). The administrator's transactions are Serializable:
whoever commits a seat row makes those roll back that have read it (`Overtaken`).
`setSeatEnabled` has no transaction at all: `EnableBegin`, `EnableReadDevice`,
`EnableCommit` are its three awaits. A heartbeat's age is a flag, `fresh`. Beside `Next`
the module has two restrictions of it, under which more is kept: `AloneNext`, in which a
transaction takes a step only while no other is under way, and `RecordedNext`, in which
nobody calls `setSeatEnabled`.

**`PresenceWindow`** (sensors, and the occupancy scan's rule). `readings` is the table in
the order of insertion, its timestamps are the devices' and come in any order. `Stable`
is `evaluate`, `HasStablePresence` the scan's rule; the three statements of a report are
`ReadWindow`, `ReadPrior`, `ApplyStablePresence`. The reference definition they are
compared with, `Signal`, is "what the last reading until an instant said".

**`TerminalSync`** (command bus, and every handler that publishes). `seat` keeps status,
phase of the check-in window and maintenance; `cache` the command bus's two maps;
`terminal` what the terminal has been sent and was there to receive. A payload is the
layout it shows. A handler's publications are steps after its commit; the device
reconcile marks terminals offline one by one (`MarkOffline`) and then goes through them.
Faults: the broker or a terminal goes away, a publication throws, the API restarts and
forgets its cache.

**`Anomalies`** (anomalies, rules, admin). A scan commits what it found, and its task then
goes through its keys: `FindPending`, `CreateEvent`, after a conflict `FindAgain`, which
throws and drops the rest of the keys when the event in conflict has been resolved. The
device reconcile marks its devices one commit at a time (`MarkOffline`) before it creates
their events. A heartbeat's `ResolvePending` comes later than its commit; handling an event
is a read and an update. A task may end between any two steps (`Fails`). In `EvaluateSeat`
the queries about one seat are one step.

**`BrokerLink`** (broker connection). `subscriptions` is the map in its order, `task` the
rounds that go through it, `granted` the broker's session. Of the client library, which
is not part of the repository, the module assumes what its documentation promises and
the code relies on: a request under way fails when the connection is lost, one made
without connection waits, quality of service 1 repeats in order.

**`Login`** (auth, users). A request goes through `mode` (with the creation of the missing
configuration), the provider's answer, the search by any of four unique columns, and the
SERIALIZABLE creation, which fails if an account appeared since its snapshot. An identity
is a set of column values. OIDC states expire, are consumed by an update that counts
rows, and may be presented again. `Existing` holds the configurations the process may be
started with, null for none yet.

**`StudyStats`** (study records). Time counts in units of eight hours, which is Shanghai's
distance from UTC; a board is two reads, between which stays end and users leave the
boards, which list `Students` only. `AnonymousName` orders equal places. Sorting is
specified, not computed (`Sorted`: the sequence of a set's elements in which each comes
before the next), and a sum of durations is the number of units of time in all records
(`SumDuration`), so that both can be reasoned about.

**`MiniappSession`** (miniapp). `state` is the store, `stored` the storage, `call` the
requests under way with the token they carry and what follows their answer; pages show
again when the app comes back, hence requests overlap. `Restart` empties memory and may
start on any page.

In every module a definition marked *Defect* is the neighbouring definition with one
plausible mistake; each property is known to fail under one of them.

## 5. Runs

| Run | Instance | Shows |
|---|---|---|
| Lifecycle | 1 student, 1 seat, 2 reservations, 1 token, 1 refresh; touching, overlapping and rejected slots; extensions; `MaxLag` 1 | `SeatFollowsReservation`, `StudyMatchesEnding`, `NoShowsCounted`, `ClockStatesDue` |
| Tokens | 1 reservation, 2 tokens, 1 refresh beside 1 re-sync; the terminal drops out, is replaced, is removed | `TypeOK`, `CheckInsAccountedFor`, `EndedIsFinal` |
| Booking | 2 students, 2 seats, 2 reservations, extensions | `NoDoubleBooking`, `ImplementsLease` |
| Liveness | 1 student, 1 seat, 2 reservations, fair scans | `WaitingResolves`, `OverdueSettles`, `AbsentSeatFreed` |
| Seats | *bindings*: 2 devices, 1 seat, 2 bindings, 2 requests at once, statement by statement. *alone*: 2 devices, 2 seats, 3 bindings, one request or scan at a time, all requests. *upkeep*: two administrators at once. *window*: every table of 3 readings of 2 devices over 5 instants | `ActiveBindingsUnique`; `BindingsAgree` and `OutOfServiceUnavailable` after every sequence of requests; `RecordTellsMaintenance`; `EvaluationSound`, `EvaluationComplete`, `SuspicionSound` |
| Messages | *events*: 2 devices, 2 seats, 2 reservations, 2 events, 2 tasks, one failure. *handling*: 2 seats, a device that moves, 2 tasks, closing and release. *terminals*: 1 terminal, 2 tasks, each a handler, a scan or a token refresh, one exception or restart. *broker*: 3 connections, 3 messages, 1 refusal | `PendingUnique`, `ReportedOnce`, `ReportsMatch`, `ClosedSettles`, `LightsSplitByCheckIn`, `AcceptedArrives` |
| Accounts | *oidc*: 2 states, callbacks repeated, expiry, changes of mode and redirect. *first*: 3 people of whom two show one openid, no configuration yet, one failure. *boards*: 2 users, three instants, eight hours apart, around Monday's midnight, 2 records | `OneAdministrator`, `SameAccount`, `StateUsedOnce`, `BoardAgreesWithStats`, `StreakOfItsWeek`, `OptOutRespected` |
| Progress | *session*, *scan*, *repair*, *reports*, *logins*, *broker*: the smallest instances with the faults that matter (below), all under fairness | `MirrorsStorage`, `LaunchLeadsOn`, `SilentFound`, `WaitingShowsToken`, `TransitionsReported`, `EveryoneGetsIn`, `HeardAgain` |
| Claim… | smallest instance that shows it | one sentence of the documents each, violated |

### Bounds

*Reservations.* Two reservations are enough for everything the properties relate (pairs
of reservations; a seat's past and present reservation); two tokens for the race of two
jobs, one being enough where tokens only open check-in. In Lifecycle check-in opens at
the start, so its slots have instants before, inside and after their window and their
stay; in the other runs check-in opens one instant earlier, hence at once, and `MaxTime`
lies behind the window. The offsets, the time to live and the ending-soon window are none
to two instants long, which keeps their order, not their ratio. The check-in window may
exceed the slot: the code allows any slot with start before end, also one shorter than
fifteen minutes. `MaxLag` 1 lets a request be overtaken by a scan; the runs without lag
are those whose properties do not depend on it. Symmetry is over primary keys (and, in
Booking, over the two alike seats and terminals), which no definition orders; runs with
liveness have none.

*Seats.* Uniqueness and agreement are about two devices or two seats, never three.
Requests that overlap are about one seat and two bindings (`MaxAsked`, `MaxBound`), which
is where they get in each other's way; single requests range over all. Three
bindings allow a device to be bound, moved and moved back. Three readings suffice for an
interruption inside a window whose start is covered by an earlier reading; thresholds of
one to three instants differ from each other as the configured ones do.

*Messages.* Two tasks make every race of find and create; a third adds none, since a task
only meets what is in the table. The failure may hit either between any two steps. Two
events let one be closed or resolved while another is created. In *terminals* the pairs of
display and light are kept per terminal, so one is enough; of two tasks one checks in and
the other publishes before, between and after the check-in's two publications.

*Accounts.* Two requests race; a third account is left for a third identity.

*Progress.* One of everything that is waited for, but in *reports* two reservations on two
seats, three events and two tasks, one of which may die: a task that throws over one stay's
event may take another's along. It has no devices, whose events are not asked for.
*repair* has one terminal that comes
and goes for ever, and one exception or restart; *broker* four connections, the last of
which lasts, so that rounds of earlier ones are still under way in it.

The proofs have none of these bounds.

Deadlock. In the runs of `Reservations` the scans always stay enabled and deadlock is
checked. The four sums say `CHECK_DEADLOCK FALSE`: where the rows of a table (bindings,
events, accounts, records), connections or time are used up, the instance really stops.

### Fairness

* `Reservations.FairSpec`: weakly fair in the two scans and in the clock. `setInterval` in
  `registerRuleTimer` starts a scan again and again, catches its failure, and each scan
  reads the clock afresh; so a scan that remains due eventually commits, provided the
  automatic rules are enabled (the default) and the process runs. `AbsentSeatFreed`
  assumes in its premise that the sensor eventually stops reporting somebody for good.
* `SeatDevice`, `TerminalSync`, `Anomalies`: a handler awaits nothing but the database and
  the broker, so its next step is taken; the timers start the offline scan and the token
  refresh.
* `BrokerLink`: the client library connects again (`reconnectPeriod`) and hands over every
  answer.
* `MiniappSession`: a request ends at the latest with its timeout; a page that was
  navigated to is shown.
* `Login`: a request's steps are taken, and a person who fails tries again: strong
  fairness in `Tries`, since a slot for the request may come and go. This is the premise
  of `EveryoneGetsIn`, which is about who keeps trying.

In `MCProgress` one disjunction stands for the six modules' conditions: `part` never
changes, so a disjunct of another part is never enabled. Nobody else is fair: students,
administrators, terminals, sensors and faults may act or not.

### What the documents say and the code does not keep

Four runs keep a sentence of the documents beside the code (the other sentences below are
definitions of their modules, under *What the code does not keep*; TLC refutes each with
the instance given, run over the module by itself).

* `docs/PRD.md:589` one reservation in progress per user: only overlaps are refused, so a
  student checks in to the next booking, on another seat, as soon as its check-in opens,
  while the stay before it has not ended (ClaimOneUsage).
* `apps/api/src/__tests__/api-admin.spec.ts:486` CLOSED is terminal: a handling checks what
  it read and updates by key, so one that read the event open writes over the CLOSED of
  another (ClaimClosedStays).
* `docs/PRD.md:271` no token while offline: status read and insert are separate
  statements (ClaimOnlineTokens).
* `docs/PLAN.md:147` PENDING_RELEASE follows ENDING_SOON only: a stay no scan saw in
  that window goes there from OCCUPIED (ClaimPendingRelease).

| Module | Statement | Said where, and what happens | Instance |
|---|---|---|---|
| `ReservationClaims` | `NoShowsOfThisWeek` | `docs/PRD.md:944`: no-shows of this week. The scan raises the counter and nothing resets it (`reservations.service.ts:748`) | 1 student, 1 seat, 1 reservation, weeks of 1 instant |
| `SeatDevice` | `OutOfServiceUnavailable`, requests overlapping | `docs/PRD.md:580`, `:1178`: seats under maintenance or with an offline device cannot be booked. A heartbeat writes the availability it derived from an older read of the seat (`devices.service.ts:538`), `setSeatEnabled` likewise (`seats.service.ts:185`) | 1 device, 1 seat, 2 requests, `ENTER`, switches; or 1 request and 1 scan |
| `SeatDevice` | `BindingsAgree`, requests overlapping | `docs/CHECKLIST.md:206`: binding again is idempotent. Beside an unbinding it writes seat and device of a binding that is no longer active (`devices.service.ts:254`) | 1 device, 1 seat, 2 requests |
| `SeatDevice` | `ErrorUnavailable` | `docs/PRD.md:230`: SENSOR_ERROR is the reason of a seat whose sensor fails. Enabling the seat, or its device going offline and back, drops it (`seats.service.ts:190`) | 1 device, 1 seat, 1 request, reports |
| `SeatDevice` | `FreshIsOnline` | `docs/PRD.md:216`: OFFLINE means no heartbeat within the threshold. The scan re-checks the online status, not the heartbeat (`devices.service.ts:430`) | 1 device, 1 request, 1 scan |
| `SeatDevice` | `LogTellsMaintenance` | `docs/PRD.md:1223`: changes of maintenance are logged. `setSeatEnabled` writes no entry (`seats.service.ts:169`) | 1 seat, 1 request |
| `PresenceWindow` | `PresenceUpToDate` | `docs/PRD.md:874`: a report updates the seat's presence in real time. A delayed or overtaken report takes it back (`sensors.service.ts:146`) | 1 device, 2 tasks, 4 readings |
| `PresenceWindow` | `SuspicionFounded` | `docs/PRD.md:291`: presence persists for the threshold. Without a reading before it the rule asks for none (`auto-rules.service.ts:347`) | 2 devices, 2 readings in order |
| `PresenceWindow` | `UntrustedSuspected` | `docs/PRD.md:282`: UNKNOWN or ERROR for two minutes is a sensor anomaly. The two in turns are not (`auto-rules.service.ts:312`) | 1 device, 4 readings in order |
| `TerminalSync` | `RecoveredShowsPresent` | `docs/PRD.md:188`: a recovered terminal is sent the seat's present state. It is sent the cached one (`mqtt-command-bus.service.ts:66`) | 1 terminal, 1 handler |
| `TerminalSync` | `QuietShowsStatus` | `docs/PRD.md:875`: after a change of state the display is published. Creating, cancelling, extending and releasing publish nothing (`reservations.service.ts:404`) | 1 terminal, 1 handler |
| `TerminalSync` | `LightMatchesDisplay`, two publishing at once | `docs/PRD.md:442`: every status has its light. A token published between a check-in's display and light leaves a mixed pair (`reservations.service.ts:1328`) | 1 terminal, 1 handler, 1 refresh |
| `Anomalies` | `AllReported` | `docs/PRD.md:289`, `:293`: a no-show and an overdue stay make an event. A scan that ends after its commit makes none, and none later (`auto-rules.service.ts:92`); one that creates an event another scan has created and a release has resolved throws, and the rest of what it found is lost (`anomalies.service.ts:96`) | 1 reservation, 1 task, 1 failure; or 2 stays, 2 tasks, no failure |
| `Anomalies` | `OnlineNotPending`, `OfflineReported` | `apps/api/src/__tests__/api-iot.spec.ts:1623`, `docs/PRD.md:1179`: a device's recovery resolves its event, an offline device has one. Either may meet the event of another spell (`auto-rules.service.ts:174`, `mqtt-device-state.service.ts:85`) | 1 device, 2 events, 2 tasks |
| `Anomalies` | `UnhandledUnique` | `docs/CHECKLIST.md:289`: scans make no second event while one is unhandled. An acknowledged one is not looked for (`anomalies.service.ts:137`) | 1 seat, 2 events, 1 task |
| `BrokerLink` | `HeardAgain`, with a refusal | `docs/PRD.md:1182`: heartbeats that resume are heard. A subscription that failed is not tried again before the next connection (`mqtt-broker.service.ts:188`) | 2 topics, 3 connections, 1 refusal |
| `Login` | `NoFailedStatement` | `docs/PRD.md:88`, `apps/api/src/__tests__/api-auth.spec.ts:327`: a first login creates its user; the configuration is returned. The loser of a race gets an internal error (`users.service.ts:115`, `auth-config.service.ts:79`) | 2 requests of one openid |
| `Login` | `SameAccount`, with a second subject | `docs/PLAN.md:381`: issuer and subject are the stable key. An account found by its number does not get the new subject (`users.service.ts:239`) | identities {s1,n1}, {s2,n1}, {s2} |
| `Login` | `LogTellsMode` | `docs/PRD.md:1223`: changes of mode are logged. Update and entry are two statements (`auth-config.service.ts:53`) | 2 updates, 1 failure |
| `MiniappSession` | `UserIsTokens` | `apps/miniapp/src/stores/__tests__/auth.spec.ts:112`: /me refreshes the user. Its answer is kept with the token the store holds by then (`auth.ts:153`) | 2 users, 2 tokens, 2 requests |
| `MiniappSession` | `SessionKept` | `docs/CHECKLIST.md:339`, `docs/PLAN.md:619`: a 401 ends its session; sessions persist. A late 401 ends the next one, and a launch without network ends a good one (`auth.ts:175`, `guards.ts:29`) | 2 tokens, 2 requests; or 1 request that fails |
| `MiniappSession` | `HomeIsForRole` | `guards.ts:57` compares role and page when /me answers, perhaps to another session | 2 requests |

Where such a statement holds in a smaller world, a run checks it there and the hazard's
note in `PROJECT.json` says so: one request at a time, no refusal. That is worth knowing by
itself: what is broken is the overlap, not the handler. Where something weaker is kept in
every world, that is what is checked and proved: beside `ClosedStays`, which fails,
`ClosedSettles` (a closed event stays closed once the handlings that began before it was
closed are over); beside `LightMatchesDisplay`, `LightsSplitByCheckIn`; beside
`AllReported`, `ReportsMatch` and `TransitionsReported`, which name what takes a report away.

## 6. Proofs

For all values of the constants, under the assumptions named in the modules: null is
none of the values it stands beside (`NullAssumption`, `RowAssumption`); offsets and
bounds are naturals (`TimeAssumption`, `BoundAssumption`); slots and extension ends are
integers; the set of reservation ids is finite, which the no-show count needs to be a
number; users and their anonymous names are ordered (`NameAssumption`); inputs are of
their types (`InputAssumption`, `StatusAssumption`, `SuspicionAssumption`,
`IdentityAssumption`, `UserAssumption`, `ConfigAssumption`). TLC evaluates them all on the
instances of the runs.

Two properties hold only of requests that do not overlap, and two of restricted inputs,
as section 5 says. Their theorems assume just that, by name, and the runs check them in
such worlds: `BindingsAgree` and `OutOfServiceUnavailable` where a transaction takes a step
only while no other is under way (`AloneNext`); `RecordTellsMaintenance` where nobody
switches seats (`RecordedNext`); `SameAccount` with identities that satisfy `OfOnePerson`.
`MessagesProofs!TypesCorrect` leaves out the part *handling*, which is `Anomalies` once
more and which `TypesInvariant` covers for any constants, and assumes finitely many
topics, which the types of a round of subscriptions speak of.

Every invariant and every step property of the runs is stated by a theorem. Where a run
joins several modules, the theorem is about the behaviours of the MC module (`AllSpec`)
and the run's own definition; for the parts that are the module the MC module extends
(`Anomalies`, `Login`, `SeatDevice`), about that module's. What the prover is used on is then
again one inductive invariant per component: `part` never changes, the parts that do not
move keep theirs, and each of `PartsMove`, `NextMessages`, `LoginsAreLogins` says that a step
of the sum is a step of the component. Theorems about a module that takes part as an
instance (`PresenceWindow`, `TerminalSync`, `BrokerLink`, `StudyStats`) are in the proof module
of the sum: this prover knows facts of an extended module only.

*Reservations* (`ReservationsProofs`).

* `TypeCorrect`: `TypeOK`, columns together with foreign keys. The keys are part of the
  induction: a token's reservation has been inserted, a job that is about to insert has
  read a device; without that the type of the inserted row does not follow.
* `SeatCorrect`: `SeatFollowsReservation` is inductive with `TypeOK`. Every step either
  inserts a row on a FREE seat, keeps a row active, or ends a set of rows and frees their
  seats (`RowsEnd`); the proof is by these kinds of step.
* `BookingCorrect`: `NoDoubleBooking` with the strengthening that an active reservation
  starts before it ends. Without it an extension, which checks only the added interval,
  could not be glued to the interval already held.
* `StudyCorrect`: `StudyMatchesEnding` with the strengthening `StudyInv`: a
  checked-in row has its check-in instant, a waiting one has none.
* `FinalCorrect`: `EndedIsFinal`, a step property from the same kinds of step.
* `ClockStatesCorrect`: `ClockStatesDue`, for any age of the clocks handlers use.
* `CheckInsCorrect`: `CheckInsAccountedFor` with `CheckInInv`: a check-in that happened is
  of a reservation past waiting, and a waiting one has no check-in instant; otherwise a
  later booking or check-in could take the row of an earlier one. Token jobs leave used
  tokens alone, whatever they read before.
* `NoShowsCorrect`: `NoShowsCounted`. A scan raises each student's counter by the number
  of rows it ends; the rows it ends were waiting, hence no no-shows before, and the sizes
  of disjoint finite sets add.
* `LeaseCorrect`: `ImplementsLease`, the refinement of `SeatLease`. The lease of a seat is
  the seat's active reservation, which `SeatFollowsReservation` makes one row at most; a
  creation grants, a check-in begins, rows that end give back, and every
  other step (tokens, extensions, the clock) is a stutter.

*Seats and devices* (`SeatDeviceProofs`, and `SeatsProofs` for the sum). `ActiveBindingsUniqueInvariant` and
`TypesInvariant`, by one invariant: rows are of their types, every seat satisfies
`SeatOK` (unavailable exactly when it has a reason), active bindings are unique, and each
transaction knows the rows its next statement is about (`TxOK`, which depends on the
program counter: one that is to deactivate a binding holds the key of a row that exists).
Uniqueness rests on the partial unique indexes alone: what a bind has read before may be
stale, and the proof does not use it. Steps are of three kinds: reads, commits of a seat
row (which may roll others back), commits of a device row with its seat's.

* `RecordTellsMaintenanceInvariant`, for any number of overlapping administrators and
  devices: what a Serializable transaction overtakes rolls back, so one that is to commit
  has read the maintenance its seat still has (`RecordInv`). It is about `RecordedNext`,
  since `setSeatEnabled` keeps no records.
* `BindingsAgreeAlone` and `OutOfServiceAlone`, by `AloneInv`: both properties together
  with `Current`, that what a transaction has read is still so, but for the age of the
  last heartbeat. Each needs the other: the seat a heartbeat makes available is the one
  its device names, which must be the seat that is bound. `Current` is just what
  overlapping requests break; the eight writers of a seat's availability are right one
  after the other. Reads preserve `AloneInv` also when they overlap; only a commit needs
  that nobody else has read what it is about to change (`OthersIdle`), which is where
  `AloneNext` is used.
* `TypesCorrect`, `AgreementCorrect`, `ServiceCorrect`, `RecordsCorrect` are these of the
  behaviours of `MCSeats`.

*Presence* (`SeatsProofs`). `EvaluationCorrect`: `evaluate` finds a presence stable only if
the readings gave it throughout the threshold, and always if they did and no instant has
two of them. `SuspicionCorrect`: the anomaly scan finds no presence that readings
interrupt, where there is a reading before the time it asks about. Both are facts about
the queries for tables of any size, in any order of arrival, and for any thresholds, so
`TypeOK` is invariant enough. They need that the latest reading until an instant exists,
which follows from the well-foundedness of the naturals; no induction over the table is
made.

*Anomalies* (`AnomaliesProofs`). Nothing is assumed of how many tasks overlap or fail.
`PendingUniqueInvariant` rests on the index and on the fact that no handling makes an event
pending again. `ReportedOnceInvariant` needs `ReportInv`: a no-show is in one event or in
what one task is still to create, never in two places, and whatever is to be reported is
already true and stays so (`Later`: reservations go forward). A scan adds keys whose
reservations were WAITING, hence in no event and no task; a creation moves a key to the
table; every other step only narrows what is to be done.

* `ReportsMatchInvariant`: that events say what is true is the first half of `ReportInv`.
  That nothing is forgotten is `CountInv`, with `WorkInv`: a task creates events of one kind
  at a time, and meets a conflict only with an event that has the very key it was to
  create, never about a no-show (those keys are in one place). So a key leaves a task when
  its event exists, when the task fails, or when `FindAgain` throws over an event that was
  resolved meanwhile: for that stay the report itself, for the others of the scan what
  `OtherResolved` names.
* `ClosedEventsSettle`: a handling begins by reading an event that is not closed, so no new
  one begins on an event that is; and neither a release nor a heartbeat takes one that is
  no longer open.

*Login* (`LoginProofs`). `OneAdministratorInvariant`: the creation that makes an
administrator has seen an empty table and commits only if it is still empty.
`StateUsedOnceInvariant`: a state that let a callback pass is consumed, and only one that
is not consumed lets one pass. `SameAccountInvariant`, by `AccountInv`: no two accounts
have a value in common (openid, subject, number), and a session or a login about to get
one has a value in common with its account. It assumes `OfOnePerson`: what tells a person
is in all identities of that person, so that having a value in common is transitive. A
number of one person under two subjects, where it is not, is the row of section 5.

*Miniapp session* (`MiniappSessionProofs`). `MirrorsStorageInvariant` with the types: a
request that carries a token carries one that was issued.

*Terminals* (`MessagesProofs`). `OnlyCheckInSplits`, and `LightsSplitOnlyByCheckIn` of the
sum, whatever overlaps, fails or restarts. A token sets both parts in one go
(`Promise.all`); a synchronisation repeats the pair of the cache, or builds both parts from
the seat where the cache has neither. `LitInv` is what that needs: the cache never has a
light without a display, so a missing display is a missing pair.

*Broker connection* (`MessagesProofs`). `AcceptedArrivesInvariant`, and `AcceptedCorrect` of
the sum, by `OrderInv`: unanswered messages are in ascending order, all are newer than what
was answered, and the broker has had a prefix of them in this connection. A lost connection
makes the broker go back, never behind what was answered. The types need that a round of
subscriptions stays within the map, in which no topic is twice.

*Statistics and boards* (`AccountsProofs`), by `StatsInv`: records are finitely many and
none ends later than now, and what a board of streaks remembers between its two reads is
of users who had studied in its week by then (`Pending`), which more records leave true.

* Two lemmas carry the rest. `SortExists`: a finite set that a relation orders strictly
  can be sorted; the set of which this fails with the fewest elements would be made of two
  parts, on either side of any of its elements, that can be sorted. `StreakIsRun`: sorted
  days, as far as each follows on the next, are the run of days that ends with the last,
  and no day precedes that run. Both are by the least natural number of which something
  would be false: that the naturals are well-founded is a theorem of the library, and takes
  the place of an induction over data.
* `OptOutCorrect`: both reads, or the one there is, look at the preference, and a board is
  answered in the step of the last. `BoardsCorrect`: the rows a board attributes to a user
  are those of the user's own statistics at that instant; for streaks because a week ends
  later than now. `StreaksCorrect`: a day of the second read is one of the week or the run
  before it, and the first read has found one in the week.

Only model-checked:

* Liveness (`WaitingResolves`, `OverdueSettles`, `AbsentSeatFreed` and what Progress
  checks), which is out of the prover's reach as is anything with ENABLED.

## 7. Not modelled

* API plumbing (configuration, OpenAPI, bootstrapping, error mapping), the type packages
  and the API client: no state. A failed statement is kept in `Login`, where it ends a
  login.
* Device simulator and firmware are placeholders at this commit; deployment is scripts.
* `createSeat`, `updateSeat`, `createDevice`, `updateDevice`, `updateMyProfile` write
  descriptive columns and initial rows; the rows exist from the start.
* Parsing of topics and payloads, rejected messages, logging, job metrics, free texts.
* Token verification and the admin guard read one row and decide; that a role read once
  may be stale afterwards changes nothing these modules keep.
* Lists, details, schedules and the dashboard: queries that change nothing. Leaderboards
  and statistics are modelled, since they are computed twice over.
* The reservation pages of the miniapp: they hold no state beyond what a request returns.
* The exclusion constraints of the schema: `NoDoubleBooking` and `SeatFollowsReservation`
  are proved without them.
