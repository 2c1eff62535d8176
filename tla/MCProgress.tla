----------------------------- MODULE MCProgress -----------------------------
(***************************************************************************)
(* One run over independent instances of six modules: what must come about *)
(* in the end, under the fairness that each module states.  A behaviour is *)
(* one of the instance that part names, the others never leaving their     *)
(* initial states:                                                         *)
(*   session    the miniapp, a request under way, restarts                 *)
(*   scan       a silent terminal beside heartbeats and switches           *)
(*   repair     a terminal after lost messages, exceptions and restarts    *)
(*   reports    two scans, their events about two stays, one may break off *)
(*   logins     first logins of one person that spoil each other           *)
(*   broker     subscriptions over lost connections                        *)
(***************************************************************************)
EXTENDS MiniappSession, TLC

CONSTANTS d1, s1, s2, b1, q1, q2, q3, r1, r2, e1, e2, e3, o1, o2, a1

VARIABLES part,
  device, seat, binding, opened, logged, tx,
  display, online, cache, arriving, linked, terminal, publishing, losses,
  event, res, bound, scan, breaks,
  config, users, states, login, sessions, passed, errors, modeLog, failures,
  client, connected, subscriptions, round, granted, connects, refusals,
  published, inflight, taken, accepted, at

(* The part "session" is MiniappSession with the constants of Progress.cfg.*)

(* The provider names the unionid only sometimes.                          *)
People == {{o1}, {o1, o2}}

Scanning == INSTANCE SeatDevice WITH
  Devices <- {d1}, Seats <- {s1}, BindingIds <- {b1}, Requests <- {q1}, Scans <- {q2},
  Reports <- {"PRESENT", "ERROR"}, Maintenance <- {"ENTER", "EXIT", "RELEASE"},
  Switches <- BOOLEAN

Repair == INSTANCE TerminalSync WITH
  seat <- display, connected <- arriving, task <- publishing, failures <- losses,
  Devices <- {d1}, Jobs <- {q1}, Refreshes <- {q2}, Maintenance <- {},
  Faults <- {"terminal", "exception", "restart"}, MaxFailures <- 1

Reporting == INSTANCE Anomalies WITH
  device <- bound, task <- scan, failures <- breaks,
  Devices <- {}, Seats <- {s1, s2}, Reservations <- {r1, r2},
  EventIds <- {e1, e2, e3}, Tasks <- {q1, q2}, Statuses <- {}, Suspicions <- {},
  Rebinding <- FALSE, MaxFailures <- 1

Logins == INSTANCE Login WITH
  task <- login,
  Tasks <- {q1, q2}, UserIds <- {a1}, States <- {},
  Identities <- [WECHAT |-> People, OIDC |-> {}],
  Redirects <- {1}, Existing <- {[mode |-> "WECHAT", redirect |-> 1]},
  DefaultMode <- "WECHAT",
  MaxUpdates <- 0, MaxFailures <- 1

Broker == INSTANCE BrokerLink WITH
  task <- round,
  Topics <- {"heartbeat", "presence"}, Tasks <- {q1, q2, q3},
  MaxConnects <- 4, MaxRefusals <- 0, MaxPublished <- 0

AllInit ==
  /\ part \in {"session", "scan", "repair", "reports", "logins", "broker"}
  /\ Init /\ Scanning!Init /\ Repair!Init /\ Reporting!Init /\ Logins!Init /\ Broker!Init
  /\ res[r1].seat = s1 /\ (part # "reports" => res[r2].seat = s1)

session == vars
scanning == <<device, seat, binding, opened, logged, tx>>
repair == <<display, online, cache, arriving, linked, terminal, publishing, losses>>
reporting == <<event, res, bound, scan, breaks>>
logins == <<config, users, states, login, sessions, passed, errors, modeLog, failures>>
broker == <<client, connected, subscriptions, round, granted, connects, refusals,
            published, inflight, taken, accepted, at>>
all == <<part, session, scanning, repair, reporting, logins, broker>>

(* Only the part P moves.                                                  *)
Only(P) ==
  /\ part = P /\ UNCHANGED part
  /\ P # "session" => UNCHANGED session
  /\ P # "scan" => UNCHANGED scanning
  /\ P # "repair" => UNCHANGED repair
  /\ P # "reports" => UNCHANGED reporting
  /\ P # "logins" => UNCHANGED logins
  /\ P # "broker" => UNCHANGED broker

AllNext ==
  \/ Only("session") /\ Next
  \/ Only("scan") /\ Scanning!Next
  \/ Only("repair") /\ Repair!Next
  \/ Only("reports") /\ Reporting!Next
  \/ Only("logins") /\ Logins!Next
  \/ Only("broker") /\ Broker!Next

(* What the modules' fairness is about, the timers and persons apart: the  *)
(* next step of a transaction, handler, request or round under way.        *)
Continues(p) ==
  \/ Only("session") /\ p \in Calls /\ Answer(p)
  \/ Only("scan") /\ p \in {q1, q2} /\ Scanning!Step(p)
  \/ Only("repair") /\ p \in {q1, q2} /\ Repair!Step(p)
  \/ Only("reports") /\ p \in {q1, q2} /\ Reporting!Step(p)
  \/ Only("logins") /\ p \in {q1, q2} /\ Logins!Handle(p)
  \/ Only("broker") /\ Broker!Answer(p)

Starts ==
  \/ Only("session") /\ ~shown /\ Show
  \/ Only("scan") /\ Scanning!ScanBegin(q2)
  \/ Only("repair") /\ Repair!RefreshFind(q2)
  \/ Only("broker") /\ Broker!Connect

Retries(ids) == Only("logins") /\ \E t \in {q1, q2} : Logins!Tries(t, ids)

(* The fairness of each module's FairSpec in its part: a behaviour has one *)
(* part, so a disjunction is fair when the disjunct of its part is.        *)
Fairness ==
  /\ \A p \in {q1, q2, q3} : WF_all(Continues(p))
  /\ WF_all(Starts)
  /\ \A ids \in People : SF_all(Retries(ids))

AllSpec == AllInit /\ [][AllNext]_all /\ Fairness

-----------------------------------------------------------------------------
(* The properties of the modules; MirrorsStorage holds in all parts.       *)

(* MiniappSession's LaunchLeadsOn: from the launch page the guards always  *)
(* lead on, whatever becomes of the request.                               *)
LaunchesLeadOn == []<>(part = "session" => page # "index")

(* SeatDevice's: a silent device is found by markOfflineDevices, unless it *)
(* beats again.                                                            *)
SilentFound == Scanning!SilentFound

(* Login's: who keeps trying gets in.                                      *)
EveryoneGetsIn == \A ids \in People : []<>(part = "logins" => \E x \in sessions : x.ids = ids)

(* TerminalSync's: whatever was lost, refreshing the tokens brings the     *)
(* terminal of a seat open for check-in to show token and light.           *)
WaitingShowsToken == Repair!WaitingShowsToken

(* Anomalies': a no-show is reported in the end unless something failed,   *)
(* an overdue stay unless, besides, another's event was resolved before;   *)
(* the two reservations being interchangeable, it is asked of one.         *)
TransitionsReported == Reporting!TransitionReported(r2)

(* BrokerLink's: every topic asked for is subscribed to in the end.        *)
HeardAgain == Broker!HeardAgain
=============================================================================
