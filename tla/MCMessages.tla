----------------------------- MODULE MCMessages -----------------------------
(***************************************************************************)
(* One run over independent instances of Anomalies, TerminalSync and       *)
(* BrokerLink: what the API tells administrators and terminals.  A         *)
(* behaviour is one of the instance that part names:                       *)
(*   events     scans and messages about two devices and two seats         *)
(*              overlap, one may break off                                 *)
(*   handling   administrators handle and close events, and overlap, while *)
(*              the device moves                                           *)
(*   terminals  handlers and token refreshes of one terminal overlap, one  *)
(*              breaks off or the API restarts                             *)
(*   broker     rounds of subscriptions, messages, connections lost        *)
(***************************************************************************)
EXTENDS Anomalies, TLC

CONSTANTS d1, s1, s2

(* The constants of TerminalSync and of BrokerLink.                        *)
CONSTANTS Screens, Jobs, Refreshes, Maintenance, Faults, MaxCrashes
CONSTANTS Topics, Rounds, MaxConnects, MaxRefusals, MaxPublished

VARIABLES part,
  seat, online, cache, linked, terminal, connected,
  client, subscriptions, granted, connects, refusals,
  published, inflight, taken, accepted, at

own == <<event, res, device>>
shared == <<task, failures, connected>>
terminals == <<seat, online, cache, linked, terminal>>
broker == <<client, subscriptions, granted, connects, refusals,
            published, inflight, taken, accepted, at>>
all == <<part, own, shared, terminals, broker>>

(* The part "events" is Anomalies with the constants of Messages.cfg.      *)
Handling == INSTANCE Anomalies WITH
  Devices <- {d1}, Seats <- {s1, s2},
  Statuses <- {"ACKNOWLEDGED", "CLOSED"},
  Suspicions <- {"UNRESERVED_OCCUPANCY"},
  Rebinding <- TRUE, MaxFailures <- 0

Sync == INSTANCE TerminalSync WITH
  Devices <- Screens, MaxFailures <- MaxCrashes

Broker == INSTANCE BrokerLink WITH Tasks <- Rounds

ASSUME TerminalAssumption ==
  Sync!NullAssumption /\ Sync!InputAssumption /\ Sync!FaultAssumption
ASSUME BrokerAssumption == Broker!BoundAssumption

NoTerminals ==
  seat = Null /\ online = Null /\ cache = Null /\ linked = Null /\ terminal = Null

NoBroker ==
  /\ client = Null /\ subscriptions = Null /\ granted = Null
  /\ connects = Null /\ refusals = Null /\ published = Null
  /\ inflight = Null /\ taken = Null /\ accepted = Null /\ at = Null

NoEvents ==
  /\ event = [e \in EventIds |-> Null]
  /\ res = [r \in Reservations |-> [status |-> "WAITING", seat |-> Null]]
  /\ device = Null

AllInit ==
  \/ part = "events" /\ Init /\ NoTerminals /\ NoBroker /\ connected = Null
  \/ part = "handling" /\ Handling!Init /\ NoTerminals /\ NoBroker /\ connected = Null
  \/ part = "terminals" /\ Sync!Init /\ NoEvents /\ NoBroker
  \/ part = "broker" /\ Broker!Init /\ NoEvents /\ NoTerminals /\ failures = Null

AllNext ==
  \/ part = "events" /\ Next /\ UNCHANGED <<part, connected, terminals, broker>>
  \/ part = "handling" /\ Handling!Next
       /\ UNCHANGED <<part, connected, terminals, broker>>
  \/ part = "terminals" /\ Sync!Next /\ UNCHANGED <<part, own, broker>>
  \/ part = "broker" /\ Broker!Next /\ UNCHANGED <<part, own, terminals, failures>>

AllSpec == AllInit /\ [][AllNext]_all

Symmetry == Permutations(EventIds) \cup Permutations(Tasks) \cup Permutations(Reservations)
              \cup Permutations(Devices) \cup Permutations({s1, s2})

-----------------------------------------------------------------------------
(* The properties of the modules, each in the parts it is about; those of  *)
(* Anomalies hold in all of them.                                          *)

(* The type invariants of Anomalies, TerminalSync and BrokerLink.          *)
Types ==
  /\ part = "events" => TypeOK
  /\ part = "handling" => Handling!TypeOK
  /\ part = "terminals" => Sync!TypeOK
  /\ part = "broker" => Broker!TypeOK

(* TerminalSync's SplitByCheckIn: with whatever overlaps, fails or         *)
(* restarts, only a check-in sets a terminal's display and light at odds.  *)
LightsSplitByCheckIn == [][part = "terminals" => Sync!SplitByCheckIn]_all

(* BrokerLink's AcceptedArrives: what publishJson answered TRUE for is the *)
(* broker's, and nothing older has come after it.                          *)
AcceptedArrives == part = "broker" => Broker!AcceptedArrives
=============================================================================
