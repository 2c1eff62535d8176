----------------------------- MODULE BrokerLink -----------------------------
(***************************************************************************)
(* The API's connection to the MQTT broker: subscriptions kept in a map    *)
(* and made again, one after the other, at every connection, since         *)
(* sessions are clean; several such rounds may be under way.  Messages are *)
(* published only while connected, and answered when the broker has them.  *)
(* Of the client library: a subscription under way fails when the          *)
(* connection is lost, one made without connection waits for the next, and *)
(* messages of quality of service 1 are sent again, in their order.        *)
(***************************************************************************)
EXTENDS Naturals, SequencesExt

CONSTANTS
  Topics,        \* those the API subscribes to: heartbeats, presence
  Tasks,         \* bound on rounds under way
  MaxConnects, MaxRefusals, MaxPublished,  \* bounds
  Null

BoundAssumption == {MaxConnects, MaxRefusals, MaxPublished} \subseteq Nat

VARIABLES
  client,         \* "open" from onModuleInit until close, then "ended"
  connected,
  subscriptions,  \* the map, in its order
  task,           \* rounds of subscribeClient
  granted,        \* the broker's: topics of the session
  connects, refusals,
  published, inflight, taken, accepted, at
    \* messages numbered as asked for; those unanswered; the broker's latest;
    \* the latest publishJson answered TRUE for; of those unanswered, how many
    \* the broker has had in this connection

link == <<client, connected, connects>>
subs == <<subscriptions, task, granted, refusals>>
messages == <<published, inflight, taken, accepted, at>>
vars == <<link, subs, messages>>

QosZero == 0   \* Defect: answered when sent, not sent again
QOS == 1

Round == [topic: 1..Cardinality(Topics), all: BOOLEAN, sent: BOOLEAN]

Init ==
  /\ client = "open" /\ connected = FALSE /\ connects = 0
  /\ subscriptions = <<>> /\ task = [k \in Tasks |-> Null]
  /\ granted = {} /\ refusals = 0
  /\ published = 0 /\ inflight = <<>> /\ taken = 0 /\ accepted = 0 /\ at = 0

(* After an answer or an error: the map's next topic, if this is a round.  *)
Following(r, isConnected) ==
  IF r.all /\ r.topic < Len(subscriptions)
  THEN [r EXCEPT !.topic = @ + 1, !.sent = isConnected]
  ELSE Null

(* Defect: left to the library's option resubscribe, which is off.         *)
NoResubscribe == FALSE

Resubscribes == subscriptions # <<>>

Connect ==
  /\ client = "open" /\ ~connected /\ connects < MaxConnects
  /\ connected' = TRUE /\ connects' = connects + 1 /\ granted' = {}
  /\ LET waiting == [k \in Tasks |->
           IF task[k] = Null THEN Null ELSE [task[k] EXCEPT !.sent = TRUE]]
     IN IF Resubscribes
        THEN \E k \in Tasks :
               /\ task[k] = Null
               /\ task' = [waiting EXCEPT ![k] = [topic |-> 1, all |-> TRUE, sent |-> TRUE]]
        ELSE task' = waiting
  /\ UNCHANGED <<client, subscriptions, refusals, messages>>

Lose ==
  /\ connected /\ connects < MaxConnects
  /\ connected' = FALSE /\ granted' = {}
  /\ task' = [k \in Tasks |->
       IF task[k] = Null THEN Null
       ELSE IF task[k].sent THEN Following(task[k], FALSE) ELSE task[k]]
  /\ at' = 0 /\ inflight' = IF QOS = 0 THEN <<>> ELSE inflight
  /\ UNCHANGED <<client, connects, subscriptions, refusals, published, taken, accepted>>

(* onModuleInit of a service: its handler is registered, its topic asked for.*)
Subscribe(t) ==
  /\ client = "open" /\ t \notin Range(subscriptions)
  /\ subscriptions' = Append(subscriptions, t)
  /\ IF connected
     THEN \E k \in Tasks :
            /\ task[k] = Null
            /\ task' = [task EXCEPT ![k] =
                 [topic |-> Len(subscriptions) + 1, all |-> FALSE, sent |-> TRUE]]
     ELSE UNCHANGED task
  /\ UNCHANGED <<link, granted, refusals, messages>>

SubscribeClient(k, ok) ==
  /\ connected /\ task[k] # Null /\ task[k].sent
  /\ IF ok THEN granted' = granted \cup {subscriptions[task[k].topic]} /\ UNCHANGED refusals
           ELSE refusals < MaxRefusals /\ refusals' = refusals + 1 /\ UNCHANGED granted
  /\ task' = [task EXCEPT ![k] = Following(@, TRUE)]
  /\ UNCHANGED <<link, subscriptions, messages>>

-----------------------------------------------------------------------------
PublishJson ==
  /\ client = "open" /\ published < MaxPublished
  /\ published' = published + 1
  /\ IF connected THEN inflight' = Append(inflight, published + 1)
                  ELSE UNCHANGED inflight
  /\ accepted' = IF connected /\ QOS = 0 THEN published + 1 ELSE accepted
  /\ UNCHANGED <<link, subs, taken, at>>

BrokerTakes ==
  /\ connected /\ at < Len(inflight)
  /\ taken' = inflight[at + 1] /\ at' = at + 1
  /\ UNCHANGED <<link, subs, published, inflight, accepted>>

(* publishJson answers TRUE.                                               *)
Acknowledged ==
  /\ connected /\ at > 0
  /\ accepted' = Head(inflight) /\ inflight' = Tail(inflight) /\ at' = at - 1
  /\ UNCHANGED <<link, subs, published, taken>>

(* onModuleDestroy: whatever is under way fails.                           *)
Close ==
  /\ client = "open"
  /\ client' = "ended" /\ connected' = FALSE /\ granted' = {}
  /\ task' = [k \in Tasks |-> Null] /\ inflight' = <<>> /\ at' = 0
  /\ UNCHANGED <<connects, subscriptions, refusals, published, taken, accepted>>

Answer(k) == SubscribeClient(k, TRUE) \/ SubscribeClient(k, FALSE)

Next ==
  \/ Connect \/ Lose \/ PublishJson \/ BrokerTakes \/ Acknowledged \/ Close
  \/ \E t \in Topics : Subscribe(t)
  \/ \E k \in Tasks : Answer(k)

Spec == Init /\ [][Next]_vars

(* The library connects again and hands every answer over.                 *)
FairSpec == Spec /\ WF_vars(Connect) /\ \A k \in Tasks : WF_vars(Answer(k))

-----------------------------------------------------------------------------
(* Properties *)

TypeOK ==
  /\ client \in {"open", "ended"} /\ connected \in BOOLEAN
  /\ task \in [Tasks -> Round \cup {Null}]
  /\ granted \subseteq Range(subscriptions) /\ Range(subscriptions) \subseteq Topics
  /\ Len(inflight) >= at /\ taken \in 0..published
  /\ connected => client = "open"
  /\ ~connected => \A k \in Tasks : task[k] # Null => ~task[k].sent

(* A message publishJson answered TRUE for is the broker's, and no older   *)
(* one has come after it (the order terminals see, publishJson).           *)
AcceptedArrives == accepted <= taken

(* However connections come and go, services start and rounds overlap: in  *)
(* the end every topic asked for is subscribed to, unless the API stops    *)
(* (resubscribeAll, subscribe).                                            *)
HeardAgain == <>[](client = "ended" \/ Range(subscriptions) \subseteq granted)
=============================================================================
