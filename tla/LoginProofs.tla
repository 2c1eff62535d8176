---------------------------- MODULE LoginProofs ----------------------------
(***************************************************************************)
(* Theorems about Login, for every number of requests, accounts, states    *)
(* and failures: the types, that a state lets one callback pass, that      *)
(* there is one administrator from the first account on, and that a person *)
(* gets the same account whenever they come.                               *)
(***************************************************************************)
EXTENDS Login, FiniteSetTheorems, TLAPS

Ids == UNION {Identities[m] : m \in Modes}
Ops == {"wechat", "authorize", "callback", "update"}
Exchanged == {"find", "count", "create", "session"}
Pc == {"idle", "config", "newConfig", "resolve", "sign", "consume", "exchange",
       "update", "log"} \cup Exchanged

Request ==
  [pc: Pc, op: Ops \cup {Null}, ids: Ids \cup {{}}, state: States \cup {Null},
   seen: SUBSET UserIds, user: UserIds \cup {Null}, mode: Modes \cup {Null},
   redirect: Redirects \cup {Null}]

(* What a request between two steps relies on: the configuration, the      *)
(* states made so far, the accounts.                                       *)
RequestOK(r, conf, made, rows) ==
  r.pc # "idle" =>
    /\ r.op \in Ops
    /\ r.op \in {"wechat", "callback"} => r.ids \in Ids
    /\ r.op = "callback" => r.state \in made
    /\ r.op = "update" => r.mode \in Modes /\ r.redirect \in Redirects
    /\ r.pc \in Exchanged \cup {"exchange"} => r.op \in {"wechat", "callback"}
    /\ r.pc \in {"update", "log"} => r.op = "update"
    /\ r.pc = "resolve" => conf \in Config /\ r.op \in {"authorize", "callback"}
    /\ r.pc \in {"sign", "consume"} => r.redirect \in Redirects
    /\ r.pc = "consume" => r.op = "callback"
    /\ r.pc = "session" => r.user \in rows

Made == {s \in States : states[s] # Null}

Tables ==
  /\ config \in Config \cup {Null}
  /\ users \in [UserIds -> UserRow \cup {Null}]
  /\ states \in [States -> StateRow \cup {Null}]
  /\ sessions \subseteq Session
  /\ modeLog \in Seq(Modes)

TypeInv ==
  /\ Tables
  /\ task \in [Tasks -> Request]
  /\ \A t \in Tasks : RequestOK(task[t], config, Made, Rows)

(* Nothing a request relies on is taken back.                              *)
Grows ==
  /\ config \in Config => config' \in Config
  /\ Made \subseteq Made'
  /\ Rows \subseteq Rows'

-----------------------------------------------------------------------------
(* One request moves, the tables grow                                      *)

LEMMA Monotone ==
  ASSUME NEW r, NEW c, NEW d, NEW m, NEW n, NEW x, NEW y,
         RequestOK(r, c, m, x), c \in Config => d \in Config, m \subseteq n, x \subseteq y
  PROVE  RequestOK(r, d, n, y)
BY DEF RequestOK

LEMMA Frame ==
  ASSUME TypeInv, Tables', Grows, NEW t \in Tasks, NEW r \in Request,
         task' = [task EXCEPT ![t] = r], RequestOK(r, config', Made', Rows')
  PROVE  TypeInv'
<1>1. task' \in [Tasks -> Request]
  BY DEF TypeInv
<1>2. ASSUME NEW u \in Tasks
      PROVE  RequestOK(task'[u], config', Made', Rows')
  <2>1. CASE u = t
    BY <2>1 DEF TypeInv
  <2>2. CASE u # t
    <3>1. task'[u] = task[u] /\ RequestOK(task[u], config, Made, Rows)
      BY <2>2 DEF TypeInv
    <3> QED BY <3>1, Monotone DEF Grows
  <2> QED BY <2>1, <2>2
<1> QED BY <1>1, <1>2 DEF TypeInv

LEMMA IdleRequest ==
  ASSUME NEW c, NEW m, NEW x
  PROVE  Idle \in Request /\ RequestOK(Idle, c, m, x)
BY DEF Idle, Request, RequestOK, Pc

LEMMA Ending ==
  ASSUME TypeInv, Tables', Grows, NEW t \in Tasks, End(t)
  PROVE  TypeInv'
BY Frame, IdleRequest DEF End

LEMMA Going ==
  ASSUME TypeInv, Tables', Grows, NEW t \in Tasks, NEW pc \in Pc, Continue(t, pc),
         RequestOK([task[t] EXCEPT !.pc = pc], config', Made', Rows')
  PROVE  TypeInv'
<1> DEFINE r == [task[t] EXCEPT !.pc = pc]
<1>1. r \in Request
  BY DEF TypeInv, Request
<1>2. task' = [task EXCEPT ![t] = r]
  BY DEF TypeInv, Continue
<1> QED BY <1>1, <1>2, Frame

LEMMA SameTables ==
  ASSUME TypeInv, UNCHANGED <<config, users, states, sessions, modeLog>>
  PROVE  Tables' /\ Grows
BY DEF TypeInv, Tables, Grows, Made, Rows

-----------------------------------------------------------------------------
(* The actions, one by one                                                 *)

LEMMA Starting ==
  ASSUME TypeInv, NEW t \in Tasks, NEW r \in Request, Start(t, r),
         RequestOK(r, config, Made, Rows),
         UNCHANGED <<config, users, states, sessions, modeLog>>
  PROVE  TypeInv'
<1>1. Tables' /\ Grows
  BY SameTables
<1>2. RequestOK(r, config', Made', Rows')
  BY <1>1, Monotone DEF Grows
<1> QED BY <1>1, <1>2, Frame DEF Start

LEMMA StartTypeInv ==
  ASSUME TypeInv, NEW t \in Tasks,
         \/ \E ids \in Identities["WECHAT"] : WechatLogin(t, ids)
         \/ AuthorizeUrl(t)
         \/ \E s \in States, ids \in Identities["OIDC"] : Callback(t, s, ids)
         \/ \E u \in UserIds, m \in Modes, d \in Redirects : UpdateLoginMode(t, u, m, d)
  PROVE  TypeInv'
<1>1. ASSUME NEW ids \in Identities["WECHAT"], WechatLogin(t, ids)
      PROVE  TypeInv'
  <2> DEFINE r == [Idle EXCEPT !.pc = "config", !.op = "wechat", !.ids = ids]
  <2>1. ids \in Ids
    BY DEF Ids, Modes
  <2>2. r \in Request /\ RequestOK(r, config, Made, Rows)
    BY <2>1 DEF Idle, Request, RequestOK, Ops, Pc, Exchanged
  <2> HIDE DEF r
  <2> QED BY <1>1, <2>2, Starting DEF WechatLogin, r
<1>2. CASE AuthorizeUrl(t)
  <2> DEFINE r == [Idle EXCEPT !.pc = "config", !.op = "authorize"]
  <2>1. r \in Request /\ RequestOK(r, config, Made, Rows)
    BY DEF Idle, Request, RequestOK, Ops, Pc, Exchanged
  <2> HIDE DEF r
  <2> QED BY <1>2, <2>1, Starting DEF AuthorizeUrl, r
<1>3. ASSUME NEW s \in States, NEW ids \in Identities["OIDC"], Callback(t, s, ids)
      PROVE  TypeInv'
  <2> DEFINE r == [Idle EXCEPT !.pc = "config", !.op = "callback", !.state = s, !.ids = ids]
  <2>1. ids \in Ids /\ s \in Made
    BY <1>3 DEF Ids, Modes, Made, Callback
  <2>2. r \in Request /\ RequestOK(r, config, Made, Rows)
    BY <2>1 DEF Idle, Request, RequestOK, Ops, Pc, Exchanged
  <2> HIDE DEF r
  <2> QED BY <1>3, <2>2, Starting DEF Callback, r
<1>4. ASSUME NEW u \in UserIds, NEW m \in Modes, NEW d \in Redirects,
             UpdateLoginMode(t, u, m, d)
      PROVE  TypeInv'
  <2> DEFINE r == [Idle EXCEPT !.pc = "config", !.op = "update", !.user = u,
                               !.mode = m, !.redirect = d]
  <2>1. r \in Request /\ RequestOK(r, config, Made, Rows)
    BY DEF Idle, Request, RequestOK, Ops, Pc, Exchanged
  <2> HIDE DEF r
  <2> QED BY <1>4, <2>1, Starting DEF UpdateLoginMode, r
<1> QED BY <1>1, <1>2, <1>3, <1>4

LEMMA Proceeding ==
  ASSUME TypeInv, Tables', Grows, NEW t \in Tasks, NEW c, Proceed(t, c),
         task[t].pc # "idle", config' \in Config
  PROVE  TypeInv'
<1>1. CASE Continue(t, AfterMode(task[t].op)) /\ Enabled(task[t].op, c.mode)
  <2>1. RequestOK(task[t], config', Made', Rows')
    BY Monotone DEF TypeInv, Grows
  <2>2. task[t].op \in Ops
    BY DEF TypeInv, RequestOK
  <2>3. AfterMode(task[t].op) \in {"exchange", "resolve", "update"}
    BY <2>2 DEF AfterMode, Ops
  <2>4. RequestOK([task[t] EXCEPT !.pc = AfterMode(task[t].op)], config', Made', Rows')
    BY <2>1, <2>2 DEF TypeInv, Request, RequestOK, AfterMode, Ops, Exchanged
  <2>5. AfterMode(task[t].op) \in Pc
    BY <2>3 DEF Pc
  <2> QED BY <1>1, <2>4, <2>5, Going
<1>2. CASE End(t)
  BY <1>2, Ending
<1> QED BY <1>1, <1>2 DEF Proceed

LEMMA ConfigTypeInv ==
  ASSUME TypeInv, NEW t \in Tasks, FindConfig(t) \/ CreateConfig(t)
  PROVE  TypeInv'
<1>1. CASE FindConfig(t)
  <2>1. Tables' /\ Grows
    BY <1>1, SameTables DEF FindConfig
  <2>2. CASE config = Null
    <3>1. "newConfig" \in Pc /\ Continue(t, "newConfig")
      BY <1>1, <2>2 DEF Pc, FindConfig
    <3>2. RequestOK(task[t], config', Made', Rows')
      BY <2>1, Monotone DEF TypeInv, Grows
    <3>3. RequestOK([task[t] EXCEPT !.pc = "newConfig"], config', Made', Rows')
      BY <1>1, <3>2 DEF TypeInv, Request, RequestOK, Exchanged, FindConfig
    <3> QED BY <2>1, <3>1, <3>3, Going
  <2>3. CASE config # Null
    <3>1. config' \in Config /\ Proceed(t, config) /\ task[t].pc # "idle"
      BY <1>1, <2>3 DEF TypeInv, Tables, FindConfig
    <3> QED BY <2>1, <3>1, Proceeding
  <2> QED BY <2>2, <2>3
<1>2. CASE CreateConfig(t)
  <2>1. CASE config = Null /\ config' \in {c \in Config : c.mode = DefaultMode}
                /\ Proceed(t, config')
    <3>1. Tables' /\ Grows
      BY <1>2, <2>1, ConfigAssumption DEF CreateConfig, TypeInv, Tables, Grows, Made, Rows
    <3> QED BY <1>2, <2>1, <3>1, Proceeding DEF CreateConfig
  <2>2. CASE End(t) /\ UNCHANGED config
    <3>1. Tables' /\ Grows
      BY <1>2, <2>2, SameTables DEF CreateConfig
    <3> QED BY <2>2, <3>1, Ending
  <2> QED BY <1>2, <2>1, <2>2 DEF CreateConfig, Fail
<1> QED BY <1>1, <1>2

LEMMA ResolveTypeInv ==
  ASSUME TypeInv, NEW t \in Tasks, ResolveRuntimeConfig(t)
  PROVE  TypeInv'
<1> DEFINE next == IF task[t].op = "authorize" THEN "sign" ELSE "consume"
           r == [task[t] EXCEPT !.redirect = config.redirect, !.pc = next]
<1>1. Tables' /\ Grows
  BY SameTables DEF ResolveRuntimeConfig
<1>2. task[t] \in Request /\ RequestOK(task[t], config, Made, Rows)
      /\ task[t].pc = "resolve" /\ config \in Config
  BY DEF TypeInv, ResolveRuntimeConfig, RequestOK
<1>3. config.redirect \in Redirects
  BY <1>2 DEF Config
<1>4. next \in Pc /\ r \in Request
  <2>1. next \in Pc
    BY DEF Pc
  <2> HIDE DEF next
  <2> QED BY <1>2, <1>3, <2>1 DEF Request
<1>5. RequestOK(r, config, Made, Rows)
  BY <1>2, <1>3 DEF Request, RequestOK, Exchanged, Ops
<1>6. RequestOK(r, config', Made', Rows')
  BY <1>1, <1>5, Monotone DEF Grows
<1>7. task' = [task EXCEPT ![t] = r]
  BY DEF TypeInv, ResolveRuntimeConfig
<1> QED BY <1>1, <1>4, <1>6, <1>7, Frame

LEMMA UpdateTypeInv ==
  ASSUME TypeInv, NEW t \in Tasks, UpdateConfig(t) \/ LogUpdate(t)
  PROVE  TypeInv'
<1>1. task[t] \in Request /\ RequestOK(task[t], config, Made, Rows)
      /\ task[t].mode \in Modes /\ task[t].redirect \in Redirects
  BY DEF TypeInv, RequestOK, UpdateConfig, LogUpdate
<1>2. CASE UpdateConfig(t)
  <2>1. Tables' /\ Grows
    BY <1>1, <1>2 DEF UpdateConfig, TypeInv, Tables, Grows, Made, Rows, Config
  <2>2. RequestOK([task[t] EXCEPT !.pc = "log"], config, Made, Rows)
    BY <1>1, <1>2 DEF UpdateConfig, Request, RequestOK, Exchanged
  <2>3. RequestOK([task[t] EXCEPT !.pc = "log"], config', Made', Rows')
    BY <2>1, <2>2, Monotone DEF Grows
  <2>4. "log" \in Pc
    BY DEF Pc
  <2> QED BY <1>2, <2>1, <2>3, <2>4, Going DEF UpdateConfig
<1>3. CASE LogUpdate(t)
  <2>1. Tables' /\ Grows
    BY <1>1, <1>3 DEF LogUpdate, TypeInv, Tables, Grows, Made, Rows
  <2> QED BY <1>3, <2>1, Ending DEF LogUpdate
<1> QED BY <1>2, <1>3

LEMMA StateTypeInv ==
  ASSUME TypeInv, NEW t \in Tasks, SignState(t) \/ ConsumeState(t)
  PROVE  TypeInv'
<1>1. task[t] \in Request /\ RequestOK(task[t], config, Made, Rows)
  BY DEF TypeInv
<1>2. CASE SignState(t)
  <2>1. PICK s \in States : /\ states[s] = Null
          /\ states' = [states EXCEPT ![s] =
               [redirect |-> task[t].redirect, consumed |-> FALSE, expired |-> FALSE]]
    BY <1>2 DEF SignState
  <2>2. [redirect |-> task[t].redirect, consumed |-> FALSE, expired |-> FALSE] \in StateRow
    BY <1>1, <1>2 DEF SignState, RequestOK, StateRow
  <2>3. Tables' /\ Grows
    BY <1>2, <2>1, <2>2, NullAssumption
    DEF SignState, TypeInv, Tables, Grows, Made, Rows
  <2> QED BY <1>2, <2>3, Ending DEF SignState
<1>3. CASE ConsumeState(t)
  <2> DEFINE s == task[t].state
  <2>1. s \in States /\ states[s] \in StateRow
    BY <1>1, <1>3 DEF ConsumeState, RequestOK, Ops, Made, TypeInv, Tables
  <2>2. CASE states' = [states EXCEPT ![s].consumed = TRUE] /\ Continue(t, "exchange")
    <3>1. [states[s] EXCEPT !.consumed = TRUE] \in StateRow
      BY <2>1 DEF StateRow
    <3>2. states' = [states EXCEPT ![s] = [states[s] EXCEPT !.consumed = TRUE]]
      BY <2>1, <2>2
    <3>3. states' \in [States -> StateRow \cup {Null}]
      BY <2>1, <3>1, <3>2 DEF TypeInv, Tables
    <3>4. Made \subseteq Made'
      BY <2>1, <3>1, <3>2, NullAssumption DEF TypeInv, Tables, Made
    <3>5. Tables' /\ Grows
      BY <1>3, <3>3, <3>4 DEF ConsumeState, TypeInv, Tables, Grows, Rows
    <3>6. RequestOK([task[t] EXCEPT !.pc = "exchange"], config, Made, Rows)
      BY <1>1, <1>3 DEF ConsumeState, Request, RequestOK, Exchanged
    <3>7. RequestOK([task[t] EXCEPT !.pc = "exchange"], config', Made', Rows')
      BY <3>5, <3>6, Monotone DEF Grows
    <3>8. "exchange" \in Pc
      BY DEF Pc
    <3> QED BY <2>2, <3>5, <3>7, <3>8, Going
  <2>3. CASE End(t) /\ UNCHANGED states
    <3>1. Tables' /\ Grows
      BY <1>3, <2>3, SameTables DEF ConsumeState
    <3> QED BY <2>3, <3>1, Ending
  <2> QED BY <1>3, <2>2, <2>3 DEF ConsumeState
<1> QED BY <1>2, <1>3

LEMMA ExchangeTypeInv ==
  ASSUME TypeInv, NEW t \in Tasks, ExchangeCode(t)
  PROVE  TypeInv'
<1>1. Tables' /\ Grows
  BY SameTables DEF ExchangeCode
<1>2. CASE Continue(t, "find")
  <2>1. RequestOK([task[t] EXCEPT !.pc = "find"], config, Made, Rows)
    BY DEF ExchangeCode, TypeInv, Request, RequestOK, Exchanged
  <2>2. RequestOK([task[t] EXCEPT !.pc = "find"], config', Made', Rows')
    BY <1>1, <2>1, Monotone DEF Grows
  <2>3. "find" \in Pc
    BY DEF Pc, Exchanged
  <2> QED BY <1>1, <1>2, <2>2, <2>3, Going
<1>3. CASE End(t)
  BY <1>1, <1>3, Ending
<1> QED BY <1>2, <1>3 DEF ExchangeCode, ExchangeWechat, ExchangeOidc, Refused

LEMMA FindTypeInv ==
  ASSUME TypeInv, NEW t \in Tasks, FindExistingIdentity(t)
  PROVE  TypeInv'
<1>1. Tables' /\ Grows
  BY SameTables DEF FindExistingIdentity
<1>2. task[t] \in Request /\ RequestOK(task[t], config, Made, Rows) /\ task[t].pc = "find"
  BY DEF TypeInv, FindExistingIdentity
<1>3. CASE Continue(t, "count")
  <2>1. RequestOK([task[t] EXCEPT !.pc = "count"], config, Made, Rows)
    BY <1>2 DEF Request, RequestOK, Exchanged
  <2>2. RequestOK([task[t] EXCEPT !.pc = "count"], config', Made', Rows')
    BY <1>1, <2>1, Monotone DEF Grows
  <2>3. "count" \in Pc
    BY DEF Pc, Exchanged
  <2> QED BY <1>1, <1>3, <2>2, <2>3, Going
<1>4. ASSUME NEW u \in Rows, task' = [task EXCEPT ![t].pc = "session", ![t].user = u]
      PROVE  TypeInv'
  <2> DEFINE r == [task[t] EXCEPT !.pc = "session", !.user = u]
  <2>1. r \in Request
    BY <1>2 DEF Request, Pc, Exchanged, Rows
  <2>2. RequestOK(r, config, Made, Rows)
    BY <1>2 DEF Request, RequestOK, Exchanged
  <2>3. RequestOK(r, config', Made', Rows')
    BY <1>1, <2>2, Monotone DEF Grows
  <2>4. task' = [task EXCEPT ![t] = r]
    BY <1>4 DEF TypeInv
  <2> QED BY <1>1, <2>1, <2>3, <2>4, Frame
<1> QED BY <1>3, <1>4 DEF FindExistingIdentity, Matching

LEMMA CountTypeInv ==
  ASSUME TypeInv, NEW t \in Tasks, CountUsers(t)
  PROVE  TypeInv'
<1> DEFINE r == [task[t] EXCEPT !.pc = "create", !.seen = Rows]
<1>1. Tables' /\ Grows
  BY SameTables DEF CountUsers
<1>2. task[t] \in Request /\ RequestOK(task[t], config, Made, Rows) /\ task[t].pc = "count"
  BY DEF TypeInv, CountUsers
<1>3. r \in Request
  BY <1>2 DEF Request, Pc, Exchanged, Rows
<1>4. RequestOK(r, config, Made, Rows)
  BY <1>2 DEF Request, RequestOK, Exchanged
<1>5. RequestOK(r, config', Made', Rows')
  BY <1>1, <1>4, Monotone DEF Grows
<1>6. task' = [task EXCEPT ![t] = r]
  BY DEF TypeInv, CountUsers
<1> QED BY <1>1, <1>3, <1>5, <1>6, Frame

LEMMA CreateTypeInv ==
  ASSUME TypeInv, NEW t \in Tasks, CreateUser(t)
  PROVE  TypeInv'
<1> DEFINE role == IF task[t].seen = {} THEN "ADMIN" ELSE "STUDENT"
           row == [keys |-> task[t].ids, role |-> role]
<1>1. task[t] \in Request /\ RequestOK(task[t], config, Made, Rows) /\ task[t].pc = "create"
  BY DEF TypeInv, CreateUser
<1>2. row \in UserRow
  <2>1. task[t].ids \in Ids
    BY <1>1 DEF RequestOK, Exchanged
  <2> QED BY <2>1 DEF UserRow, Ids
<1>3. ASSUME NEW u \in UserIds \ Rows, users' = [users EXCEPT ![u] = row],
             task' = [task EXCEPT ![t].pc = "session", ![t].user = u]
      PROVE  TypeInv'
  <2> HIDE DEF row
  <2> DEFINE r == [task[t] EXCEPT !.pc = "session", !.user = u]
  <2>1. Tables'
    BY <1>2, <1>3 DEF CreateUser, TypeInv, Tables
  <2>2. Rows' = Rows \cup {u}
    BY <1>2, <1>3, NullAssumption DEF TypeInv, Tables, Rows
  <2>3. Grows
    BY <2>2 DEF CreateUser, Grows, Made
  <2>4. r \in Request
    BY <1>1, <1>3 DEF Request, Pc, Exchanged
  <2>5. RequestOK(task[t], config', Made', Rows')
    BY <1>1, <2>3, Monotone DEF Grows
  <2>6. RequestOK(r, config', Made', Rows')
    BY <1>1, <2>2, <2>5 DEF Request, RequestOK, Exchanged
  <2>7. task' = [task EXCEPT ![t] = r]
    BY <1>3 DEF TypeInv
  <2> QED BY <2>1, <2>3, <2>4, <2>6, <2>7, Frame
<1>4. CASE End(t) /\ UNCHANGED users
  <2>1. Tables' /\ Grows
    BY <1>4, SameTables DEF CreateUser
  <2> QED BY <1>4, <2>1, Ending
<1> QED BY <1>3, <1>4 DEF CreateUser, Fail

LEMMA SessionTypeInv ==
  ASSUME TypeInv, NEW t \in Tasks, IssueSession(t)
  PROVE  TypeInv'
<1>1. task[t].ids \in Ids /\ task[t].user \in UserIds
  <2>1. RequestOK(task[t], config, Made, Rows) /\ task[t].pc = "session"
    BY DEF TypeInv, IssueSession
  <2> QED BY <2>1 DEF RequestOK, Exchanged, Rows
<1>2. Tables' /\ Grows
  BY <1>1 DEF IssueSession, TypeInv, Tables, Grows, Made, Rows, Session, Ids
<1> QED BY <1>2, Ending DEF IssueSession

LEMMA ExpireTypeInv ==
  ASSUME TypeInv, NEW s \in States, Expire(s)
  PROVE  TypeInv'
<1>1. states[s] \in StateRow
  BY DEF Expire, TypeInv, Tables
<1>2. [states[s] EXCEPT !.expired = TRUE] \in StateRow
  BY <1>1 DEF StateRow
<1>3. states' = [states EXCEPT ![s] = [states[s] EXCEPT !.expired = TRUE]]
  BY DEF Expire, TypeInv, Tables
<1>4. Tables' /\ Made' = Made
  BY <1>2, <1>3, NullAssumption DEF Expire, TypeInv, Tables, Made
<1>5. UNCHANGED <<task, config, Rows>>
  BY DEF Expire, Rows
<1> QED BY <1>4, <1>5 DEF TypeInv

-----------------------------------------------------------------------------
(* The theorems                                                            *)

LEMMA InitTypeInv == Init => TypeInv
<1> SUFFICES ASSUME Init PROVE TypeInv
  OBVIOUS
<1>1. Tables
  BY ConfigAssumption DEF Init, Tables
<1>2. task \in [Tasks -> Request] /\ \A t \in Tasks : task[t] = Idle
  BY IdleRequest DEF Init
<1> QED BY <1>1, <1>2, IdleRequest DEF TypeInv

LEMMA NextTypeInv == TypeInv /\ [Next]_vars => TypeInv'
<1> SUFFICES ASSUME TypeInv, [Next]_vars PROVE TypeInv'
  OBVIOUS
<1>1. ASSUME NEW t \in Tasks, Handle(t) PROVE TypeInv'
  BY <1>1, ConfigTypeInv, ResolveTypeInv, UpdateTypeInv, StateTypeInv, ExchangeTypeInv,
     FindTypeInv, CountTypeInv, CreateTypeInv, SessionTypeInv DEF Handle
<1>2. ASSUME NEW t \in Tasks, Dies(t) PROVE TypeInv'
  <2>1. Tables' /\ Grows
    BY <1>2, SameTables DEF Dies
  <2> QED BY <1>2, <2>1, Ending DEF Dies
<1>3. CASE \E s \in States : Expire(s)
  BY <1>3, ExpireTypeInv
<1>4. CASE UNCHANGED vars
  BY <1>4 DEF vars, TypeInv, Tables, Made, Rows
<1> QED BY <1>1, <1>2, <1>3, <1>4, StartTypeInv DEF Next

(* Every row, request and session has its type; a session is of an account *)
(* that exists (TokenService.signUserToken).                               *)
THEOREM TypesInvariant == Spec => []TypeOK
<1>1. TypeInv => TypeOK
  <2> SUFFICES ASSUME TypeInv PROVE TypeOK
    OBVIOUS
  <2>1. \A u \in Rows : users[u] \in UserRow
    BY DEF TypeInv, Tables, Rows
  <2>2. \A u \in Rows : users[u].role \in {"ADMIN", "STUDENT"} /\ users[u].keys # {}
    BY <2>1, IdentityAssumption DEF UserRow
  <2>3. \A s \in States : states[s] # Null => states[s].redirect \in Redirects
    BY DEF TypeInv, Tables, StateRow
  <2>4. \A t \in Tasks : task[t].pc = "session" => task[t].user \in Rows
    BY DEF TypeInv, RequestOK
  <2> QED BY <2>2, <2>3, <2>4 DEF TypeInv, Tables, TypeOK
<1> QED BY <1>1, InitTypeInv, NextTypeInv, PTL DEF Spec

-----------------------------------------------------------------------------
(* A state that let a callback pass is consumed for good.                  *)
PassedInv ==
  /\ passed \in [States -> Nat]
  /\ \A s \in States :
       \/ passed[s] = 0
       \/ passed[s] = 1 /\ states[s] # Null /\ states[s].consumed

LEMMA ConsumePassed ==
  ASSUME TypeInv, PassedInv, NEW t \in Tasks, ConsumeState(t)
  PROVE  PassedInv'
<1> DEFINE s == task[t].state
<1>1. s \in States /\ states[s] \in StateRow
  BY DEF ConsumeState, RequestOK, Ops, Made, TypeInv, Tables
<1>2. CASE /\ Consumable(s)
           /\ states' = [states EXCEPT ![s].consumed = TRUE]
           /\ passed' = [passed EXCEPT ![s] = @ + 1]
  <2>1. passed[s] = 0
    BY <1>1, <1>2 DEF PassedInv, Consumable
  <2>2. states' = [states EXCEPT ![s] = [states[s] EXCEPT !.consumed = TRUE]]
    BY <1>1, <1>2
  <2>3. [states[s] EXCEPT !.consumed = TRUE] \in StateRow
        /\ [states[s] EXCEPT !.consumed = TRUE].consumed
    BY <1>1 DEF StateRow
  <2>4. states'[s] # Null /\ states'[s].consumed /\ passed'[s] = 1
    <3>1. states'[s] = [states[s] EXCEPT !.consumed = TRUE]
      BY <1>1, <2>2 DEF TypeInv, Tables
    <3>2. passed'[s] = passed[s] + 1
      BY <1>1, <1>2 DEF PassedInv
    <3>3. states'[s] # Null
      BY <2>3, <3>1, NullAssumption
    <3>4. states'[s].consumed
      BY <1>1, <3>1 DEF StateRow
    <3>5. passed'[s] = 1
      BY <2>1, <3>2
    <3> QED BY <3>3, <3>4, <3>5
  <2>5. \A x \in States \ {s} : states'[x] = states[x] /\ passed'[x] = passed[x]
    BY <1>1, <1>2, <2>2 DEF PassedInv, TypeInv, Tables
  <2>6. passed' \in [States -> Nat]
    BY <1>1, <1>2, <2>1 DEF PassedInv
  <2> HIDE DEF s
  <2> QED BY <2>4, <2>5, <2>6 DEF PassedInv
<1>3. CASE UNCHANGED <<states, passed>>
  BY <1>3 DEF PassedInv
<1> QED BY <1>2, <1>3 DEF ConsumeState

LEMMA NextPassedInv ==
  ASSUME TypeInv, PassedInv, [Next]_vars
  PROVE  PassedInv'
<1>1. ASSUME NEW t \in Tasks, SignState(t) PROVE PassedInv'
  <2>1. PICK s \in States : states[s] = Null
           /\ \E row : states' = [states EXCEPT ![s] = row]
    BY <1>1 DEF SignState
  <2>2. passed[s] = 0 /\ passed' = passed
    BY <1>1, <2>1 DEF PassedInv, SignState
  <2> QED BY <2>1, <2>2 DEF PassedInv, TypeInv, Tables
<1>2. ASSUME NEW s \in States, Expire(s) PROVE PassedInv'
  <2>1. states[s] \in StateRow
    BY <1>2 DEF Expire, TypeInv, Tables
  <2>2. states' = [states EXCEPT ![s] = [states[s] EXCEPT !.expired = TRUE]]
    BY <1>2 DEF Expire, TypeInv, Tables
  <2>3. [states[s] EXCEPT !.expired = TRUE] \in StateRow
        /\ [states[s] EXCEPT !.expired = TRUE].consumed = states[s].consumed
    BY <2>1 DEF StateRow
  <2>4. passed' = passed
    BY <1>2 DEF Expire
  <2> QED BY <2>2, <2>3, <2>4, NullAssumption DEF PassedInv, TypeInv, Tables
<1>3. CASE UNCHANGED <<states, passed>>
  BY <1>3 DEF PassedInv
<1>4. ASSUME NEW t \in Tasks, Handle(t), ~SignState(t), ~ConsumeState(t)
      PROVE  UNCHANGED <<states, passed>>
  BY <1>4 DEF Handle, FindConfig, CreateConfig, ResolveRuntimeConfig, UpdateConfig,
     LogUpdate, ExchangeCode, FindExistingIdentity, CountUsers, CreateUser, IssueSession
<1>5. CASE UNCHANGED vars
  BY <1>3, <1>5 DEF vars
<1> QED BY <1>1, <1>2, <1>3, <1>4, <1>5, ConsumePassed
        DEF Next, Dies, AuthorizeUrl, WechatLogin, Callback, UpdateLoginMode

(* An OIDC state lets one callback pass, however many arrive and whatever  *)
(* happens in between (OidcStateService.consumeState).                     *)
THEOREM StateUsedOnceInvariant == Spec => []StateUsedOnce
<1>1. Init => PassedInv
  BY DEF Init, PassedInv
<1>2. PassedInv => StateUsedOnce
  BY DEF PassedInv, StateUsedOnce
<1> QED BY <1>1, <1>2, InitTypeInv, NextTypeInv, NextPassedInv, PTL DEF Spec

-----------------------------------------------------------------------------
(* One of the accounts is the administrator's.                             *)
AdministratorInv == Rows = {} \/ \E a \in Rows : Administrators = {a}

(* An account is created in the transaction that counted the accounts, so  *)
(* the first is the administrator's and no other is.                       *)
LEMMA CreateAdministrator ==
  ASSUME TypeInv, AdministratorInv, NEW t \in Tasks, CreateUser(t)
  PROVE  AdministratorInv'
<1>1. CASE UNCHANGED users
  BY <1>1 DEF AdministratorInv, Administrators, Rows
<1>2. ASSUME NEW u \in UserIds \ Rows, task[t].seen = Rows,
             users' = [users EXCEPT ![u] =
               [keys |-> task[t].ids, role |-> IF Rows = {} THEN "ADMIN" ELSE "STUDENT"]]
      PROVE  AdministratorInv'
  <2> DEFINE role == IF Rows = {} THEN "ADMIN" ELSE "STUDENT"
             row == [keys |-> task[t].ids, role |-> role]
  <2>1. task[t].ids \in Ids
    BY DEF CreateUser, TypeInv, RequestOK, Exchanged
  <2>2. row \in UserRow /\ row # Null /\ row.role = role
    BY <2>1, NullAssumption DEF UserRow, Ids
  <2> HIDE DEF row
  <2>3. Rows' = Rows \cup {u}
    BY <1>2, <2>2 DEF TypeInv, Tables, Rows, row
  <2>4. \A v \in Rows : users'[v] = users[v]
    BY <1>2 DEF TypeInv, Tables, Rows
  <2>5. users'[u].role = role
    BY <1>2, <2>2 DEF TypeInv, Tables, row
  <2>6. CASE Rows = {}
    BY <2>3, <2>5, <2>6 DEF AdministratorInv, Administrators
  <2>7. CASE Rows # {}
    <3>1. Administrators' = Administrators
      BY <2>3, <2>4, <2>5, <2>7, <1>2 DEF Administrators
    <3> QED BY <2>3, <2>7, <3>1 DEF AdministratorInv
  <2> QED BY <2>6, <2>7
<1> QED BY <1>1, <1>2 DEF CreateUser, Serializable

LEMMA NextAdministratorInv ==
  ASSUME TypeInv, AdministratorInv, [Next]_vars
  PROVE  AdministratorInv'
<1>1. CASE UNCHANGED users
  BY <1>1 DEF AdministratorInv, Administrators, Rows
<1>2. ASSUME NEW t \in Tasks, Handle(t), ~CreateUser(t) PROVE UNCHANGED users
  BY <1>2 DEF Handle, FindConfig, CreateConfig, ResolveRuntimeConfig, UpdateConfig,
     LogUpdate, SignState, ConsumeState, ExchangeCode, FindExistingIdentity, CountUsers,
     IssueSession
<1>3. CASE UNCHANGED vars
  BY <1>1, <1>3 DEF vars
<1> QED BY <1>1, <1>2, <1>3, CreateAdministrator
        DEF Next, Dies, AuthorizeUrl, WechatLogin, Callback, UpdateLoginMode, Expire

(* However first logins overlap, there is one administrator from the first *)
(* account on (UsersService.initializeUserFromIdentity).                   *)
THEOREM OneAdministratorInvariant == Spec => []OneAdministrator
<1>1. Init => AdministratorInv
  BY DEF Init, AdministratorInv, Rows
<1>2. AdministratorInv => OneAdministrator
  BY FS_Singleton DEF AdministratorInv, OneAdministrator
<1> QED BY <1>1, <1>2, InitTypeInv, NextTypeInv, NextAdministratorInv, PTL DEF Spec

-----------------------------------------------------------------------------
(* Accounts and identities                                                 *)

(* What identities have in common tells one person: an openid is in every  *)
(* identity of its person, and so is a subject.                            *)
OfOnePerson ==
  \A i, j, k \in Ids : i \cap j # {} /\ j \cap k # {} => i \cap k # {}

(* No two accounts have a value in common, and an identity is let in to an *)
(* account that it has a value in common with.                             *)
Belongs(table, ids, u) ==
  u \in UserIds /\ table[u] # Null /\ table[u].keys \cap ids # {}

AccountInv ==
  /\ \A u, v \in Rows : users[u].keys \cap users[v].keys # {} => u = v
  /\ \A t \in Tasks : task[t].pc = "session" => Belongs(users, task[t].ids, task[t].user)
  /\ \A x \in sessions : Belongs(users, x.ids, x.user)

(* Accounts are kept with their keys.                                      *)
Kept == \A u \in Rows : u \in Rows' /\ users'[u] = users[u]

(* No request has come to a session that was not there before.             *)
NoNewcomer ==
  \A t \in Tasks : task'[t].pc = "session" => task[t].pc = "session" /\ task'[t] = task[t]

LEMMA OldSessions ==
  ASSUME AccountInv, Kept, UNCHANGED <<Rows, sessions>>, NoNewcomer
  PROVE  AccountInv'
<1>1. \A u, v \in Rows' : users'[u].keys \cap users'[v].keys # {} => u = v
  BY DEF AccountInv, Kept
<1>2. \A ids, u : Belongs(users, ids, u) => Belongs(users', ids, u)
  BY DEF Belongs, Kept, Rows
<1> QED BY <1>1, <1>2 DEF AccountInv, NoNewcomer

LEMMA SameAccounts ==
  ASSUME UNCHANGED users
  PROVE  UNCHANGED Rows /\ Kept
BY DEF Rows, Kept

(* Steps of a request that neither end in a session nor come to one.       *)
LEMMA MovesOn ==
  ASSUME TypeInv, NEW t \in Tasks, NEW r, r.pc # "session",
         task' = [task EXCEPT ![t] = r]
  PROVE  NoNewcomer
BY DEF NoNewcomer, TypeInv

LEMMA ContinuesOn ==
  ASSUME TypeInv, NEW t \in Tasks, NEW pc, pc # "session", Continue(t, pc)
  PROVE  NoNewcomer
<1>1. task' = [task EXCEPT ![t] = [task[t] EXCEPT !.pc = pc]]
  BY DEF Continue, TypeInv
<1>2. [task[t] EXCEPT !.pc = pc].pc = pc
  BY DEF TypeInv, Request
<1> QED BY <1>1, <1>2, MovesOn

LEMMA EndsOff ==
  ASSUME TypeInv, NEW t \in Tasks, End(t)
  PROVE  NoNewcomer
BY MovesOn DEF End, Idle

LEMMA ProceedsOn ==
  ASSUME TypeInv, NEW t \in Tasks, NEW c, Proceed(t, c), task[t].op \in Ops
  PROVE  NoNewcomer
<1>1. AfterMode(task[t].op) # "session"
  BY DEF AfterMode, Ops
<1> QED BY <1>1, ContinuesOn, EndsOff DEF Proceed

(* The requests that begin.                                                *)
LEMMA StartAccounts ==
  ASSUME TypeInv, AccountInv, NEW t \in Tasks,
         \/ \E ids \in Identities["WECHAT"] : WechatLogin(t, ids)
         \/ AuthorizeUrl(t)
         \/ \E s \in States, ids \in Identities["OIDC"] : Callback(t, s, ids)
         \/ \E u \in UserIds, m \in Modes, r \in Redirects : UpdateLoginMode(t, u, m, r)
  PROVE  AccountInv'
<1>1. UNCHANGED <<users, sessions>>
  BY DEF WechatLogin, AuthorizeUrl, Callback, UpdateLoginMode
<1>2. \E r : r.pc # "session" /\ task' = [task EXCEPT ![t] = r]
  <2>1. ASSUME NEW ids \in Identities["WECHAT"], WechatLogin(t, ids)
        PROVE  \E r : r.pc # "session" /\ task' = [task EXCEPT ![t] = r]
    <3>1. [Idle EXCEPT !.pc = "config", !.op = "wechat", !.ids = ids].pc = "config"
      BY DEF Idle
    <3> QED BY <2>1, <3>1 DEF WechatLogin, Start
  <2>2. CASE AuthorizeUrl(t)
    <3>1. [Idle EXCEPT !.pc = "config", !.op = "authorize"].pc = "config"
      BY DEF Idle
    <3> QED BY <2>2, <3>1 DEF AuthorizeUrl, Start
  <2>3. ASSUME NEW s \in States, NEW ids \in Identities["OIDC"], Callback(t, s, ids)
        PROVE  \E r : r.pc # "session" /\ task' = [task EXCEPT ![t] = r]
    <3>1. [Idle EXCEPT !.pc = "config", !.op = "callback", !.state = s, !.ids = ids].pc
            = "config"
      BY DEF Idle
    <3> QED BY <2>3, <3>1 DEF Callback, Start
  <2>4. ASSUME NEW u \in UserIds, NEW m \in Modes, NEW r \in Redirects,
               UpdateLoginMode(t, u, m, r)
        PROVE  \E x : x.pc # "session" /\ task' = [task EXCEPT ![t] = x]
    <3>1. [Idle EXCEPT !.pc = "config", !.op = "update", !.user = u,
                       !.mode = m, !.redirect = r].pc = "config"
      BY DEF Idle
    <3> QED BY <2>4, <3>1 DEF UpdateLoginMode, Start
  <2> QED BY <2>1, <2>2, <2>3, <2>4
<1> QED BY <1>1, <1>2, SameAccounts, MovesOn, OldSessions

(* The steps on the way to the exchange of the code, and the exchange.     *)
LEMMA WayAccounts ==
  ASSUME TypeInv, AccountInv, NEW t \in Tasks,
         \/ FindConfig(t) \/ CreateConfig(t) \/ ResolveRuntimeConfig(t)
         \/ UpdateConfig(t) \/ LogUpdate(t) \/ SignState(t) \/ ConsumeState(t)
         \/ ExchangeCode(t) \/ CountUsers(t) \/ Dies(t)
  PROVE  AccountInv'
<1>0. task[t] \in Request /\ (task[t].pc # "idle" => task[t].op \in Ops)
  BY DEF TypeInv, RequestOK
<1>1. UNCHANGED <<users, sessions>>
  BY DEF FindConfig, CreateConfig, ResolveRuntimeConfig, UpdateConfig, LogUpdate,
         SignState, ConsumeState, ExchangeCode, CountUsers, Dies
<1>2. NoNewcomer
  <2>1. CASE FindConfig(t)
    BY <1>0, <2>1, ContinuesOn, ProceedsOn DEF FindConfig
  <2>2. CASE CreateConfig(t)
    BY <1>0, <2>2, ProceedsOn, EndsOff DEF CreateConfig, Fail
  <2>3. CASE ResolveRuntimeConfig(t)
    <3> DEFINE pc == IF task[t].op = "authorize" THEN "sign" ELSE "consume"
               r == [task[t] EXCEPT !.redirect = config.redirect, !.pc = pc]
    <3>1. task' = [task EXCEPT ![t] = r] /\ r.pc # "session"
      BY <1>0, <2>3 DEF ResolveRuntimeConfig, TypeInv, Request
    <3> HIDE DEF r
    <3> QED BY <3>1, MovesOn
  <2>4. CASE UpdateConfig(t)
    BY <2>4, ContinuesOn DEF UpdateConfig
  <2>5. CASE LogUpdate(t) \/ SignState(t) \/ Dies(t)
    BY <2>5, EndsOff DEF LogUpdate, SignState, Dies
  <2>6. CASE ConsumeState(t)
    BY <2>6, ContinuesOn, EndsOff DEF ConsumeState
  <2>7. CASE ExchangeCode(t)
    BY <2>7, ContinuesOn, EndsOff
    DEF ExchangeCode, ExchangeWechat, ExchangeOidc, Refused
  <2>8. CASE CountUsers(t)
    <3> DEFINE r == [task[t] EXCEPT !.pc = "create", !.seen = Rows]
    <3>1. task' = [task EXCEPT ![t] = r] /\ r.pc # "session"
      BY <1>0, <2>8 DEF CountUsers, TypeInv, Request
    <3> QED BY <3>1, MovesOn
  <2> QED BY <2>1, <2>2, <2>3, <2>4, <2>5, <2>6, <2>7, <2>8
<1> QED BY <1>1, <1>2, SameAccounts, OldSessions

(* An identity comes to an account it has been found in.                   *)
LEMMA FindAccounts ==
  ASSUME TypeInv, AccountInv, NEW t \in Tasks, FindExistingIdentity(t)
  PROVE  AccountInv'
<1>0. task[t] \in Request /\ UNCHANGED <<users, sessions, Rows>> /\ Kept
  BY SameAccounts DEF TypeInv, FindExistingIdentity
<1>1. CASE Continue(t, "count")
  BY <1>0, <1>1, ContinuesOn, OldSessions
<1>2. ASSUME NEW u \in Matching(task[t].ids),
             task' = [task EXCEPT ![t].pc = "session", ![t].user = u]
      PROVE  AccountInv'
  <2>1. task'[t].ids = task[t].ids /\ task'[t].user = u
    BY <1>0, <1>2 DEF TypeInv, Request
  <2>2. \A x \in Tasks \ {t} : task'[x] = task[x]
    BY <1>2 DEF TypeInv
  <2>3. Belongs(users, task[t].ids, u)
    BY DEF Matching, Belongs, Rows
  <2>4. \A ids, v : Belongs(users, ids, v) => Belongs(users', ids, v)
    BY <1>0 DEF Belongs
  <2>5. \A x \in Tasks : task'[x].pc = "session" =>
          Belongs(users', task'[x].ids, task'[x].user)
    BY <2>1, <2>2, <2>3, <2>4 DEF AccountInv
  <2> QED BY <1>0, <2>4, <2>5 DEF AccountInv
<1> QED BY <1>1, <1>2 DEF FindExistingIdentity

(* An account is made if no other has a value of the identity.             *)
LEMMA CreateAccounts ==
  ASSUME TypeInv, AccountInv, NEW t \in Tasks, CreateUser(t)
  PROVE  AccountInv'
<1> DEFINE ids == task[t].ids
           row == [keys |-> ids, role |-> IF task[t].seen = {} THEN "ADMIN" ELSE "STUDENT"]
<1>0. task[t] \in Request /\ ids \in Ids /\ UNCHANGED sessions
  BY DEF CreateUser, TypeInv, RequestOK, Exchanged
<1>1. row \in UserRow /\ row # Null /\ row.keys = ids
  BY <1>0, NullAssumption DEF UserRow, Ids
<1> HIDE DEF row
<1>2. CASE Fail(t, "user") /\ UNCHANGED users
  BY <1>0, <1>2, SameAccounts, EndsOff, OldSessions DEF Fail
<1>3. ASSUME IndexAllows(ids), NEW u \in UserIds \ Rows, users' = [users EXCEPT ![u] = row],
             task' = [task EXCEPT ![t].pc = "session", ![t].user = u]
      PROVE  AccountInv'
  <2>1. Rows' = Rows \cup {u} /\ users'[u] = row /\ \A v \in Rows : users'[v] = users[v]
    BY <1>1, <1>3 DEF TypeInv, Tables, Rows
  <2>2. \A v, w \in Rows' : users'[v].keys \cap users'[w].keys # {} => v = w
    BY <1>1, <1>3, <2>1 DEF IndexAllows, AccountInv
  <2>3. \A x, v : Belongs(users, x, v) => Belongs(users', x, v)
    BY <2>1 DEF Belongs, Rows
  <2>4. Belongs(users', ids, u)
    BY <1>0, <1>1, <2>1, IdentityAssumption DEF Belongs, Ids, Rows
  <2>5. task'[t].ids = ids /\ task'[t].user = u /\ \A x \in Tasks \ {t} : task'[x] = task[x]
    BY <1>0, <1>3 DEF TypeInv, Request
  <2>6. \A x \in Tasks : task'[x].pc = "session" =>
          Belongs(users', task'[x].ids, task'[x].user)
    BY <2>3, <2>4, <2>5 DEF AccountInv
  <2>7. \A x \in sessions' : Belongs(users', x.ids, x.user)
    BY <1>0, <2>3 DEF AccountInv
  <2> QED BY <2>2, <2>6, <2>7 DEF AccountInv
<1> QED BY <1>2, <1>3 DEF CreateUser, row

(* A token is signed for the account the request has come to.              *)
LEMMA SessionAccounts ==
  ASSUME TypeInv, AccountInv, NEW t \in Tasks, IssueSession(t)
  PROVE  AccountInv'
<1> DEFINE new == [ids |-> task[t].ids, user |-> task[t].user]
<1>1. UNCHANGED <<users, Rows>> /\ sessions' = sessions \cup {new}
  BY SameAccounts DEF IssueSession
<1>2. NoNewcomer
  BY EndsOff DEF IssueSession
<1>3. \A ids, v : Belongs(users, ids, v) => Belongs(users', ids, v)
  BY <1>1 DEF Belongs
<1>4. Belongs(users, new.ids, new.user)
  BY DEF IssueSession, AccountInv
<1> HIDE DEF new
<1>5. \A x \in sessions' : Belongs(users', x.ids, x.user)
  BY <1>1, <1>3, <1>4 DEF AccountInv
<1>6. \A x \in Tasks : task'[x].pc = "session" =>
        Belongs(users', task'[x].ids, task'[x].user)
  BY <1>2, <1>3 DEF NoNewcomer, AccountInv
<1> QED BY <1>1, <1>5, <1>6 DEF AccountInv

LEMMA NextAccountInv ==
  ASSUME TypeInv, AccountInv, [Next]_vars
  PROVE  AccountInv'
<1>1. ASSUME NEW t \in Tasks, Handle(t) \/ Dies(t) PROVE AccountInv'
  BY <1>1, WayAccounts, FindAccounts, CreateAccounts, SessionAccounts DEF Handle
<1>2. CASE \E s \in States : Expire(s)
  BY <1>2, SameAccounts, OldSessions DEF Expire, NoNewcomer
<1>3. CASE UNCHANGED vars
  BY <1>3, SameAccounts, OldSessions DEF vars, NoNewcomer
<1> QED BY <1>1, <1>2, <1>3, StartAccounts DEF Next

(* If what identities have in common tells one person, who shows the same  *)
(* openid or subject gets the same account, however first logins overlap   *)
(* (findExistingIdentity, and the unique columns of users).                *)
THEOREM SameAccountInvariant ==
  ASSUME OfOnePerson
  PROVE  Spec => []SameAccount
<1>1. Init => AccountInv
  BY DEF Init, AccountInv, Rows, Idle
<1>2. TypeInv /\ AccountInv => SameAccount
  <2> SUFFICES ASSUME TypeInv, AccountInv, NEW a \in sessions, NEW b \in sessions,
                      a.ids \cap b.ids # {}
               PROVE  a.user = b.user
    BY DEF SameAccount
  <2>1. Belongs(users, a.ids, a.user) /\ Belongs(users, b.ids, b.user)
    BY DEF AccountInv
  <2>2. a.ids \in Ids /\ b.ids \in Ids
    BY DEF TypeInv, Tables, Session, Ids
  <2>3. users[a.user].keys \in Ids /\ users[b.user].keys \in Ids
    BY <2>1 DEF Belongs, Rows, TypeInv, Tables, UserRow, Ids
  <2>4. users[a.user].keys \cap b.ids # {}
    BY <2>1, <2>2, <2>3, OfOnePerson DEF OfOnePerson, Belongs
  <2>5. users[a.user].keys \cap users[b.user].keys # {}
    BY <2>1, <2>2, <2>3, <2>4, OfOnePerson DEF OfOnePerson, Belongs
  <2> QED BY <2>1, <2>5 DEF AccountInv, Belongs, Rows
<1> QED BY <1>1, <1>2, InitTypeInv, NextTypeInv, NextAccountInv, PTL DEF Spec
=============================================================================
