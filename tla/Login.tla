------------------------------- MODULE Login -------------------------------
(***************************************************************************)
(* Logging in.  A request reads the login mode, creating the configuration *)
(* when it is missing; exchanges its code with the provider; looks for the *)
(* account of the identity, and creates it in a SERIALIZABLE transaction   *)
(* that makes the first account the administrator's.  An OIDC callback     *)
(* consumes its state first.  An administrator changes mode and logs it.   *)
(***************************************************************************)
EXTENDS Naturals, FiniteSets, Sequences

CONSTANTS
  Tasks,          \* bound: requests handled at once
  UserIds,        \* bound on accounts
  States,         \* bound on OIDC states
  Identities,     \* by mode: what its provider may say of a person, sets of
                  \* values of the unique columns openid, unionid, sub, number
  Redirects,      \* values of oidc_redirect_uri
  Existing,       \* the configurations there may be at first, Null: none yet
  DefaultMode, Null,
  MaxUpdates,     \* bound
  MaxFailures     \* bound on refused exchanges and requests that break off

Modes == {"WECHAT", "OIDC"}
Config == [mode: Modes, redirect: Redirects]

(* Rows of the tables users and oidc_auth_states, as far as logins go.     *)
UserRow == [keys: UNION {Identities[m] : m \in Modes}, role: {"ADMIN", "STUDENT"}]
StateRow == [redirect: Redirects, consumed: BOOLEAN, expired: BOOLEAN]

ASSUME ConfigAssumption ==
  /\ DefaultMode \in Modes /\ Redirects # {} /\ Null \notin Config
  /\ Existing \subseteq Config \cup {Null}
ASSUME IdentityAssumption == {} \notin UNION {Identities[m] : m \in Modes}
ASSUME NullAssumption == Null \notin UserRow \cup StateRow

VARIABLES
  config,     \* the row auth_config_default
  users,      \* table users
  states,     \* table oidc_auth_states: consumed, expired
  task,       \* a request between two of its steps
  sessions,   \* tokens issued: for which identity, to which account
  passed,     \* how often each state let a callback pass
  errors,     \* statements that failed in the database
  modeLog,    \* admin_action_logs of UPDATE_AUTH_CONFIG, the modes
  failures

vars == <<config, users, states, task, sessions, passed, errors, modeLog, failures>>

Idle == [pc |-> "idle", op |-> Null, ids |-> {}, state |-> Null, seen |-> {},
         user |-> Null, mode |-> Null, redirect |-> Null]
Rows == {u \in UserIds : users[u] # Null}
Administrators == {u \in Rows : users[u].role = "ADMIN"}

Init ==
  /\ config \in Existing
  /\ users = [u \in UserIds |-> Null]
  /\ states = [s \in States |-> Null]
  /\ task = [t \in Tasks |-> Idle]
  /\ sessions = {} /\ errors = {} /\ modeLog = <<>> /\ failures = 0
  /\ passed = [s \in States |-> 0]

Start(t, request) == task[t] = Idle /\ task' = [task EXCEPT ![t] = request]
Continue(t, pc) == task' = [task EXCEPT ![t].pc = pc]
End(t) == task' = [task EXCEPT ![t] = Idle]
Fail(t, statement) == End(t) /\ errors' = errors \cup {statement}

-----------------------------------------------------------------------------
(* Requests *)

WechatLogin(t, ids) ==
  /\ Start(t, [Idle EXCEPT !.pc = "config", !.op = "wechat", !.ids = ids])
  /\ UNCHANGED <<config, users, states, sessions, passed, errors, modeLog, failures>>

AuthorizeUrl(t) ==
  /\ Start(t, [Idle EXCEPT !.pc = "config", !.op = "authorize"])
  /\ UNCHANGED <<config, users, states, sessions, passed, errors, modeLog, failures>>

Callback(t, s, ids) ==
  /\ states[s] # Null
  /\ Start(t, [Idle EXCEPT !.pc = "config", !.op = "callback", !.state = s, !.ids = ids])
  /\ UNCHANGED <<config, users, states, sessions, passed, errors, modeLog, failures>>

UpdateLoginMode(t, u, mode, redirect) ==
  /\ u \in Administrators /\ Len(modeLog) < MaxUpdates
  /\ Start(t, [Idle EXCEPT !.pc = "config", !.op = "update", !.user = u,
                           !.mode = mode, !.redirect = redirect])
  /\ UNCHANGED <<config, users, states, sessions, passed, errors, modeLog, failures>>

-----------------------------------------------------------------------------
(* The configuration *)

Enabled(op, mode) ==
  CASE op = "wechat" -> mode = "WECHAT"
    [] op \in {"authorize", "callback"} -> mode = "OIDC"
    [] op = "update" -> TRUE

AfterMode(op) ==
  CASE op = "wechat" -> "exchange"
    [] op \in {"authorize", "callback"} -> "resolve"
    [] op = "update" -> "update"

Proceed(t, c) ==
  IF Enabled(task[t].op, c.mode) THEN Continue(t, AfterMode(task[t].op)) ELSE End(t)

FindConfig(t) ==
  /\ task[t].pc = "config"
  /\ IF config = Null THEN Continue(t, "newConfig") ELSE Proceed(t, config)
  /\ UNCHANGED <<config, users, states, sessions, passed, errors, modeLog, failures>>

CreateConfig(t) ==
  /\ task[t].pc = "newConfig"
  /\ \/ /\ config = Null
        /\ config' \in {c \in Config : c.mode = DefaultMode}
        /\ Proceed(t, config')
        /\ UNCHANGED errors
     \/ config # Null /\ Fail(t, "config") /\ UNCHANGED config
  /\ UNCHANGED <<users, states, sessions, passed, modeLog, failures>>

ResolveRuntimeConfig(t) ==
  /\ task[t].pc = "resolve"
  /\ task' = [task EXCEPT ![t].redirect = config.redirect,
                          ![t].pc = IF task[t].op = "authorize" THEN "sign" ELSE "consume"]
  /\ UNCHANGED <<config, users, states, sessions, passed, errors, modeLog, failures>>

UpdateConfig(t) ==
  /\ task[t].pc = "update"
  /\ config' = [mode |-> task[t].mode, redirect |-> task[t].redirect]
  /\ Continue(t, "log")
  /\ UNCHANGED <<users, states, sessions, passed, errors, modeLog, failures>>

LogUpdate(t) ==
  /\ task[t].pc = "log"
  /\ modeLog' = Append(modeLog, task[t].mode)
  /\ End(t)
  /\ UNCHANGED <<config, users, states, sessions, passed, errors, failures>>

-----------------------------------------------------------------------------
(* OIDC states *)

SignState(t) ==
  /\ task[t].pc = "sign"
  /\ \E s \in States :
       /\ states[s] = Null
       /\ states' = [states EXCEPT ![s] =
                       [redirect |-> task[t].redirect, consumed |-> FALSE, expired |-> FALSE]]
  /\ End(t)
  /\ UNCHANGED <<config, users, sessions, passed, errors, modeLog, failures>>

(* Defect: whether a state was consumed is not part of the update.         *)
ConsumableAgain(s) == ~states[s].expired

Consumable(s) == ~states[s].expired /\ ~states[s].consumed

ConsumeState(t) ==
  LET s == task[t].state IN
  /\ task[t].pc = "consume"
  /\ IF states[s].redirect = task[t].redirect /\ Consumable(s)
       THEN /\ states' = [states EXCEPT ![s].consumed = TRUE]
            /\ passed' = [passed EXCEPT ![s] = @ + 1]
            /\ Continue(t, "exchange")
       ELSE End(t) /\ UNCHANGED <<states, passed>>
  /\ UNCHANGED <<config, users, sessions, errors, modeLog, failures>>

Expire(s) ==
  /\ states[s] # Null /\ ~states[s].expired
  /\ states' = [states EXCEPT ![s].expired = TRUE]
  /\ UNCHANGED <<config, users, task, sessions, passed, errors, modeLog, failures>>

-----------------------------------------------------------------------------
(* From code to session *)

ExchangeWechat(t) ==
  task[t].op = "wechat" /\ Continue(t, "find") /\ UNCHANGED failures

ExchangeOidc(t) ==
  task[t].op = "callback" /\ Continue(t, "find") /\ UNCHANGED failures

(* The code is invalid, or the provider does not answer.                   *)
Refused(t) == failures < MaxFailures /\ failures' = failures + 1 /\ End(t)

ExchangeCode(t) ==
  /\ task[t].pc = "exchange"
  /\ ExchangeWechat(t) \/ ExchangeOidc(t) \/ Refused(t)
  /\ UNCHANGED <<config, users, states, sessions, passed, errors, modeLog>>

(* Defect: every value must match, not one of them.                        *)
MatchingAll(ids) == {u \in Rows : ids \subseteq users[u].keys}

Matching(ids) == {u \in Rows : users[u].keys \cap ids # {}}

(* Defect: who is not found is let in, without an account.                 *)
FindOnly(t) ==
  LET found == Matching(task[t].ids) IN
  /\ task[t].pc = "find"
  /\ \E u \in IF found = {} THEN {Null} ELSE found :
       task' = [task EXCEPT ![t].pc = "session", ![t].user = u]
  /\ UNCHANGED <<config, users, states, sessions, passed, errors, modeLog, failures>>

FindExistingIdentity(t) ==
  LET found == Matching(task[t].ids) IN
  /\ task[t].pc = "find"
  /\ \/ found = {} /\ Continue(t, "count")
     \/ \E u \in found : task' = [task EXCEPT ![t].pc = "session", ![t].user = u]
  /\ UNCHANGED <<config, users, states, sessions, passed, errors, modeLog, failures>>

CountUsers(t) ==
  /\ task[t].pc = "count"
  /\ task' = [task EXCEPT ![t].pc = "create", ![t].seen = Rows]
  /\ UNCHANGED <<config, users, states, sessions, passed, errors, modeLog, failures>>

(* Defect: READ COMMITTED, or no unique columns.                           *)
CommittedRead(seen) == TRUE
IndexAllowsAny(ids) == TRUE

Serializable(seen) == seen = Rows
IndexAllows(ids) == \A u \in Rows : users[u].keys \cap ids = {}

CreateUser(t) ==
  LET seen == task[t].seen  ids == task[t].ids IN
  /\ task[t].pc = "create"
  /\ \/ /\ Serializable(seen) /\ IndexAllows(ids)
        /\ \E u \in UserIds \ Rows :
             /\ users' = [users EXCEPT ![u] =
                  [keys |-> ids, role |-> IF seen = {} THEN "ADMIN" ELSE "STUDENT"]]
             /\ task' = [task EXCEPT ![t].pc = "session", ![t].user = u]
        /\ UNCHANGED errors
     \/ ~(Serializable(seen) /\ IndexAllows(ids)) /\ Fail(t, "user") /\ UNCHANGED users
  /\ UNCHANGED <<config, states, sessions, passed, modeLog, failures>>

(* The profile is updated, and the token signed with the account's roles.  *)
IssueSession(t) ==
  /\ task[t].pc = "session"
  /\ sessions' = sessions \cup {[ids |-> task[t].ids, user |-> task[t].user]}
  /\ End(t)
  /\ UNCHANGED <<config, users, states, passed, errors, modeLog, failures>>

(* A statement fails, or the process ends in the middle of a request.      *)
Dies(t) ==
  /\ task[t] # Idle /\ failures < MaxFailures
  /\ failures' = failures + 1
  /\ End(t)
  /\ UNCHANGED <<config, users, states, sessions, passed, errors, modeLog>>

-----------------------------------------------------------------------------
Handle(t) ==
  \/ FindConfig(t) \/ CreateConfig(t) \/ ResolveRuntimeConfig(t) \/ UpdateConfig(t) \/ LogUpdate(t)
  \/ SignState(t) \/ ConsumeState(t)
  \/ ExchangeCode(t) \/ FindExistingIdentity(t) \/ CountUsers(t)
  \/ CreateUser(t) \/ IssueSession(t)

Next ==
  \/ \E t \in Tasks : Handle(t) \/ Dies(t) \/ AuthorizeUrl(t)
  \/ \E t \in Tasks, ids \in Identities["WECHAT"] : WechatLogin(t, ids)
  \/ \E t \in Tasks, s \in States, ids \in Identities["OIDC"] : Callback(t, s, ids)
  \/ \E t \in Tasks, u \in UserIds, m \in Modes, r \in Redirects : UpdateLoginMode(t, u, m, r)
  \/ \E s \in States : Expire(s)

Spec == Init /\ [][Next]_vars

(* Requests are handled, and a person without a session tries again.       *)
Tries(t, ids) == (\A x \in sessions : x.ids # ids) /\ WechatLogin(t, ids)

FairSpec ==
  /\ Spec
  /\ \A t \in Tasks : WF_vars(Handle(t))
  /\ \A ids \in Identities["WECHAT"] : SF_vars(\E t \in Tasks : Tries(t, ids))

-----------------------------------------------------------------------------
(* Properties *)

Session == [ids: UNION {Identities[m] : m \in Modes}, user: UserIds]

TypeOK ==
  /\ config \in Config \cup {Null}
  /\ \A u \in Rows : users[u].role \in {"ADMIN", "STUDENT"} /\ users[u].keys # {}
  /\ \A s \in States : states[s] # Null => states[s].redirect \in Redirects
  /\ sessions \subseteq Session /\ modeLog \in Seq(Modes)
  /\ \A t \in Tasks : task[t].pc = "session" => task[t].user \in Rows

(* However first logins overlap, there is one administrator from the first *)
(* account on (initializeUserFromIdentity).                                *)
OneAdministrator == Rows # {} => Cardinality(Administrators) = 1

(* Whoever shows the same openid or subject gets the same account.         *)
SameAccount ==
  \A a, b \in sessions : a.ids \cap b.ids # {} => a.user = b.user

(* A state lets one callback pass, however many arrive (consumeState).     *)
StateUsedOnce == \A s \in States : passed[s] <= 1

(* Everybody who keeps trying gets in: first logins that spoil each other, *)
(* and requests that break off, come to an end.                             *)
EveryoneGetsIn ==
  \A ids \in Identities["WECHAT"] : <>(\E x \in sessions : x.ids = ids)

-----------------------------------------------------------------------------
(* What the code does not keep: in no run, TLC finds each of them violated *)

(* No request is answered with an internal error (the loser of a race for  *)
(* the configuration or for an account is).                                *)
NoFailedStatement == errors = {}

Updating(t) == task[t].pc \in {"update", "log"} /\ task[t].op = "update"

(* The log's last entry is the mode now in force (a request may break off  *)
(* after the update).                                                      *)
LogTellsMode ==
  (\A t \in Tasks : ~Updating(t)) /\ modeLog # <<>> => config.mode = modeLog[Len(modeLog)]
=============================================================================
