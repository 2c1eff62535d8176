--------------------------- MODULE MiniappSession ---------------------------
(***************************************************************************)
(* The miniapp's session: a store in memory, its copy in the storage, the  *)
(* pages that refresh it from /me when they are shown, and the guards that *)
(* navigate by the answer.  Requests overlap, since a page is shown again  *)
(* when the app comes back from the background, and are answered in any    *)
(* order, by then perhaps to another session.                              *)
(***************************************************************************)
EXTENDS Naturals, FiniteSets

CONSTANTS
  Users, Admins,  \* Admins: those of Users the server calls ADMIN
  Tokens,         \* bound on sessions
  Calls,          \* bound on requests under way
  Failing,        \* requests may fail without an answer
  MaxRestarts,    \* bound
  Null

ASSUME UserAssumption == Admins \subseteq Users /\ Null \notin Users

OnShow == {"index", "student", "admin", "profile"}
OnLoad == {"login", "callback"}
Pages == OnShow \cup OnLoad

VARIABLES
  state,      \* the store: token and user, or Null
  stored,     \* smartseat.auth.session in the storage
  loading,    \* state.loading
  page, under,\* the page shown, and the page it was opened from
  shown,      \* its onShow or onLoad has run
  call,       \* requests under way, with their token and what follows them
  owner,      \* the server's: tokens issued
  life,       \* the server's: what became of them
  restarts

app == <<state, stored, loading>>
screen == <<page, under, shown>>
server == <<owner, life>>
vars == <<app, screen, call, server, restarts>>

Session == [token: Tokens, user: Users]
Call == [op: {"me", "mode", "login", "oidc"}, then: {"launch", "home", "stay"} \cup Pages,
         token: Tokens \cup {Null}]

ASSUME NullAssumption == Null \notin Session \cup Call

Home(u) == IF u \in Admins THEN "admin" ELSE "student"

Init ==
  /\ state = Null /\ stored = Null /\ loading = FALSE
  /\ page = "index" /\ under = Null /\ shown = FALSE
  /\ call = [c \in Calls |-> Null]
  /\ owner = [k \in Tokens |-> Null] /\ life = [k \in Tokens |-> "live"]
  /\ restarts = 0

ReLaunch(p) == page' = p /\ under' = Null /\ shown' = FALSE

(* The request carries the token of the storage when it is sent.           *)
Send(op, then) ==
  \E c \in Calls :
    /\ call[c] = Null
    /\ call' = [call EXCEPT ![c] =
         [op |-> op, then |-> then,
          token |-> IF stored = Null THEN Null ELSE stored.token]]
    /\ loading' = TRUE

Keep(session) == stored' = session /\ state' = session

-----------------------------------------------------------------------------
(* Pages *)

Usable == stored # Null /\ life[stored.token] # "expired"

(* hasUsableSession, then refreshMe or the login page.                     *)
Guard(then) ==
  IF Usable
  THEN state' = stored /\ Send("me", then) /\ shown' = TRUE
       /\ UNCHANGED <<stored, page, under>>
  ELSE Keep(Null) /\ loading' = FALSE /\ ReLaunch("login") /\ UNCHANGED call

Show ==
  /\ ~shown \/ page \in OnShow
  /\ CASE page = "index" -> Guard("launch")
       [] page \in OnShow \ {"index"} -> Guard(page)
       [] page = "login" -> Send("mode", "stay") /\ shown' = TRUE
                            /\ UNCHANGED <<state, stored, page, under>>
       [] page = "callback" -> \* unless code or state is missing
            /\ Send("login", "home") \/ UNCHANGED <<call, loading>>
            /\ shown' = TRUE /\ UNCHANGED <<state, stored, page, under>>
  /\ UNCHANGED <<server, restarts>>

(* Pages hide their buttons while loading.                                 *)
Tap(p) == page = p /\ shown /\ ~loading

Login ==
  /\ Tap("login") /\ Send("login", "home")
  /\ UNCHANGED <<state, stored, screen, server, restarts>>

StartOidc ==
  /\ Tap("login") /\ Send("oidc", "stay")
  /\ UNCHANGED <<state, stored, screen, server, restarts>>

GoProfile ==
  /\ Tap("student") \/ Tap("admin")
  /\ page' = "profile" /\ under' = page /\ shown' = FALSE
  /\ UNCHANGED <<app, call, server, restarts>>

GoBack ==
  /\ Tap("profile")
  /\ ReLaunch(IF under = Null THEN "index" ELSE under)
  /\ UNCHANGED <<app, call, server, restarts>>

GoLogin ==
  /\ page = "callback" /\ \A c \in Calls : call[c] = Null
  /\ ReLaunch("login")
  /\ UNCHANGED <<app, call, server, restarts>>

(* Defect: memory is not cleared.                                          *)
LogoutStored == state' = state /\ stored' = Null

ClearSession == Keep(Null)

Logout ==
  /\ Tap("profile")
  /\ ClearSession /\ loading' = FALSE
  /\ ReLaunch("login")
  /\ UNCHANGED <<call, server, restarts>>

-----------------------------------------------------------------------------
(* Answers.  What follows runs before anything else can.                   *)

Ended(c) == call' = [call EXCEPT ![c] = Null] /\ loading' = FALSE

Asked(c, op) == call[c] # Null /\ call[c].op = op

ModeAnswered(c) ==
  /\ Asked(c, "mode") \/ Asked(c, "oidc")
  /\ Ended(c)
  /\ UNCHANGED <<state, stored, screen, server, restarts>>

(* The session is kept, and /me asked for with its token.                  *)
LoggedIn(c, u) ==
  /\ Asked(c, "login")
  /\ \E k \in Tokens :
       /\ owner[k] = Null
       /\ owner' = [owner EXCEPT ![k] = u]
       /\ Keep([token |-> k, user |-> u])
       /\ call' = [call EXCEPT ![c] = [op |-> "me", then |-> "home", token |-> k]]
       /\ loading' = TRUE
  /\ UNCHANGED <<screen, life, restarts>>

FromMe(u) == [token |-> state.token, user |-> u]

SentAway(then, u) == then \in {"student", "admin"} \ {Home(u)}

(* What /me says is kept with the token the store holds by now.            *)
Refreshed(c) ==
  LET u == owner[call[c].token] IN
  /\ Asked(c, "me") /\ life[call[c].token] = "live"
  /\ IF state = Null THEN UNCHANGED <<state, stored>>
                     ELSE Keep(FromMe(u))
  /\ Ended(c)
  /\ IF call[c].then \in {"launch", "home"} \/ SentAway(call[c].then, u)
       THEN ReLaunch(Home(u)) ELSE UNCHANGED screen
  /\ UNCHANGED <<server, restarts>>

(* Defect: a launch that failed leaves the page where it is.               *)
LeadsFromPages(then) == then \in OnShow

LeadsToLogin(then) == then \notin {"home", "stay"}

Answered401(c) ==
  /\ \/ Asked(c, "login")
     \/ Asked(c, "me") /\ life[call[c].token] # "live"
  /\ Keep(Null) /\ Ended(c)
  /\ IF LeadsToLogin(call[c].then) THEN ReLaunch("login") ELSE UNCHANGED screen
  /\ UNCHANGED <<server, restarts>>

(* No answer in time, or another error: the launch logs out, guards do not.*)
NotAnswered(c) ==
  /\ Failing /\ call[c] # Null
  /\ IF call[c].then = "launch" THEN Keep(Null) ELSE UNCHANGED <<state, stored>>
  /\ Ended(c)
  /\ IF LeadsToLogin(call[c].then) THEN ReLaunch("login") ELSE UNCHANGED screen
  /\ UNCHANGED <<server, restarts>>

-----------------------------------------------------------------------------
(* The app is started again, on a page it was linked to perhaps; tokens    *)
(* end.                                                                    *)

Restart ==
  /\ restarts < MaxRestarts /\ restarts' = restarts + 1
  /\ state' = Null /\ loading' = FALSE /\ UNCHANGED stored
  /\ call' = [c \in Calls |-> Null]
  /\ \E p \in Pages : ReLaunch(p)
  /\ UNCHANGED server

TokenEnds(k, how) ==
  /\ owner[k] # Null /\ life[k] = "live"
  /\ life' = [life EXCEPT ![k] = how]
  /\ UNCHANGED <<app, screen, call, owner, restarts>>

Answer(c) ==
  \/ ModeAnswered(c) \/ Refreshed(c) \/ Answered401(c) \/ NotAnswered(c)
  \/ \E u \in Users : LoggedIn(c, u)

Next ==
  \/ Show \/ Login \/ StartOidc \/ GoProfile \/ GoBack \/ GoLogin \/ Logout \/ Restart
  \/ \E c \in Calls : Answer(c)
  \/ \E k \in Tokens, how \in {"expired", "revoked"} : TokenEnds(k, how)

Spec == Init /\ [][Next]_vars

(* Every request ends, by its timeout at the latest; a page is shown.      *)
FairSpec ==
  /\ Spec
  /\ WF_vars(~shown /\ Show)
  /\ \A c \in Calls : WF_vars(Answer(c))

-----------------------------------------------------------------------------
(* Properties *)

TypeOK ==
  /\ state \in Session \cup {Null} /\ stored \in Session \cup {Null}
  /\ loading \in BOOLEAN /\ shown \in BOOLEAN
  /\ page \in Pages /\ under \in Pages \cup {Null}
  /\ owner \in [Tokens -> Users \cup {Null}]
  /\ life \in [Tokens -> {"live", "revoked", "expired"}]
  /\ \A c \in Calls : Asked(c, "me") => owner[call[c].token] # Null

(* However answers and screens interleave, memory holds no session that    *)
(* the storage does not: what the user sees survives a restart, and what   *)
(* was logged out does not come back (auth.ts, storage.ts).                *)
MirrorsStorage == state # Null => state = stored

(* The launch page always leads on, whatever happens to its request.       *)
LaunchLeadsOn == []<>(page # "index")

-----------------------------------------------------------------------------
(* What the code does not keep: in no run, TLC finds each of them violated *)

(* The account in the session is that of its token (the answer to one      *)
(* session's /me is kept with the next one's token).                       *)
UserIsTokens == state # Null => state.user = owner[state.token]

(* A token the server accepts is given up only at the user's wish, or for  *)
(* another (an old request's 401 and a launch without network end it).     *)
SessionKept ==
  [][stored # Null /\ life[stored.token] = "live" /\ stored' = Null => Logout]_vars

(* Nothing being under way, a home page is shown only to the account it is *)
(* for (an old request's answer replaces the session, or clears it, and    *)
(* leaves the page).                                                       *)
HomeIsForRole ==
  shown /\ page \in {"student", "admin"} /\ (\A c \in Calls : call[c] = Null)
    => state # Null /\ page = Home(state.user)
=============================================================================
