------------------------ MODULE MiniappSessionProofs ------------------------
(***************************************************************************)
(* Theorems about MiniappSession, for every number of users, tokens,       *)
(* requests under way and restarts: the types, and that memory holds no    *)
(* session that the storage does not.                                      *)
(***************************************************************************)
EXTENDS MiniappSession, TLAPS

(* The inductive invariant, by components.                                 *)
SessionOK(s) == s \in Session \cup {Null} /\ (s # Null => owner[s.token] # Null)

AppOK ==
  /\ SessionOK(state) /\ SessionOK(stored)
  /\ MirrorsStorage
  /\ loading \in BOOLEAN
ScreenOK ==
  /\ page \in Pages /\ under \in Pages \cup {Null}
  /\ shown \in BOOLEAN
ServerOK ==
  /\ owner \in [Tokens -> Users \cup {Null}]
  /\ life \in [Tokens -> {"live", "revoked", "expired"}]

(* A request for /me carries a token that was issued.                      *)
Sound(r, issued) == r # Null /\ r.op = "me" => r.token \in issued
Issued == {k \in Tokens : owner[k] # Null}
CallsOK ==
  /\ call \in [Calls -> Call \cup {Null}]
  /\ \A c \in Calls : Sound(call[c], Issued)

IInv == AppOK /\ ScreenOK /\ ServerOK /\ CallsOK

-----------------------------------------------------------------------------
(* Parts of actions                                                        *)

LEMMA ReLaunched ==
  ASSUME NEW p \in Pages, ReLaunch(p)
  PROVE  ScreenOK'
BY DEF ReLaunch, ScreenOK

LEMMA Kept ==
  ASSUME IInv, NEW s, s \in Session \cup {Null}, s # Null => owner[s.token] # Null,
         Keep(s), UNCHANGED owner, loading' \in BOOLEAN
  PROVE  AppOK'
BY DEF Keep, AppOK, SessionOK, MirrorsStorage

LEMMA SameApp ==
  ASSUME IInv, UNCHANGED <<state, stored, owner>>, loading' \in BOOLEAN
  PROVE  AppOK'
BY DEF IInv, AppOK, SessionOK, MirrorsStorage

LEMMA EndedCall ==
  ASSUME IInv, NEW c \in Calls, Ended(c), UNCHANGED owner
  PROVE  CallsOK' /\ loading' \in BOOLEAN
BY DEF IInv, Ended, CallsOK, Sound, Issued

LEMMA Sent ==
  ASSUME IInv, NEW op \in {"me", "mode", "login", "oidc"},
         NEW then \in {"launch", "home", "stay"} \cup Pages,
         Send(op, then), op = "me" => stored # Null, UNCHANGED owner
  PROVE  CallsOK' /\ loading' \in BOOLEAN
<1> DEFINE token == IF stored = Null THEN Null ELSE stored.token
           r == [op |-> op, then |-> then, token |-> token]
<1>1. PICK c \in Calls : call' = [call EXCEPT ![c] = r]
  BY DEF Send
<1>2. stored # Null => token \in Tokens /\ owner[token] # Null
  BY DEF IInv, AppOK, SessionOK, Session
<1>3. token \in Tokens \cup {Null}
  BY <1>2
<1> HIDE DEF token
<1>4. r \in Call /\ r.op = op /\ r.token = token
  BY <1>3 DEF Call
<1> HIDE DEF r
<1>5. Sound(r, Issued')
  BY <1>2, <1>4 DEF Sound, Issued
<1>6. \A d \in Calls : Sound(call'[d], Issued')
  BY <1>1, <1>5 DEF IInv, CallsOK, Issued
<1>7. call' \in [Calls -> Call \cup {Null}]
  BY <1>1, <1>4 DEF IInv, CallsOK
<1> QED BY <1>6, <1>7 DEF Send, CallsOK

-----------------------------------------------------------------------------
(* The actions                                                             *)

LEMMA GuardIInv ==
  ASSUME IInv, NEW then \in {"launch"} \cup Pages, Guard(then), UNCHANGED server
  PROVE  IInv'
<1>1. CASE Usable
  <2>1. UNCHANGED <<stored, page, under, owner, life>> /\ state' = stored
        /\ Send("me", then) /\ shown' = TRUE /\ stored # Null
    BY <1>1 DEF Guard, Usable, server
  <2>2. CallsOK' /\ loading' \in BOOLEAN
    BY <2>1, Sent
  <2>3. AppOK'
    BY <2>1, <2>2 DEF IInv, AppOK, SessionOK, MirrorsStorage
  <2> QED BY <2>1, <2>2, <2>3 DEF IInv, ScreenOK, ServerOK
<1>2. CASE ~Usable
  <2>1. Keep(Null) /\ loading' = FALSE /\ ReLaunch("login") /\ UNCHANGED <<call, owner, life>>
    BY <1>2 DEF Guard, server
  <2>2. AppOK'
    BY <2>1, Kept
  <2>3. ScreenOK'
    BY <2>1, ReLaunched DEF Pages, OnLoad
  <2> QED BY <2>1, <2>2, <2>3 DEF IInv, ServerOK, CallsOK, Issued
<1> QED BY <1>1, <1>2

LEMMA ShowIInv ==
  ASSUME IInv, Show
  PROVE  IInv'
<1>1. UNCHANGED <<owner, life>>
  BY DEF Show, server
<1>2. CASE page \in OnShow
  <2>1. \E then \in {"launch"} \cup Pages : Guard(then)
    BY <1>2 DEF Show, OnShow, Pages
  <2> QED BY <1>1, <2>1, GuardIInv DEF server
<1>3. CASE page \in OnLoad
  <2>1. shown' = TRUE /\ UNCHANGED <<state, stored, page, under>>
    BY <1>3 DEF Show, OnShow, OnLoad
  <2>2. \/ Send("mode", "stay") \/ Send("login", "home")
        \/ UNCHANGED <<call, loading>>
    BY <1>3 DEF Show, OnShow, OnLoad
  <2>3. CallsOK' /\ loading' \in BOOLEAN
    <3>1. CASE UNCHANGED <<call, loading>>
      BY <1>1, <3>1 DEF IInv, AppOK, CallsOK, Issued
    <3>2. CASE Send("mode", "stay") \/ Send("login", "home")
      BY <1>1, <3>2, Sent
    <3> QED BY <2>2, <3>1, <3>2
  <2> QED BY <1>1, <2>1, <2>3, SameApp DEF IInv, ScreenOK, ServerOK
<1> QED BY <1>2, <1>3 DEF IInv, ScreenOK, Pages

LEMMA TapIInv ==
  ASSUME IInv, Login \/ StartOidc \/ GoProfile \/ GoBack \/ GoLogin \/ Logout
  PROVE  IInv'
<1>1. CASE Login \/ StartOidc
  <2>1. UNCHANGED <<state, stored, page, under, shown, owner, life>>
        /\ (Send("login", "home") \/ Send("oidc", "stay"))
    BY <1>1 DEF Login, StartOidc, screen, server
  <2>2. CallsOK' /\ loading' \in BOOLEAN
    BY <2>1, Sent
  <2> QED BY <2>1, <2>2, SameApp DEF IInv, ScreenOK, ServerOK
<1>2. CASE GoProfile \/ GoBack \/ GoLogin
  <2>1. UNCHANGED <<state, stored, loading, call, owner, life>>
    BY <1>2 DEF GoProfile, GoBack, GoLogin, app, server
  <2>2. ScreenOK'
    <3>1. CASE GoProfile
      BY <3>1 DEF GoProfile, IInv, ScreenOK, Pages, OnShow
    <3>2. CASE GoBack
      BY <3>2, ReLaunched DEF GoBack, IInv, ScreenOK, Pages, OnShow
    <3>3. CASE GoLogin
      BY <3>3, ReLaunched DEF GoLogin, Pages, OnLoad
    <3> QED BY <1>2, <3>1, <3>2, <3>3
  <2>3. AppOK'
    BY <2>1, SameApp DEF IInv, AppOK
  <2> QED BY <2>1, <2>2, <2>3 DEF IInv, ServerOK, CallsOK, Issued
<1>3. CASE Logout
  <2>1. Keep(Null) /\ loading' = FALSE /\ ReLaunch("login") /\ UNCHANGED <<call, owner, life>>
    BY <1>3 DEF Logout, ClearSession, server
  <2>2. AppOK' /\ ScreenOK'
    BY <2>1, Kept, ReLaunched DEF Pages, OnLoad
  <2> QED BY <2>1, <2>2 DEF IInv, ServerOK, CallsOK, Issued
<1> QED BY <1>1, <1>2, <1>3

LEMMA LoggedInIInv ==
  ASSUME IInv, NEW c \in Calls, NEW u \in Users, LoggedIn(c, u)
  PROVE  IInv'
<1>1. PICK k \in Tokens :
        /\ owner[k] = Null
        /\ owner' = [owner EXCEPT ![k] = u]
        /\ Keep([token |-> k, user |-> u])
        /\ call' = [call EXCEPT ![c] = [op |-> "me", then |-> "home", token |-> k]]
        /\ loading' = TRUE
  BY DEF LoggedIn
<1>2. UNCHANGED <<page, under, shown, life>>
  BY DEF LoggedIn, screen
<1> DEFINE s == [token |-> k, user |-> u]
           r == [op |-> "me", then |-> "home", token |-> k]
<1>3. ServerOK' /\ Issued' = Issued \cup {k}
  BY <1>1, <1>2, UserAssumption DEF IInv, ServerOK, Issued
<1>4. AppOK'
  <2>1. s \in Session /\ s.token = k /\ owner'[k] # Null
    BY <1>1, UserAssumption DEF Session, IInv, ServerOK
  <2> HIDE DEF s
  <2> QED BY <1>1, <2>1 DEF Keep, AppOK, SessionOK, MirrorsStorage, s
<1>5. CallsOK'
  <2>1. r \in Call /\ Sound(r, Issued')
    BY <1>3 DEF Call, Sound
  <2>2. \A d \in Calls : Sound(call'[d], Issued')
    BY <1>1, <1>3, <2>1 DEF IInv, CallsOK, Sound
  <2> QED BY <1>1, <2>1, <2>2 DEF IInv, CallsOK
<1> QED BY <1>2, <1>3, <1>4, <1>5 DEF IInv, ScreenOK

LEMMA AnswerIInv ==
  ASSUME IInv, NEW c \in Calls, Answer(c)
  PROVE  IInv'
<1>1. CASE ModeAnswered(c)
  <2>1. UNCHANGED <<state, stored, page, under, shown, owner, life>> /\ Ended(c)
    BY <1>1 DEF ModeAnswered, screen, server
  <2>2. CallsOK' /\ loading' \in BOOLEAN
    BY <2>1, EndedCall
  <2> QED BY <2>1, <2>2, SameApp DEF IInv, ScreenOK, ServerOK
<1>2. CASE Refreshed(c)
  <2> DEFINE u == owner[call[c].token]
  <2>1. UNCHANGED <<owner, life>> /\ Ended(c) /\ u \in Users
    BY <1>2 DEF Refreshed, Asked, server, IInv, CallsOK, Sound, Issued, ServerOK
  <2>2. CallsOK' /\ loading' \in BOOLEAN
    BY <2>1, EndedCall
  <2>3. AppOK'
    <3>1. CASE UNCHANGED <<state, stored>>
      BY <2>1, <2>2, <3>1, SameApp
    <3>2. CASE state # Null /\ Keep(FromMe(u))
      <4>1. FromMe(u) \in Session /\ owner[FromMe(u).token] # Null
        BY <2>1, <3>2 DEF FromMe, Session, IInv, AppOK, SessionOK
      <4> QED BY <2>1, <2>2, <3>2, <4>1, Kept
    <3> QED BY <1>2, <3>1, <3>2 DEF Refreshed
  <2>4. ScreenOK'
    <3>1. CASE UNCHANGED screen
      BY <3>1 DEF screen, IInv, ScreenOK
    <3>2. CASE ReLaunch(Home(u))
      <4>1. Home(u) \in Pages
        BY DEF Home, Pages, OnShow
      <4> QED BY <3>2, <4>1, ReLaunched
    <3> QED BY <1>2, <3>1, <3>2 DEF Refreshed
  <2> QED BY <2>1, <2>2, <2>3, <2>4 DEF IInv, ServerOK
<1>3. CASE Answered401(c) \/ NotAnswered(c)
  <2>1. UNCHANGED <<owner, life>> /\ Ended(c)
        /\ (Keep(Null) \/ UNCHANGED <<state, stored>>)
        /\ (ReLaunch("login") \/ UNCHANGED screen)
    BY <1>3 DEF Answered401, NotAnswered, server
  <2>2. CallsOK' /\ loading' \in BOOLEAN
    BY <2>1, EndedCall
  <2>3. AppOK'
    BY <2>1, <2>2, Kept, SameApp
  <2>4. ScreenOK'
    <3>1. CASE UNCHANGED screen
      BY <3>1 DEF screen, IInv, ScreenOK
    <3> QED BY <2>1, <3>1, ReLaunched DEF Pages, OnLoad
  <2> QED BY <2>1, <2>2, <2>3, <2>4 DEF IInv, ServerOK
<1> QED BY <1>1, <1>2, <1>3, LoggedInIInv DEF Answer

LEMMA RestartIInv ==
  ASSUME IInv, Restart
  PROVE  IInv'
<1>1. UNCHANGED <<stored, owner, life>> /\ state' = Null /\ loading' = FALSE
      /\ call' = [c \in Calls |-> Null]
  BY DEF Restart, server
<1>2. AppOK'
  BY <1>1 DEF IInv, AppOK, SessionOK, MirrorsStorage
<1>3. ScreenOK'
  BY ReLaunched DEF Restart
<1>4. CallsOK'
  BY <1>1 DEF CallsOK, Sound
<1> QED BY <1>1, <1>2, <1>3, <1>4 DEF IInv, ServerOK

LEMMA TokenEndsIInv ==
  ASSUME IInv, NEW k \in Tokens, NEW how \in {"expired", "revoked"}, TokenEnds(k, how)
  PROVE  IInv'
<1>1. UNCHANGED <<state, stored, loading, page, under, shown, call, owner>>
      /\ life' = [life EXCEPT ![k] = how]
  BY DEF TokenEnds, app, screen
<1> QED BY <1>1 DEF IInv, AppOK, SessionOK, MirrorsStorage, ScreenOK, ServerOK, CallsOK, Issued

-----------------------------------------------------------------------------
(* The theorems                                                            *)

LEMMA InitIInv == Init => IInv
BY DEF Init, IInv, AppOK, SessionOK, MirrorsStorage, ScreenOK, ServerOK, CallsOK, Sound,
       Pages, OnShow

LEMMA NextIInv == IInv /\ [Next]_vars => IInv'
<1> SUFFICES ASSUME IInv, [Next]_vars PROVE IInv'
  OBVIOUS
<1>1. CASE UNCHANGED vars
  BY <1>1 DEF vars, app, screen, server, IInv, AppOK, SessionOK, MirrorsStorage, ScreenOK,
              ServerOK, CallsOK, Issued
<1> QED BY <1>1, ShowIInv, TapIInv, AnswerIInv, RestartIInv, TokenEndsIInv DEF Next

(* Every part of the store, of the storage and of the requests under way   *)
(* has its type, and /me is asked for only with a token that was issued    *)
(* (guards.ts, uni-transport.ts).                                          *)
THEOREM TypesInvariant == Spec => []TypeOK
<1>1. IInv => TypeOK
  BY NullAssumption
  DEF IInv, AppOK, SessionOK, ScreenOK, ServerOK, CallsOK, Sound, Issued, Asked, TypeOK
<1> QED BY <1>1, InitIInv, NextIInv, PTL DEF Spec

(* However answers and screens interleave, memory holds no session that    *)
(* the storage does not (auth.ts, storage.ts).                             *)
THEOREM MirrorsStorageInvariant == Spec => []MirrorsStorage
<1>1. IInv => MirrorsStorage
  BY DEF IInv, AppOK
<1> QED BY <1>1, InitIInv, NextIInv, PTL DEF Spec
=============================================================================
