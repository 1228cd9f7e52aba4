------------------------------ MODULE Sessions ------------------------------
(***************************************************************************)
(* Refresh sessions in Redis, access tokens, and the browsers that hold    *)
(* them: login, refresh, logout and the authorization of every other       *)
(* request, as AuthService, SessionRepo, AuthHandler and the Auth          *)
(* middleware carry them out, one action per command sent to Redis.        *)
(*                                                                         *)
(* A session stands for its id, for the refresh token whose hash it is     *)
(* found by and for the access token issued with it: all three are drawn   *)
(* anew by openSession, and the cookies are set and cleared together.      *)
(* A request slot is reused once its response has reached the browser or   *)
(* is lost.  Redis may lose its unsynced writes (appendfsync everysec).    *)
(***************************************************************************)
EXTENDS Integers, FiniteSets

CONSTANTS Sessions,    \* the sessions openSession may draw
          Clients,     \* browsers
          Requests,    \* request slots: how many requests run at a time
          NoSession,   \* no cookie; no session
          Ops,         \* what the browsers do
          RefreshTTL,  \* lifetime of a session, in ticks
          AccessTTL,   \* lifetime of an access token, in ticks
          MaxTime,     \* bound on the clock
          MaxResends,  \* times the client library resends a command
          MaxCrashes   \* bound on the crashes of Redis

ASSUME NoSessionAssumption == NoSession \notin Sessions
ASSUME FiniteAssumption == IsFiniteSet(Sessions) /\ IsFiniteSet(Requests)
ASSUME OpsAssumption == Ops \subseteq {"login", "refresh", "logout", "protected"}
ASSUME BoundsAssumption ==
  /\ RefreshTTL \in Nat /\ AccessTTL \in Nat /\ MaxTime \in Nat
  /\ MaxResends \in Nat /\ MaxCrashes \in Nat

VARIABLES
  session,      \* Redis: the hash and the index of each session
  durable,      \* Redis: what the append-only file holds of them
  crashes,      \* Redis crashes so far, at most MaxCrashes
  now,          \* the clock of the service and of Redis, at most MaxTime
  jar,          \* the cookies of each browser
  pc,           \* next step of each request, or the answer on its way back
  req,          \* what each request carries and has found out
  accessUntil,  \* expiry of the access token issued with each session
  parent,       \* history: the session whose refresh opened this one
  login,        \* history: the session opened by the login it goes back to
  issuedAt,     \* history: when the session was created
  revokedAt     \* history: when the script last revoked the session

history == <<parent, login, issuedAt, revokedAt>>
redis == <<session, durable, crashes>>
vars == <<redis, now, jar, pc, req, accessUntil, history>>

-----------------------------------------------------------------------------
Steps == {"get_index", "get_fields", "revoke", "open", "issue", "authorize"}
Answers == {"opened", "invalid", "ended", "failed", "granted", "denied"}

SessionOrNone == Sessions \cup {NoSession}
Records == [state : {"none", "active", "revoked"}, expires : Nat]
ReqType == [client : Clients, op : Ops \cup {"none"}, token : SessionOrNone,
            fresh : SessionOrNone, resent : Nat, mine : BOOLEAN]

(* Both keys of a session expire together. *)
Present(s) == session[s].state # "none" /\ now < session[s].expires
Live(s) == Present(s) /\ session[s].state = "active"

(* Mistake: the script looks at neither the flag nor the key's expiry. *)
RevocableStale(s) == session[s].state = "active"
(* Mistake: a session that is already revoked is revoked again. *)
RevocableAgain(s) == Present(s)
(* The Lua script: HGET revoked = '0', which an expired key does not have. *)
Revocable(s) == Live(s)

(* A request as it is sent, before anything is known about its session. *)
Carry(c, op, token) ==
  [client |-> c, op |-> op, token |-> token,
   fresh |-> NoSession, resent |-> 0, mine |-> FALSE]

Goto(r, step) == pc' = [pc EXCEPT ![r] = step]

-----------------------------------------------------------------------------
Init ==
  /\ session = [s \in Sessions |-> [state |-> "none", expires |-> 0]]
  /\ durable = session
  /\ crashes = 0
  /\ now = 1
  /\ jar = [c \in Clients |-> NoSession]
  /\ pc = [r \in Requests |-> "idle"]
  /\ req \in [Requests -> {Carry(c, "none", NoSession) : c \in Clients}]
  /\ accessUntil = [s \in Sessions |-> 0]
  /\ parent = [s \in Sessions |-> NoSession]
  /\ login = [s \in Sessions |-> NoSession]
  /\ issuedAt = [s \in Sessions |-> 0]
  /\ revokedAt = [s \in Sessions |-> 0]

(* Mistake: a missing refresh cookie is looked up like any other. *)
FirstStepUnchecked(op, token) ==
  IF op = "login" THEN "open" ELSE IF op = "protected" THEN "authorize" ELSE "get_index"
(* Where a request enters the service; without a cookie it is answered at  *)
(* once.                                                                   *)
FirstStep(op, token) ==
  CASE op = "login" -> "open"
    [] op = "refresh" -> IF token = NoSession THEN "invalid" ELSE "get_index"
    [] op = "logout" -> IF token = NoSession THEN "ended" ELSE "get_index"
    [] op = "protected" -> IF token = NoSession THEN "denied" ELSE "authorize"

(* A browser sends a request with the cookies it has. *)
Send(r) ==
  /\ pc[r] = "idle"
  /\ \E c \in Clients, op \in Ops :
       /\ req' = [req EXCEPT ![r] = Carry(c, op, jar[c])]
       /\ Goto(r, FirstStep(op, jar[c]))
  /\ UNCHANGED <<redis, now, jar, accessUntil, history>>

(* No such session: refresh refuses, logout has nothing left to do. *)
NotFound(r) == Goto(r, IF req[r].op = "refresh" THEN "invalid" ELSE "ended")

(* GET of the index. *)
GetIndex(r) ==
  /\ pc[r] = "get_index"
  /\ IF Present(req[r].token) THEN Goto(r, "get_fields") ELSE NotFound(r)
  /\ UNCHANGED <<redis, now, jar, req, accessUntil, history>>

(* Mistake: logout ends when the session has been found. *)
NextOfFieldsNoLogout(r) ==
  IF req[r].op = "logout" THEN "ended"
  ELSE IF Live(req[r].token) THEN "revoke" ELSE "invalid"
(* Refresh goes on with an active session only, logout with any. *)
NextOfFields(r) ==
  IF req[r].op = "refresh" /\ ~Live(req[r].token) THEN "invalid" ELSE "revoke"

(* HGETALL of the session, and the checks made on what it returns. *)
GetFields(r) ==
  /\ pc[r] = "get_fields"
  /\ IF Present(req[r].token) THEN Goto(r, NextOfFields(r)) ELSE NotFound(r)
  /\ UNCHANGED <<redis, now, jar, req, accessUntil, history>>

(* Mistake: refresh goes on whether or not it revoked the session. *)
NextOfRevokeAlways(r, revoked) == IF req[r].op = "logout" THEN "ended" ELSE "open"
(* Mistake: the reply of the script is read the wrong way round. *)
NextOfRevokeInverted(r, revoked) ==
  IF req[r].op = "logout" THEN "ended" ELSE IF revoked THEN "invalid" ELSE "open"
(* Only the refresh that revoked the session goes on. *)
NextOfRevoke(r, revoked) ==
  IF req[r].op = "logout" THEN "ended" ELSE IF revoked THEN "open" ELSE "invalid"

(* The revoke script runs.  Its reply arrives, or is lost and the command  *)
(* is sent again, or is lost for good.                                     *)
RunScript(r) ==
  LET s == req[r].token
      revoked == Revocable(s)
  IN
  /\ pc[r] = "revoke"
  /\ session' = IF revoked THEN [session EXCEPT ![s].state = "revoked"] ELSE session
  /\ revokedAt' = IF revoked THEN [revokedAt EXCEPT ![s] = now] ELSE revokedAt
  /\ \/ /\ Goto(r, NextOfRevoke(r, revoked))
        /\ req' = [req EXCEPT ![r].mine = @ \/ revoked]
     \/ /\ req[r].resent < MaxResends
        /\ req' = [req EXCEPT ![r].resent = @ + 1, ![r].mine = @ \/ revoked]
        /\ UNCHANGED pc
     \/ /\ req[r].resent = MaxResends
        /\ Goto(r, "failed")
        /\ req' = [req EXCEPT ![r].mine = @ \/ revoked]
  /\ UNCHANGED <<durable, crashes, now, jar, accessUntil, parent, login, issuedAt>>

(* openSession draws a session nobody has and creates it in MULTI/EXEC. *)
CreateSession(r) ==
  /\ pc[r] = "open"
  /\ \E s \in Sessions :
       /\ login[s] = NoSession
       /\ session' = [session EXCEPT ![s] = [state |-> "active",
                                             expires |-> now + RefreshTTL]]
       /\ req' = [req EXCEPT ![r].fresh = s]
       /\ parent' = [parent EXCEPT ![s] =
                       IF req[r].op = "refresh" THEN req[r].token ELSE NoSession]
       /\ login' = [login EXCEPT ![s] =
                       IF req[r].op = "refresh" THEN login[req[r].token] ELSE s]
       /\ issuedAt' = [issuedAt EXCEPT ![s] = now]
  /\ Goto(r, "issue")
  /\ UNCHANGED <<durable, crashes, now, jar, accessUntil, revokedAt>>

(* IssueAccess of JWTIssuer. *)
AccessExpiry(time) == time + AccessTTL

(* The access token is signed; the answer with both cookies leaves. *)
IssueAccess(r) ==
  /\ pc[r] = "issue"
  /\ accessUntil' = [accessUntil EXCEPT ![req[r].fresh] = AccessExpiry(now)]
  /\ Goto(r, "opened")
  /\ UNCHANGED <<redis, now, jar, req, history>>

(* Mistake: a token is still accepted at its expiry. *)
AccessValidLate(s) == now <= accessUntil[s]
(* JWTIssuer.Parse: the signature, which the model's tokens have, and the  *)
(* expiry.  The session is not looked up.                                  *)
AccessValid(s) == now < accessUntil[s]

Authorize(r) ==
  /\ pc[r] = "authorize"
  /\ Goto(r, IF AccessValid(req[r].token) THEN "granted" ELSE "denied")
  /\ UNCHANGED <<redis, now, jar, req, accessUntil, history>>

(* Redis cannot be reached, the browser gives up or the server stops. *)
Fail(r) ==
  /\ pc[r] \in Steps \ {"authorize"}
  /\ Goto(r, "failed")
  /\ UNCHANGED <<redis, now, jar, req, accessUntil, history>>

(* The cookies after an answer.  Logout clears them before it calls the    *)
(* service, refresh only when the session is invalid.                      *)
Cookies(r) ==
  CASE pc[r] = "opened" -> req[r].fresh
    [] pc[r] \in {"invalid", "ended"} -> NoSession
    [] pc[r] = "failed" /\ req[r].op = "logout" -> NoSession
    [] OTHER -> jar[req[r].client]

(* The answer reaches the browser, in any order, or is lost on the way. *)
Return(r) ==
  /\ pc[r] \in Answers
  /\ \/ jar' = [jar EXCEPT ![req[r].client] = Cookies(r)]
     \/ jar' = jar
  /\ Goto(r, "idle")
  /\ req' = [req EXCEPT ![r] = Carry(@.client, "none", NoSession)]
  /\ UNCHANGED <<redis, now, accessUntil, history>>

Tick ==
  /\ now < MaxTime
  /\ now' = now + 1
  /\ UNCHANGED <<redis, jar, pc, req, accessUntil, history>>

(* Once a second the append-only file is synced; a crash goes back to it. *)
Sync ==
  /\ crashes < MaxCrashes
  /\ durable' = session
  /\ UNCHANGED <<session, crashes, now, jar, pc, req, accessUntil, history>>

CrashRedis ==
  /\ crashes < MaxCrashes
  /\ crashes' = crashes + 1
  /\ session' = durable
  /\ UNCHANGED <<durable, now, jar, pc, req, accessUntil, history>>

Serve(r) ==
  GetIndex(r) \/ GetFields(r) \/ RunScript(r) \/ CreateSession(r)
    \/ IssueAccess(r) \/ Authorize(r)

Next ==
  \/ \E r \in Requests :
       Send(r) \/ Serve(r) \/ Fail(r) \/ Return(r)
  \/ Tick \/ Sync \/ CrashRedis

Spec == Init /\ [][Next]_vars

-----------------------------------------------------------------------------
(* The variables have their types, and a request that looks a session up   *)
(* or revokes it carries the token of one that was issued.                 *)
TypeOK ==
  /\ session \in [Sessions -> Records]
  /\ durable \in [Sessions -> Records]
  /\ crashes \in 0..MaxCrashes
  /\ now \in Nat
  /\ jar \in [Clients -> SessionOrNone]
  /\ pc \in [Requests -> {"idle"} \cup Steps \cup Answers]
  /\ req \in [Requests -> ReqType]
  /\ \A r \in Requests :
       /\ pc[r] \in {"get_index", "get_fields", "revoke"} =>
            /\ req[r].op \in {"refresh", "logout"}
            /\ req[r].token \in Sessions
       /\ pc[r] = "authorize" \/ (pc[r] = "open" /\ req[r].op = "refresh") =>
            req[r].token \in Sessions
       /\ pc[r] \in {"issue", "opened"} => req[r].fresh \in Sessions
  /\ accessUntil \in [Sessions -> Nat]
  /\ parent \in [Sessions -> SessionOrNone]
  /\ login \in [Sessions -> SessionOrNone]
  /\ issuedAt \in [Sessions -> Nat]
  /\ revokedAt \in [Sessions -> Nat]

(* A refresh token is exchanged at most once, however many refreshes race, *)
(* are resent or fail; each crash of Redis can allow one exchange more.    *)
ExchangedOnce ==
  \A s \in Sessions :
    Cardinality({t \in Sessions : parent[t] = s}) <= 1 + crashes

(* Of all the sessions that go back to one login at most one is live: a    *)
(* chain of refreshes never forks.  A crash of Redis may double what is    *)
(* live, when it brings back sessions that are being exchanged.            *)
ForksNeedCrashes ==
  \A l \in Sessions :
    Cardinality({s \in Sessions : Live(s) /\ login[s] = l}) <= 2^crashes

(* The refresh that has revoked the session is answered with a new pair,   *)
(* unless the script was sent twice for it: the second reply says that the *)
(* session was revoked before.                                             *)
RevokerServedUnlessResent ==
  \A r \in Requests :
    pc[r] = "invalid" /\ req[r].mine => req[r].resent > 0

(* When logout answers 204, the session of its cookie is not live, whoever *)
(* revoked it, and stays so unless Redis crashes.                          *)
LogoutRevokes ==
  crashes = 0 =>
    \A r \in Requests :
      pc[r] = "ended" /\ req[r].token # NoSession => ~Live(req[r].token)

(* An access token outlives its session, but after the session is revoked  *)
(* it is accepted for less than AccessTTL.                                 *)
StaleAccessBounded ==
  [][\A r \in Requests :
       pc[r] = "authorize" /\ pc'[r] = "granted" /\ revokedAt[req[r].token] # 0
         => now < revokedAt[req[r].token] + AccessTTL]_vars

(* Refreshes, logouts and logins, with their look-ups, lost replies and    *)
(* resent scripts, are single steps on the ledger of sessions.             *)
Owed(r) == IF pc[r] = "open" /\ req[r].op = "refresh" THEN req[r].token ELSE NoSession
Ledger == INSTANCE SessionLedger
  WITH active <- {s \in Sessions : session[s].state = "active"},
       saved <- {s \in Sessions : durable[s].state = "active"},
       openedAt <- issuedAt,
       owed <- [r \in Requests |-> Owed(r)]
ImplementsLedger == Ledger!Spec

-----------------------------------------------------------------------------
(* The API documentation says of logout that it ends the current session:  *)
(* nothing that goes back to the same login is live when 204 arrives.      *)
LogoutEndsLogin ==
  \A r \in Requests :
    pc[r] = "ended" /\ req[r].token # NoSession =>
      \A s \in Sessions : login[s] = login[req[r].token] => ~Live(s)
=============================================================================
