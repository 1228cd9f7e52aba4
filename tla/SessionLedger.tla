---------------------------- MODULE SessionLedger ----------------------------
(***************************************************************************)
(* What the store of refresh sessions promises, without its look-ups, its  *)
(* resent commands, the cookies and the access tokens: a session is opened *)
(* by a login, or in exchange for one that was spent; it is spent or ended *)
(* in one step and only while it lasts, and who has spent it may open one  *)
(* session for it, once.  A crash falls back to the sessions that were     *)
(* synced last; nothing else brings a session back.                        *)
(***************************************************************************)
EXTENDS Integers

CONSTANTS Sessions, Requests, NoSession, RefreshTTL

VARIABLES
  active,    \* sessions that are neither spent nor ended
  saved,     \* those of them that survive a crash
  openedAt,  \* when each session was opened
  login,     \* the session opened by the login it goes back to, once opened
  parent,    \* the session it was exchanged for, or none
  owed,      \* the session each request has spent and not yet exchanged
  now

vars == <<active, saved, openedAt, login, parent, owed, now>>

Init ==
  /\ active = {} /\ saved = {}
  /\ openedAt = [s \in Sessions |-> 0]
  /\ login = [s \in Sessions |-> NoSession]
  /\ parent = [s \in Sessions |-> NoSession]
  /\ owed = [r \in Requests |-> NoSession]
  /\ now = 1

Open(s, first, from) ==
  /\ login[s] = NoSession
  /\ active' = active \cup {s}
  /\ openedAt' = [openedAt EXCEPT ![s] = now]
  /\ login' = [login EXCEPT ![s] = first]
  /\ parent' = [parent EXCEPT ![s] = from]
  /\ UNCHANGED <<saved, now>>

Login(s) == Open(s, s, NoSession) /\ UNCHANGED owed

Lasts(s) == s \in active /\ now < openedAt[s] + RefreshTTL

(* Logout, or an exchange whose reply is lost. *)
End(s) ==
  /\ Lasts(s)
  /\ active' = active \ {s}
  /\ UNCHANGED <<saved, openedAt, login, parent, owed, now>>

Spend(r, s) ==
  /\ Lasts(s)
  /\ owed[r] = NoSession
  /\ active' = active \ {s}
  /\ owed' = [owed EXCEPT ![r] = s]
  /\ UNCHANGED <<saved, openedAt, login, parent, now>>

Exchange(r, s) ==
  /\ owed[r] # NoSession
  /\ Open(s, login[owed[r]], owed[r])
  /\ owed' = [owed EXCEPT ![r] = NoSession]

Forfeit(r) ==
  /\ owed[r] # NoSession
  /\ owed' = [owed EXCEPT ![r] = NoSession]
  /\ UNCHANGED <<active, saved, openedAt, login, parent, now>>

Tick == now' = now + 1 /\ UNCHANGED <<active, saved, openedAt, login, parent, owed>>

Sync == saved' = active /\ UNCHANGED <<active, openedAt, login, parent, owed, now>>

Crash == active' = saved /\ UNCHANGED <<saved, openedAt, login, parent, owed, now>>

Next ==
  \/ \E s \in Sessions : Login(s) \/ End(s)
  \/ \E r \in Requests, s \in Sessions : Spend(r, s) \/ Exchange(r, s)
  \/ \E r \in Requests : Forfeit(r)
  \/ Tick \/ Sync \/ Crash

Spec == Init /\ [][Next]_vars
=============================================================================
