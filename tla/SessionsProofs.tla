--------------------------- MODULE SessionsProofs ---------------------------
(***************************************************************************)
(* Proofs about Sessions: the invariants and the action property its runs  *)
(* check, for any sessions, browsers, concurrent requests, lifetimes,      *)
(* resends and crashes.                                                    *)
(***************************************************************************)
EXTENDS Sessions, FiniteSetTheorems, TLAPS

(* A session that has been opened. *)
Known(s) == login[s] # NoSession

(* Only sessions that have been opened are named anywhere. *)
KnownInv ==
  /\ \A c \in Clients : jar[c] \in Sessions => Known(jar[c])
  /\ \A r \in Requests : /\ req[r].token \in Sessions => Known(req[r].token)
                         /\ req[r].fresh \in Sessions => Known(req[r].fresh)
  /\ \A s \in Sessions : /\ parent[s] \in Sessions => Known(parent[s])
                         /\ login[s] \in Sessions => Known(login[s])

(* The session exchanged by a refresh that has not opened the next one. *)
Exchanging(r) == pc[r] = "open" /\ req[r].op = "refresh"
Holders(s) == {r \in Requests : Exchanging(r) /\ req[r].token = s}
Children(s) == {t \in Sessions : parent[t] = s}
Credit(s) == IF session[s].state = "active" THEN 1 ELSE 0

(* What a session has been exchanged for, is being exchanged for and can   *)
(* still be exchanged for: one session, and one more for every crash.      *)
BudgetInv ==
  \A s \in Sessions :
    Cardinality(Children(s)) + Cardinality(Holders(s)) + Credit(s) <= 1 + crashes

Active(s) == session[s].state = "active"

(* Of one login: the active sessions, those of them that survive a crash,  *)
(* and the refreshes that are about to open the next one.                  *)
Chain(l) == {s \in Sessions : Active(s) /\ login[s] = l}
Spared(l) == {s \in Sessions : durable[s].state = "active" /\ login[s] = l}
Renewing(l) == {r \in Requests : Exchanging(r) /\ login[req[r].token] = l}

(* What is active and what is about to be, together: each crash adds what  *)
(* the file had kept to what is under way.                                 *)
ChainInv ==
  \A l \in Sessions :
    /\ Cardinality(Chain(l)) + Cardinality(Renewing(l)) <= 2^crashes
    /\ Cardinality(Spared(l)) <= 2^crashes

(* A session lasts RefreshTTL from the moment it was created. *)
TimeInv ==
  /\ \A s \in Sessions : session[s].state # "none" =>
       Known(s) /\ session[s].expires = issuedAt[s] + RefreshTTL
  /\ \A s \in Sessions : durable[s].state # "none" =>
       Known(s) /\ durable[s].expires = issuedAt[s] + RefreshTTL
  /\ \A s \in Sessions : issuedAt[s] <= now
  /\ \A s \in Sessions : ~Known(s) => revokedAt[s] = 0

(* A session is exchanged or ended only while it lasts: the expiry checked *)
(* by the service is still good when the script runs.                      *)
RevokedInTime ==
  \A s \in Sessions :
    revokedAt[s] # 0 => /\ issuedAt[s] <= revokedAt[s]
                        /\ revokedAt[s] < issuedAt[s] + RefreshTTL

(* A session whose access token is being signed is not known outside the   *)
(* request that opened it, so nobody has revoked it.                       *)
SecretInv ==
  \A r \in Requests : pc[r] = "issue" =>
    /\ revokedAt[req[r].fresh] = 0
    /\ \A c \in Clients : jar[c] # req[r].fresh
    /\ \A q \in Requests : /\ req[q].token # req[r].fresh
                           /\ q # r => req[q].fresh # req[r].fresh

(* An access token was signed at most AccessTTL before it expires, and     *)
(* before its session was revoked.                                         *)
AccessInv ==
  \A s \in Sessions :
    /\ accessUntil[s] <= now + AccessTTL
    /\ revokedAt[s] # 0 => accessUntil[s] <= revokedAt[s] + AccessTTL

(* The inductive invariant. *)
IInv ==
  /\ TypeOK
  /\ KnownInv
  /\ BudgetInv
  /\ ChainInv
  /\ TimeInv
  /\ SecretInv
  /\ AccessInv
  /\ RevokedInTime
  /\ LogoutRevokes
-----------------------------------------------------------------------------
(* The subsets of 1..n are counted by the powers of two: without n + 1 and *)
(* with it.                                                                *)
LEMMA PowerOfTwo ==
  ASSUME NEW n \in Nat
  PROVE  2^n \in Nat \ {0} /\ 2^(n + 1) = 2^n + 2^n
<1> DEFINE Old == SUBSET (1..n)
           New == {T \cup {n + 1} : T \in Old}
           Add == [T \in Old |-> T \cup {n + 1}]
<1>1. /\ IsFiniteSet(1..n) /\ Cardinality(1..n) = n
      /\ IsFiniteSet(1..(n + 1)) /\ Cardinality(1..(n + 1)) = n + 1
  <2>1. 1 \in Int /\ n \in Int /\ n + 1 \in Int
    OBVIOUS
  <2>2. /\ IsFiniteSet(1..n) /\ Cardinality(1..n) = IF 1 > n THEN 0 ELSE n - 1 + 1
    BY <2>1, FS_Interval, Zenon
  <2>3. /\ IsFiniteSet(1..(n + 1))
        /\ Cardinality(1..(n + 1)) = IF 1 > n + 1 THEN 0 ELSE (n + 1) - 1 + 1
    BY <2>1, FS_Interval, Zenon
  <2> QED
    BY <2>2, <2>3
<1>2. IsFiniteSet(Old) /\ Cardinality(Old) = 2^n
  BY <1>1, FS_SUBSET
<1>3. Cardinality(SUBSET (1..(n + 1))) = 2^(n + 1)
  BY <1>1, FS_SUBSET
<1>4. Old \cap New = {}
  <2> SUFFICES ASSUME NEW T \in Old, NEW U \in Old, T = U \cup {n + 1} PROVE FALSE
    OBVIOUS
  <2> QED
    OBVIOUS
<1>5. Old \cup New = SUBSET (1..(n + 1))
  <2>1. ASSUME NEW U \in Old \cup New PROVE U \in SUBSET (1..(n + 1))
    BY <2>1
  <2>2. ASSUME NEW U \in SUBSET (1..(n + 1)) PROVE U \in Old \cup New
    <3>1. CASE n + 1 \in U
      <4>1. U \ {n + 1} \in Old /\ U = (U \ {n + 1}) \cup {n + 1}
        BY <3>1, <2>2
      <4> QED
        BY <4>1
    <3>2. CASE n + 1 \notin U
      BY <3>2, <2>2
    <3> QED
      BY <3>1, <3>2
  <2> QED
    BY <2>1, <2>2
<1>6. Add \in Bijection(Old, New)
  <2>1. Add \in [Old -> New]
    OBVIOUS
  <2>2. ASSUME NEW T \in Old, NEW U \in Old, Add[T] = Add[U] PROVE T = U
    <3>1. T \cup {n + 1} = U \cup {n + 1} /\ n + 1 \notin T /\ n + 1 \notin U
      BY <2>2
    <3> QED
      BY <3>1
  <2>3. \A U \in New : \E T \in Old : Add[T] = U
    OBVIOUS
  <2> QED
    BY <2>1, <2>2, <2>3 DEF Bijection, Injection, Surjection, IsInjective
<1>7. IsFiniteSet(New) /\ Cardinality(New) = Cardinality(Old)
  BY <1>2, <1>6, FS_Bijection DEF ExistsBijection
<1>8. Cardinality(Old) # 0
  BY <1>2, FS_EmptySet
<1> HIDE DEF Old, New
<1>9. Cardinality(SUBSET (1..(n + 1))) = Cardinality(Old) + Cardinality(New) - Cardinality({})
  BY <1>2, <1>4, <1>5, <1>7, FS_Union
<1>10. Cardinality({}) = 0 /\ Cardinality(Old) \in Nat
  BY <1>2, FS_EmptySet, FS_CardinalityType
<1>11. 2^(n + 1) = 2^n + 2^n
  BY <1>2, <1>3, <1>7, <1>9, <1>10
<1>12. 2^n \in Nat \ {0}
  BY <1>2, <1>10, <1>8
<1> QED
  BY <1>11, <1>12

(* The empty set has one subset. *)
LEMMA ZerothPower == 2^0 = 1
<1>1. IsFiniteSet({}) /\ Cardinality({}) = 0
  BY FS_EmptySet
<1>2. Cardinality(SUBSET {}) = 2^0
  BY <1>1, FS_SUBSET
<1>3. SUBSET {} = {{}}
  OBVIOUS
<1> QED
  BY <1>2, <1>3, FS_Singleton

(* How many elements a part of a set has, or of a set with one element     *)
(* more or one less.                                                       *)
LEMMA CountPart ==
  ASSUME NEW S, IsFiniteSet(S), NEW T, T \subseteq S
  PROVE  IsFiniteSet(T) /\ Cardinality(T) \in Nat /\ Cardinality(T) <= Cardinality(S)
BY FS_Subset, FS_CardinalityType

LEMMA CountOneMore ==
  ASSUME NEW S, IsFiniteSet(S), NEW x, NEW T, T \subseteq S \cup {x}
  PROVE  Cardinality(T) \in Nat /\ Cardinality(T) <= Cardinality(S) + 1
<1>1. /\ IsFiniteSet(S \cup {x}) /\ Cardinality(S) \in Nat
      /\ Cardinality(S \cup {x}) = IF x \in S THEN Cardinality(S) ELSE Cardinality(S) + 1
  BY FS_AddElement, FS_CardinalityType
<1>2. Cardinality(S \cup {x}) \in Nat /\ Cardinality(S \cup {x}) <= Cardinality(S) + 1
  BY <1>1
<1>3. Cardinality(T) \in Nat /\ Cardinality(T) <= Cardinality(S \cup {x})
  BY <1>1, CountPart
<1> QED
  BY <1>1, <1>2, <1>3

LEMMA CountOneLess ==
  ASSUME NEW S, IsFiniteSet(S), NEW x \in S, NEW T, T \subseteq S \ {x}
  PROVE  Cardinality(T) \in Nat /\ Cardinality(T) <= Cardinality(S) - 1
<1>1. IsFiniteSet(S \ {x}) /\ Cardinality(S \ {x}) = Cardinality(S) - 1
  BY FS_RemoveElement
<1>2. Cardinality(T) \in Nat /\ Cardinality(T) <= Cardinality(S \ {x})
  BY <1>1, CountPart
<1> QED
  BY <1>1, <1>2

THEOREM InitIInv == Init => IInv
<1> SUFFICES ASSUME Init PROVE IInv
  OBVIOUS
<1>1. /\ \A r \in Requests : /\ pc[r] = "idle" /\ req[r].op = "none"
                              /\ req[r].token = NoSession /\ req[r].fresh = NoSession
      /\ \A c \in Clients : jar[c] = NoSession
      /\ \A s \in Sessions : /\ session[s].state = "none" /\ durable[s].state = "none"
                              /\ parent[s] = NoSession /\ login[s] = NoSession
                              /\ revokedAt[s] = 0 /\ issuedAt[s] = 0 /\ accessUntil[s] = 0
      /\ crashes = 0 /\ now = 1
  BY DEF Init, Carry
<1>2. TypeOK
  <2>1. req \in [Requests -> ReqType]
    <3>1. \A c \in Clients : Carry(c, "none", NoSession) \in ReqType
      BY DEF ReqType, Carry, SessionOrNone
    <3> QED
      BY <3>1 DEF Init
  <2>2. session \in [Sessions -> Records] /\ durable \in [Sessions -> Records]
    BY DEF Init, Records
  <2> QED
    BY <2>1, <2>2, BoundsAssumption DEF Init, TypeOK, SessionOrNone, Steps, Answers
<1>3. KnownInv /\ TimeInv /\ SecretInv
  BY <1>1, NoSessionAssumption DEF KnownInv, TimeInv, SecretInv, Known
<1>4. BudgetInv
  <2>1. \A s \in Sessions : Children(s) = {} /\ Holders(s) = {} /\ Credit(s) = 0
    BY <1>1, NoSessionAssumption DEF Children, Holders, Exchanging, Credit
  <2>2. Cardinality({}) = 0
    BY FS_EmptySet
  <2> SUFFICES ASSUME NEW s \in Sessions
               PROVE  Cardinality(Children(s)) + Cardinality(Holders(s)) + Credit(s)
                        <= 1 + crashes
    BY DEF BudgetInv
  <2>3. Cardinality(Children(s)) = 0 /\ Cardinality(Holders(s)) = 0 /\ Credit(s) = 0
    BY <2>1, <2>2
  <2> QED
    BY <1>1, <2>3
<1>5. AccessInv /\ RevokedInTime /\ LogoutRevokes
  BY <1>1, BoundsAssumption DEF AccessInv, RevokedInTime, LogoutRevokes
<1>6. ChainInv
  <2>1. \A l \in Sessions : Chain(l) = {} /\ Renewing(l) = {} /\ Spared(l) = {}
    BY <1>1 DEF Chain, Renewing, Spared, Active, Exchanging
  <2>2. Cardinality({}) = 0 /\ 2^crashes = 1
    BY <1>1, FS_EmptySet, ZerothPower
  <2> SUFFICES ASSUME NEW l \in Sessions
               PROVE  /\ Cardinality(Chain(l)) + Cardinality(Renewing(l)) <= 2^crashes
                      /\ Cardinality(Spared(l)) <= 2^crashes
    BY DEF ChainInv
  <2>3. /\ Cardinality(Chain(l)) = 0 /\ Cardinality(Renewing(l)) = 0
        /\ Cardinality(Spared(l)) = 0
    BY <2>1, <2>2
  <2> QED
    BY <2>2, <2>3
<1> QED
  BY <1>2, <1>3, <1>4, <1>5, <1>6 DEF IInv

(* The sets of the budget are finite, and each number of it is natural. *)
LEMMA BudgetType ==
  ASSUME NEW s \in Sessions
  PROVE  /\ IsFiniteSet(Children(s)) /\ IsFiniteSet(Holders(s))
         /\ Cardinality(Children(s)) \in Nat /\ Cardinality(Holders(s)) \in Nat
         /\ Credit(s) \in {0, 1}
<1>1. Children(s) \in SUBSET Sessions /\ Holders(s) \in SUBSET Requests
  BY DEF Children, Holders
<1>2. IsFiniteSet(Children(s)) /\ IsFiniteSet(Holders(s))
  BY <1>1, FiniteAssumption, FS_Subset
<1>3. Credit(s) \in {0, 1}
  BY DEF Credit
<1> QED
  BY <1>2, <1>3, FS_CardinalityType

(* The next state keeps the budget of a session, unless it gains a child,  *)
(* a holder, or a credit no crash pays for.                                *)
LEMMA BudgetKept ==
  ASSUME IInv, crashes' \in Nat,
         NEW s \in Sessions,
         Children(s)' \subseteq Children(s), Holders(s)' \subseteq Holders(s),
         Credit(s)' + crashes <= Credit(s) + crashes'
  PROVE  Cardinality(Children(s)') + Cardinality(Holders(s)') + Credit(s)' <= 1 + crashes'
<1>1. /\ Cardinality(Children(s)') \in Nat
      /\ Cardinality(Children(s)') <= Cardinality(Children(s))
  BY BudgetType, FS_Subset, FS_CardinalityType
<1>2. /\ Cardinality(Holders(s)') \in Nat
      /\ Cardinality(Holders(s)') <= Cardinality(Holders(s))
  BY BudgetType, FS_Subset, FS_CardinalityType
<1>3. Credit(s)' \in {0, 1}
  BY DEF Credit
<1>4. Cardinality(Children(s)) + Cardinality(Holders(s)) + Credit(s) <= 1 + crashes
  BY DEF IInv, BudgetInv
<1>5. crashes \in Nat
  BY BoundsAssumption DEF IInv, TypeOK
<1> QED
  BY <1>1, <1>2, <1>3, <1>4, <1>5, BudgetType

(* The same sets of one login. *)
LEMMA ChainType ==
  ASSUME NEW l \in Sessions
  PROVE  /\ IsFiniteSet(Chain(l)) /\ Cardinality(Chain(l)) \in Nat
         /\ IsFiniteSet(Spared(l)) /\ Cardinality(Spared(l)) \in Nat
         /\ IsFiniteSet(Renewing(l)) /\ Cardinality(Renewing(l)) \in Nat
<1>1. /\ Chain(l) \subseteq Sessions /\ Spared(l) \subseteq Sessions
      /\ Renewing(l) \subseteq Requests
  BY DEF Chain, Spared, Renewing
<1> QED
  BY <1>1, FiniteAssumption, FS_Subset, FS_CardinalityType

(* The next state keeps the bound of a login that gains nothing. *)
LEMMA ChainKept ==
  ASSUME IInv, crashes' = crashes, NEW l \in Sessions,
         Chain(l)' \subseteq Chain(l), Renewing(l)' \subseteq Renewing(l),
         Spared(l)' \subseteq Spared(l)
  PROVE  /\ Cardinality(Chain(l)') + Cardinality(Renewing(l)') <= 2^crashes'
         /\ Cardinality(Spared(l)') <= 2^crashes'
<1>1. /\ Cardinality(Chain(l)') \in Nat /\ Cardinality(Chain(l)') <= Cardinality(Chain(l))
      /\ Cardinality(Renewing(l)') \in Nat
      /\ Cardinality(Renewing(l)') <= Cardinality(Renewing(l))
      /\ Cardinality(Spared(l)') \in Nat /\ Cardinality(Spared(l)') <= Cardinality(Spared(l))
  BY ChainType, CountPart
<1>2. /\ Cardinality(Chain(l)) + Cardinality(Renewing(l)) <= 2^crashes
      /\ Cardinality(Spared(l)) <= 2^crashes
  BY DEF IInv, ChainInv
<1>3. 2^crashes \in Nat /\ 2^crashes' = 2^crashes
  BY PowerOfTwo, BoundsAssumption DEF IInv, TypeOK
<1> QED
  BY <1>1, <1>2, <1>3, ChainType

(* No login gains anything when no session is opened and no exchange       *)
(* begins.                                                                 *)
LEMMA ChainStep ==
  ASSUME IInv, UNCHANGED <<session, durable, crashes, login>>,
         \A q \in Requests : Exchanging(q)' => Exchanging(q) /\ req'[q].token = req[q].token
  PROVE  ChainInv'
<1>1. ASSUME NEW l \in Sessions
      PROVE  /\ Chain(l)' \subseteq Chain(l) /\ Renewing(l)' \subseteq Renewing(l)
             /\ Spared(l)' \subseteq Spared(l)
  BY DEF Chain, Renewing, Spared, Active
<1> QED
  BY <1>1, ChainKept DEF ChainInv

(* A step that opens nothing and says nothing about sessions but that one  *)
(* is no longer live.                                                      *)
LEMMA GotoStep ==
  ASSUME IInv, NEW r \in Requests,
         NEW step \in {"get_fields", "revoke", "invalid", "ended", "failed", "granted", "denied"},
         Goto(r, step), UNCHANGED <<redis, now, jar, req, accessUntil, history>>,
         step \in {"get_fields", "revoke"} => pc[r] \in {"get_index", "get_fields"},
         step = "ended" /\ req[r].token # NoSession => ~Live(req[r].token)
  PROVE  IInv'
<1>1. UNCHANGED <<session, durable, crashes, now, jar, req, accessUntil,
                  parent, login, issuedAt, revokedAt>>
  BY DEF redis, history
<1>2. /\ pc'[r] = step
      /\ \A q \in Requests \ {r} : pc'[q] = pc[q]
  BY DEF Goto, IInv, TypeOK
<1>3. TypeOK'
  BY <1>1, <1>2 DEF Goto, IInv, TypeOK, Steps, Answers
<1>4. \A q \in Requests : Exchanging(q)' => Exchanging(q)
  BY <1>1, <1>2 DEF Exchanging
<1>5. KnownInv' /\ TimeInv' /\ AccessInv' /\ RevokedInTime'
  BY <1>1 DEF IInv, KnownInv, TimeInv, AccessInv, RevokedInTime, Known
<1>6. SecretInv'
  BY <1>1, <1>2 DEF IInv, SecretInv
<1>7. BudgetInv'
  <2>1. crashes' \in Nat
    BY <1>1, BoundsAssumption DEF IInv, TypeOK
  <2>2. ASSUME NEW s \in Sessions
        PROVE  /\ Children(s)' \subseteq Children(s) /\ Holders(s)' \subseteq Holders(s)
               /\ Credit(s)' + crashes <= Credit(s) + crashes'
    BY <1>1, <1>4, <2>1 DEF Children, Holders, Credit
  <2> QED
    BY <2>1, <2>2, BudgetKept DEF BudgetInv
<1>8. ChainInv'
  BY <1>1, <1>4, ChainStep
<1>9. LogoutRevokes'
  BY <1>1, <1>2 DEF IInv, LogoutRevokes, Live, Present
<1> QED
  BY <1>3, <1>5, <1>6, <1>7, <1>8, <1>9 DEF IInv

LEMMA SendStep ==
  ASSUME IInv, NEW r \in Requests, Send(r)
  PROVE  IInv'
<1>1. PICK c \in Clients, op \in Ops :
        /\ req' = [req EXCEPT ![r] = Carry(c, op, jar[c])]
        /\ Goto(r, FirstStep(op, jar[c]))
  BY DEF Send
<1>2. UNCHANGED <<session, durable, crashes, now, jar, accessUntil,
                  parent, login, issuedAt, revokedAt>>
  BY DEF Send, redis, history
<1>3. /\ op = "login" /\ FirstStep(op, jar[c]) = "open"
      \/ /\ jar[c] = NoSession /\ FirstStep(op, jar[c]) \in {"invalid", "ended", "denied"}
      \/ /\ jar[c] \in Sessions /\ op \in {"refresh", "logout"}
         /\ FirstStep(op, jar[c]) = "get_index"
      \/ /\ jar[c] \in Sessions /\ op = "protected"
         /\ FirstStep(op, jar[c]) = "authorize"
  BY OpsAssumption DEF FirstStep, IInv, TypeOK, SessionOrNone
<1>4. /\ pc'[r] = FirstStep(op, jar[c])
      /\ req'[r] = Carry(c, op, jar[c])
      /\ \A q \in Requests \ {r} : pc'[q] = pc[q] /\ req'[q] = req[q]
  BY <1>1 DEF Goto, IInv, TypeOK
<1>5. /\ req'[r].token = jar[c] /\ req'[r].fresh = NoSession /\ req'[r].op = op
      /\ req'[r] \in ReqType
  BY <1>4 DEF Carry, ReqType, IInv, TypeOK, SessionOrNone
<1>6. TypeOK'
  <2>1. req' \in [Requests -> ReqType]
    BY <1>1, <1>4, <1>5 DEF IInv, TypeOK
  <2>2. pc' \in [Requests -> {"idle"} \cup Steps \cup Answers]
    BY <1>1, <1>3 DEF Goto, IInv, TypeOK, Steps, Answers
  <2> QED
    BY <1>2, <1>3, <1>4, <1>5, <2>1, <2>2, NoSessionAssumption DEF IInv, TypeOK
<1>7. KnownInv'
  BY <1>2, <1>4, <1>5, NoSessionAssumption DEF IInv, KnownInv, Known
<1>8. TimeInv' /\ AccessInv' /\ RevokedInTime'
  BY <1>2 DEF IInv, TimeInv, AccessInv, RevokedInTime, Known
<1>9. \A q \in Requests : Exchanging(q)' => Exchanging(q) /\ req'[q] = req[q]
  BY <1>3, <1>4, <1>5 DEF Exchanging
<1>10. SecretInv'
  BY <1>2, <1>3, <1>4, <1>5, NoSessionAssumption DEF IInv, TypeOK, SecretInv
<1>11. BudgetInv'
  <2>1. crashes' \in Nat
    BY <1>2, BoundsAssumption DEF IInv, TypeOK
  <2>2. ASSUME NEW s \in Sessions
        PROVE  /\ Children(s)' \subseteq Children(s) /\ Holders(s)' \subseteq Holders(s)
               /\ Credit(s)' + crashes <= Credit(s) + crashes'
    BY <1>2, <1>9, <2>1 DEF Children, Holders, Credit
  <2> QED
    BY <2>1, <2>2, BudgetKept DEF BudgetInv
<1>12. ChainInv'
  BY <1>2, <1>9, ChainStep
<1>13. LogoutRevokes'
  BY <1>2, <1>3, <1>4, <1>5 DEF IInv, LogoutRevokes, Live, Present
<1> QED
  BY <1>6, <1>7, <1>8, <1>10, <1>11, <1>12, <1>13 DEF IInv

(* The reads of a session, the check of an access token and a failure.     *)
LEMMA ReadSteps ==
  ASSUME IInv, NEW r \in Requests,
         GetIndex(r) \/ GetFields(r) \/ Authorize(r) \/ Fail(r)
  PROVE  IInv'
<1>1. CASE GetIndex(r)
  <2>1. CASE Present(req[r].token)
    BY <1>1, <2>1, GotoStep DEF GetIndex
  <2>2. CASE ~Present(req[r].token)
    BY <1>1, <2>2, GotoStep DEF GetIndex, NotFound, Live
  <2> QED
    BY <2>1, <2>2
<1>2. CASE GetFields(r)
  <2>1. CASE Present(req[r].token)
    BY <1>2, <2>1, GotoStep DEF GetFields, NextOfFields
  <2>2. CASE ~Present(req[r].token)
    BY <1>2, <2>2, GotoStep DEF GetFields, NotFound, Live
  <2> QED
    BY <2>1, <2>2
<1>3. CASE Authorize(r)
  BY <1>3, GotoStep DEF Authorize
<1>4. CASE Fail(r)
  BY <1>4, GotoStep DEF Fail
<1> QED
  BY <1>1, <1>2, <1>3, <1>4

LEMMA IssueAccessStep ==
  ASSUME IInv, NEW r \in Requests, IssueAccess(r)
  PROVE  IInv'
<1>1. /\ UNCHANGED <<session, durable, crashes, now, jar, req,
                     parent, login, issuedAt, revokedAt>>
      /\ pc[r] = "issue" /\ Goto(r, "opened") /\ req[r].fresh \in Sessions
      /\ accessUntil' = [accessUntil EXCEPT ![req[r].fresh] = now + AccessTTL]
  BY DEF IssueAccess, redis, history, AccessExpiry, IInv, TypeOK
<1>2. /\ pc'[r] = "opened"
      /\ \A q \in Requests \ {r} : pc'[q] = pc[q]
  BY <1>1 DEF Goto, IInv, TypeOK
<1>3. TypeOK'
  <2>1. accessUntil' \in [Sessions -> Nat]
    BY <1>1, BoundsAssumption DEF IInv, TypeOK
  <2> QED
    BY <1>1, <1>2, <2>1 DEF Goto, IInv, TypeOK, Steps, Answers
<1>4. \A q \in Requests : Exchanging(q)' => Exchanging(q)
  BY <1>1, <1>2 DEF Exchanging
<1>5. KnownInv' /\ TimeInv' /\ RevokedInTime'
  BY <1>1 DEF IInv, KnownInv, TimeInv, RevokedInTime, Known
<1>6. SecretInv'
  BY <1>1, <1>2 DEF IInv, SecretInv
<1>7. AccessInv'
  <2>1. \A s \in Sessions : accessUntil'[s] = IF s = req[r].fresh THEN now + AccessTTL
                                              ELSE accessUntil[s]
    BY <1>1 DEF IInv, TypeOK
  <2>2. now + AccessTTL <= now + AccessTTL /\ revokedAt[req[r].fresh] = 0
    BY <1>1, BoundsAssumption DEF IInv, TypeOK, SecretInv
  <2> QED
    BY <1>1, <2>1, <2>2 DEF IInv, AccessInv
<1>8. BudgetInv'
  <2>1. crashes' \in Nat
    BY <1>1, BoundsAssumption DEF IInv, TypeOK
  <2>2. ASSUME NEW s \in Sessions
        PROVE  /\ Children(s)' \subseteq Children(s) /\ Holders(s)' \subseteq Holders(s)
               /\ Credit(s)' + crashes <= Credit(s) + crashes'
    BY <1>1, <1>4, <2>1 DEF Children, Holders, Credit
  <2> QED
    BY <2>1, <2>2, BudgetKept DEF BudgetInv
<1>9. ChainInv'
  BY <1>1, <1>4, ChainStep
<1>10. LogoutRevokes'
  BY <1>1, <1>2 DEF IInv, LogoutRevokes, Live, Present
<1> QED
  BY <1>3, <1>5, <1>6, <1>7, <1>8, <1>9, <1>10 DEF IInv

(* What the script does to the session, and to the request that runs it:   *)
(* a request may open the next session only if it has just revoked this    *)
(* one.                                                                    *)
LEMMA RunScriptFacts ==
  ASSUME IInv, NEW r \in Requests, RunScript(r)
  PROVE  /\ UNCHANGED <<durable, crashes, now, jar, accessUntil, parent, login, issuedAt>>
         /\ pc[r] = "revoke" /\ req[r].token \in Sessions
         /\ \A q \in Requests \ {r} : pc'[q] = pc[q] /\ req'[q] = req[q]
         /\ pc'[r] \in {"revoke", "open", "invalid", "ended", "failed"}
         /\ /\ req'[r].token = req[r].token /\ req'[r].fresh = req[r].fresh
            /\ req'[r].op = req[r].op
         /\ pc'[r] = "open" => req[r].op = "refresh" /\ Live(req[r].token)
         /\ \A s \in Sessions \ {req[r].token} :
              session'[s] = session[s] /\ revokedAt'[s] = revokedAt[s]
         /\ session'[req[r].token].expires = session[req[r].token].expires
         /\ Live(req[r].token) => /\ session'[req[r].token].state = "revoked"
                                  /\ revokedAt'[req[r].token] = now
         /\ ~Live(req[r].token) => UNCHANGED <<session, revokedAt>>
         /\ pc' \in [Requests -> {"idle"} \cup Steps \cup Answers]
         /\ req' \in [Requests -> ReqType]
         /\ session' \in [Sessions -> Records] /\ revokedAt' \in [Sessions -> Nat]
<1> DEFINE s0 == req[r].token
           revoked == Revocable(s0)
<1>1. /\ pc[r] = "revoke" /\ s0 \in Sessions
      /\ req[r].op \in {"refresh", "logout"} /\ req[r] \in ReqType
  BY DEF RunScript, IInv, TypeOK
<1>2. UNCHANGED <<durable, crashes, now, jar, accessUntil, parent, login, issuedAt>>
  BY DEF RunScript
<1>3. session' = (IF revoked THEN [session EXCEPT ![s0].state = "revoked"] ELSE session)
      /\ revokedAt' = (IF revoked THEN [revokedAt EXCEPT ![s0] = now] ELSE revokedAt)
  BY DEF RunScript
<1>4. /\ \A s \in Sessions \ {s0} : session'[s] = session[s] /\ revokedAt'[s] = revokedAt[s]
      /\ session'[s0].expires = session[s0].expires
      /\ Live(s0) => session'[s0].state = "revoked" /\ revokedAt'[s0] = now
      /\ ~Live(s0) => UNCHANGED <<session, revokedAt>>
      /\ session' \in [Sessions -> Records] /\ revokedAt' \in [Sessions -> Nat]
  <2>1. /\ session \in [Sessions -> Records] /\ revokedAt \in [Sessions -> Nat]
        /\ now \in Nat
    BY DEF IInv, TypeOK
  <2>2. CASE Live(s0)
    BY <1>1, <1>3, <2>1, <2>2 DEF Records, Revocable
  <2>3. CASE ~Live(s0)
    BY <1>1, <1>3, <2>1, <2>3 DEF Revocable
  <2> QED
    BY <2>2, <2>3
<1>5. \E step \in {"revoke", "open", "invalid", "ended", "failed"} :
        /\ pc' = [pc EXCEPT ![r] = step]
        /\ step = "open" => req[r].op = "refresh" /\ Live(s0)
  <2>1. \/ pc' = [pc EXCEPT ![r] = NextOfRevoke(r, revoked)]
        \/ pc' = pc
        \/ pc' = [pc EXCEPT ![r] = "failed"]
    BY DEF RunScript, Goto
  <2>2. pc' = pc => pc' = [pc EXCEPT ![r] = "revoke"]
    BY <1>1 DEF IInv, TypeOK
  <2>3. /\ NextOfRevoke(r, revoked) \in {"open", "invalid", "ended"}
        /\ NextOfRevoke(r, revoked) = "open" => req[r].op = "refresh" /\ Live(s0)
    BY <1>1 DEF NextOfRevoke, Revocable
  <2> QED
    BY <2>1, <2>2, <2>3
<1>6. /\ \A q \in Requests \ {r} : pc'[q] = pc[q]
      /\ pc'[r] \in {"revoke", "open", "invalid", "ended", "failed"}
      /\ pc'[r] = "open" => req[r].op = "refresh" /\ Live(s0)
      /\ pc' \in [Requests -> {"idle"} \cup Steps \cup Answers]
  BY <1>5 DEF IInv, TypeOK, Steps, Answers
<1>7. revoked \in BOOLEAN
  BY DEF Revocable, Live, Present
<1>8. \E resent \in Nat, mine \in BOOLEAN :
        req' = [req EXCEPT ![r].resent = resent, ![r].mine = mine]
  <2>1. req \in [Requests -> ReqType]
    BY DEF IInv, TypeOK
  <2>2. \/ req' = [req EXCEPT ![r].mine = @ \/ revoked]
        \/ req' = [req EXCEPT ![r].resent = @ + 1, ![r].mine = @ \/ revoked]
    BY DEF RunScript
  <2>3. req[r].resent \in Nat /\ req[r].resent + 1 \in Nat
    BY <1>1 DEF ReqType
  <2>4. (req[r].mine \/ revoked) \in BOOLEAN
    OBVIOUS
  <2>5. CASE req' = [req EXCEPT ![r].mine = @ \/ revoked]
    <3>1. req' = [req EXCEPT ![r].resent = req[r].resent, ![r].mine = (req[r].mine \/ revoked)]
      BY <2>1, <2>5 DEF ReqType
    <3> QED
      BY <2>3, <2>4, <3>1
  <2>6. CASE req' = [req EXCEPT ![r].resent = @ + 1, ![r].mine = @ \/ revoked]
    <3>1. req' = [req EXCEPT ![r].resent = req[r].resent + 1, ![r].mine = (req[r].mine \/ revoked)]
      BY <2>6
    <3> QED
      BY <2>3, <2>4, <3>1
  <2> QED
    BY <2>2, <2>5, <2>6
<1>9. /\ \A q \in Requests \ {r} : req'[q] = req[q]
      /\ req'[r].token = s0 /\ req'[r].fresh = req[r].fresh /\ req'[r].op = req[r].op
      /\ req' \in [Requests -> ReqType]
  <2>1. PICK resent \in Nat, mine \in BOOLEAN :
          req' = [req EXCEPT ![r].resent = resent, ![r].mine = mine]
    BY <1>8
  <2>2. req \in [Requests -> ReqType]
    BY DEF IInv, TypeOK
  <2>3. req' = [req EXCEPT ![r] = [[@ EXCEPT !.resent = resent] EXCEPT !.mine = mine]]
    BY <2>1, <2>2
  <2>4. [[req[r] EXCEPT !.resent = resent] EXCEPT !.mine = mine] \in ReqType
    BY <1>1 DEF ReqType
  <2> QED
    BY <1>1, <2>2, <2>3, <2>4 DEF ReqType
<1> QED
  BY <1>1, <1>2, <1>4, <1>6, <1>9

LEMMA RunScriptStep ==
  ASSUME IInv, NEW r \in Requests, RunScript(r)
  PROVE  IInv'
<1> DEFINE s0 == req[r].token
<1>1. TypeOK'
  BY RunScriptFacts DEF IInv, TypeOK
<1>2. KnownInv'
  BY RunScriptFacts DEF IInv, KnownInv, Known
<1>3. /\ Live(s0) => /\ Active(s0) /\ Known(s0) /\ issuedAt[s0] <= now
                     /\ now < issuedAt[s0] + RefreshTTL
      /\ \A s \in Sessions : Active(s)' => Active(s) /\ (s # s0 \/ ~Live(s0))
      /\ \A s \in Sessions : Live(s)' => Live(s)
      /\ ~Live(s0)'
  <2>1. CASE Live(s0)
    <3>1. /\ Active(s0) /\ Known(s0) /\ issuedAt[s0] <= now
          /\ now < issuedAt[s0] + RefreshTTL
      BY <2>1, RunScriptFacts DEF IInv, TimeInv, Live, Present, Active
    <3>2. \A s \in Sessions : s = s0 => ~Active(s)' /\ ~Live(s)'
      BY <2>1, RunScriptFacts DEF Live, Active
    <3>3. \A s \in Sessions \ {s0} : /\ Active(s)' => Active(s)
                                     /\ Live(s)' => Live(s)
      BY RunScriptFacts DEF Live, Present, Active
    <3>4. ~Live(s0)'
      BY <2>1, RunScriptFacts DEF Live
    <3> QED
      BY <2>1, <3>1, <3>2, <3>3, <3>4
  <2>2. CASE ~Live(s0)
    BY <2>2, RunScriptFacts DEF Live, Present, Active
  <2> QED
    BY <2>1, <2>2
<1>4. TimeInv' /\ RevokedInTime'
  <2>1. CASE Live(s0)
    <3>1. \A s \in Sessions : /\ session'[s].state # "none" => session[s].state # "none"
                              /\ session'[s].expires = session[s].expires
      BY <2>1, RunScriptFacts DEF Live
    <3>2. TimeInv'
      BY <1>3, <2>1, <3>1, RunScriptFacts DEF IInv, TimeInv, Known
    <3>3. RevokedInTime'
      BY <1>3, <2>1, RunScriptFacts DEF IInv, RevokedInTime
    <3> QED
      BY <3>2, <3>3
  <2>2. CASE ~Live(s0)
    BY <2>2, RunScriptFacts DEF IInv, TimeInv, RevokedInTime, Known
  <2> QED
    BY <2>1, <2>2
<1>5. SecretInv'
  <2> SUFFICES ASSUME NEW p \in Requests, pc'[p] = "issue"
               PROVE  /\ revokedAt'[req'[p].fresh] = 0
                      /\ \A c \in Clients : jar'[c] # req'[p].fresh
                      /\ \A q \in Requests : /\ req'[q].token # req'[p].fresh
                                             /\ q # p => req'[q].fresh # req'[p].fresh
    BY DEF SecretInv
  <2>1. p # r /\ pc[p] = "issue" /\ req'[p] = req[p] /\ req[p].fresh \in Sessions
    BY RunScriptFacts DEF IInv, TypeOK
  <2>2. req[p].fresh # s0 /\ revokedAt'[req[p].fresh] = revokedAt[req[p].fresh]
    BY <2>1, RunScriptFacts DEF IInv, SecretInv
  <2> QED
    BY <2>1, <2>2, RunScriptFacts DEF IInv, SecretInv
<1>6. AccessInv'
  BY RunScriptFacts DEF IInv, AccessInv
<1>7. \A q \in Requests :
        Exchanging(q)' => /\ req'[q].token = req[q].token
                          /\ Exchanging(q) \/ (q = r /\ Live(s0))
  BY RunScriptFacts DEF Exchanging
<1>8. BudgetInv'
  <2> SUFFICES ASSUME NEW s \in Sessions
               PROVE  Cardinality(Children(s)') + Cardinality(Holders(s)') + Credit(s)'
                        <= 1 + crashes'
    BY DEF BudgetInv
  <2>1. crashes' = crashes /\ crashes \in Nat /\ Children(s)' = Children(s)
    BY RunScriptFacts, BoundsAssumption DEF IInv, TypeOK, Children
  <2>2. CASE s = s0 /\ Live(s0)
    <3>1. Holders(s)' \subseteq Holders(s) \cup {r}
      BY <1>7 DEF Holders
    <3>2. Credit(s) = 1 /\ Credit(s)' = 0
      BY <1>3, <2>2, RunScriptFacts DEF Credit, Active
    <3>3. Cardinality(Holders(s)') <= Cardinality(Holders(s)) + 1
          /\ Cardinality(Holders(s)') \in Nat
      BY <3>1, BudgetType, CountOneMore
    <3>4. Cardinality(Children(s)) + Cardinality(Holders(s)) + Credit(s) <= 1 + crashes
      BY DEF IInv, BudgetInv
    <3> QED
      BY <2>1, <3>2, <3>3, <3>4, BudgetType
  <2>3. CASE ~(s = s0 /\ Live(s0))
    <3>1. Holders(s)' \subseteq Holders(s)
      BY <1>7, <2>3 DEF Holders
    <3>2. Credit(s)' = Credit(s)
      BY <2>3, RunScriptFacts DEF Credit
    <3>3. Credit(s)' + crashes <= Credit(s) + crashes'
      BY <2>1, <3>2, BudgetType
    <3> QED
      BY <2>1, <3>1, <3>3, BudgetKept
  <2> QED
    BY <2>2, <2>3
<1>9. ChainInv'
  <2> SUFFICES ASSUME NEW l \in Sessions
               PROVE  /\ Cardinality(Chain(l)') + Cardinality(Renewing(l)') <= 2^crashes'
                      /\ Cardinality(Spared(l)') <= 2^crashes'
    BY DEF ChainInv
  <2>1. /\ crashes' = crashes /\ Spared(l)' \subseteq Spared(l)
        /\ Chain(l)' \subseteq Chain(l)
    BY <1>3, RunScriptFacts DEF Chain, Spared
  <2>2. CASE Live(s0) /\ login[s0] = l
    <3>1. /\ s0 \in Chain(l) /\ Chain(l)' \subseteq Chain(l) \ {s0}
          /\ Renewing(l)' \subseteq Renewing(l) \cup {r}
      BY <1>3, <1>7, <2>1, <2>2, RunScriptFacts DEF Chain, Renewing
    <3>2. /\ Cardinality(Chain(l)') \in Nat
          /\ Cardinality(Chain(l)') <= Cardinality(Chain(l)) - 1
      BY <3>1, ChainType, CountOneLess
    <3>3. /\ Cardinality(Renewing(l)') \in Nat
          /\ Cardinality(Renewing(l)') <= Cardinality(Renewing(l)) + 1
      BY <3>1, ChainType, CountOneMore
    <3>4. /\ Cardinality(Spared(l)') \in Nat
          /\ Cardinality(Spared(l)') <= Cardinality(Spared(l))
      BY <2>1, ChainType, CountPart
    <3>5. /\ Cardinality(Chain(l)) + Cardinality(Renewing(l)) <= 2^crashes
          /\ Cardinality(Spared(l)) <= 2^crashes
      BY DEF IInv, ChainInv
    <3>6. 2^crashes \in Nat /\ 2^crashes' = 2^crashes
      BY <2>1, PowerOfTwo, BoundsAssumption DEF IInv, TypeOK
    <3> QED
      BY <3>2, <3>3, <3>4, <3>5, <3>6, ChainType
  <2>3. CASE ~(Live(s0) /\ login[s0] = l)
    <3>1. Renewing(l)' \subseteq Renewing(l)
      BY <1>7, <2>3, RunScriptFacts DEF Renewing
    <3> QED
      BY <2>1, <3>1, ChainKept
  <2> QED
    BY <2>2, <2>3
<1>10. LogoutRevokes'
  BY <1>3, RunScriptFacts DEF IInv, LogoutRevokes, TypeOK, ReqType, SessionOrNone
<1> QED
  BY <1>1, <1>2, <1>4, <1>5, <1>6, <1>8, <1>9, <1>10 DEF IInv

(* CreateSession(r) with the session it draws. *)
Creates(r, s) ==
  /\ pc[r] = "open" /\ ~Known(s)
  /\ session' = [session EXCEPT ![s] = [state |-> "active", expires |-> now + RefreshTTL]]
  /\ req' = [req EXCEPT ![r].fresh = s]
  /\ parent' = [parent EXCEPT ![s] = IF req[r].op = "refresh" THEN req[r].token ELSE NoSession]
  /\ login' = [login EXCEPT ![s] = IF req[r].op = "refresh" THEN login[req[r].token] ELSE s]
  /\ issuedAt' = [issuedAt EXCEPT ![s] = now]
  /\ Goto(r, "issue")
  /\ UNCHANGED <<durable, crashes, now, jar, accessUntil, revokedAt>>

(* The new session was unknown, and goes back to the login of the session  *)
(* that is exchanged for it, or to itself.                                 *)
LEMMA CreatesFacts ==
  ASSUME IInv, NEW r \in Requests, NEW s \in Sessions, Creates(r, s)
  PROVE  /\ UNCHANGED <<durable, crashes, now, jar, accessUntil, revokedAt>>
         /\ pc[r] = "open" /\ pc'[r] = "issue"
         /\ \A q \in Requests \ {r} : pc'[q] = pc[q] /\ req'[q] = req[q]
         /\ req'[r].fresh = s /\ req'[r].token = req[r].token /\ req'[r].op = req[r].op
         /\ \A t \in Sessions \ {s} :
              /\ session'[t] = session[t] /\ parent'[t] = parent[t]
              /\ login'[t] = login[t] /\ issuedAt'[t] = issuedAt[t]
         /\ session'[s].state = "active" /\ session'[s].expires = now + RefreshTTL
         /\ issuedAt'[s] = now
         /\ req[r].op = "refresh" =>
              /\ req[r].token \in Sessions \ {s} /\ Known(req[r].token)
              /\ parent'[s] = req[r].token /\ login'[s] = login[req[r].token]
         /\ req[r].op # "refresh" => parent'[s] = NoSession /\ login'[s] = s
         /\ \A t \in Sessions : Known(t)' <=> Known(t) \/ t = s
<1>1. /\ req \in [Requests -> ReqType] /\ session \in [Sessions -> Records]
      /\ parent \in [Sessions -> SessionOrNone] /\ login \in [Sessions -> SessionOrNone]
      /\ issuedAt \in [Sessions -> Nat]
      /\ pc \in [Requests -> {"idle"} \cup Steps \cup Answers]
  BY DEF IInv, TypeOK
<1>2. /\ \A q \in Requests \ {r} : pc'[q] = pc[q] /\ req'[q] = req[q]
      /\ pc[r] = "open" /\ pc'[r] = "issue"
      /\ req'[r].fresh = s /\ req'[r].token = req[r].token /\ req'[r].op = req[r].op
  BY <1>1 DEF Creates, Goto, ReqType
<1>3. req[r].op = "refresh" => req[r].token \in Sessions \ {s} /\ Known(req[r].token)
  BY <1>2 DEF Creates, IInv, TypeOK, KnownInv
<1>4. /\ \A t \in Sessions \ {s} :
           /\ session'[t] = session[t] /\ parent'[t] = parent[t]
           /\ login'[t] = login[t] /\ issuedAt'[t] = issuedAt[t]
      /\ session'[s].state = "active" /\ session'[s].expires = now + RefreshTTL
      /\ issuedAt'[s] = now
      /\ req[r].op = "refresh" => parent'[s] = req[r].token /\ login'[s] = login[req[r].token]
      /\ req[r].op # "refresh" => parent'[s] = NoSession /\ login'[s] = s
  BY <1>1 DEF Creates
<1>5. \A t \in Sessions : Known(t)' <=> Known(t) \/ t = s
  BY <1>3, <1>4, NoSessionAssumption DEF Known
<1> QED
  BY <1>2, <1>3, <1>4, <1>5 DEF Creates

LEMMA CreatesStep ==
  ASSUME IInv, NEW r \in Requests, NEW s \in Sessions, Creates(r, s)
  PROVE  IInv'
<1>1. /\ ~Known(s) /\ revokedAt[s] = 0 /\ durable[s].state = "none"
      /\ \A c \in Clients : jar[c] # s
      /\ \A q \in Requests : req[q].token # s /\ req[q].fresh # s
      /\ \A t \in Sessions : parent[t] # s /\ login[t] # s
  BY DEF Creates, IInv, TimeInv, KnownInv
<1>2. TypeOK'
  <2>1. session' \in [Sessions -> Records]
    BY BoundsAssumption DEF Creates, IInv, TypeOK, Records
  <2>2. req' \in [Requests -> ReqType]
    BY DEF Creates, IInv, TypeOK, ReqType, SessionOrNone
  <2>3. /\ parent' \in [Sessions -> SessionOrNone]
        /\ login' \in [Sessions -> SessionOrNone]
    BY CreatesFacts DEF Creates, IInv, TypeOK, SessionOrNone
  <2>4. issuedAt' \in [Sessions -> Nat]
    BY DEF Creates, IInv, TypeOK
  <2>5. pc' \in [Requests -> {"idle"} \cup Steps \cup Answers]
    BY DEF Creates, Goto, IInv, TypeOK, Steps, Answers
  <2> QED
    BY <2>1, <2>2, <2>3, <2>4, <2>5, CreatesFacts DEF IInv, TypeOK
<1>3. KnownInv'
  BY <1>1, CreatesFacts, NoSessionAssumption DEF IInv, KnownInv
<1>4. TimeInv' /\ RevokedInTime'
  BY <1>1, CreatesFacts DEF IInv, TypeOK, TimeInv, RevokedInTime
<1>5. SecretInv'
  <2> SUFFICES ASSUME NEW p \in Requests, pc'[p] = "issue"
               PROVE  /\ revokedAt'[req'[p].fresh] = 0
                      /\ \A c \in Clients : jar'[c] # req'[p].fresh
                      /\ \A q \in Requests : /\ req'[q].token # req'[p].fresh
                                             /\ q # p => req'[q].fresh # req'[p].fresh
    BY DEF SecretInv
  <2>1. CASE p = r
    BY <1>1, <2>1, CreatesFacts
  <2>2. CASE p # r
    BY <1>1, <2>2, CreatesFacts DEF IInv, SecretInv
  <2> QED
    BY <2>1, <2>2
<1>6. AccessInv'
  BY CreatesFacts DEF IInv, AccessInv
<1>7. \A q \in Requests :
        Exchanging(q)' => Exchanging(q) /\ q # r /\ req'[q].token = req[q].token
  BY CreatesFacts DEF Exchanging
<1>8. BudgetInv'
  <2> SUFFICES ASSUME NEW t \in Sessions
               PROVE  Cardinality(Children(t)') + Cardinality(Holders(t)') + Credit(t)'
                        <= 1 + crashes'
    BY DEF BudgetInv
  <2>1. crashes' = crashes /\ crashes \in Nat
    BY CreatesFacts, BoundsAssumption DEF IInv, TypeOK
  <2>2. CASE t = s
    <3>1. Children(t)' = {} /\ Holders(t)' = {}
      BY <1>1, <1>7, <2>2, CreatesFacts, NoSessionAssumption DEF Children, Holders
    <3>2. Credit(t)' \in {0, 1} /\ Cardinality({}) = 0
      BY FS_EmptySet DEF Credit
    <3>3. Cardinality(Children(t)') = 0 /\ Cardinality(Holders(t)') = 0
      BY <3>1, <3>2
    <3> QED
      BY <2>1, <3>2, <3>3
  <2>3. CASE req[r].op = "refresh" /\ t = req[r].token
    <3>1. /\ Children(t)' \subseteq Children(t) \cup {s}
          /\ Holders(t)' \subseteq Holders(t) \ {r} /\ r \in Holders(t)
          /\ Credit(t)' = Credit(t)
      BY <1>7, <2>3, CreatesFacts DEF Children, Holders, Exchanging, Credit
    <3>2. /\ Cardinality(Children(t)') \in Nat
          /\ Cardinality(Children(t)') <= Cardinality(Children(t)) + 1
      BY <3>1, BudgetType, CountOneMore
    <3>3. /\ Cardinality(Holders(t)') \in Nat
          /\ Cardinality(Holders(t)') <= Cardinality(Holders(t)) - 1
      BY <3>1, BudgetType, CountOneLess
    <3>4. Cardinality(Children(t)) + Cardinality(Holders(t)) + Credit(t) <= 1 + crashes
      BY DEF IInv, BudgetInv
    <3> QED
      BY <2>1, <3>1, <3>2, <3>3, <3>4, BudgetType
  <2>4. CASE t # s /\ ~(req[r].op = "refresh" /\ t = req[r].token)
    <3>1. /\ Children(t)' \subseteq Children(t) /\ Holders(t)' \subseteq Holders(t)
          /\ Credit(t)' = Credit(t)
      BY <1>7, <2>4, CreatesFacts, NoSessionAssumption DEF Children, Holders, Credit
    <3>2. Credit(t)' + crashes <= Credit(t) + crashes'
      BY <2>1, <3>1, BudgetType
    <3> QED
      BY <2>1, <3>1, <3>2, BudgetKept
  <2> QED
    BY <2>2, <2>3, <2>4
<1>9. ChainInv'
  <2> SUFFICES ASSUME NEW l \in Sessions
               PROVE  /\ Cardinality(Chain(l)') + Cardinality(Renewing(l)') <= 2^crashes'
                      /\ Cardinality(Spared(l)') <= 2^crashes'
    BY DEF ChainInv
  <2>1. /\ \A t \in Sessions : Active(t)' => Active(t) \/ t = s
        /\ \A q \in Requests : Exchanging(q)' =>
             /\ Exchanging(q) /\ q # r /\ req'[q].token = req[q].token
             /\ req[q].token \in Sessions \ {s}
             /\ login'[req[q].token] = login[req[q].token]
             /\ login[req[q].token] # s
    BY <1>1, <1>7, CreatesFacts DEF Active, Exchanging, IInv, TypeOK
  <2>2. crashes' = crashes /\ Spared(l)' \subseteq Spared(l)
    BY <1>1, CreatesFacts DEF Spared
  <2>3. 2^crashes \in Nat \ {0} /\ 2^crashes' = 2^crashes
    BY <2>2, PowerOfTwo, BoundsAssumption DEF IInv, TypeOK
  <2>4. /\ Cardinality(Spared(l)') \in Nat /\ Cardinality(Spared(l)') <= 2^crashes
    <3>1. Cardinality(Spared(l)') \in Nat /\ Cardinality(Spared(l)') <= Cardinality(Spared(l))
      BY <2>2, ChainType, CountPart
    <3> QED
      BY <2>3, <3>1, ChainType DEF IInv, ChainInv
  <2>5. CASE req[r].op = "refresh" /\ l = login[req[r].token]
    <3>1. /\ Chain(l)' \subseteq Chain(l) \cup {s}
          /\ r \in Renewing(l) /\ Renewing(l)' \subseteq Renewing(l) \ {r}
      BY <2>1, <2>5, CreatesFacts DEF Chain, Renewing, Exchanging
    <3>2. /\ Cardinality(Chain(l)') \in Nat
          /\ Cardinality(Chain(l)') <= Cardinality(Chain(l)) + 1
      BY <3>1, ChainType, CountOneMore
    <3>3. /\ Cardinality(Renewing(l)') \in Nat
          /\ Cardinality(Renewing(l)') <= Cardinality(Renewing(l)) - 1
      BY <3>1, ChainType, CountOneLess
    <3>4. Cardinality(Chain(l)) + Cardinality(Renewing(l)) <= 2^crashes
      BY DEF IInv, ChainInv
    <3> QED
      BY <2>3, <2>4, <3>2, <3>3, <3>4, ChainType
  <2>6. CASE req[r].op # "refresh" /\ l = s
    <3>1. Chain(l)' \subseteq {} \cup {s} /\ Renewing(l)' = {}
      BY <1>1, <2>1, <2>6, CreatesFacts DEF Chain, Renewing
    <3>2. IsFiniteSet({}) /\ Cardinality({}) = 0
      BY FS_EmptySet
    <3>3. Cardinality(Chain(l)') \in Nat /\ Cardinality(Chain(l)') <= Cardinality({}) + 1
      BY <3>1, <3>2, CountOneMore
    <3>4. Cardinality(Renewing(l)') = 0
      BY <3>1, <3>2
    <3> QED
      BY <2>3, <2>4, <3>2, <3>3, <3>4
  <2>7. CASE login'[s] # l
    <3>1. Chain(l)' \subseteq Chain(l) /\ Renewing(l)' \subseteq Renewing(l)
      BY <2>1, <2>7, CreatesFacts DEF Chain, Renewing
    <3> QED
      BY <2>2, <3>1, ChainKept
  <2> QED
    BY <2>5, <2>6, <2>7, CreatesFacts
<1>10. LogoutRevokes'
  <2>1. \A q \in Requests :
          pc'[q] = "ended" => q # r /\ pc[q] = "ended" /\ req'[q].token = req[q].token
    BY CreatesFacts
  <2>2. \A t \in Sessions \ {s} : Live(t)' <=> Live(t)
    BY CreatesFacts DEF Live, Present
  <2>3. \A q \in Requests : req[q].token # NoSession => req[q].token \in Sessions \ {s}
    BY <1>1 DEF IInv, TypeOK, ReqType, SessionOrNone
  <2> QED
    BY <2>1, <2>2, <2>3, CreatesFacts DEF IInv, LogoutRevokes
<1> QED
  BY <1>2, <1>3, <1>4, <1>5, <1>6, <1>8, <1>9, <1>10 DEF IInv

LEMMA ReturnStep ==
  ASSUME IInv, NEW r \in Requests, Return(r)
  PROVE  IInv'
<1>1. /\ UNCHANGED <<session, durable, crashes, now, accessUntil,
                     parent, login, issuedAt, revokedAt>>
      /\ pc[r] \in Answers /\ Goto(r, "idle")
      /\ req' = [req EXCEPT ![r] = Carry(req[r].client, "none", NoSession)]
      /\ \/ jar' = [jar EXCEPT ![req[r].client] = Cookies(r)]
         \/ jar' = jar
  BY DEF Return, redis, history
<1>2. /\ pc'[r] = "idle" /\ req'[r].token = NoSession /\ req'[r].fresh = NoSession
      /\ \A q \in Requests \ {r} : pc'[q] = pc[q] /\ req'[q] = req[q]
  BY <1>1 DEF Goto, Carry, IInv, TypeOK
<1>3. /\ Cookies(r) \in SessionOrNone
      /\ \/ Cookies(r) = NoSession
         \/ Cookies(r) = jar[req[r].client]
         \/ Cookies(r) = req[r].fresh
  BY <1>1 DEF Cookies, IInv, TypeOK, ReqType, SessionOrNone, Answers
<1>4. \A c \in Clients : \/ jar'[c] = jar[c]
                         \/ jar'[c] = NoSession
                         \/ \E d \in Clients : jar'[c] = jar[d]
                         \/ jar'[c] = req[r].fresh
  BY <1>1, <1>3 DEF IInv, TypeOK, ReqType
<1>5. TypeOK'
  <2>1. req[r].client \in Clients /\ Carry(req[r].client, "none", NoSession) \in ReqType
    BY DEF Carry, IInv, TypeOK, ReqType, SessionOrNone
  <2>2. req' \in [Requests -> ReqType] /\ jar' \in [Clients -> SessionOrNone]
    BY <1>1, <1>3, <2>1 DEF IInv, TypeOK
  <2> QED
    BY <1>1, <1>2, <2>2 DEF Goto, IInv, TypeOK
<1>6. KnownInv'
  BY <1>1, <1>2, <1>4, NoSessionAssumption DEF IInv, KnownInv, Known
<1>7. TimeInv' /\ AccessInv' /\ RevokedInTime'
  BY <1>1 DEF IInv, TimeInv, AccessInv, RevokedInTime, Known
<1>8. SecretInv'
  <2> SUFFICES ASSUME NEW p \in Requests, pc'[p] = "issue"
               PROVE  /\ revokedAt'[req'[p].fresh] = 0
                      /\ \A c \in Clients : jar'[c] # req'[p].fresh
                      /\ \A q \in Requests : /\ req'[q].token # req'[p].fresh
                                             /\ q # p => req'[q].fresh # req'[p].fresh
    BY DEF SecretInv
  <2>1. p # r /\ pc[p] = "issue" /\ req'[p] = req[p] /\ req[p].fresh \in Sessions
    BY <1>2 DEF IInv, TypeOK
  <2>2. \A c \in Clients : jar'[c] # req[p].fresh
    BY <1>4, <2>1, NoSessionAssumption DEF IInv, SecretInv
  <2> QED
    BY <1>1, <1>2, <2>1, <2>2, NoSessionAssumption DEF IInv, SecretInv
<1>9. \A q \in Requests : Exchanging(q)' => Exchanging(q) /\ req'[q] = req[q]
  BY <1>2 DEF Exchanging
<1>10. BudgetInv'
  <2>1. crashes' \in Nat
    BY <1>1, BoundsAssumption DEF IInv, TypeOK
  <2>2. ASSUME NEW s \in Sessions
        PROVE  /\ Children(s)' \subseteq Children(s) /\ Holders(s)' \subseteq Holders(s)
               /\ Credit(s)' + crashes <= Credit(s) + crashes'
    BY <1>1, <1>9, <2>1 DEF Children, Holders, Credit
  <2> QED
    BY <2>1, <2>2, BudgetKept DEF BudgetInv
<1>11. ChainInv'
  BY <1>1, <1>9, ChainStep
<1>12. LogoutRevokes'
  BY <1>1, <1>2 DEF IInv, LogoutRevokes, Live, Present
<1> QED
  BY <1>5, <1>6, <1>7, <1>8, <1>10, <1>11, <1>12 DEF IInv

LEMMA TickStep == ASSUME IInv, Tick PROVE IInv'
<1>1. /\ UNCHANGED <<session, durable, crashes, jar, pc, req, accessUntil,
                     parent, login, issuedAt, revokedAt>>
      /\ now' = now + 1 /\ now \in Nat
  BY DEF Tick, redis, history, IInv, TypeOK
<1>2. TypeOK'
  BY <1>1 DEF IInv, TypeOK
<1>3. KnownInv' /\ SecretInv' /\ RevokedInTime'
  BY <1>1 DEF IInv, KnownInv, SecretInv, RevokedInTime, Known
<1>4. TimeInv' /\ AccessInv'
  BY <1>1, BoundsAssumption DEF IInv, TypeOK, TimeInv, AccessInv, Known
<1>5. BudgetInv'
  BY <1>1 DEF IInv, BudgetInv, Children, Holders, Credit, Exchanging
<1>6. ChainInv'
  BY <1>1, ChainStep DEF Exchanging
<1>7. LogoutRevokes'
  <2>1. \A s \in Sessions : Live(s)' => Live(s)
    BY <1>1 DEF Live, Present, IInv, TypeOK, Records
  <2> QED
    BY <1>1, <2>1 DEF IInv, LogoutRevokes, TypeOK, ReqType, SessionOrNone
<1> QED
  BY <1>2, <1>3, <1>4, <1>5, <1>6, <1>7 DEF IInv

(* Redis syncs its file, or goes back to it: a crash may return the credit *)
(* of a session that was revoked.                                          *)
LEMMA RedisStep == ASSUME IInv, Sync \/ CrashRedis PROVE IInv'
<1>1. /\ UNCHANGED <<now, jar, pc, req, accessUntil, parent, login, issuedAt, revokedAt>>
      /\ \/ durable' = session /\ UNCHANGED <<session, crashes>>
         \/ session' = durable /\ durable' = durable /\ crashes' = crashes + 1
                               /\ crashes < MaxCrashes
  BY DEF Sync, CrashRedis, history
<1>2. crashes \in Nat /\ crashes' \in Nat /\ crashes <= crashes'
  BY <1>1, BoundsAssumption DEF IInv, TypeOK
<1>3. TypeOK'
  BY <1>1, BoundsAssumption DEF IInv, TypeOK
<1>4. KnownInv' /\ SecretInv' /\ RevokedInTime' /\ AccessInv'
  BY <1>1 DEF IInv, KnownInv, SecretInv, RevokedInTime, AccessInv, Known
<1>5. TimeInv'
  BY <1>1 DEF IInv, TimeInv, Known
<1>6. BudgetInv'
  <2>1. ASSUME NEW s \in Sessions
        PROVE  /\ Children(s)' \subseteq Children(s) /\ Holders(s)' \subseteq Holders(s)
               /\ Credit(s)' + crashes <= Credit(s) + crashes'
    <3>1. Credit(s)' \in {0, 1} /\ Credit(s) \in {0, 1}
      BY DEF Credit
    <3>2. session' = session \/ crashes' = crashes + 1
      BY <1>1
    <3>3. session' = session => Credit(s)' = Credit(s)
      BY DEF Credit
    <3> QED
      BY <1>1, <1>2, <3>1, <3>2, <3>3 DEF Children, Holders, Exchanging
  <2> QED
    BY <1>2, <2>1, BudgetKept DEF BudgetInv
<1>7. LogoutRevokes'
  BY <1>1, <1>2 DEF IInv, LogoutRevokes, Live, Present
<1>8. ChainInv'
  <2> SUFFICES ASSUME NEW l \in Sessions
               PROVE  /\ Cardinality(Chain(l)') + Cardinality(Renewing(l)') <= 2^crashes'
                      /\ Cardinality(Spared(l)') <= 2^crashes'
    BY DEF ChainInv
  <2>1. /\ Cardinality(Chain(l)) + Cardinality(Renewing(l)) <= 2^crashes
        /\ Cardinality(Spared(l)) <= 2^crashes
    BY DEF IInv, ChainInv
  <2>2. 2^crashes \in Nat /\ 2^(crashes + 1) = 2^crashes + 2^crashes
    BY <1>2, PowerOfTwo
  <2>3. Renewing(l)' = Renewing(l)
    BY <1>1 DEF Renewing, Exchanging
  <2>4. CASE durable' = session /\ UNCHANGED <<session, crashes>>
    <3>1. Chain(l)' = Chain(l) /\ Spared(l)' = Chain(l) /\ 2^crashes' = 2^crashes
      BY <1>1, <2>4 DEF Chain, Spared, Active
    <3> QED
      BY <2>1, <2>2, <2>3, <3>1, ChainType
  <2>5. CASE session' = durable /\ durable' = durable /\ crashes' = crashes + 1
    <3>1. Chain(l)' = Spared(l) /\ Spared(l)' = Spared(l) /\ 2^crashes' = 2^(crashes + 1)
      BY <1>1, <2>5 DEF Chain, Spared, Active
    <3> QED
      BY <2>1, <2>2, <2>3, <3>1, ChainType
  <2> QED
    BY <1>1, <2>4, <2>5
<1> QED
  BY <1>3, <1>4, <1>5, <1>6, <1>7, <1>8 DEF IInv

(* Every step keeps the invariant. *)
THEOREM NextIInv == IInv /\ [Next]_vars => IInv'
<1> SUFFICES ASSUME IInv, [Next]_vars PROVE IInv'
  OBVIOUS
<1>1. ASSUME NEW r \in Requests, Send(r) \/ Serve(r) \/ Fail(r) \/ Return(r)
      PROVE  IInv'
  <2>1. CASE CreateSession(r)
    <3>1. PICK s \in Sessions : Creates(r, s)
      BY <2>1 DEF CreateSession, Creates, Known
    <3> QED
      BY <3>1, CreatesStep
  <2>2. CASE ~CreateSession(r)
    BY <1>1, <2>2, SendStep, ReadSteps, RunScriptStep, IssueAccessStep, ReturnStep DEF Serve
  <2> QED
    BY <2>1, <2>2
<1>2. CASE Tick \/ Sync \/ CrashRedis
  BY <1>2, TickStep, RedisStep
<1>3. CASE UNCHANGED vars
  <2> USE <1>3 DEF vars, redis, history
  <2>1. TypeOK' /\ KnownInv' /\ TimeInv' /\ SecretInv' /\ AccessInv' /\ RevokedInTime'
    BY DEF IInv, TypeOK, KnownInv, TimeInv, SecretInv, AccessInv, RevokedInTime, Known
  <2>2. BudgetInv' /\ LogoutRevokes'
    BY DEF IInv, BudgetInv, Children, Holders, Credit, Exchanging, LogoutRevokes, Live, Present
  <2>3. ChainInv'
    BY ChainStep DEF Exchanging
  <2> QED
    BY <2>1, <2>2, <2>3 DEF IInv
<1> QED
  BY <1>1, <1>2, <1>3 DEF Next

(* The inductive invariant holds in every reachable state. *)
THEOREM Invariance == Spec => []IInv
  BY InitIInv, NextIInv, PTL DEF Spec

(* The variables have their types, and every look-up carries the token of  *)
(* a session that was issued.                                              *)
THEOREM TypeCorrect == Spec => []TypeOK
<1>1. IInv => TypeOK
  BY DEF IInv
<1> QED
  BY <1>1, Invariance, PTL

(* A refresh token is exchanged once, and once more for every crash of     *)
(* Redis, however many requests race and commands are resent.              *)
THEOREM RotationOnce == Spec => []ExchangedOnce
<1>1. IInv => ExchangedOnce
  <2> SUFFICES ASSUME IInv, NEW s \in Sessions
               PROVE  Cardinality({t \in Sessions : parent[t] = s}) <= 1 + crashes
    BY DEF ExchangedOnce
  <2>1. Cardinality(Children(s)) + Cardinality(Holders(s)) + Credit(s) <= 1 + crashes
    BY DEF IInv, BudgetInv
  <2>2. crashes \in Nat
    BY BoundsAssumption DEF IInv, TypeOK
  <2>3. Cardinality(Children(s)) <= 1 + crashes
    BY <2>1, <2>2, BudgetType
  <2> QED
    BY <2>3 DEF Children
<1> QED
  BY <1>1, Invariance, PTL

(* A login has one live session, and at most twice as many after each      *)
(* crash of Redis.                                                         *)
THEOREM ForksAreCrashes == Spec => []ForksNeedCrashes
<1>1. IInv => ForksNeedCrashes
  <2> SUFFICES ASSUME IInv, NEW l \in Sessions
               PROVE  Cardinality({s \in Sessions : Live(s) /\ login[s] = l}) <= 2^crashes
    BY DEF ForksNeedCrashes
  <2> DEFINE L == {s \in Sessions : Live(s) /\ login[s] = l}
  <2>1. L \subseteq Chain(l)
    BY DEF Chain, Live, Active
  <2>2. Cardinality(L) \in Nat /\ Cardinality(L) <= Cardinality(Chain(l))
    BY <2>1, ChainType, CountPart
  <2>3. Cardinality(Chain(l)) + Cardinality(Renewing(l)) <= 2^crashes
    BY DEF IInv, ChainInv
  <2>4. 2^crashes \in Nat
    BY PowerOfTwo, BoundsAssumption DEF IInv, TypeOK
  <2> HIDE DEF L
  <2>5. Cardinality(L) <= 2^crashes
    BY <2>2, <2>3, <2>4, ChainType
  <2> QED
    BY <2>5 DEF L
<1> QED
  BY <1>1, Invariance, PTL

(* Sessions are exchanged and ended within their lifetime. *)
THEOREM RevocationInTime == Spec => []RevokedInTime
<1>1. IInv => RevokedInTime
  BY DEF IInv
<1> QED
  BY <1>1, Invariance, PTL

(* The session of a logout that is answered with 204 is not live. *)
THEOREM LogoutEnds == Spec => []LogoutRevokes
<1>1. IInv => LogoutRevokes
  BY DEF IInv
<1> QED
  BY <1>1, Invariance, PTL

(* An access token is accepted for less than AccessTTL after its session   *)
(* was revoked.                                                            *)
THEOREM StaleAccess == Spec => StaleAccessBounded
<1>1. ASSUME IInv, [Next]_vars, NEW r \in Requests,
             pc[r] = "authorize", pc'[r] = "granted", revokedAt[req[r].token] # 0
      PROVE  now < revokedAt[req[r].token] + AccessTTL
  <2>1. /\ req[r].token \in Sessions
        /\ now \in Nat /\ accessUntil[req[r].token] \in Nat /\ revokedAt[req[r].token] \in Nat
    BY <1>1 DEF IInv, TypeOK
  <2>2. pc' # pc
    BY <1>1
  <2>3. PICK q \in Requests : Send(q) \/ Serve(q) \/ Fail(q) \/ Return(q)
    BY <1>1, <2>2 DEF Next, vars, Tick, Sync, CrashRedis
  <2>4. \/ \E step : Goto(q, step)
        \/ pc' = pc
    BY <2>3 DEF Send, Serve, Fail, Return, GetIndex, GetFields, NotFound, RunScript,
       CreateSession, IssueAccess, Authorize
  <2>5. q = r
    BY <1>1, <2>2, <2>4 DEF Goto, IInv, TypeOK
  <2>6. Authorize(r)
    BY <1>1, <2>3, <2>5 DEF Send, Serve, Fail, Return, Goto, GetIndex, GetFields, RunScript,
       CreateSession, IssueAccess, IInv, TypeOK, Answers
  <2>7. now < accessUntil[req[r].token]
    BY <1>1, <2>6 DEF Authorize, AccessValid, Goto, IInv, TypeOK
  <2>8. accessUntil[req[r].token] <= revokedAt[req[r].token] + AccessTTL
    BY <1>1, <2>1 DEF IInv, AccessInv
  <2> QED
    BY <2>1, <2>7, <2>8, BoundsAssumption
<1>2. IInv /\ [Next]_vars =>
        [\A r \in Requests :
           pc[r] = "authorize" /\ pc'[r] = "granted" /\ revokedAt[req[r].token] # 0
             => now < revokedAt[req[r].token] + AccessTTL]_vars
  BY <1>1
<1> QED
  BY <1>2, Invariance, PTL DEF Spec, StaleAccessBounded

(* A request has revoked nothing before its script has run, and runs it    *)
(* again only when it is sent again.                                       *)
MineInv ==
  \A r \in Requests :
    /\ pc[r] \in {"get_index", "get_fields"} => ~req[r].mine
    /\ pc[r] \in {"revoke", "invalid"} /\ req[r].mine => req[r].resent > 0

(* A refresh that has revoked its session is refused only if the script    *)
(* was sent again.                                                         *)
THEOREM RevokerServed == Spec => []RevokerServedUnlessResent
<1>1. Init => MineInv
  BY DEF Init, MineInv, Carry
<1>2. ASSUME IInv, MineInv, [Next]_vars PROVE MineInv'
  <2>1. /\ pc \in [Requests -> {"idle"} \cup Steps \cup Answers]
        /\ req \in [Requests -> ReqType]
    BY <1>2 DEF IInv, TypeOK
  <2>2. CASE UNCHANGED <<pc, req>>
    BY <1>2, <2>2 DEF MineInv
  <2>3. ASSUME NEW r \in Requests, Send(r) PROVE MineInv'
    BY <1>2, <2>1, <2>3 DEF MineInv, Send, Goto, Carry
  <2>4. ASSUME NEW r \in Requests, GetIndex(r) \/ GetFields(r) PROVE MineInv'
    BY <1>2, <2>1, <2>4 DEF MineInv, GetIndex, GetFields, NotFound, NextOfFields, Goto
  <2>5. ASSUME NEW r \in Requests, RunScript(r) PROVE MineInv'
    <3> DEFINE revoked == Revocable(req[r].token)
    <3>1. \A q \in Requests : q # r => pc'[q] = pc[q] /\ req'[q] = req[q]
      BY <2>1, <2>5 DEF RunScript, Goto
    <3>2. CASE /\ Goto(r, NextOfRevoke(r, revoked))
               /\ req' = [req EXCEPT ![r].mine = @ \/ revoked]
      <4>1. pc'[r] = NextOfRevoke(r, revoked) /\ req'[r].resent = req[r].resent
        BY <2>1, <3>2 DEF Goto, ReqType
      <4>2. pc'[r] = "invalid" => (req'[r].mine <=> req[r].mine)
        BY <2>1, <3>2, <4>1, Zenon DEF NextOfRevoke, ReqType
      <4> QED
        BY <1>2, <2>5, <3>1, <4>1, <4>2 DEF MineInv, RunScript, NextOfRevoke
    <3>3. CASE req' = [req EXCEPT ![r].resent = @ + 1, ![r].mine = @ \/ revoked]
      <4>1. req'[r].resent > 0
        BY <2>1, <3>3 DEF ReqType
      <4>2. pc'[r] \notin {"get_index", "get_fields"}
        BY <2>1, <2>5 DEF RunScript, NextOfRevoke, Goto
      <4> QED
        BY <1>2, <3>1, <4>1, <4>2 DEF MineInv
    <3>4. CASE Goto(r, "failed")
      BY <1>2, <2>1, <3>1, <3>4 DEF MineInv, Goto
    <3> QED
      BY <2>5, <3>2, <3>3, <3>4 DEF RunScript
  <2>6. ASSUME NEW r \in Requests, CreateSession(r) PROVE MineInv'
    BY <1>2, <2>1, <2>6 DEF MineInv, CreateSession, Goto, ReqType
  <2>7. ASSUME NEW r \in Requests, IssueAccess(r) \/ Authorize(r) \/ Fail(r) PROVE MineInv'
    BY <1>2, <2>1, <2>7 DEF MineInv, IssueAccess, Authorize, Fail, Goto
  <2>8. ASSUME NEW r \in Requests, Return(r) PROVE MineInv'
    BY <1>2, <2>1, <2>8 DEF MineInv, Return, Goto, Carry
  <2>9. CASE Tick \/ Sync \/ CrashRedis
    BY <2>2, <2>9 DEF Tick, Sync, CrashRedis
  <2> QED
    BY <1>2, <2>2, <2>3, <2>4, <2>5, <2>6, <2>7, <2>8, <2>9 DEF Next, Serve, vars
<1>3. MineInv => RevokerServedUnlessResent
  BY DEF MineInv, RevokerServedUnlessResent
<1> QED
  BY <1>1, <1>2, <1>3, Invariance, PTL DEF Spec
-----------------------------------------------------------------------------
(* Steps that neither open, end nor exchange a session change nothing the  *)
(* ledger knows.                                                           *)
LEMMA QuietStep ==
  ASSUME UNCHANGED <<session, durable, login, parent, issuedAt, now>>,
         \A q \in Requests : Owed(q)' = Owed(q)
  PROVE  UNCHANGED Ledger!vars
<1>1. [q \in Requests |-> Owed(q)]' = [q \in Requests |-> Owed(q)]
  OBVIOUS
<1> QED
  BY <1>1 DEF Ledger!vars

(* What one request owes changes the mapping at that request. *)
LEMMA OwedChange ==
  ASSUME NEW r \in Requests, NEW v, Owed(r)' = v,
         \A q \in Requests \ {r} : Owed(q)' = Owed(q)
  PROVE  [q \in Requests |-> Owed(q)]' = [[q \in Requests |-> Owed(q)] EXCEPT ![r] = v]
  OBVIOUS

(* Reads, answers and the signing of access tokens are quiet, and so is a  *)
(* failure, unless it forfeits an exchange.                                *)
LEMMA ReadIsQuiet ==
  ASSUME IInv, NEW r \in Requests,
         \/ Send(r) \/ GetIndex(r) \/ GetFields(r) \/ IssueAccess(r) \/ Authorize(r)
         \/ Return(r) \/ Fail(r)
  PROVE  Ledger!Next \/ UNCHANGED Ledger!vars
<1>1. UNCHANGED <<session, durable, login, parent, issuedAt, now>>
  BY DEF Send, GetIndex, GetFields, IssueAccess, Authorize, Return, Fail, redis, history
<1>2. \A q \in Requests \ {r} : Owed(q)' = Owed(q)
  BY DEF Send, GetIndex, GetFields, NotFound, IssueAccess, Authorize, Return, Fail, Goto, Owed,
     IInv, TypeOK
<1>3. CASE Exchanging(r)
  <2>1. Fail(r)
    BY <1>3 DEF Send, GetIndex, GetFields, IssueAccess, Authorize, Return, Exchanging, Answers
  <2>2. Owed(r) # NoSession /\ Owed(r)' = NoSession
    BY <1>3, <2>1, NoSessionAssumption DEF Fail, Goto, Owed, Exchanging, IInv, TypeOK
  <2>3. [q \in Requests |-> Owed(q)]' = [[q \in Requests |-> Owed(q)] EXCEPT ![r] = NoSession]
    BY <1>2, <2>2, OwedChange
  <2>4. [q \in Requests |-> Owed(q)][r] = Owed(r)
    OBVIOUS
  <2>5. Ledger!Forfeit(r)
    BY <1>1, <2>2, <2>3, <2>4 DEF Ledger!Forfeit
  <2> QED
    BY <2>5 DEF Ledger!Next
<1>4. CASE ~Exchanging(r)
  <2>1. ~Exchanging(r)'
    <3>1. CASE Send(r)
      <4>1. PICK c \in Clients, op \in Ops :
              /\ req' = [req EXCEPT ![r] = Carry(c, op, jar[c])]
              /\ Goto(r, FirstStep(op, jar[c]))
        BY <3>1 DEF Send
      <4>2. pc'[r] = FirstStep(op, jar[c]) /\ req'[r].op = op
        BY <4>1 DEF Goto, Carry, IInv, TypeOK
      <4> QED
        BY <4>2, OpsAssumption DEF FirstStep, Exchanging
    <3>2. CASE GetIndex(r) \/ GetFields(r) \/ IssueAccess(r) \/ Authorize(r) \/ Return(r) \/ Fail(r)
      BY <3>2 DEF GetIndex, GetFields, NotFound, NextOfFields, IssueAccess, Authorize, Return,
         Fail, Goto, Exchanging, IInv, TypeOK
    <3> QED
      BY <3>1, <3>2
  <2>2. Owed(r) = NoSession /\ Owed(r)' = NoSession
    BY <1>4, <2>1 DEF Owed, Exchanging
  <2> QED
    BY <1>1, <1>2, <2>2, QuietStep
<1> QED
  BY <1>3, <1>4

(* The script spends a session when a refresh goes on, and ends it when    *)
(* the reply is lost or a logout has sent it.                              *)
LEMMA ScriptIsOneStep ==
  ASSUME IInv, NEW r \in Requests, RunScript(r), NEW s0 \in Sessions, s0 = req[r].token
  PROVE  Ledger!Next \/ UNCHANGED Ledger!vars
<1>1. /\ UNCHANGED <<durable, login, parent, issuedAt, now>>
      /\ Owed(r) = NoSession
      /\ \A q \in Requests \ {r} : Owed(q)' = Owed(q)
      /\ Owed(r)' = IF pc'[r] = "open" THEN s0 ELSE NoSession
      /\ pc'[r] = "open" => Live(s0)
  BY RunScriptFacts DEF Owed
<1>2. CASE Live(s0)
  <2>1. /\ s0 \in {s \in Sessions : session[s].state = "active"}
        /\ now < issuedAt[s0] + RefreshTTL
    BY <1>1, <1>2 DEF Live, Present, IInv, TimeInv
  <2>2. {s \in Sessions : session'[s].state = "active"}
          = {s \in Sessions : session[s].state = "active"} \ {s0}
    BY <1>1, <1>2, RunScriptFacts
  <2>3. [q \in Requests |-> Owed(q)][r] = Owed(r)
    OBVIOUS
  <2>4. Ledger!Lasts(s0)
    BY <2>1 DEF Ledger!Lasts
  <2>5. CASE pc'[r] = "open"
    <3>1. [q \in Requests |-> Owed(q)]' = [[q \in Requests |-> Owed(q)] EXCEPT ![r] = s0]
      BY <1>1, <2>5, OwedChange
    <3>2. Ledger!Spend(r, s0)
      BY <1>1, <2>2, <2>4, <2>3, <3>1 DEF Ledger!Spend
    <3> QED
      BY <1>1, <3>2 DEF Ledger!Next
  <2>6. CASE pc'[r] # "open"
    <3>1. [q \in Requests |-> Owed(q)]' = [q \in Requests |-> Owed(q)]
      BY <1>1, <2>6
    <3>2. Ledger!End(s0)
      BY <1>1, <2>2, <2>4, <3>1 DEF Ledger!End
    <3> QED
      BY <1>1, <3>2 DEF Ledger!Next
  <2> QED
    BY <2>5, <2>6
<1>3. CASE ~Live(s0)
  <2>1. session' = session /\ pc'[r] # "open"
    BY <1>1, <1>3, RunScriptFacts
  <2> QED
    BY <1>1, <2>1, QuietStep
<1> QED
  BY <1>2, <1>3

(* A session is opened by a login, or in exchange for one that was spent. *)
LEMMA CreationIsOneStep ==
  ASSUME IInv, NEW r \in Requests, NEW s \in Sessions, Creates(r, s)
  PROVE  Ledger!Next
<1>1. /\ login[s] = NoSession /\ UNCHANGED <<durable, now>>
      /\ issuedAt' = [issuedAt EXCEPT ![s] = now]
  BY DEF Creates, Known
<1>2. {t \in Sessions : session'[t].state = "active"}
        = {t \in Sessions : session[t].state = "active"} \cup {s}
  BY CreatesFacts
<1>3. /\ \A q \in Requests \ {r} : Owed(q)' = Owed(q)
      /\ Owed(r)' = NoSession
  BY CreatesFacts DEF Owed
<1>4. CASE req[r].op = "refresh"
  <2>1. Owed(r) = req[r].token /\ Owed(r) # NoSession
    BY <1>4, CreatesFacts, NoSessionAssumption DEF Owed
  <2>2. /\ login' = [login EXCEPT ![s] = login[Owed(r)]]
        /\ parent' = [parent EXCEPT ![s] = Owed(r)]
    BY <1>4, <2>1 DEF Creates
  <2>3. [q \in Requests |-> Owed(q)]' = [[q \in Requests |-> Owed(q)] EXCEPT ![r] = NoSession]
    BY <1>3, OwedChange
  <2>4. [q \in Requests |-> Owed(q)][r] = Owed(r)
    OBVIOUS
  <2>5. Ledger!Exchange(r, s)
    BY <1>1, <1>2, <2>1, <2>2, <2>3, <2>4 DEF Ledger!Exchange, Ledger!Open
  <2> QED
    BY <2>5 DEF Ledger!Next
<1>5. CASE req[r].op # "refresh"
  <2>1. login' = [login EXCEPT ![s] = s] /\ parent' = [parent EXCEPT ![s] = NoSession]
    BY <1>5 DEF Creates
  <2>2. Owed(r) = NoSession
    BY <1>5 DEF Owed
  <2>3. [q \in Requests |-> Owed(q)]' = [q \in Requests |-> Owed(q)]
    BY <1>3, <2>2
  <2>4. Ledger!Login(s)
    BY <1>1, <1>2, <2>1, <2>3 DEF Ledger!Login, Ledger!Open
  <2> QED
    BY <2>4 DEF Ledger!Next
<1> QED
  BY <1>4, <1>5

(* Logins, refreshes and logouts are single steps on the ledger, however   *)
(* their commands interleave, fail and are sent again.                     *)
THEOREM Implements == Spec => ImplementsLedger
<1>1. Init => Ledger!Init
  <2> SUFFICES ASSUME Init PROVE Ledger!Init
    OBVIOUS
  <2>1. \A q \in Requests : Owed(q) = NoSession
    BY DEF Init, Owed
  <2>2. /\ {s \in Sessions : session[s].state = "active"} = {}
        /\ {s \in Sessions : durable[s].state = "active"} = {}
    BY DEF Init
  <2> QED
    BY <2>1, <2>2 DEF Init, Ledger!Init
<1>2. IInv /\ [Next]_vars => [Ledger!Next]_(Ledger!vars)
  <2> SUFFICES ASSUME IInv, [Next]_vars PROVE Ledger!Next \/ UNCHANGED Ledger!vars
    OBVIOUS
  <2>1. ASSUME NEW r \in Requests, Send(r) \/ Serve(r) \/ Fail(r) \/ Return(r)
        PROVE  Ledger!Next \/ UNCHANGED Ledger!vars
    <3>1. CASE CreateSession(r)
      <4>1. PICK s \in Sessions : Creates(r, s)
        BY <3>1 DEF CreateSession, Creates, Known
      <4> QED
        BY <4>1, CreationIsOneStep
    <3>2. CASE ~CreateSession(r)
      BY <2>1, <3>2, ReadIsQuiet, ScriptIsOneStep, RunScriptFacts DEF Serve
    <3> QED
      BY <3>1, <3>2
  <2>2. ASSUME UNCHANGED <<pc, req>> PROVE \A q \in Requests : Owed(q)' = Owed(q)
    BY <2>2 DEF Owed
  <2>3. CASE Tick
    <3>1. Ledger!Tick
      BY <2>2, <2>3 DEF Tick, Ledger!Tick, redis, history
    <3> QED
      BY <3>1 DEF Ledger!Next
  <2>4. CASE Sync
    <3>1. Ledger!Sync
      BY <2>2, <2>4 DEF Sync, Ledger!Sync, history
    <3> QED
      BY <3>1 DEF Ledger!Next
  <2>5. CASE CrashRedis
    <3>1. Ledger!Crash
      BY <2>2, <2>5 DEF CrashRedis, Ledger!Crash, history
    <3> QED
      BY <3>1 DEF Ledger!Next
  <2>6. CASE UNCHANGED vars
    BY <2>2, <2>6, QuietStep DEF vars, redis, history
  <2> QED
    BY <2>1, <2>3, <2>4, <2>5, <2>6 DEF Next
<1> QED
  BY <1>1, <1>2, Invariance, PTL DEF Spec, ImplementsLedger, Ledger!Spec
=============================================================================
