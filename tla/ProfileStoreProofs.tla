------------------------- MODULE ProfileStoreProofs -------------------------
(***************************************************************************)
(* Proofs about ProfileStore: positions stay dense, no change undoes       *)
(* another one, and from outside each transaction is one step on fields,   *)
(* gallery and filter, for any photos, requests, limits and fields.        *)
(***************************************************************************)
EXTENDS ProfileStore, FiniteSetTheorems, SequenceTheorems, TLAPS

PhotoTable == [Photos -> [position : 0..MaxPhotos, created : Nat]]

(* PositionsDense, of any table of photos. *)
Dense(p) ==
  /\ \A id \in RowsOf(p) : p[id].position <= Cardinality(RowsOf(p))
  /\ \A a, b \in RowsOf(p) : p[a].position = p[b].position => a = b

-----------------------------------------------------------------------------
(* Positions of photos. *)

LEMMA RowsFinite ==
  ASSUME NEW p
  PROVE  IsFiniteSet(RowsOf(p)) /\ Cardinality(RowsOf(p)) \in Nat
<1>1. RowsOf(p) \in SUBSET Photos
  BY DEF RowsOf
<1>2. IsFiniteSet(RowsOf(p))
  BY <1>1, PhotosFinite, FS_Subset
<1> QED  BY <1>2, FS_CardinalityType

(* A photo at the end of a list that is not full. *)
LEMMA AddedDense ==
  ASSUME NEW p \in PhotoTable, Dense(p), Cardinality(RowsOf(p)) < MaxPhotos,
         NEW new \in Photos \ RowsOf(p), NEW q \in PhotoTable,
         q[new].position = Cardinality(RowsOf(p)) + 1,
         \A id \in Photos \ {new} : q[id] = p[id]
  PROVE  /\ Dense(q)
         /\ RowsOf(q) = RowsOf(p) \cup {new}
         /\ Cardinality(RowsOf(q)) = Cardinality(RowsOf(p)) + 1
<1> DEFINE n == Cardinality(RowsOf(p))
<1>1. n \in Nat /\ n + 1 # 0
  BY RowsFinite
<1>2. /\ \A id \in Photos : p[id].position \in 0..MaxPhotos
      /\ \A id \in Photos \ {new} : q[id] = p[id]
      /\ q[new].position = n + 1
  BY DEF PhotoTable
<1>3. RowsOf(q) = RowsOf(p) \cup {new}
  BY <1>1, <1>2 DEF RowsOf
<1>4. Cardinality(RowsOf(q)) = n + 1
  BY <1>3, RowsFinite, FS_AddElement
<1> HIDE DEF n
<1>6. \A id \in RowsOf(p) : id \in Photos \ {new} /\ p[id].position <= n
  BY DEF Dense, RowsOf, n
<1>7. \A id \in RowsOf(p) : q[id].position = p[id].position /\ q[id].position <= n
  BY <1>2, <1>6
<1>8. \A id \in RowsOf(q) : q[id].position <= n + 1
  BY <1>1, <1>2, <1>3, <1>6, <1>7
<1>9. ASSUME NEW a \in RowsOf(q), NEW b \in RowsOf(q), q[a].position = q[b].position
      PROVE  a = b
  <2>1. CASE a \in RowsOf(p) /\ b \in RowsOf(p)
    BY <1>7, <1>9, <2>1 DEF Dense
  <2>2. \A id \in RowsOf(p) : q[id].position # n + 1
    BY <1>1, <1>2, <1>6, <1>7
  <2> QED  BY <1>2, <1>3, <1>9, <2>1, <2>2
<1>10. Dense(q)
  BY <1>4, <1>8, <1>9 DEF Dense
<1> QED  BY <1>3, <1>4, <1>10 DEF n

(* A photo is taken out and those behind it move up. *)
LEMMA DeletedDense ==
  ASSUME NEW p \in PhotoTable, Dense(p), NEW gone \in RowsOf(p), NEW q \in PhotoTable,
         q[gone].position = 0,
         \A id \in Photos \ {gone} :
           q[id].position = IF p[id].position > p[gone].position
                            THEN p[id].position - 1 ELSE p[id].position
  PROVE  /\ Dense(q)
         /\ RowsOf(q) = RowsOf(p) \ {gone}
         /\ Cardinality(RowsOf(q)) = Cardinality(RowsOf(p)) - 1
<1> DEFINE n == Cardinality(RowsOf(p))
           place == p[gone].position
<1>1. n \in Nat /\ place \in Nat /\ place # 0 /\ place <= n
  <2>1. n \in Nat
    BY RowsFinite
  <2>2. gone \in Photos /\ place # 0
    BY DEF RowsOf
  <2>3. place \in 0..MaxPhotos
    BY <2>2 DEF PhotoTable
  <2>4. place <= n
    BY DEF Dense
  <2> QED  BY <2>1, <2>2, <2>3, <2>4
<1>2. \A id \in Photos : p[id].position \in Nat
  BY DEF PhotoTable
<1>3. RowsOf(q) = RowsOf(p) \ {gone}
  BY <1>1, <1>2 DEF RowsOf
<1>4. Cardinality(RowsOf(q)) = n - 1
  BY <1>3, RowsFinite, FS_RemoveElement
<1>5. \A id \in RowsOf(q) :
        /\ id \in Photos \ {gone} /\ id \in RowsOf(p)
        /\ p[id].position <= n /\ p[id].position # place /\ p[id].position # 0
  BY <1>3 DEF Dense, RowsOf
<1>6. \A id \in RowsOf(q) :
        q[id].position = IF p[id].position > place
                         THEN p[id].position - 1 ELSE p[id].position
  BY <1>5
<1> HIDE DEF n, place
<1>7. \A id \in RowsOf(q) : q[id].position <= n - 1
  BY <1>1, <1>2, <1>5, <1>6
<1>8. ASSUME NEW a \in RowsOf(q), NEW b \in RowsOf(q), q[a].position = q[b].position
      PROVE  a = b
  <2>1. p[a].position = p[b].position
    BY <1>1, <1>2, <1>5, <1>6, <1>8
  <2> QED  BY <1>5, <2>1 DEF Dense
<1>9. Dense(q)
  BY <1>4, <1>7, <1>8 DEF Dense
<1> QED  BY <1>3, <1>4, <1>9 DEF n

(* A new order that has the length of the gallery and names its photos. *)
LEMMA PlaceInOrder ==
  ASSUME NEW order \in Orders, NEW id, \E i \in DOMAIN order : order[i] = id
  PROVE  /\ Place(order, id) \in 1..Len(order) /\ Place(order, id) \in 1..MaxPhotos
         /\ order[Place(order, id)] = id
<1>1. PICK n \in 1..MaxPhotos : order \in [1..n -> Photos]
  BY DEF Orders
<1>2. n \in Nat /\ order \in Seq(Photos) /\ Len(order) = n /\ DOMAIN order = 1..n
  BY <1>1, LimitsAreNat
<1>3. Place(order, id) \in 1..n /\ order[Place(order, id)] = id
  BY <1>2 DEF Place
<1> QED  BY <1>2, <1>3, LimitsAreNat

LEMMA ReorderedDense ==
  ASSUME NEW p, NEW order \in Orders, Len(order) = Cardinality(RowsOf(p)),
         \A id \in RowsOf(p) : \E i \in DOMAIN order : order[i] = id,
         NEW q, \A id \in RowsOf(p) : q[id].position = Place(order, id),
         \A id \in Photos \ RowsOf(p) : q[id] = p[id]
  PROVE  Dense(q) /\ RowsOf(q) = RowsOf(p)
<1>1. \A id \in RowsOf(p) : /\ Place(order, id) \in 1..Len(order)
                            /\ order[Place(order, id)] = id
  BY PlaceInOrder
<1>2. Cardinality(RowsOf(p)) \in Nat
  BY RowsFinite
<1>3. RowsOf(q) = RowsOf(p)
  BY <1>1, <1>2 DEF RowsOf
<1>4. \A id \in RowsOf(q) : q[id].position <= Cardinality(RowsOf(q))
  BY <1>1, <1>2, <1>3
<1>5. \A a, b \in RowsOf(q) : q[a].position = q[b].position => a = b
  BY <1>1, <1>3
<1> QED  BY <1>3, <1>4, <1>5 DEF Dense

-----------------------------------------------------------------------------
Steps == {"idle"} \cup Answers \cup InFlight
SeenType == [fields : FieldValues, filtered : BOOLEAN, position : [Photos -> 0..MaxPhotos]]
TxType == [started : Nat, seen : SeenType]

(* Only one transaction has the row of the profile. *)
Exclusive ==
  \A r, q \in Requests : pc[r] \in Locked /\ pc[q] \in Locked => r = q

(* Dates are starts of transactions that are over. *)
DatesInv ==
  /\ \A id \in Photos : photo[id].created <= photoAt
  /\ filter <= filterAt
  /\ photoAt < clock /\ filterAt < clock

(* What each request may rely on: what its transaction has read is what    *)
(* there still is, but for a filter that has come since, and what it       *)
(* commits it has not refused.                                             *)
SeenCurrent(r) ==
  pc[r] \in {"write", "commit"} =>
    /\ tx[r].seen.fields = CurrentFields(versions)
    /\ \A id \in Photos : tx[r].seen.position[id] = photo[id].position
    /\ filter # 0 => tx[r].seen.filtered \/ tx[r].started < filterAt
StepInv(r) ==
  /\ SeenCurrent(r)
  /\ pc[r] = "commit" => \A answer \in Refusals : ~Refused(r, answer)
  /\ pc[r] \in {"lock", "upsert"} \cup Locked => tx[r].started < clock

Inv ==
  /\ TypeOK
  /\ Exclusive
  /\ PositionsDense
  /\ RowsOf(photo) \subseteq drawn
  /\ DatesInv
  /\ \A r \in Requests : StepInv(r)

-----------------------------------------------------------------------------
LEMMA NoTxTyped == NoTx \in TxType
<1>1. Unfilled \in FieldValues
  BY DEF Unfilled, FieldValues
<1>2. [id \in Photos |-> 0] \in [Photos -> 0..MaxPhotos]
  BY LimitsAreNat
<1>3. Nothing \in SeenType
  BY <1>1, <1>2 DEF Nothing, SeenType
<1> QED  BY <1>3 DEF NoTx, TxType

LEMMA InputTypes ==
  ASSUME NEW i \in Inputs
  PROVE  /\ i.op \in {"patch", "add", "delete", "reorder", "filter"}
         /\ i.op = "patch" => i.patch \in Patches
         /\ i.op = "delete" => i.id \in Photos
         /\ i.op = "reorder" => i.order \in Orders
BY DEF Inputs

(* TypeOK in the terms of these proofs. *)
LEMMA Typed ==
  TypeOK <=> /\ versions \in Seq(FieldValues) /\ photo \in PhotoTable /\ drawn \subseteq Photos
             /\ filter \in Nat /\ updated \in Nat /\ pc \in [Requests -> Steps]
             /\ input \in [Requests -> Inputs \cup {NoInput}]
             /\ \A r \in Requests : pc[r] \in InFlight => input[r] \in Inputs
             /\ tx \in [Requests -> TxType] /\ clock \in Nat \ {0} /\ received \in Nat
             /\ photoAt \in Nat /\ filterAt \in Nat
BY DEF TypeOK, PhotoTable, Steps, TxType, SeenType

LEMMA CurrentFieldsTyped ==
  ASSUME TypeOK PROVE CurrentFields(versions) \in FieldValues
<1>1. CASE versions = <<>>
  BY <1>1 DEF CurrentFields, Unfilled, FieldValues
<1>2. CASE versions # <<>>
  <2>1. versions \in Seq(FieldValues)
    BY DEF TypeOK
  <2>2. Len(versions) \in 1..Len(versions)
    BY <1>2, <2>1, EmptySeq
  <2>3. versions[Len(versions)] \in FieldValues
    BY <2>1, <2>2
  <2> QED  BY <1>2, <2>3 DEF CurrentFields, Revisions
<1> QED  BY <1>1, <1>2

(* Refusals depend on nothing but the input and what was read. *)
LEMMA RefusedSame ==
  ASSUME NEW r \in Requests, input'[r] = input[r], tx'[r] = tx[r],
         \A answer \in Refusals : ~Refused(r, answer)
  PROVE  \A answer \in Refusals : ~Refused(r, answer)'
<1>1. SeenPhotos(r)' = SeenPhotos(r)
  BY DEF SeenPhotos
<1>2. SeenComplete(r)' <=> SeenComplete(r)
  BY <1>1 DEF SeenComplete
<1>3. OverLimit(r)' <=> OverLimit(r)
  BY <1>1 DEF OverLimit
<1>4. KeepsLast(r)' <=> KeepsLast(r)
  BY <1>1, <1>2 DEF KeepsLast
<1>5. MatchesOrder(r)' <=> MatchesOrder(r)
  BY <1>1 DEF MatchesOrder
<1>6. UnknownTag(r)' <=> UnknownTag(r)
  BY DEF UnknownTag
<1>7. ASSUME NEW answer \in Refusals PROVE Refused(r, answer)' <=> Refused(r, answer)
  BY <1>1, <1>3, <1>4, <1>5, <1>6 DEF Refused
<1> QED  BY <1>7

LEMMA InvInit == Init => Inv
<1> SUFFICES ASSUME Init PROVE Inv
  OBVIOUS
<1>1. TypeOK
  <2>1. photo \in PhotoTable
    BY LimitsAreNat DEF Init, PhotoTable
  <2>2. pc \in [Requests -> Steps] /\ tx \in [Requests -> TxType]
        /\ input \in [Requests -> Inputs \cup {NoInput}]
    BY NoTxTyped DEF Init, Steps
  <2>3. \A r \in Requests : pc[r] \notin InFlight
    BY DEF Init, InFlight, Locked
  <2>4. versions \in Seq(FieldValues)
    BY DEF Init
  <2> QED  BY <2>1, <2>2, <2>3, <2>4, Typed DEF Init
<1>2. Exclusive
  BY DEF Init, Exclusive, Locked
<1>3. RowsOf(photo) = {}
  BY DEF Init, RowsOf
<1>4. PositionsDense /\ RowsOf(photo) \subseteq drawn
  BY <1>3 DEF PositionsDense
<1>5. DatesInv
  BY DEF Init, DatesInv
<1>6. ASSUME NEW r \in Requests PROVE StepInv(r)
  BY DEF Init, StepInv, SeenCurrent, Locked
<1> QED  BY <1>1, <1>2, <1>4, <1>5, <1>6 DEF Inv

(* A step of r that changes no row: what is left to show is what r relies  *)
(* on afterwards.                                                          *)
LEMMA MoveKeepsInv ==
  ASSUME Inv, NEW r \in Requests, NEW step \in Steps, NEW data \in Inputs \cup {NoInput},
         NEW known \in TxType,
         pc' = [pc EXCEPT ![r] = step], input' = [input EXCEPT ![r] = data],
         tx' = [tx EXCEPT ![r] = known], rows' = rows, history' = history,
         clock' \in Nat, clock <= clock', received' \in Nat,
         step \in InFlight => data \in Inputs,
         step \in Locked => pc[r] \in Locked \/ \A q \in Requests : pc[q] \notin Locked,
         StepInv(r)'
  PROVE  Inv'
<1>1. /\ TypeOK /\ pc \in [Requests -> Steps] /\ tx \in [Requests -> TxType]
      /\ input \in [Requests -> Inputs \cup {NoInput}]
      /\ \A q \in Requests : pc[q] \in InFlight => input[q] \in Inputs
      /\ clock \in Nat \ {0} /\ photoAt \in Nat /\ filterAt \in Nat
  BY Typed DEF Inv
<1>2. /\ versions' = versions /\ photo' = photo /\ drawn' = drawn /\ filter' = filter
      /\ updated' = updated /\ photoAt' = photoAt /\ filterAt' = filterAt
  BY DEF rows, history
<1>3. /\ pc' \in [Requests -> Steps] /\ tx' \in [Requests -> TxType]
      /\ input' \in [Requests -> Inputs \cup {NoInput}]
      /\ \A q \in Requests : pc'[q] \in InFlight => input'[q] \in Inputs
      /\ clock' \in Nat \ {0}
  BY <1>1
<1>4. TypeOK'
  <2>1. TypeOK => /\ versions \in Seq(FieldValues) /\ photo \in PhotoTable
                  /\ drawn \subseteq Photos /\ filter \in Nat /\ updated \in Nat
    BY Typed
  <2> QED  BY <1>1, <1>2, <1>3, <2>1 DEF TypeOK, PhotoTable, Steps, TxType, SeenType
<1>5. Exclusive'
  BY <1>1 DEF Inv, Exclusive
<1>6. PositionsDense' /\ (RowsOf(photo) \subseteq drawn)'
  BY <1>2 DEF Inv, PositionsDense, RowsOf
<1>7. DatesInv'
  BY <1>1, <1>2, <1>3 DEF Inv, DatesInv
<1>8. ASSUME NEW q \in Requests, q # r PROVE StepInv(q)'
  <2>1. /\ StepInv(q) /\ pc'[q] = pc[q] /\ tx'[q] = tx[q] /\ input'[q] = input[q]
        /\ tx[q].started \in Nat
    BY <1>1, <1>8 DEF Inv, TxType
  <2>2. SeenCurrent(q)'
    BY <1>2, <2>1 DEF StepInv, SeenCurrent, CurrentFields, Revisions
  <2>3. (pc[q] = "commit" => \A answer \in Refusals : ~Refused(q, answer))'
    BY <2>1, RefusedSame DEF StepInv
  <2>4. (pc[q] \in {"lock", "upsert"} \cup Locked => tx[q].started < clock)'
    BY <1>1, <1>3, <2>1 DEF StepInv
  <2> QED  BY <2>2, <2>3, <2>4 DEF StepInv
<1> QED  BY <1>4, <1>5, <1>6, <1>7, <1>8 DEF Inv

(* A request that is answered relies on nothing. *)
LEMMA AnswerKeepsInv ==
  ASSUME Inv, NEW r \in Requests, NEW answer \in Answers, Answer(r, answer),
         UNCHANGED <<rows, clock, received, history>>
  PROVE  Inv'
<1>1. /\ TypeOK /\ pc \in [Requests -> Steps] /\ clock \in Nat /\ received \in Nat
  BY Typed DEF Inv
<1>2. /\ pc' = [pc EXCEPT ![r] = answer] /\ pc'[r] = answer /\ answer \in Steps
      /\ answer \notin InFlight /\ answer \notin Locked
      /\ input' = [input EXCEPT ![r] = NoInput] /\ tx' = [tx EXCEPT ![r] = NoTx]
  BY <1>1 DEF Answer, Goto, Steps, Answers, Refusals, InFlight, Locked
<1>3. StepInv(r)'
  BY <1>2 DEF StepInv, SeenCurrent, Answers, Refusals, Locked
<1>4. /\ rows' = rows /\ history' = history /\ clock' = clock /\ received' = received
      /\ clock <= clock' /\ clock' \in Nat /\ received' \in Nat
  BY <1>1
<1> QED  BY <1>2, <1>3, <1>4, NoTxTyped, MoveKeepsInv

LEMMA ReceiveKeepsInv ==
  ASSUME Inv, NEW r \in Requests, Receive(r) PROVE Inv'
<1>1. /\ TypeOK /\ pc \in [Requests -> Steps] /\ tx \in [Requests -> TxType]
      /\ clock \in Nat /\ received \in Nat
  BY Typed DEF Inv
<1>2. PICK data \in Inputs : input' = [input EXCEPT ![r] = data]
  BY DEF Receive
<1>3. /\ pc' = [pc EXCEPT ![r] = "begin"] /\ pc'[r] = "begin" /\ "begin" \in Steps
      /\ "begin" \notin Locked
      /\ tx' = [tx EXCEPT ![r] = tx[r]] /\ tx[r] \in TxType
      /\ rows' = rows /\ history' = history /\ clock' = clock /\ received' = received + 1
  BY <1>1 DEF Receive, Goto, Steps, InFlight, Locked
<1>4. StepInv(r)'
  BY <1>3 DEF StepInv, SeenCurrent, Locked
<1>5. clock <= clock' /\ clock' \in Nat /\ received' \in Nat /\ data \in Inputs \cup {NoInput}
  BY <1>1, <1>3
<1> QED  BY <1>2, <1>3, <1>4, <1>5, MoveKeepsInv

LEMMA BeginKeepsInv ==
  ASSUME Inv, NEW r \in Requests, Begin(r) PROVE Inv'
<1> DEFINE step == IF input[r].op = "filter" THEN "upsert" ELSE "lock"
           known == [tx[r] EXCEPT !.started = clock]
<1>1. /\ TypeOK /\ pc \in [Requests -> Steps] /\ tx \in [Requests -> TxType]
      /\ input \in [Requests -> Inputs \cup {NoInput}]
      /\ \A q \in Requests : pc[q] \in InFlight => input[q] \in Inputs
      /\ clock \in Nat /\ received \in Nat
  BY Typed DEF Inv
<1>2. /\ pc[r] = "begin" /\ pc[r] \in InFlight /\ pc' = [pc EXCEPT ![r] = step]
      /\ clock' = clock + 1 /\ received' = received /\ input' = input
      /\ rows' = rows /\ history' = history
  BY DEF Begin, Goto, InFlight
<1>3. /\ step \in {"upsert", "lock"} /\ step \in Steps /\ step \notin Locked
      /\ pc'[r] = step
  BY <1>1, <1>2 DEF Steps, InFlight, Locked
<1>4. /\ tx' = [tx EXCEPT ![r] = known] /\ known \in TxType /\ known.started = clock
      /\ tx'[r] = known
  BY <1>1 DEF Begin, TxType
<1>5. /\ input' = [input EXCEPT ![r] = input[r]] /\ input[r] \in Inputs
  BY <1>1, <1>2
<1> HIDE DEF step, known
<1>6. StepInv(r)'
  BY <1>1, <1>2, <1>3, <1>4 DEF StepInv, SeenCurrent, Locked
<1>7. clock <= clock' /\ clock' \in Nat /\ received' \in Nat
  BY <1>1, <1>2
<1> QED  BY <1>2, <1>3, <1>4, <1>5, <1>6, <1>7, MoveKeepsInv

LEMMA LockKeepsInv ==
  ASSUME Inv, NEW r \in Requests, Lock(r) PROVE Inv'
<1>1. /\ TypeOK /\ StepInv(r) /\ pc \in [Requests -> Steps] /\ tx \in [Requests -> TxType]
      /\ input \in [Requests -> Inputs \cup {NoInput}]
      /\ \A q \in Requests : pc[q] \in InFlight => input[q] \in Inputs
      /\ clock \in Nat /\ received \in Nat
  BY Typed DEF Inv
<1>2. /\ pc[r] = "lock" /\ pc[r] \in InFlight /\ pc' = [pc EXCEPT ![r] = "load"]
      /\ \A q \in Requests : pc[q] \notin Locked
      /\ rows' = rows /\ history' = history /\ UNCHANGED <<input, tx, clock, received>>
  BY DEF Lock, MayLock, Goto, InFlight
<1>3. pc'[r] = "load" /\ "load" \in Steps /\ "load" \in InFlight
  BY <1>1, <1>2 DEF Steps, InFlight, Locked
<1>4. /\ input' = [input EXCEPT ![r] = input[r]] /\ input[r] \in Inputs
      /\ tx' = [tx EXCEPT ![r] = tx[r]] /\ tx[r] \in TxType
  BY <1>1, <1>2
<1>5. StepInv(r)'
  BY <1>1, <1>2, <1>3 DEF StepInv, SeenCurrent, Locked
<1>6. clock <= clock' /\ clock' \in Nat /\ received' \in Nat
  BY <1>1, <1>2
<1> QED  BY <1>2, <1>3, <1>4, <1>5, <1>6, MoveKeepsInv

LEMMA LoadKeepsInv ==
  ASSUME Inv, NEW r \in Requests, Load(r) PROVE Inv'
<1> DEFINE known == [tx[r] EXCEPT !.seen = Snapshot]
<1>1. /\ TypeOK /\ StepInv(r) /\ pc \in [Requests -> Steps] /\ tx \in [Requests -> TxType]
      /\ input \in [Requests -> Inputs \cup {NoInput}]
      /\ \A q \in Requests : pc[q] \in InFlight => input[q] \in Inputs
      /\ clock \in Nat /\ received \in Nat /\ photo \in PhotoTable
  BY Typed DEF Inv
<1>2. /\ pc[r] = "load" /\ pc[r] \in InFlight /\ pc[r] \in Locked
      /\ pc' = [pc EXCEPT ![r] = "write"]
      /\ rows' = rows /\ history' = history /\ UNCHANGED <<input, clock, received>>
  BY DEF Load, Goto, InFlight, Locked
<1>3. pc'[r] = "write" /\ "write" \in Steps /\ "write" \in InFlight
  BY <1>1, <1>2 DEF Steps, InFlight, Locked
<1>4. Snapshot \in SeenType
  <2>1. [id \in Photos |-> photo[id].position] \in [Photos -> 0..MaxPhotos]
    BY <1>1 DEF PhotoTable
  <2> QED  BY <1>1, <2>1, CurrentFieldsTyped DEF Snapshot, SeenType
<1>5. /\ tx' = [tx EXCEPT ![r] = known] /\ known \in TxType /\ tx'[r] = known
      /\ known.started = tx[r].started /\ known.seen = Snapshot
  BY <1>1, <1>4 DEF Load, TxType
<1>6. /\ input' = [input EXCEPT ![r] = input[r]] /\ input[r] \in Inputs
  BY <1>1, <1>2
<1> HIDE DEF known
<1>7. SeenCurrent(r)'
  <2>1. /\ Snapshot.fields = CurrentFields(versions)
        /\ \A id \in Photos : Snapshot.position[id] = photo[id].position
        /\ filter # 0 => Snapshot.filtered
    BY DEF Snapshot
  <2> QED  BY <1>2, <1>5, <2>1 DEF SeenCurrent, rows, CurrentFields, Revisions
<1>8. StepInv(r)'
  BY <1>1, <1>2, <1>3, <1>5, <1>7 DEF StepInv, Locked
<1>9. clock <= clock' /\ clock' \in Nat /\ received' \in Nat
  BY <1>1, <1>2
<1> QED  BY <1>2, <1>3, <1>5, <1>6, <1>8, <1>9, MoveKeepsInv

LEMMA WriteKeepsInv ==
  ASSUME Inv, NEW r \in Requests, Write(r) PROVE Inv'
<1>1. /\ TypeOK /\ StepInv(r) /\ pc \in [Requests -> Steps] /\ tx \in [Requests -> TxType]
      /\ input \in [Requests -> Inputs \cup {NoInput}]
      /\ \A q \in Requests : pc[q] \in InFlight => input[q] \in Inputs
      /\ clock \in Nat /\ received \in Nat
  BY Typed DEF Inv
<1>2. /\ pc[r] = "write" /\ pc[r] \in InFlight /\ pc[r] \in Locked
      /\ rows' = rows /\ history' = history /\ UNCHANGED <<clock, received>>
      /\ UNCHANGED <<rows, clock, received, history>>
  BY DEF Write, InFlight, Locked
<1>3. CASE \E answer \in Answers : Answer(r, answer)
  BY <1>2, <1>3, AnswerKeepsInv
<1>4. CASE /\ \A answer \in Refusals : ~Refused(r, answer)
           /\ Goto(r, "commit") /\ UNCHANGED <<input, tx>>
  <2>1. /\ pc' = [pc EXCEPT ![r] = "commit"] /\ pc'[r] = "commit"
        /\ "commit" \in Steps /\ "commit" \in InFlight
    BY <1>1, <1>4 DEF Goto, Steps, InFlight, Locked
  <2>2. /\ input' = [input EXCEPT ![r] = input[r]] /\ input[r] \in Inputs
        /\ tx' = [tx EXCEPT ![r] = tx[r]] /\ tx[r] \in TxType
    BY <1>1, <1>2, <1>4
  <2>3. SeenCurrent(r)'
    BY <1>1, <1>2, <1>4 DEF StepInv, SeenCurrent, rows, history, CurrentFields, Revisions
  <2>4. (\A answer \in Refusals : ~Refused(r, answer))'
    BY <1>4, RefusedSame
  <2>5. (tx[r].started < clock)'
    BY <1>1, <1>2, <1>4 DEF StepInv
  <2>6. StepInv(r)'
    BY <2>3, <2>4, <2>5 DEF StepInv
  <2>7. clock <= clock' /\ clock' \in Nat /\ received' \in Nat
    BY <1>1, <1>2
  <2> QED  BY <1>2, <2>1, <2>2, <2>6, <2>7, MoveKeepsInv
<1> QED  BY <1>3, <1>4 DEF Write, Answers

LEMMA FailKeepsInv ==
  ASSUME Inv, NEW r \in Requests, Fail(r) PROVE Inv'
BY AnswerKeepsInv DEF Fail, Answers

LEMMA UpdateFilterKeepsInv ==
  ASSUME Inv, NEW r \in Requests, UpdateFilter(r) PROVE Inv'
BY AnswerKeepsInv DEF UpdateFilter, Answers

LEMMA InsertFilterKeepsInv ==
  ASSUME Inv, NEW r \in Requests, InsertFilter(r) PROVE Inv'
<1>1. /\ TypeOK /\ versions \in Seq(FieldValues) /\ photo \in PhotoTable /\ drawn \subseteq Photos
      /\ updated \in Nat /\ pc \in [Requests -> Steps] /\ tx \in [Requests -> TxType]
      /\ input \in [Requests -> Inputs \cup {NoInput}]
      /\ \A q \in Requests : pc[q] \in InFlight => input[q] \in Inputs
      /\ clock \in Nat \ {0} /\ received \in Nat /\ photoAt \in Nat /\ filterAt \in Nat
  BY Typed DEF Inv
<1>2. PICK answer \in {"saved", "failed"} : Answer(r, answer)
  BY DEF InsertFilter
<1>3. /\ pc' = [pc EXCEPT ![r] = answer] /\ answer \in Steps /\ pc'[r] = answer
      /\ answer \notin InFlight /\ answer \notin Locked \cup {"lock", "upsert"}
      /\ input' = [input EXCEPT ![r] = NoInput] /\ tx' = [tx EXCEPT ![r] = NoTx]
  BY <1>1, <1>2 DEF Answer, Goto, Steps, Answers, InFlight, Locked
<1>4. /\ pc[r] = "upsert" /\ filter' = tx[r].started /\ filterAt' = clock
      /\ clock' = clock + 1 /\ received' = received /\ photoAt' = photoAt
      /\ versions' = versions /\ photo' = photo /\ drawn' = drawn /\ updated' = updated
  BY DEF InsertFilter
<1>5. tx[r].started \in Nat /\ tx[r].started < clock
  BY <1>1, <1>4 DEF Inv, StepInv, TxType
<1>6. TypeOK'
  <2>1. /\ pc' \in [Requests -> Steps] /\ tx' \in [Requests -> TxType]
        /\ input' \in [Requests -> Inputs \cup {NoInput}]
        /\ \A q \in Requests : pc'[q] \in InFlight => input'[q] \in Inputs
    BY <1>1, <1>3, NoTxTyped
  <2> QED  BY <1>1, <1>4, <1>5, <2>1 DEF TypeOK, PhotoTable, Steps, TxType, SeenType
<1>7. Exclusive'
  BY <1>1, <1>3 DEF Inv, Exclusive
<1>8. PositionsDense' /\ (RowsOf(photo) \subseteq drawn)'
  BY <1>4 DEF Inv, PositionsDense, RowsOf
<1>9. DatesInv'
  BY <1>1, <1>4, <1>5 DEF Inv, DatesInv
<1>10. ASSUME NEW q \in Requests PROVE StepInv(q)'
  <2>1. CASE q = r
    BY <1>3, <2>1 DEF StepInv, SeenCurrent, Locked
  <2>2. CASE q # r
    <3>1. /\ StepInv(q) /\ pc'[q] = pc[q] /\ tx'[q] = tx[q] /\ input'[q] = input[q]
          /\ tx[q].started \in Nat
      BY <1>1, <1>3, <2>2 DEF Inv, TxType
    <3>2. SeenCurrent(q)'
      BY <1>4, <3>1 DEF StepInv, SeenCurrent, CurrentFields, Revisions, Locked
    <3>3. (pc[q] = "commit" => \A answer_1 \in Refusals : ~Refused(q, answer_1))'
      BY <3>1, RefusedSame DEF StepInv
    <3>4. (pc[q] \in {"lock", "upsert"} \cup Locked => tx[q].started < clock)'
      BY <1>1, <1>4, <3>1 DEF StepInv
    <3> QED  BY <3>2, <3>3, <3>4 DEF StepInv
  <2> QED  BY <2>1, <2>2
<1> QED  BY <1>6, <1>7, <1>8, <1>9, <1>10 DEF Inv

-----------------------------------------------------------------------------
(* What a transaction commits. *)

LEMMA SeenIsCurrent ==
  ASSUME Inv, NEW r \in Requests, pc[r] = "commit"
  PROVE  /\ SeenPhotos(r) = RowsOf(photo)
         /\ \A id \in Photos : tx[r].seen.position[id] = photo[id].position
         /\ tx[r].seen.fields = CurrentFields(versions)
         /\ input[r] \in Inputs
         /\ \A answer \in Refusals : ~Refused(r, answer)
         /\ tx[r].started \in Nat /\ tx[r].started < clock /\ photo \in PhotoTable
         /\ Dense(photo) /\ RowsOf(photo) \subseteq drawn /\ drawn \subseteq Photos
<1>1. /\ TypeOK /\ StepInv(r) /\ input[r] \in Inputs /\ tx[r].started \in Nat
      /\ photo \in PhotoTable /\ drawn \subseteq Photos
  BY Typed DEF Inv, InFlight, Locked, TxType
<1>2. /\ \A id \in Photos : tx[r].seen.position[id] = photo[id].position
      /\ tx[r].seen.fields = CurrentFields(versions)
      /\ \A answer \in Refusals : ~Refused(r, answer)
      /\ tx[r].started < clock
  BY <1>1 DEF StepInv, SeenCurrent, Locked
<1>3. SeenPhotos(r) = RowsOf(photo)
  BY <1>2 DEF SeenPhotos, RowsOf
<1>4. Dense(photo) /\ RowsOf(photo) \subseteq drawn
  BY DEF Inv, PositionsDense, Dense
<1> QED  BY <1>1, <1>2, <1>3, <1>4

(* A patch that was not refused gives fields of the table. *)
LEMMA PatchStep ==
  ASSUME Inv, NEW r \in Requests, pc[r] = "commit", PublishPatch(r)
  PROVE  /\ input[r].patch \in Patches
         /\ versions' = Append(versions, Apply(input[r].patch, CurrentFields(versions)))
         /\ Apply(input[r].patch, CurrentFields(versions)) \in FieldValues
<1>1. input[r].op = "patch" /\ input[r].patch \in Patches
  BY SeenIsCurrent, InputTypes DEF PublishPatch
<1>2. versions' = Append(versions, Apply(input[r].patch, CurrentFields(versions)))
  BY SeenIsCurrent DEF PublishPatch
<1>3. \A f \in Fields : input[r].patch[f] # "unknown"
  BY <1>1, SeenIsCurrent DEF Refused, UnknownTag, Refusals
<1>4. CurrentFields(versions) \in FieldValues
  BY CurrentFieldsTyped DEF Inv
<1>5. Apply(input[r].patch, CurrentFields(versions)) \in FieldValues
  BY <1>1, <1>3, <1>4 DEF Patches, Apply, FieldValues
<1> QED  BY <1>1, <1>2, <1>5

(* An upload puts a photo with a new id behind the others. *)
LEMMA AddStep ==
  ASSUME Inv, NEW r \in Requests, pc[r] = "commit", input[r].op = "add",
         NEW new \in Photos \ drawn, photo' = Added(r, new)
  PROVE  /\ photo' \in PhotoTable /\ Dense(photo')
         /\ RowsOf(photo') = RowsOf(photo) \cup {new} /\ new \notin RowsOf(photo)
         /\ Cardinality(RowsOf(photo)) < MaxPhotos
         /\ Cardinality(RowsOf(photo')) = Cardinality(RowsOf(photo)) + 1
         /\ photo'[new] = [position |-> Cardinality(RowsOf(photo)) + 1,
                           created |-> tx[r].started]
         /\ \A id \in Photos \ {new} : photo'[id] = photo[id]
<1> DEFINE n == Cardinality(RowsOf(photo))
<1>1. n \in Nat /\ new \in Photos \ RowsOf(photo)
  BY RowsFinite, SeenIsCurrent
<1>2. n < MaxPhotos
  <2>1. ~OverLimit(r)
    BY SeenIsCurrent DEF Refused, Refusals
  <2> QED  BY <1>1, <2>1, SeenIsCurrent, LimitsAreNat DEF OverLimit
<1>3. photo' = [photo EXCEPT ![new] = [position |-> n + 1, created |-> tx[r].started]]
  BY SeenIsCurrent DEF Added
<1> HIDE DEF n
<1>4. /\ photo' \in PhotoTable
      /\ photo'[new] = [position |-> n + 1, created |-> tx[r].started]
      /\ \A id \in Photos \ {new} : photo'[id] = photo[id]
  <2>1. n + 1 \in 0..MaxPhotos
    BY <1>1, <1>2, LimitsAreNat
  <2>2. photo \in PhotoTable /\ tx[r].started \in Nat
    BY SeenIsCurrent
  <2> QED  BY <1>1, <1>3, <2>1, <2>2 DEF PhotoTable
<1>5. /\ photo'[new].position = n + 1 /\ photo \in PhotoTable /\ Dense(photo)
  BY <1>4, SeenIsCurrent
<1> QED  BY <1>1, <1>2, <1>4, <1>5, AddedDense DEF n

(* A deletion takes its photo out, and those behind it move up. *)
LEMMA DeleteStep ==
  ASSUME Inv, NEW r \in Requests, pc[r] = "commit", input[r].op = "delete",
         photo' = Deleted(r)
  PROVE  /\ photo' \in PhotoTable /\ Dense(photo')
         /\ input[r].id \in RowsOf(photo)
         /\ RowsOf(photo') = RowsOf(photo) \ {input[r].id}
         /\ Cardinality(RowsOf(photo')) = Cardinality(RowsOf(photo)) - 1
         /\ \A id \in Photos \ {input[r].id} :
              /\ photo'[id].position = IF photo[id].position > photo[input[r].id].position
                                       THEN photo[id].position - 1 ELSE photo[id].position
              /\ photo'[id].created = photo[id].created
         /\ photo'[input[r].id].created = 0
<1> DEFINE gone == input[r].id
           place == photo[gone].position
<1>1. gone \in RowsOf(photo)
  BY SeenIsCurrent, InputTypes DEF Refused, Refusals
<1>2. gone \in Photos /\ place # 0 /\ tx[r].seen.position[gone] = place
  BY <1>1, SeenIsCurrent DEF RowsOf
<1>3. photo \in PhotoTable /\ \A id \in Photos : photo[id].position \in 0..MaxPhotos
  BY SeenIsCurrent DEF PhotoTable
<1>4. photo' = [id \in Photos |->
                  IF id = gone THEN [position |-> 0, created |-> 0]
                  ELSE [photo[id] EXCEPT !.position = IF @ > place THEN @ - 1 ELSE @]]
  BY <1>2 DEF Deleted
<1> HIDE DEF place
<1>5. place \in 0..MaxPhotos
  BY <1>2, <1>3 DEF place
<1>6. \A id \in Photos \ {gone} :
        photo'[id] = [photo[id] EXCEPT !.position = IF @ > place THEN @ - 1 ELSE @]
  BY <1>4
<1>7. photo'[gone] = [position |-> 0, created |-> 0]
  BY <1>2, <1>4
<1>8. \A id \in Photos \ {gone} :
        /\ photo'[id].position = IF photo[id].position > place
                                 THEN photo[id].position - 1 ELSE photo[id].position
        /\ photo'[id].created = photo[id].created
        /\ photo'[id] \in [position : 0..MaxPhotos, created : Nat]
  <2> SUFFICES ASSUME NEW id \in Photos \ {gone}
               PROVE  /\ photo'[id].position = IF photo[id].position > place
                                               THEN photo[id].position - 1
                                               ELSE photo[id].position
                      /\ photo'[id].created = photo[id].created
                      /\ photo'[id] \in [position : 0..MaxPhotos, created : Nat]
    OBVIOUS
  <2>1. photo[id] \in [position : 0..MaxPhotos, created : Nat]
    BY <1>3 DEF PhotoTable
  <2>2. photo'[id] = [photo[id] EXCEPT !.position = IF @ > place THEN @ - 1 ELSE @]
    BY <1>6
  <2> QED  BY <1>5, <2>1, <2>2, LimitsAreNat
<1>9. photo' \in PhotoTable
  <2>1. 0 \in 0..MaxPhotos
    BY LimitsAreNat
  <2> QED  BY <1>4, <1>7, <1>8, <2>1 DEF PhotoTable
<1>10. Dense(photo) /\ photo'[gone].position = 0 /\ photo'[gone].created = 0
  BY <1>7, SeenIsCurrent
<1>11. \A id \in Photos \ {gone} :
         photo'[id].position = IF photo[id].position > photo[gone].position
                               THEN photo[id].position - 1 ELSE photo[id].position
  BY <1>8 DEF place
<1> QED  BY <1>1, <1>3, <1>8, <1>9, <1>10, <1>11, DeletedDense

(* A reorder gives every photo its place in the new order. *)
LEMMA ReorderStep ==
  ASSUME Inv, NEW r \in Requests, pc[r] = "commit", input[r].op = "reorder",
         photo' = Reordered(r)
  PROVE  /\ photo' \in PhotoTable /\ Dense(photo')
         /\ RowsOf(photo') = RowsOf(photo)
         /\ \A id \in Photos : photo'[id].created = photo[id].created
<1> DEFINE order == input[r].order
<1>1. order \in Orders /\ MatchesOrder(r)
  BY SeenIsCurrent, InputTypes DEF Refused, Refusals
<1>2. /\ Len(order) = Cardinality(RowsOf(photo))
      /\ \A id \in RowsOf(photo) : \E i \in DOMAIN order : order[i] = id
  BY <1>1, SeenIsCurrent DEF MatchesOrder
<1>3. photo' = [id \in Photos |-> IF id \in RowsOf(photo)
                                  THEN [photo[id] EXCEPT !.position = Place(order, id)]
                                  ELSE photo[id]]
  BY DEF Reordered
<1> HIDE DEF order
<1>4. \A id \in RowsOf(photo) :
        /\ id \in Photos /\ photo[id] \in [position : 0..MaxPhotos, created : Nat]
        /\ Place(order, id) \in 0..MaxPhotos
  <2>1. \A id \in RowsOf(photo) : Place(order, id) \in 1..MaxPhotos
    BY <1>1, <1>2, PlaceInOrder
  <2>2. photo \in PhotoTable
    BY SeenIsCurrent
  <2> QED  BY <2>1, <2>2, LimitsAreNat DEF RowsOf, PhotoTable
<1>5. \A id \in RowsOf(photo) :
        /\ photo'[id] = [photo[id] EXCEPT !.position = Place(order, id)]
        /\ photo'[id].position = Place(order, id) /\ photo'[id].created = photo[id].created
        /\ photo'[id] \in [position : 0..MaxPhotos, created : Nat]
  BY <1>3, <1>4
<1>6. \A id \in Photos \ RowsOf(photo) : photo'[id] = photo[id]
  BY <1>3
<1>7. photo' \in PhotoTable
  BY <1>3, <1>5, <1>6, SeenIsCurrent DEF PhotoTable
<1>8. Dense(photo') /\ RowsOf(photo') = RowsOf(photo)
  <2>1. \A id \in RowsOf(photo) : photo'[id].position = Place(order, id)
    BY <1>5
  <2> QED  BY <1>1, <1>2, <1>6, <2>1, ReorderedDense
<1> QED  BY <1>5, <1>6, <1>7, <1>8

(* Photos stay in order and are not older than the change. *)
LEMMA PhotosStep ==
  ASSUME Inv, NEW r \in Requests, pc[r] = "commit", PublishPhotos(r)
  PROVE  /\ photo' \in PhotoTable /\ Dense(photo')
         /\ RowsOf(photo') \subseteq drawn' /\ drawn' \subseteq Photos
         /\ \A id \in Photos : photo'[id].created <= clock
<1>1. /\ clock \in Nat /\ photoAt \in Nat /\ tx[r].started \in Nat /\ tx[r].started < clock
      /\ photo \in PhotoTable /\ RowsOf(photo) \subseteq drawn /\ drawn \subseteq Photos
  BY SeenIsCurrent, Typed DEF Inv
<1>2. \A id \in Photos : photo[id].created \in Nat /\ photo[id].created <= clock
  BY <1>1 DEF Inv, DatesInv, PhotoTable
<1>3. CASE /\ input[r].op = "add"
           /\ \E new \in Photos \ drawn : photo' = Added(r, new) /\ drawn' = drawn \cup {new}
  <2>1. PICK new \in Photos \ drawn : photo' = Added(r, new) /\ drawn' = drawn \cup {new}
    BY <1>3
  <2>2. /\ photo' \in PhotoTable /\ Dense(photo') /\ RowsOf(photo') = RowsOf(photo) \cup {new}
        /\ photo'[new] = [position |-> Cardinality(RowsOf(photo)) + 1,
                          created |-> tx[r].started]
        /\ \A id \in Photos \ {new} : photo'[id] = photo[id]
    BY <1>3, <2>1, AddStep, Zenon
  <2>3. photo'[new].created = tx[r].started
    BY <2>2
  <2> QED  BY <1>1, <1>2, <2>1, <2>2, <2>3
<1>4. CASE input[r].op = "delete" /\ photo' = Deleted(r) /\ drawn' = drawn
  <2>1. /\ photo' \in PhotoTable /\ Dense(photo')
        /\ RowsOf(photo') = RowsOf(photo) \ {input[r].id}
        /\ \A id \in Photos \ {input[r].id} : photo'[id].created = photo[id].created
        /\ photo'[input[r].id].created = 0
    BY <1>4, DeleteStep
  <2> QED  BY <1>1, <1>2, <1>4, <2>1
<1>5. CASE input[r].op = "reorder" /\ photo' = Reordered(r) /\ drawn' = drawn
  <2>1. /\ photo' \in PhotoTable /\ Dense(photo') /\ RowsOf(photo') = RowsOf(photo)
        /\ \A id \in Photos : photo'[id].created = photo[id].created
    BY <1>5, ReorderStep
  <2> QED  BY <1>1, <1>2, <1>5, <2>1
<1> QED  BY <1>3, <1>4, <1>5 DEF PublishPhotos, Rewritten

LEMMA CommitKeepsInv ==
  ASSUME Inv, NEW r \in Requests, Commit(r) PROVE Inv'
<1>1. /\ TypeOK /\ versions \in Seq(FieldValues) /\ photo \in PhotoTable /\ drawn \subseteq Photos
      /\ filter \in Nat /\ pc \in [Requests -> Steps] /\ tx \in [Requests -> TxType]
      /\ input \in [Requests -> Inputs \cup {NoInput}]
      /\ \A q \in Requests : pc[q] \in InFlight => input[q] \in Inputs
      /\ clock \in Nat \ {0} /\ received \in Nat /\ photoAt \in Nat /\ filterAt \in Nat
  BY Typed DEF Inv
<1>2. PICK answer \in {"saved", "failed"} : Answer(r, answer)
  BY DEF Commit
<1>3. /\ pc' = [pc EXCEPT ![r] = answer] /\ answer \in Steps /\ pc'[r] = answer
      /\ answer \notin InFlight /\ answer \notin Locked \cup {"lock", "upsert"}
      /\ input' = [input EXCEPT ![r] = NoInput] /\ tx' = [tx EXCEPT ![r] = NoTx]
  BY <1>1, <1>2 DEF Answer, Goto, Steps, Answers, InFlight, Locked
<1>4. /\ pc[r] = "commit" /\ pc[r] \in Locked /\ updated' = tx[r].started
      /\ clock' = clock + 1 /\ filter' = filter /\ received' = received
      /\ filterAt' = filterAt /\ (PublishPatch(r) \/ PublishPhotos(r))
  BY DEF Commit, Locked
<1>5. tx[r].started \in Nat
  BY <1>1 DEF TxType
<1>6. /\ versions' \in Seq(FieldValues) /\ photo' \in PhotoTable /\ drawn' \subseteq Photos
      /\ photoAt' \in Nat /\ photoAt' <= clock
      /\ RowsOf(photo') \subseteq drawn' /\ Dense(photo')
      /\ \A id \in Photos : photo'[id].created <= photoAt'
  <2>1. CASE PublishPatch(r)
    <3>1. versions' \in Seq(FieldValues)
      BY <1>1, <1>4, <2>1, PatchStep
    <3>2. photo' = photo /\ drawn' = drawn /\ photoAt' = photoAt
      BY <2>1 DEF PublishPatch
    <3>3. /\ \A id \in Photos : photo[id].created <= photoAt
          /\ photoAt <= clock
      BY <1>1 DEF Inv, DatesInv
    <3> QED  BY <1>1, <1>4, <3>1, <3>2, <3>3, SeenIsCurrent
  <2>2. CASE PublishPhotos(r)
    <3>1. versions' = versions /\ photoAt' = clock
      BY <2>2 DEF PublishPhotos
    <3> QED  BY <1>1, <1>4, <2>2, <3>1, PhotosStep
  <2> QED  BY <1>4, <2>1, <2>2
<1>7. TypeOK'
  <2>1. /\ pc' \in [Requests -> Steps] /\ tx' \in [Requests -> TxType]
        /\ input' \in [Requests -> Inputs \cup {NoInput}]
        /\ \A q \in Requests : pc'[q] \in InFlight => input'[q] \in Inputs
    BY <1>1, <1>3, NoTxTyped
  <2> QED  BY <1>1, <1>4, <1>5, <1>6, <2>1 DEF TypeOK, PhotoTable, Steps, TxType, SeenType
<1>8. Exclusive'
  BY <1>1, <1>3 DEF Inv, Exclusive
<1>9. PositionsDense' /\ (RowsOf(photo) \subseteq drawn)'
  BY <1>6 DEF PositionsDense, Dense, RowsOf
<1>10. DatesInv'
  BY <1>1, <1>4, <1>6 DEF Inv, DatesInv
<1>11. ASSUME NEW q \in Requests PROVE StepInv(q)'
  <2>1. CASE q = r
    BY <1>3, <2>1 DEF StepInv, SeenCurrent, Locked
  <2>2. CASE q # r
    <3>1. /\ StepInv(q) /\ pc'[q] = pc[q] /\ tx'[q] = tx[q] /\ tx[q].started \in Nat
          /\ pc[q] \notin Locked
      BY <1>1, <1>3, <1>4, <2>2 DEF Inv, TxType, Exclusive
    <3>2. (pc[q] \in {"lock", "upsert"} \cup Locked => tx[q].started < clock)'
      BY <1>1, <1>4, <3>1 DEF StepInv
    <3> QED  BY <3>1, <3>2 DEF StepInv, SeenCurrent, Locked
  <2> QED  BY <2>1, <2>2
<1> QED  BY <1>7, <1>8, <1>9, <1>10, <1>11 DEF Inv

LEMMA InvStep == Inv /\ [Next]_vars => Inv'
<1> SUFFICES ASSUME Inv, [Next]_vars PROVE Inv'
  OBVIOUS
<1>1. ASSUME NEW r \in Requests, Receive(r) PROVE Inv'
  BY <1>1, ReceiveKeepsInv
<1>2. ASSUME NEW r \in Requests, Proceed(r) PROVE Inv'
  BY <1>2, BeginKeepsInv, LockKeepsInv, LoadKeepsInv, WriteKeepsInv, CommitKeepsInv,
     InsertFilterKeepsInv, UpdateFilterKeepsInv DEF Proceed
<1>3. ASSUME NEW r \in Requests, Fail(r) PROVE Inv'
  BY <1>3, FailKeepsInv
<1>4. CASE UNCHANGED vars
  <2>1. TypeOK' /\ Exclusive' /\ PositionsDense' /\ (RowsOf(photo) \subseteq drawn)' /\ DatesInv'
    BY <1>4 DEF Inv, vars, rows, history, TypeOK, Exclusive, PositionsDense, RowsOf, DatesInv
  <2>2. ASSUME NEW r \in Requests PROVE StepInv(r)'
    <3>1. /\ pc' = pc /\ tx' = tx /\ input' = input /\ clock' = clock /\ photo' = photo
          /\ versions' = versions /\ filter' = filter /\ filterAt' = filterAt /\ StepInv(r)
      BY <1>4 DEF Inv, vars, rows, history
    <3>2. SeenCurrent(r)'
      BY <3>1 DEF StepInv, SeenCurrent, CurrentFields, Revisions
    <3> QED  BY <3>1, <3>2, RefusedSame DEF StepInv
  <2> QED  BY <2>1, <2>2 DEF Inv
<1> QED  BY <1>1, <1>2, <1>3, <1>4 DEF Next

(* Between two steps, whatever requests run: one transaction at most has   *)
(* the row of the profile, and what it has read is what there still is,    *)
(* but for a filter that has come since.                                   *)
THEOREM InvHolds == Spec => []Inv
BY InvInit, InvStep, PTL DEF Spec

(* The variables have the types the tables give them, for any fields,      *)
(* photos, limits and requests.                                            *)
THEOREM TypeCorrect == Spec => []TypeOK
<1>1. Inv => TypeOK
  BY DEF Inv
<1> QED  BY <1>1, InvHolds, PTL

(* However uploads, deletions and reorders overlap, the photos have the    *)
(* positions 1, 2, ... each once.                                          *)
THEOREM PositionsStayDense == Spec => []PositionsDense
<1>1. Inv => PositionsDense
  BY DEF Inv
<1> QED  BY <1>1, InvHolds, PTL

-----------------------------------------------------------------------------
LEMMA RowSteps ==
  ASSUME [Next]_vars
  PROVE  \/ \E r \in Requests : Commit(r) \/ InsertFilter(r)
         \/ UNCHANGED <<versions, photo, filter>>
BY DEF Next, Receive, Proceed, Begin, Lock, Load, Write, UpdateFilter, Fail, vars, rows

LEMMA AppendedIsCurrent ==
  ASSUME versions \in Seq(FieldValues), NEW fields \in FieldValues,
         versions' = Append(versions, fields)
  PROVE  CurrentFields(versions)' = fields
<1>1. /\ Len(versions) \in Nat /\ versions' \in Seq(FieldValues)
      /\ Len(versions') = Len(versions) + 1 /\ versions'[Len(versions) + 1] = fields
  OBVIOUS
<1>2. versions' # <<>>
  BY <1>1
<1> QED  BY <1>1, <1>2 DEF CurrentFields, Revisions

(* A new version is the patch applied to the version that is current when  *)
(* it is committed: two patches at the same time never undo each other.    *)
THEOREM PatchesAddUp == Spec => PatchOnCurrent
<1>1. ASSUME Inv, [Next]_vars, NEW r \in Requests,
             pc[r] = "commit", input[r].op = "patch", versions' # versions
      PROVE  versions' = Append(versions, Apply(input[r].patch, CurrentFields(versions)))
  <2>1. PICK q \in Requests : Commit(q)
    BY <1>1, RowSteps DEF InsertFilter
  <2>2. q = r
    BY <1>1, <2>1 DEF Inv, Exclusive, Commit, Locked
  <2>3. PublishPatch(r)
    BY <1>1, <2>1, <2>2 DEF Commit, PublishPhotos
  <2> QED  BY <1>1, <2>3, PatchStep
<1>2. Inv /\ [Next]_vars =>
        [\A r \in Requests :
           pc[r] = "commit" /\ input[r].op = "patch" /\ versions' # versions
             => versions' = Append(versions,
                                   Apply(input[r].patch, CurrentFields(versions)))]_vars
  BY <1>1
<1> QED  BY <1>2, InvHolds, PTL DEF Spec, PatchOnCurrent

(* A change is refused for its dates only if photos, or the filter, were   *)
(* changed after it had begun.                                             *)
THEOREM StaleTimesOverlap == Spec => StaleTimeNeedsOverlap
<1>1. ASSUME Inv, [Next]_vars, NEW r \in Requests,
             pc[r] \in InFlight, pc'[r] = "stale_time"
      PROVE  tx[r].started < (IF pc[r] = "upsert" THEN filterAt ELSE photoAt)
  <2>1. /\ pc \in [Requests -> Steps] /\ tx[r].started \in Nat /\ photo \in PhotoTable
        /\ filter \in Nat /\ filterAt \in Nat /\ photoAt \in Nat
        /\ filter <= filterAt /\ \A id \in Photos : photo[id].created <= photoAt
    BY <1>1, Typed DEF Inv, DatesInv, TxType
  <2>2. pc'[r] # pc[r] /\ "stale_time" \notin InFlight
    BY <1>1 DEF InFlight, Locked
  <2>3. Write(r) \/ UpdateFilter(r)
    <3>1. PICK q \in Requests : Receive(q) \/ Proceed(q) \/ Fail(q)
      BY <1>1, <2>2 DEF Next, vars
    <3>2. q = r
      BY <2>1, <2>2, <3>1 DEF Receive, Proceed, Fail, Begin, Lock, Load, Write, Commit,
         InsertFilter, UpdateFilter, Goto, Answer
    <3>3. ~Receive(r) /\ ~Fail(r)
      BY <1>1, <2>1 DEF Receive, Fail, Goto, Answer
    <3> QED  BY <1>1, <2>1, <3>1, <3>2, <3>3 DEF Proceed, Begin, Lock, Load, Commit,
             InsertFilter, Goto, Answer
  <2>4. CASE Write(r)
    <3>1. ~DatesValid(r) /\ pc[r] # "upsert"
      BY <1>1, <2>1, <2>4 DEF Write, Goto, Answer, Refusals
    <3>2. PICK id \in Photos : ~(tx[r].started >= photo[id].created)
      BY <3>1 DEF DatesValid
    <3>3. photo[id].created \in Nat
      BY <2>1 DEF PhotoTable
    <3> QED  BY <2>1, <3>1, <3>2, <3>3
  <2>5. CASE UpdateFilter(r)
    <3>1. pc[r] = "upsert" /\ tx[r].started < filter
      BY <1>1, <2>1, <2>5 DEF UpdateFilter, Goto, Answer
    <3> QED  BY <2>1, <3>1
  <2> QED  BY <2>3, <2>4, <2>5
<1>2. Inv /\ [Next]_vars =>
        [\A r \in Requests :
           pc[r] \in InFlight /\ pc'[r] = "stale_time" =>
             tx[r].started < (IF pc[r] = "upsert" THEN filterAt ELSE photoAt)]_vars
  BY <1>1
<1> QED  BY <1>2, InvHolds, PTL DEF Spec, StaleTimeNeedsOverlap

(* A complete profile becomes incomplete in one way only: a deletion of    *)
(* its only photo that had begun before the search filter was there.       *)
THEOREM LapsesAreRaces == Spec => LapseNeedsRace
<1>1. ASSUME Inv, [Next]_vars, IsComplete, ~IsComplete'
      PROVE  \E r \in Requests : /\ pc[r] = "commit" /\ input[r].op = "delete"
                                 /\ tx[r].started < filterAt
  <2>1. /\ RequiredFilled(CurrentFields(versions)) /\ RowsOf(photo) # {} /\ filter # 0
    BY <1>1 DEF IsComplete, Complete
  <2>2. /\ ~(UNCHANGED <<versions, photo, filter>>)
        /\ \A r \in Requests : ~InsertFilter(r)
    BY <1>1, <2>1 DEF IsComplete, Complete, CurrentFields, Revisions, RowsOf, InsertFilter
  <2>3. PICK r \in Requests : Commit(r)
    BY <1>1, <2>2, RowSteps
  <2>4. pc[r] = "commit" /\ filter' = filter /\ (PublishPatch(r) \/ PublishPhotos(r))
    BY <2>3 DEF Commit
  <2>5. CASE PublishPatch(r)
    <3>1. /\ input[r].patch \in Patches
          /\ versions' = Append(versions, Apply(input[r].patch, CurrentFields(versions)))
          /\ Apply(input[r].patch, CurrentFields(versions)) \in FieldValues
      BY <1>1, <2>4, <2>5, PatchStep
    <3>2. CurrentFields(versions)' = Apply(input[r].patch, CurrentFields(versions))
      BY <1>1, <3>1, AppendedIsCurrent DEF Inv, TypeOK
    <3>3. RequiredFilled(Apply(input[r].patch, CurrentFields(versions)))
      BY <2>1, <3>1, NullIsNoValue DEF RequiredFilled, Apply, Patches, Fields
    <3>4. photo' = photo
      BY <2>5 DEF PublishPatch
    <3> QED  BY <1>1, <2>1, <2>4, <3>2, <3>3, <3>4 DEF IsComplete, Complete
  <2>6. CASE PublishPhotos(r)
    <3>1. versions' = versions /\ RowsOf(photo') = {}
      BY <1>1, <2>1, <2>4, <2>6
         DEF PublishPhotos, IsComplete, Complete, CurrentFields, Revisions
    <3>2. ~(input[r].op = "add" /\ \E new \in Photos \ drawn : photo' = Added(r, new))
      BY <1>1, <2>4, <3>1, AddStep
    <3>3. ~(input[r].op = "reorder" /\ photo' = Reordered(r))
      BY <1>1, <2>1, <2>4, <3>1, ReorderStep
    <3>4. input[r].op = "delete" /\ photo' = Deleted(r)
      BY <2>6, <3>2, <3>3 DEF PublishPhotos, Rewritten
    <3>5. input[r].id \in RowsOf(photo) /\ RowsOf(photo') = RowsOf(photo) \ {input[r].id}
      BY <1>1, <2>4, <3>4, DeleteStep
    <3>6. Cardinality(SeenPhotos(r)) = 1 /\ input[r].id \in SeenPhotos(r)
      <4>1. RowsOf(photo) = {input[r].id}
        BY <3>1, <3>5
      <4> QED  BY <1>1, <2>4, <4>1, SeenIsCurrent, FS_Singleton
    <3>7. ~SeenComplete(r)
      BY <1>1, <2>4, <3>4, <3>6, SeenIsCurrent DEF Refused, Refusals, KeepsLast
    <3>8. ~tx[r].seen.filtered
      BY <1>1, <2>1, <2>4, <3>6, <3>7, SeenIsCurrent DEF SeenComplete, Complete
    <3>9. tx[r].started < filterAt
      BY <1>1, <2>1, <2>4, <3>8 DEF Inv, StepInv, SeenCurrent
    <3> QED  BY <2>4, <3>4, <3>9
  <2> QED  BY <2>4, <2>5, <2>6
<1>2. Inv /\ [Next]_vars =>
        [IsComplete /\ ~IsComplete' =>
           \E r \in Requests : /\ pc[r] = "commit" /\ input[r].op = "delete"
                               /\ tx[r].started < filterAt]_vars
  BY <1>1
<1> QED  BY <1>2, InvHolds, PTL DEF Spec, LapseNeedsRace

-----------------------------------------------------------------------------
(* The gallery: the photos in the order of their positions. *)

GalleryOf(p) ==
  [i \in 1..Cardinality(RowsOf(p)) |-> CHOOSE id \in Photos : p[id].position = i]

(* No position is left out: as many photos have different positions. *)
LEMMA EveryPlaceTaken ==
  ASSUME NEW p \in PhotoTable, Dense(p), NEW i \in 1..Cardinality(RowsOf(p))
  PROVE  \E id \in RowsOf(p) : p[id].position = i
<1> DEFINE n == Cardinality(RowsOf(p))
           f == [id \in RowsOf(p) |-> p[id].position]
<1>1. n \in Nat /\ IsFiniteSet(1..n) /\ Cardinality(1..n) = n
  <2>1. n \in Nat /\ 1 \in Int /\ n \in Int
    BY RowsFinite
  <2>2. IsFiniteSet(1..n) /\ Cardinality(1..n) = IF 1 > n THEN 0 ELSE n - 1 + 1
    BY <2>1, FS_Interval, Zenon
  <2> HIDE DEF n
  <2> QED  BY <2>1, <2>2
<1>2. \A id \in RowsOf(p) : p[id].position \in 1..n
  <2>1. \A id \in RowsOf(p) : p[id].position \in 0..MaxPhotos /\ p[id].position # 0
    BY DEF PhotoTable, RowsOf
  <2>2. \A id \in RowsOf(p) : p[id].position <= n
    BY DEF Dense
  <2> HIDE DEF n
  <2> QED  BY <1>1, <2>1, <2>2
<1>3. f \in Injection(RowsOf(p), 1..n)
  <2>1. \A a, b \in RowsOf(p) : f[a] = f[b] => a = b
    BY DEF Dense
  <2>2. f \in [RowsOf(p) -> 1..n]
    BY <1>2
  <2> QED  BY <2>1, <2>2 DEF Injection, IsInjective
<1>4. f \in Surjection(RowsOf(p), 1..n)
  BY <1>1, <1>3, FS_Injection
<1> QED  BY <1>4 DEF Surjection

LEMMA GalleryPlaces ==
  ASSUME NEW p \in PhotoTable, Dense(p)
  PROVE  /\ GalleryOf(p) \in Seq(Photos) /\ Len(GalleryOf(p)) = Cardinality(RowsOf(p))
         /\ DOMAIN GalleryOf(p) = 1..Cardinality(RowsOf(p))
         /\ \A i \in 1..Cardinality(RowsOf(p)) :
              /\ GalleryOf(p)[i] \in RowsOf(p)
              /\ p[GalleryOf(p)[i]].position = i
         /\ \A id \in RowsOf(p) : /\ p[id].position \in 1..Cardinality(RowsOf(p))
                                  /\ GalleryOf(p)[p[id].position] = id
<1> DEFINE n == Cardinality(RowsOf(p))
           g == GalleryOf(p)
<1>1. n \in Nat /\ DOMAIN g = 1..n
  BY RowsFinite DEF GalleryOf
<1>2. ASSUME NEW i \in 1..n PROVE g[i] \in RowsOf(p) /\ p[g[i]].position = i
  <2>1. PICK id \in RowsOf(p) : p[id].position = i
    BY EveryPlaceTaken
  <2>2. id \in Photos /\ i # 0
    BY <1>1 DEF RowsOf
  <2>3. g[i] = CHOOSE one \in Photos : p[one].position = i
    BY DEF GalleryOf
  <2>4. g[i] \in Photos /\ p[g[i]].position = i
    BY <2>1, <2>2, <2>3
  <2> QED  BY <2>2, <2>4 DEF RowsOf
<1>3. g \in [1..n -> Photos]
  <2>1. g = [i \in 1..n |-> g[i]]
    BY DEF GalleryOf
  <2>2. \A i \in 1..n : g[i] \in Photos
    BY <1>2 DEF RowsOf
  <2> QED  BY <2>1, <2>2
<1>4. g \in Seq(Photos) /\ Len(g) = n
  <2> HIDE DEF g, n
  <2> QED  BY <1>1, <1>3
<1>5. ASSUME NEW id \in RowsOf(p) PROVE p[id].position \in 1..n /\ g[p[id].position] = id
  <2>1. p[id].position \in 0..MaxPhotos /\ p[id].position # 0
    BY DEF PhotoTable, RowsOf
  <2>2. p[id].position <= n
    BY DEF Dense
  <2>3. p[id].position \in 1..n
    BY <1>1, <2>1, <2>2
  <2>4. g[p[id].position] \in RowsOf(p) /\ p[g[p[id].position]].position = p[id].position
    BY <1>2, <2>3
  <2> QED  BY <2>3, <2>4 DEF Dense
<1> QED  BY <1>1, <1>2, <1>4, <1>5

(* A gallery is known by the places of its photos. *)
LEMMA GalleryIs ==
  ASSUME NEW p \in PhotoTable, Dense(p), NEW g \in Seq(Photos),
         Len(g) = Cardinality(RowsOf(p)),
         \A i \in 1..Len(g) : p[g[i]].position = i
  PROVE  GalleryOf(p) = g
<1> DEFINE n == Cardinality(RowsOf(p))
<1>1. n \in Nat /\ DOMAIN g = 1..n /\ g = [i \in 1..n |-> g[i]]
  BY RowsFinite
<1>2. GalleryOf(p) = [i \in 1..n |-> GalleryOf(p)[i]]
  BY DEF GalleryOf
<1>3. ASSUME NEW i \in 1..n PROVE GalleryOf(p)[i] = g[i]
  <2>1. g[i] \in RowsOf(p)
    BY <1>1 DEF RowsOf
  <2> QED  BY <2>1, GalleryPlaces
<1> QED  BY <1>1, <1>2, <1>3

LEMMA GalleryRange ==
  ASSUME NEW p \in PhotoTable, Dense(p)
  PROVE  Ledger!Range(GalleryOf(p)) = RowsOf(p)
<1>1. \A id \in RowsOf(p) : \E i \in DOMAIN GalleryOf(p) : GalleryOf(p)[i] = id
  BY GalleryPlaces
<1>2. \A i \in DOMAIN GalleryOf(p) : GalleryOf(p)[i] \in RowsOf(p)
  BY GalleryPlaces
<1> QED  BY <1>1, <1>2 DEF Ledger!Range

(* Each change of the photos is one change of the gallery. *)
LEMMA AddIsAppend ==
  ASSUME Inv, NEW r \in Requests, pc[r] = "commit", input[r].op = "add",
         NEW new \in Photos \ drawn, photo' = Added(r, new)
  PROVE  /\ Len(GalleryOf(photo)) < MaxPhotos
         /\ new \in Photos \ Ledger!Range(GalleryOf(photo))
         /\ GalleryOf(photo') = Append(GalleryOf(photo), new)
<1> DEFINE g == GalleryOf(photo)
           n == Cardinality(RowsOf(photo))
<1>1. /\ photo' \in PhotoTable /\ Dense(photo') /\ Cardinality(RowsOf(photo')) = n + 1
      /\ new \notin RowsOf(photo) /\ n < MaxPhotos
      /\ photo'[new] = [position |-> n + 1, created |-> tx[r].started]
      /\ \A id \in Photos \ {new} : photo'[id] = photo[id]
  BY AddStep, Zenon
<1>2. /\ photo \in PhotoTable /\ Dense(photo) /\ n \in Nat
  BY SeenIsCurrent, RowsFinite
<1>3. /\ g \in Seq(Photos) /\ Len(g) = n
      /\ \A i \in 1..n : g[i] \in RowsOf(photo) /\ photo[g[i]].position = i
  BY <1>2, GalleryPlaces
<1> HIDE DEF g, n
<1>4. /\ Append(g, new) \in Seq(Photos) /\ Len(Append(g, new)) = n + 1
      /\ Append(g, new)[n + 1] = new /\ \A i \in 1..n : Append(g, new)[i] = g[i]
  BY <1>2, <1>3
<1>5. \A i \in 1..(n + 1) : photo'[Append(g, new)[i]].position = i
  <2>1. ASSUME NEW i \in 1..n PROVE photo'[Append(g, new)[i]].position = i
    <3>1. g[i] \in Photos \ {new}
      BY <1>1, <1>3 DEF RowsOf
    <3> QED  BY <1>1, <1>3, <1>4, <3>1
  <2>2. photo'[Append(g, new)[n + 1]].position = n + 1
    BY <1>1, <1>4
  <2>3. \A i \in 1..(n + 1) : i \in 1..n \/ i = n + 1
    BY <1>2
  <2> QED  BY <2>1, <2>2, <2>3
<1>6. GalleryOf(photo') = Append(g, new)
  <2>1. \A i \in 1..Len(Append(g, new)) : photo'[Append(g, new)[i]].position = i
    BY <1>4, <1>5
  <2>2. Len(Append(g, new)) = Cardinality(RowsOf(photo'))
    BY <1>1, <1>4
  <2> QED  BY <1>1, <1>4, <2>1, <2>2, GalleryIs
<1>7. Ledger!Range(g) = RowsOf(photo)
  BY <1>2, GalleryRange DEF g
<1> QED  BY <1>1, <1>3, <1>6, <1>7 DEF g

LEMMA DeleteIsRemove ==
  ASSUME Inv, NEW r \in Requests, pc[r] = "commit", input[r].op = "delete",
         photo' = Deleted(r)
  PROVE  \E i \in DOMAIN GalleryOf(photo) :
           GalleryOf(photo') = SubSeq(GalleryOf(photo), 1, i - 1)
                                 \o SubSeq(GalleryOf(photo), i + 1, Len(GalleryOf(photo)))
<1> DEFINE g == GalleryOf(photo)
           n == Cardinality(RowsOf(photo))
           gone == input[r].id
           place == photo[gone].position
           before == SubSeq(g, 1, place - 1)
           behind == SubSeq(g, place + 1, n)
           h == before \o behind
<1>1. /\ photo' \in PhotoTable /\ Dense(photo') /\ Cardinality(RowsOf(photo')) = n - 1
      /\ gone \in RowsOf(photo)
      /\ \A id \in Photos \ {gone} :
           photo'[id].position = IF photo[id].position > place
                                 THEN photo[id].position - 1 ELSE photo[id].position
  BY DeleteStep
<1>2. /\ photo \in PhotoTable /\ Dense(photo) /\ n \in Nat
  BY SeenIsCurrent, RowsFinite
<1>3. /\ g \in Seq(Photos) /\ Len(g) = n /\ DOMAIN g = 1..n
      /\ \A i \in 1..n : g[i] \in RowsOf(photo) /\ photo[g[i]].position = i
      /\ place \in 1..n
  BY <1>1, <1>2, GalleryPlaces
<1>4. \A i \in 1..n : g[i] \in Photos
  BY <1>3 DEF RowsOf
<1> HIDE DEF g, n, place
<1>5. /\ before \in Seq(Photos) /\ Len(before) = place - 1
      /\ \A j \in 1..(place - 1) : before[j] = g[j]
  BY <1>2, <1>3, <1>4, SubSeqProperties
<1>6. /\ behind \in Seq(Photos) /\ Len(behind) = n - place
      /\ \A j \in 1..(n - place) : behind[j] = g[place + j]
  BY <1>2, <1>3, <1>4, SubSeqProperties
<1> HIDE DEF before, behind
<1>7. /\ h \in Seq(Photos) /\ Len(h) = n - 1
      /\ \A j \in 1..(n - 1) : h[j] = IF j < place THEN g[j] ELSE g[j + 1]
  <2>1. /\ h \in Seq(Photos) /\ Len(h) = Len(before) + Len(behind)
        /\ \A j \in 1..(Len(before) + Len(behind)) :
             h[j] = IF j <= Len(before) THEN before[j] ELSE behind[j - Len(before)]
    BY <1>5, <1>6, ConcatProperties
  <2> HIDE DEF h
  <2>2. place \in Nat /\ place # 0 /\ place <= n
    BY <1>2, <1>3
  <2>3. Len(h) = n - 1
    BY <1>2, <1>5, <1>6, <2>1, <2>2
  <2>4. ASSUME NEW j \in 1..(n - 1) PROVE h[j] = IF j < place THEN g[j] ELSE g[j + 1]
    <3>1. h[j] = IF j <= place - 1 THEN before[j] ELSE behind[j - (place - 1)]
      BY <1>2, <1>5, <1>6, <2>1, <2>2
    <3>2. CASE j < place
      BY <1>2, <1>5, <2>2, <3>1, <3>2
    <3>3. CASE ~(j < place)
      <4>1. j - (place - 1) \in 1..(n - place) /\ place + (j - (place - 1)) = j + 1
        BY <1>2, <2>2, <3>3
      <4>2. behind[j - (place - 1)] = g[j + 1]
        BY <1>6, <4>1
      <4>3. ~(j <= place - 1)
        BY <1>2, <2>2, <3>3
      <4> QED  BY <3>1, <3>3, <4>2, <4>3
    <3> QED  BY <3>2, <3>3
  <2> QED  BY <2>1, <2>3, <2>4
<1> HIDE DEF h
<1>8. ASSUME NEW j \in 1..(n - 1) PROVE photo'[h[j]].position = j
  <2>1. CASE j < place
    <3>1. h[j] = g[j] /\ j \in 1..n
      BY <1>2, <1>3, <1>7, <2>1
    <3>2. photo[h[j]].position = j /\ h[j] \in Photos \ {gone}
      BY <1>3, <1>4, <2>1, <3>1 DEF place
    <3> QED  BY <1>1, <1>2, <1>3, <2>1, <3>2
  <2>2. CASE ~(j < place)
    <3>1. h[j] = g[j + 1] /\ j + 1 \in 1..n
      BY <1>2, <1>3, <1>7, <2>2
    <3>2. photo[h[j]].position = j + 1 /\ j + 1 > place
      BY <1>2, <1>3, <2>2, <3>1
    <3>3. h[j] \in Photos \ {gone}
      BY <1>2, <1>3, <1>4, <3>1, <3>2 DEF place
    <3> QED  BY <1>1, <1>2, <3>2, <3>3
  <2> QED  BY <2>1, <2>2
<1>9. GalleryOf(photo') = h
  <2>1. Len(h) = Cardinality(RowsOf(photo')) /\ \A j \in 1..Len(h) : photo'[h[j]].position = j
    BY <1>1, <1>7, <1>8
  <2> QED  BY <1>1, <1>7, <2>1, GalleryIs
<1>10. GalleryOf(photo') = SubSeq(g, 1, place - 1) \o SubSeq(g, place + 1, Len(g))
  BY <1>3, <1>9 DEF h, before, behind
<1> QED  BY <1>3, <1>10 DEF g

(* From outside, each transaction is one step on the gallery, the fields   *)
(* and the filter: no upload or deletion is lost by another one.           *)
THEOREM Implements == Spec => ImplementsLedger
<1>0. Gallery = GalleryOf(photo) /\ Gallery' = GalleryOf(photo')
  BY DEF Gallery, GalleryOf
<1>1. Init => Ledger!Init
  <2> SUFFICES ASSUME Init PROVE Ledger!Init
    OBVIOUS
  <2>1. RowsOf(photo) = {}
    BY DEF Init, RowsOf
  <2>2. Gallery = <<>>
    BY <2>1, FS_EmptySet DEF Gallery
  <2>3. CurrentFields(versions) = Unfilled /\ (filter # 0) = FALSE
    BY DEF Init, CurrentFields
  <2> QED  BY <2>2, <2>3 DEF Ledger!Init, Ledger!Unfilled, Unfilled, Ledger!Fields, Fields
<1>2. Inv /\ [Next]_vars => [Ledger!Next]_(Ledger!vars)
  <2> SUFFICES ASSUME Inv, [Next]_vars PROVE Ledger!Next \/ UNCHANGED Ledger!vars
    OBVIOUS
  <2>1. CASE UNCHANGED <<versions, photo, filter>>
    BY <2>1 DEF Ledger!vars, Gallery, CurrentFields, Revisions, RowsOf
  <2>2. ASSUME NEW r \in Requests, InsertFilter(r) PROVE Ledger!Next \/ UNCHANGED Ledger!vars
    <3>1. CurrentFields(versions)' = CurrentFields(versions) /\ Gallery' = Gallery
      BY <2>2 DEF InsertFilter, Gallery, CurrentFields, Revisions, RowsOf
    <3>2. CASE filter' = 0
      BY <2>2, <3>1, <3>2 DEF InsertFilter, Ledger!vars
    <3>3. CASE filter' # 0
      BY <3>1, <3>3 DEF Ledger!SetFilter, Ledger!Next
    <3> QED  BY <3>2, <3>3
  <2>3. ASSUME NEW r \in Requests, Commit(r) PROVE Ledger!Next
    <3>1. pc[r] = "commit" /\ filter' = filter /\ (PublishPatch(r) \/ PublishPhotos(r))
      BY <2>3 DEF Commit
    <3>2. CASE PublishPatch(r)
      <4>1. /\ input[r].patch \in Patches
            /\ CurrentFields(versions)' = Apply(input[r].patch, CurrentFields(versions))
        BY <3>1, <3>2, PatchStep, AppendedIsCurrent DEF Inv, TypeOK
      <4>2. Gallery' = Gallery
        BY <3>2 DEF PublishPatch, Gallery, RowsOf
      <4>3. /\ input[r].patch \in Ledger!Patches
            /\ CurrentFields(versions)' = Ledger!Apply(input[r].patch, CurrentFields(versions))
        BY <4>1 DEF Ledger!Patches, Patches, Ledger!Apply, Apply, Ledger!Fields, Fields
      <4>4. Ledger!PatchProfile
        BY <3>1, <4>2, <4>3 DEF Ledger!PatchProfile
      <4> QED  BY <4>4 DEF Ledger!Next
    <3>3. CASE PublishPhotos(r)
      <4>1. CurrentFields(versions)' = CurrentFields(versions) /\ (filter' # 0) = (filter # 0)
        BY <3>1, <3>3 DEF PublishPhotos, CurrentFields, Revisions
      <4>2. CASE input[r].op = "add" /\ \E new \in Photos \ drawn : photo' = Added(r, new)
        <5>1. Ledger!AddPhoto
          BY <1>0, <3>1, <4>1, <4>2, AddIsAppend DEF Ledger!AddPhoto
        <5> QED  BY <5>1 DEF Ledger!Next
      <4>3. CASE input[r].op = "delete" /\ photo' = Deleted(r)
        <5>1. Ledger!DeletePhoto
          BY <1>0, <3>1, <4>1, <4>3, DeleteIsRemove DEF Ledger!DeletePhoto
        <5> QED  BY <5>1 DEF Ledger!Next
      <4>4. CASE input[r].op = "reorder" /\ photo' = Reordered(r)
        <5>1. /\ photo' \in PhotoTable /\ Dense(photo') /\ RowsOf(photo') = RowsOf(photo)
              /\ photo \in PhotoTable /\ Dense(photo)
          BY <3>1, <4>4, ReorderStep, SeenIsCurrent
        <5>2. Ledger!Range(Gallery) = RowsOf(photo) /\ Ledger!Range(Gallery') = RowsOf(photo)
          BY <1>0, <5>1, GalleryRange
        <5>3. Gallery' \in [DOMAIN Gallery -> RowsOf(photo)]
          <6>1. /\ Gallery' = [i \in 1..Cardinality(RowsOf(photo)) |-> Gallery'[i]]
                /\ DOMAIN Gallery = 1..Cardinality(RowsOf(photo))
            BY <5>1 DEF Gallery
          <6>2. \A i \in 1..Cardinality(RowsOf(photo)) : Gallery'[i] \in RowsOf(photo)
            BY <1>0, <5>1, GalleryPlaces
          <6> QED  BY <6>1, <6>2
        <5>4. Ledger!ReorderPhotos
          BY <4>1, <5>2, <5>3 DEF Ledger!ReorderPhotos
        <5> QED  BY <5>4 DEF Ledger!Next
      <4> QED  BY <3>3, <4>2, <4>3, <4>4 DEF PublishPhotos, Rewritten
    <3> QED  BY <3>1, <3>2, <3>3
  <2> QED  BY <2>1, <2>2, <2>3, RowSteps
<1> QED  BY <1>1, <1>2, InvHolds, PTL DEF Spec, ImplementsLedger, Ledger!Spec

-----------------------------------------------------------------------------
(* What other components rely on. *)

(* A required field that is filled is never empty again, the filter stays, *)
(* and a complete profile lapses only by losing its only photo: the feed   *)
(* and the swipes may take for granted that nothing else takes a complete  *)
(* profile back.                                                           *)
FilledStays ==
  /\ \A f \in Required : CurrentFields(versions)[f] # "null"
                           => CurrentFields(versions)'[f] # "null"
  /\ filter # 0 => filter' = filter
  /\ IsComplete /\ ~IsComplete' => RowsOf(photo') = {}

THEOREM OnlyPhotosLapse == Spec => [][FilledStays]_vars
<1>1. ASSUME Inv, [Next]_vars PROVE FilledStays
  <2>1. ASSUME NEW f \in Required, CurrentFields(versions)[f] # "null"
        PROVE  CurrentFields(versions)'[f] # "null"
    <3>1. CASE UNCHANGED versions
      BY <2>1, <3>1 DEF CurrentFields, Revisions
    <3>2. ASSUME NEW r \in Requests, Commit(r), PublishPatch(r)
          PROVE  CurrentFields(versions)'[f] # "null"
      <4>1. /\ pc[r] = "commit" /\ input[r].patch \in Patches
            /\ CurrentFields(versions)' = Apply(input[r].patch, CurrentFields(versions))
        BY <1>1, <3>2, PatchStep, AppendedIsCurrent DEF Commit, Inv, TypeOK
      <4>2. f \in Fields /\ input[r].patch[f] # "clear"
            /\ input[r].patch[f] \in Values \cup {"keep", "clear", "unknown"}
        BY <4>1 DEF Fields, Patches
      <4> QED  BY <2>1, <4>1, <4>2, NullIsNoValue DEF Apply
    <3> QED
      BY <1>1, <3>1, <3>2, RowSteps DEF Commit, PublishPhotos, InsertFilter
  <2>2. filter # 0 => filter' = filter
    BY <1>1, RowSteps DEF Commit, InsertFilter
  <2>3. ASSUME IsComplete, ~IsComplete' PROVE RowsOf(photo') = {}
    <3>1. RequiredFilled(CurrentFields(versions)) /\ filter # 0
      BY <2>3 DEF IsComplete, Complete
    <3>2. RequiredFilled(CurrentFields(versions)')
      BY <2>1, <3>1 DEF RequiredFilled
    <3>3. filter' # 0
      BY <2>2, <3>1
    <3>4. RowsOf(photo)' = RowsOf(photo')
      BY DEF RowsOf
    <3> QED  BY <2>3, <3>2, <3>3, <3>4 DEF IsComplete, Complete
  <2> QED  BY <2>1, <2>2, <2>3 DEF FilledStays
<1>2. Inv /\ [Next]_vars => [FilledStays]_vars
  BY <1>1
<1> QED  BY <1>2, InvHolds, PTL DEF Spec

(* However uploads overlap, a gallery never holds more photos than the     *)
(* limit, and one that is not empty has exactly one main photo.            *)
GalleryFits ==
  /\ Cardinality(RowsOf(photo)) <= MaxPhotos
  /\ RowsOf(photo) # {} =>
       \E main \in Photos : \A id \in Photos : photo[id].position = 1 <=> id = main
THEOREM LimitHolds == Spec => []GalleryFits
<1>1. Inv => GalleryFits
  <2> SUFFICES ASSUME Inv, RowsOf(photo) # {} PROVE GalleryFits
    <3>1. RowsOf(photo) = {} => Cardinality(RowsOf(photo)) = 0
      BY FS_EmptySet
    <3> QED  BY <3>1, LimitsAreNat DEF GalleryFits
  <2> DEFINE n == Cardinality(RowsOf(photo))
  <2>1. photo \in PhotoTable /\ Dense(photo) /\ n \in Nat /\ n # 0
    BY RowsFinite, FS_EmptySet, Typed DEF Inv, PositionsDense, Dense
  <2>2. \A i \in 1..n : \E id \in RowsOf(photo) : photo[id].position = i
    BY <2>1, EveryPlaceTaken
  <2>3. n <= MaxPhotos
    <3>1. PICK id \in RowsOf(photo) : photo[id].position = n
      BY <2>1, <2>2
    <3>2. photo[id].position \in 0..MaxPhotos
      BY <2>1 DEF PhotoTable, RowsOf
    <3> QED  BY <3>1, <3>2, LimitsAreNat
  <2>4. PICK main \in RowsOf(photo) : photo[main].position = 1
    BY <2>1, <2>2
  <2>5. \A id \in Photos : photo[id].position = 1 => id \in RowsOf(photo)
    BY DEF RowsOf
  <2>6. \A id \in Photos : photo[id].position = 1 <=> id = main
    BY <2>1, <2>4, <2>5 DEF Dense
  <2>7. main \in Photos
    BY DEF RowsOf
  <2> QED  BY <2>3, <2>6, <2>7 DEF GalleryFits
<1> QED  BY <1>1, InvHolds, PTL
=============================================================================
