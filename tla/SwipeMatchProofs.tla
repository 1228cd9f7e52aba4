-------------------------- MODULE SwipeMatchProofs --------------------------
(***************************************************************************)
(* Proofs about SwipeMatch: the invariants its runs check, for any users,  *)
(* any number of concurrent requests and behaviors of any length.          *)
(***************************************************************************)
EXTENDS SwipeMatch, TLAPS

(* The transaction of the request holds the lock of its swipe row. *)
Writing(r) == pc[r] \in {"find_counter", "insert_match", "commit"}

(* What a request in flight has already checked stays true: profiles are   *)
(* never deleted and a completed profile remains one that was completed.   *)
InputInv ==
  \A r \in Requests : pc[r] \in InFlight =>
    /\ input[r].author # input[r].target
    /\ profile[input[r].author] # "absent"
    /\ pc[r] # "load_author" => profile[input[r].author] \in {"complete", "lapsed"}
    /\ pc[r] = "insert_swipe" \/ Writing(r) => profile[input[r].target] # "absent"

(* Every recorded time is in the past, and a row is committed after the    *)
(* start of the transaction that stamped it.                               *)
ClockInv ==
  /\ \A k \in Keys : swipe[k].updated < clock /\ saved[k] < clock
  /\ \A k \in Keys : Exists(k) => swipe[k].updated < saved[k]
  /\ \A r \in Requests : tx[r].started < clock

(* Two transactions never hold the same swipe row. *)
LockInv ==
  \A r, q \in Requests : r # q /\ Writing(r) /\ Writing(q) => Key(r) # Key(q)

(* The dates of a row that is locked remain the ones that were checked. *)
DateInv == \A r \in Requests : Writing(r) => DatesValid(r)

(* What the snapshot of the match statement saw: a counter-like that had   *)
(* been committed, and every counter-like committed before BEGIN.          *)
CounterInv ==
  \A r \in Requests : pc[r] \in {"insert_match", "commit"} =>
    /\ tx[r].counter => Positive(input[r].action) /\ CounterKey(r) \in liked
    /\ (/\ Positive(input[r].action)
        /\ Positive(swipe[CounterKey(r)].action)
        /\ saved[CounterKey(r)] < tx[r].started)
       => tx[r].counter

(* A transaction that saw the counter-like has the match, or found it. *)
MadeInv ==
  \A r \in Requests : pc[r] = "commit" =>
    /\ tx[r].made => tx[r].counter
    /\ tx[r].counter => tx[r].made \/ Pair(r) \in match

LikedInv == \A k \in Keys : Positive(swipe[k].action) => k \in liked

(* The inductive invariant. *)
IInv ==
  /\ TypeOK
  /\ InputInv
  /\ ClockInv
  /\ LockInv
  /\ DateInv
  /\ CounterInv
  /\ MadeInv
  /\ LikedInv
  /\ MatchNeedsBothLikes
  /\ SerialLikesMatch
  /\ SwipesAreEligible
-----------------------------------------------------------------------------
(* A request that is answered gives up its input and its transaction. *)
LEMMA AnswerType ==
  ASSUME TypeOK, NEW r \in Requests, NEW answer \in Answers, Answer(r, answer)
  PROVE  /\ pc' \in [Requests -> {"idle"} \cup Answers \cup InFlight]
         /\ input' \in [Requests -> Inputs \cup {NoInput}]
         /\ \A q \in Requests : pc'[q] \in InFlight => input'[q] \in Inputs
         /\ tx' \in [Requests -> [started : Nat, counter : BOOLEAN, made : BOOLEAN]]
  BY DEF TypeOK, Answer, Answers, InFlight, InTransaction, NoTx

(* Moving on to another step of the request keeps the types. *)
LEMMA GotoType ==
  ASSUME TypeOK, NEW r \in Requests, pc[r] \in InFlight,
         NEW step \in InFlight, Goto(r, step), UNCHANGED input
  PROVE  /\ pc' \in [Requests -> {"idle"} \cup Answers \cup InFlight]
         /\ input' \in [Requests -> Inputs \cup {NoInput}]
         /\ \A q \in Requests : pc'[q] \in InFlight => input'[q] \in Inputs
  BY DEF TypeOK, Goto

(* The row COMMIT publishes is a row of table swipe. *)
LEMMA RowType ==
  ASSUME TypeOK, NEW r \in Requests, pc[r] \in InFlight
  PROVE  Key(r) \in Keys /\ CounterKey(r) \in Keys /\ Pair(r) \in Keys /\ RowOf(r) \in Row
  BY DEF TypeOK, Key, CounterKey, Keys, Pair, PairOf, RowOf, Row, Inputs, InFlight, Exists

THEOREM InitIInv == Init => IInv
<1> SUFFICES ASSUME Init PROVE IInv
  OBVIOUS
<1>1. TypeOK
  BY DEF Init, TypeOK, NoTx, NoRow, Row, InFlight, InTransaction, Answers
<1>2. InputInv /\ LockInv /\ DateInv /\ CounterInv /\ MadeInv
  BY DEF Init, InputInv, LockInv, DateInv, CounterInv, MadeInv, InFlight, InTransaction, Writing
<1>3. ClockInv /\ LikedInv /\ MatchNeedsBothLikes
  BY DEF Init, ClockInv, LikedInv, MatchNeedsBothLikes, NoTx, NoRow, Exists, Positive
<1>4. SerialLikesMatch /\ SwipesAreEligible
  BY DEF Init, SerialLikesMatch, SwipesAreEligible, NoRow, Exists, Positive, Keys
<1> QED
  BY <1>1, <1>2, <1>3, <1>4 DEF IInv

(* Only profiles change: they are never taken back to "absent". *)
LEMMA ProfileStep ==
  ASSUME IInv, NEW u \in Users,
         Register(u) \/ CompleteProfile(u) \/ LapseProfile(u)
  PROVE  IInv'
<1> DEFINE others == <<pc, input, tx, dbVars, received>>
<1>1. /\ UNCHANGED others
      /\ profile' \in [Users -> {"absent", "new", "complete", "lapsed"}]
      /\ \A v \in Users : profile[v] # "absent" => profile'[v] # "absent"
      /\ \A v \in Users : profile[v] \in {"complete", "lapsed"}
                            => profile'[v] \in {"complete", "lapsed"}
  BY DEF Register, CompleteProfile, LapseProfile, IInv, TypeOK
<1>2. TypeOK'
  BY <1>1 DEF IInv, TypeOK, dbVars
<1>3. InputInv'
  BY <1>1 DEF IInv, TypeOK, InputInv, dbVars, Writing, Inputs
<1>4. ClockInv' /\ LockInv' /\ DateInv'
  BY <1>1 DEF IInv, ClockInv, LockInv, DateInv, dbVars, Exists, Writing, Key, DatesValid
<1>5. CounterInv' /\ MadeInv' /\ LikedInv'
  BY <1>1 DEF IInv, CounterInv, MadeInv, LikedInv, dbVars, CounterKey, Pair
<1>6. MatchNeedsBothLikes' /\ SerialLikesMatch'
  BY <1>1 DEF IInv, MatchNeedsBothLikes, SerialLikesMatch, dbVars
<1>7. SwipesAreEligible'
  BY <1>1 DEF IInv, SwipesAreEligible, dbVars, Exists
<1> QED
  BY <1>2, <1>3, <1>4, <1>5, <1>6, <1>7 DEF IInv

(* A step that leaves the committed rows alone keeps what is said of them. *)
LEMMA SameRows ==
  ASSUME IInv, UNCHANGED <<profile, swipe, match, saved, liked>>
  PROVE  LikedInv' /\ MatchNeedsBothLikes' /\ SerialLikesMatch' /\ SwipesAreEligible'
  BY DEF IInv, LikedInv, MatchNeedsBothLikes, SerialLikesMatch, SwipesAreEligible, Exists

(* A request that is answered without a commit drops out of the invariant. *)
LEMMA AnswerStep ==
  ASSUME IInv, NEW r \in Requests, NEW answer \in Answers, Answer(r, answer),
         UNCHANGED <<profile, dbVars>>, received' = received
  PROVE  IInv'
<1>1. TypeOK'
  BY AnswerType DEF IInv, TypeOK, dbVars
<1>2. /\ answer \notin InFlight
      /\ \A q \in Requests : pc'[q] \in InFlight =>
           q # r /\ pc'[q] = pc[q] /\ input'[q] = input[q] /\ tx'[q] = tx[q]
  BY DEF IInv, TypeOK, Answer, Answers, InFlight, InTransaction
<1>3. \A q \in Requests : Writing(q)' => Writing(q) /\ q # r /\ input'[q] = input[q] /\ tx'[q] = tx[q]
  BY <1>2 DEF Writing, InFlight, InTransaction
<1>4. InputInv'
  BY <1>2, <1>3 DEF IInv, InputInv, dbVars
<1>5. ClockInv'
  BY DEF IInv, TypeOK, ClockInv, dbVars, Answer, NoTx, Exists
<1>6. LockInv'
  BY <1>3 DEF IInv, LockInv, Key
<1>7. DateInv'
  BY <1>3 DEF IInv, DateInv, DatesValid, Key, Exists, dbVars
<1>8. CounterInv' /\ MadeInv'
  BY <1>2 DEF IInv, CounterInv, MadeInv, CounterKey, Pair, dbVars, InFlight, InTransaction
<1>9. LikedInv' /\ MatchNeedsBothLikes' /\ SerialLikesMatch' /\ SwipesAreEligible'
  BY SameRows DEF dbVars
<1> QED
  BY <1>1, <1>4, <1>5, <1>6, <1>7, <1>8, <1>9 DEF IInv

LEMMA ReceiveStep ==
  ASSUME IInv, NEW r \in Requests, Receive(r)
  PROVE  IInv'
<1>1. PICK i \in Inputs :
        /\ profile[i.author] # "absent"
        /\ \/ /\ i.author = i.target
              /\ pc' = [pc EXCEPT ![r] = "invalid"]
              /\ UNCHANGED input
           \/ /\ i.author # i.target
              /\ pc' = [pc EXCEPT ![r] = "load_author"]
              /\ input' = [input EXCEPT ![r] = i]
  BY DEF Receive
<1>2. UNCHANGED <<profile, tx, dbVars>> /\ received' = received + 1
  BY DEF Receive
<1>3. TypeOK'
  <2>1. /\ pc' \in [Requests -> {"idle"} \cup Answers \cup InFlight]
        /\ input' \in [Requests -> Inputs \cup {NoInput}]
    BY <1>1 DEF IInv, TypeOK, Answers, InFlight, InTransaction
  <2>2. \A q \in Requests : pc'[q] \in InFlight => input'[q] \in Inputs
    BY <1>1 DEF IInv, TypeOK, InFlight, InTransaction
  <2>3. received' \in Nat
    BY <1>2 DEF IInv, TypeOK
  <2> QED
    BY <1>2, <2>1, <2>2, <2>3 DEF IInv, TypeOK, dbVars
<1>4. \A q \in Requests :
        /\ q # r => pc'[q] = pc[q] /\ input'[q] = input[q]
        /\ pc'[r] \in {"invalid", "load_author"}
        /\ pc'[r] = "load_author" => input'[r] = i /\ i.author # i.target
  BY <1>1 DEF IInv, TypeOK
<1>5. \A q \in Requests : Writing(q)' => Writing(q) /\ q # r
  BY <1>4 DEF Writing
<1>6. InputInv'
  BY <1>1, <1>2, <1>4, <1>5 DEF IInv, InputInv, InFlight, InTransaction, Writing
<1>7. ClockInv'
  BY <1>2 DEF IInv, ClockInv, dbVars, Exists
<1>8. LockInv' /\ DateInv'
  BY <1>2, <1>4, <1>5 DEF IInv, LockInv, DateInv, DatesValid, Key, Exists, dbVars
<1>9. CounterInv' /\ MadeInv'
  BY <1>2, <1>4 DEF IInv, CounterInv, MadeInv, CounterKey, Pair, dbVars
<1>10. LikedInv' /\ MatchNeedsBothLikes' /\ SerialLikesMatch' /\ SwipesAreEligible'
  BY <1>2, SameRows DEF dbVars
<1> QED
  BY <1>3, <1>6, <1>7, <1>8, <1>9, <1>10 DEF IInv

(* A step of one request leaves the other requests as they were. *)
LEMMA OthersSame ==
  ASSUME IInv, NEW r \in Requests, NEW step \in InFlight, Goto(r, step), UNCHANGED input
  PROVE  /\ pc'[r] = step
         /\ \A q \in Requests \ {r} : pc'[q] = pc[q]
  BY DEF IInv, TypeOK, Goto

LEMMA LoadAuthorStep ==
  ASSUME IInv, NEW r \in Requests, LoadAuthor(r)
  PROVE  IInv'
<1>1. CASE MayStart(r) /\ Goto(r, "begin") /\ UNCHANGED <<input, tx>>
  <2>1. UNCHANGED <<profile, input, tx, dbVars, received>> /\ pc[r] = "load_author"
    BY <1>1 DEF LoadAuthor
  <2>2. TypeOK'
    BY <1>1, <2>1, GotoType DEF IInv, TypeOK, dbVars, InFlight
  <2>3. /\ pc'[r] = "begin"
        /\ \A q \in Requests \ {r} : pc'[q] = pc[q]
    BY <1>1, <2>1 DEF IInv, TypeOK, Goto
  <2>4. InputInv'
    BY <1>1, <2>1, <2>3 DEF IInv, InputInv, MayStart, InFlight, Writing
  <2>5. ClockInv' /\ LockInv' /\ DateInv'
    BY <2>1, <2>3 DEF IInv, ClockInv, LockInv, DateInv, DatesValid, Writing, Key, Exists, dbVars
  <2>6. CounterInv' /\ MadeInv'
    BY <2>1, <2>3 DEF IInv, CounterInv, MadeInv, CounterKey, Pair, dbVars
  <2>7. LikedInv' /\ MatchNeedsBothLikes' /\ SerialLikesMatch' /\ SwipesAreEligible'
    BY <2>1, SameRows DEF dbVars
  <2> QED
    BY <2>2, <2>4, <2>5, <2>6, <2>7 DEF IInv
<1>2. CASE ~MayStart(r) /\ Answer(r, "incomplete")
  BY <1>2, AnswerStep DEF LoadAuthor, Answers
<1> QED
  BY <1>1, <1>2 DEF LoadAuthor

LEMMA BeginStep ==
  ASSUME IInv, NEW r \in Requests, Begin(r)
  PROVE  IInv'
<1>1. /\ UNCHANGED <<profile, input, swipe, match, received, saved, liked>>
      /\ pc[r] = "begin" /\ Goto(r, "find_target") /\ clock' = clock + 1
      /\ tx' = [tx EXCEPT ![r].started = clock]
  BY DEF Begin
<1>2. TypeOK'
  BY <1>1, GotoType DEF IInv, TypeOK, InFlight, InTransaction
<1>3. /\ pc'[r] = "find_target"
      /\ \A q \in Requests \ {r} : pc'[q] = pc[q] /\ tx'[q] = tx[q]
      /\ tx'[r].started = clock
  BY <1>1 DEF IInv, TypeOK, Goto
<1>4. \A q \in Requests : Writing(q)' => Writing(q) /\ q # r
  BY <1>3 DEF Writing
<1>5. InputInv'
  BY <1>1, <1>3, <1>4 DEF IInv, InputInv, InFlight, Writing
<1>6. ClockInv'
  BY <1>1, <1>3 DEF IInv, TypeOK, ClockInv, Exists, Row
<1>7. LockInv' /\ DateInv'
  BY <1>1, <1>3, <1>4 DEF IInv, LockInv, DateInv, DatesValid, Key, Exists
<1>8. CounterInv' /\ MadeInv'
  BY <1>1, <1>3 DEF IInv, CounterInv, MadeInv, CounterKey, Pair
<1>9. LikedInv' /\ MatchNeedsBothLikes' /\ SerialLikesMatch' /\ SwipesAreEligible'
  BY <1>1, SameRows
<1> QED
  BY <1>2, <1>5, <1>6, <1>7, <1>8, <1>9 DEF IInv

LEMMA FindTargetStep ==
  ASSUME IInv, NEW r \in Requests, FindTarget(r)
  PROVE  IInv'
<1>1. CASE /\ profile[input[r].target] # "absent"
           /\ Goto(r, "insert_swipe")
           /\ UNCHANGED <<input, tx>>
  <2>1. UNCHANGED <<profile, input, tx, dbVars, received>> /\ pc[r] = "find_target"
    BY <1>1 DEF FindTarget
  <2>2. TypeOK'
    BY <1>1, <2>1, GotoType DEF IInv, TypeOK, dbVars, InFlight, InTransaction
  <2>3. /\ pc'[r] = "insert_swipe"
        /\ \A q \in Requests \ {r} : pc'[q] = pc[q]
    BY <1>1, <2>1 DEF IInv, TypeOK, Goto
  <2>4. InputInv'
    BY <1>1, <2>1, <2>3 DEF IInv, InputInv, InFlight, InTransaction, Writing
  <2>5. ClockInv' /\ LockInv' /\ DateInv'
    BY <2>1, <2>3 DEF IInv, ClockInv, LockInv, DateInv, DatesValid, Writing, Key, Exists, dbVars
  <2>6. CounterInv' /\ MadeInv'
    BY <2>1, <2>3 DEF IInv, CounterInv, MadeInv, CounterKey, Pair, dbVars
  <2>7. LikedInv' /\ MatchNeedsBothLikes' /\ SerialLikesMatch' /\ SwipesAreEligible'
    BY <2>1, SameRows DEF dbVars
  <2> QED
    BY <2>2, <2>4, <2>5, <2>6, <2>7 DEF IInv
<1>2. CASE Answer(r, "not_found")
  BY <1>2, AnswerStep DEF FindTarget, Answers
<1> QED
  BY <1>1, <1>2 DEF FindTarget

(* The row is free and its dates allow the update: the request locks it. *)
LEMMA InsertSwipeStep ==
  ASSUME IInv, NEW r \in Requests, InsertSwipe(r)
  PROVE  IInv'
<1>1. CASE DatesValid(r) /\ Goto(r, "find_counter") /\ UNCHANGED <<input, tx>>
  <2>1. /\ UNCHANGED <<profile, input, tx, dbVars, received>>
        /\ pc[r] = "insert_swipe"
        /\ \A q \in Requests \ {r} : ~HoldsSwipe(q, Key(r))
    BY <1>1 DEF InsertSwipe
  <2>2. TypeOK'
    BY <1>1, <2>1, GotoType DEF IInv, TypeOK, dbVars, InFlight, InTransaction
  <2>3. /\ pc'[r] = "find_counter"
        /\ \A q \in Requests \ {r} : pc'[q] = pc[q]
    BY <1>1, <2>1 DEF IInv, TypeOK, Goto
  <2>4. InputInv'
    BY <1>1, <2>1, <2>3 DEF IInv, InputInv, InFlight, InTransaction, Writing
  <2>5. ClockInv' /\ DateInv'
    BY <1>1, <2>1, <2>3 DEF IInv, ClockInv, DateInv, DatesValid, Writing, Key, Exists, dbVars
  <2>6. LockInv'
    BY <2>1, <2>3 DEF IInv, LockInv, Writing, HoldsSwipe, Key
  <2>7. CounterInv' /\ MadeInv'
    BY <2>1, <2>3 DEF IInv, CounterInv, MadeInv, CounterKey, Pair, dbVars
  <2>8. LikedInv' /\ MatchNeedsBothLikes' /\ SerialLikesMatch' /\ SwipesAreEligible'
    BY <2>1, SameRows DEF dbVars
  <2> QED
    BY <2>2, <2>4, <2>5, <2>6, <2>7, <2>8 DEF IInv
<1>2. CASE Answer(r, "stale_time")
  BY <1>2, AnswerStep DEF InsertSwipe, Answers
<1> QED
  BY <1>1, <1>2 DEF InsertSwipe

LEMMA FindCounterStep ==
  ASSUME IInv, NEW r \in Requests, FindCounter(r)
  PROVE  IInv'
<1>1. /\ UNCHANGED <<profile, input, dbVars, received>>
      /\ pc[r] = "find_counter" /\ Goto(r, "insert_match")
      /\ tx' = [tx EXCEPT ![r].counter = SeesCounter(r)]
  BY DEF FindCounter
<1>2. TypeOK'
  BY <1>1, GotoType DEF IInv, TypeOK, dbVars, InFlight, InTransaction, SeesCounter, Positive
<1>3. /\ pc'[r] = "insert_match"
      /\ \A q \in Requests \ {r} : pc'[q] = pc[q] /\ tx'[q] = tx[q]
      /\ tx'[r].counter = SeesCounter(r)
      /\ \A q \in Requests : tx'[q].started = tx[q].started
  BY <1>1 DEF IInv, TypeOK, Goto
<1>4. \A q \in Requests : Writing(q)' <=> Writing(q)
  BY <1>1, <1>3 DEF Writing
<1>5. InputInv'
  BY <1>1, <1>3, <1>4 DEF IInv, InputInv, InFlight, InTransaction
<1>6. ClockInv'
  BY <1>1, <1>3 DEF IInv, ClockInv, Exists, dbVars
<1>7. LockInv' /\ DateInv'
  BY <1>1, <1>3, <1>4 DEF IInv, LockInv, DateInv, DatesValid, Key, Exists, dbVars
<1>8. CounterInv'
  <2>1. CounterKey(r) \in Keys /\ CounterKey(r)' = CounterKey(r)
    BY <1>1, RowType DEF IInv, InFlight, InTransaction, CounterKey
  <2>2. SeesCounter(r) => Positive(input[r].action) /\ CounterKey(r) \in liked
    BY <2>1 DEF IInv, LikedInv, SeesCounter
  <2>3. Positive(input[r].action) /\ Positive(swipe[CounterKey(r)].action) => SeesCounter(r)
    BY DEF SeesCounter
  <2> QED
    BY <1>1, <1>3, <2>1, <2>2, <2>3 DEF IInv, CounterInv, CounterKey, dbVars
<1>9. MadeInv'
  BY <1>1, <1>3 DEF IInv, MadeInv, Pair, dbVars
<1>10. LikedInv' /\ MatchNeedsBothLikes' /\ SerialLikesMatch' /\ SwipesAreEligible'
  BY <1>1, SameRows DEF dbVars
<1> QED
  BY <1>2, <1>5, <1>6, <1>7, <1>8, <1>9, <1>10 DEF IInv

LEMMA InsertMatchStep ==
  ASSUME IInv, NEW r \in Requests, InsertMatch(r)
  PROVE  IInv'
<1>1. /\ UNCHANGED <<profile, input, dbVars, received>>
      /\ pc[r] = "insert_match" /\ Goto(r, "commit")
      /\ tx' = [tx EXCEPT ![r].made = InsertsMatch(r)]
  BY DEF InsertMatch
<1>2. InsertsMatch(r) \in BOOLEAN
  BY DEF InsertsMatch, IInv, TypeOK
<1>3. TypeOK'
  BY <1>1, <1>2, GotoType DEF IInv, TypeOK, dbVars, InFlight, InTransaction
<1>4. /\ pc'[r] = "commit"
      /\ \A q \in Requests \ {r} : pc'[q] = pc[q] /\ tx'[q] = tx[q]
      /\ tx'[r].made = InsertsMatch(r)
      /\ \A q \in Requests : tx'[q].started = tx[q].started /\ tx'[q].counter = tx[q].counter
  BY <1>1 DEF IInv, TypeOK, Goto
<1>5. \A q \in Requests : Writing(q)' <=> Writing(q)
  BY <1>1, <1>4 DEF Writing
<1>6. InputInv'
  BY <1>1, <1>4, <1>5 DEF IInv, InputInv, InFlight, InTransaction
<1>7. ClockInv'
  BY <1>1, <1>4 DEF IInv, ClockInv, Exists, dbVars
<1>8. LockInv' /\ DateInv'
  BY <1>1, <1>4, <1>5 DEF IInv, LockInv, DateInv, DatesValid, Key, Exists, dbVars
<1>9. CounterInv'
  BY <1>1, <1>4 DEF IInv, CounterInv, CounterKey, dbVars
<1>10. MadeInv'
  BY <1>1, <1>4 DEF IInv, MadeInv, InsertsMatch, Pair, dbVars
<1>11. LikedInv' /\ MatchNeedsBothLikes' /\ SerialLikesMatch' /\ SwipesAreEligible'
  BY <1>1, SameRows DEF dbVars
<1> QED
  BY <1>3, <1>6, <1>7, <1>8, <1>9, <1>10, <1>11 DEF IInv

(* What COMMIT does to the committed rows, and to what they are about. *)
LEMMA CommitFacts ==
  ASSUME IInv, NEW r \in Requests, Commit(r)
  PROVE  /\ pc[r] = "commit" /\ input[r] \in Inputs
         /\ Key(r) \in Keys /\ CounterKey(r) \in Keys /\ Pair(r) \in Keys
         /\ RowOf(r) \in Row /\ RowOf(r).action = input[r].action
         /\ RowOf(r).updated = tx[r].started /\ RowOf(r).created <= tx[r].started
         /\ swipe'[Key(r)] = RowOf(r) /\ saved'[Key(r)] = clock
         /\ \A k \in Keys \ {Key(r)} : swipe'[k] = swipe[k] /\ saved'[k] = saved[k]
         /\ match \subseteq match' /\ match' \subseteq match \cup {Pair(r)}
         /\ tx[r].made => Pair(r) \in match'
         /\ Pair(r) \in match' => tx[r].made \/ Pair(r) \in match
         /\ liked \subseteq liked' /\ (Positive(input[r].action) => Key(r) \in liked')
<1>1. pc[r] = "commit" /\ input[r] \in Inputs
  BY DEF Commit, IInv, TypeOK, InFlight, InTransaction
<1>2. Key(r) \in Keys /\ CounterKey(r) \in Keys /\ Pair(r) \in Keys /\ RowOf(r) \in Row
  BY <1>1, RowType DEF IInv, InFlight, InTransaction
<1>3. DatesValid(r)
  BY <1>1 DEF IInv, DateInv, Writing
<1>4. /\ RowOf(r).action = input[r].action
      /\ RowOf(r).updated = tx[r].started /\ RowOf(r).created <= tx[r].started
  BY <1>2, <1>3 DEF RowOf, DatesValid, IInv, TypeOK, Row
<1>5. /\ swipe'[Key(r)] = RowOf(r) /\ saved'[Key(r)] = clock
      /\ \A k \in Keys \ {Key(r)} : swipe'[k] = swipe[k] /\ saved'[k] = saved[k]
  BY <1>2 DEF Commit, IInv, TypeOK
<1> QED
  BY <1>1, <1>2, <1>4, <1>5 DEF Commit

LEMMA CommitStep ==
  ASSUME IInv, NEW r \in Requests, Commit(r)
  PROVE  IInv'
<1>1. PICK answer \in {"saved", "failed"} : Answer(r, answer)
  BY DEF Commit
<1>2. UNCHANGED <<profile, received>> /\ clock' = clock + 1
  BY DEF Commit
<1>3. \A q \in Requests : pc'[q] \in InFlight =>
        q # r /\ pc'[q] = pc[q] /\ input'[q] = input[q] /\ tx'[q] = tx[q]
  BY <1>1 DEF IInv, TypeOK, Answer, InFlight, InTransaction
<1>4. \A q \in Requests : Writing(q)' =>
        /\ Writing(q) /\ q # r /\ pc'[q] \in InFlight
        /\ Key(q) # Key(r) /\ Key(q)' = Key(q) /\ Key(q) \in Keys
  <2> SUFFICES ASSUME NEW q \in Requests, Writing(q)'
               PROVE  /\ Writing(q) /\ q # r /\ pc'[q] \in InFlight
                      /\ Key(q) # Key(r) /\ Key(q)' = Key(q) /\ Key(q) \in Keys
    OBVIOUS
  <2>1. pc'[q] \in InFlight
    BY DEF Writing, InFlight, InTransaction
  <2>2. q # r /\ Writing(q) /\ Key(q)' = Key(q)
    BY <1>3, <2>1 DEF Writing, Key
  <2>3. Writing(r)
    BY DEF Commit, Writing
  <2>4. Key(q) \in Keys
    BY <1>3, <2>1, RowType DEF IInv
  <2> QED
    BY <2>1, <2>2, <2>3, <2>4 DEF IInv, LockInv
<1>5. TypeOK'
  <2>1. \A k \in Keys : swipe'[k].created <= swipe'[k].updated
    BY CommitFacts DEF IInv, TypeOK
  <2>2. Key(r) \in Keys /\ Pair(r) \in Keys /\ RowOf(r) \in Row
    BY CommitFacts
  <2>3. swipe' \in [Keys -> Row]
    <3>1. swipe' = [swipe EXCEPT ![Key(r)] = RowOf(r)]
      BY DEF Commit
    <3> QED
      BY <2>2, <3>1 DEF IInv, TypeOK
  <2>4. saved' \in [Keys -> Nat] /\ clock' \in Nat \ {0}
    <3>1. saved' = [saved EXCEPT ![Key(r)] = clock]
      BY DEF Commit
    <3> QED
      BY <1>2, <2>2, <3>1 DEF IInv, TypeOK
  <2>5. match' \subseteq Keys /\ liked' \subseteq Keys
    <3>1. match' \subseteq match \cup {Pair(r)} /\ liked' \subseteq liked \cup {Key(r)}
      BY DEF Commit
    <3> QED
      BY <2>2, <3>1 DEF IInv, TypeOK
  <2> QED
    BY <1>1, <1>2, <2>1, <2>3, <2>4, <2>5, AnswerType DEF IInv, TypeOK, Answers
<1>6. InputInv'
  BY <1>2, <1>3, <1>4 DEF IInv, InputInv
<1>7. ClockInv'
  <2>1. \A k \in Keys : swipe'[k].updated < clock' /\ saved'[k] < clock'
    BY <1>2, CommitFacts DEF IInv, TypeOK, ClockInv, Row
  <2>2. \A k \in Keys : Exists(k)' => swipe'[k].updated < saved'[k]
    BY CommitFacts DEF IInv, ClockInv, Exists
  <2>3. \A q \in Requests : tx'[q].started < clock'
    BY <1>1, <1>2 DEF IInv, TypeOK, ClockInv, Answer, NoTx
  <2> QED
    BY <2>1, <2>2, <2>3 DEF ClockInv
<1>8. LockInv'
  BY <1>4 DEF IInv, LockInv
<1>9. DateInv'
  BY <1>3, <1>4, CommitFacts DEF IInv, DateInv, DatesValid, Exists
<1>10. CounterInv'
  <2> SUFFICES ASSUME NEW q \in Requests, pc'[q] \in {"insert_match", "commit"}
               PROVE  /\ tx[q].counter => Positive(input[q].action) /\ CounterKey(q) \in liked'
                      /\ (/\ Positive(input[q].action)
                          /\ Positive(swipe'[CounterKey(q)].action)
                          /\ saved'[CounterKey(q)] < tx[q].started)
                         => tx[q].counter
    BY <1>3 DEF CounterInv, CounterKey, InFlight, InTransaction
  <2>1. pc[q] \in {"insert_match", "commit"} /\ CounterKey(q) \in Keys
    BY <1>3, RowType DEF IInv, InFlight, InTransaction
  <2>2. CASE CounterKey(q) = Key(r)
    BY <2>1, <2>2, CommitFacts DEF IInv, TypeOK, CounterInv, ClockInv
  <2>3. CASE CounterKey(q) # Key(r)
    BY <2>1, <2>3, CommitFacts DEF IInv, CounterInv
  <2> QED
    BY <2>2, <2>3
<1>11. MadeInv'
  BY <1>3, CommitFacts DEF IInv, MadeInv, Pair, InFlight, InTransaction
<1>12. LikedInv'
  BY CommitFacts DEF IInv, LikedInv
<1>13. MatchNeedsBothLikes'
  <2> SUFFICES ASSUME NEW p \in match'
               PROVE  p[1] < p[2] /\ p \in liked' /\ <<p[2], p[1]>> \in liked'
    BY DEF MatchNeedsBothLikes
  <2>1. CASE p \in match
    BY <2>1, CommitFacts DEF IInv, MatchNeedsBothLikes
  <2>2. CASE p \notin match
    <3>1. p = Pair(r) /\ tx[r].made
      BY <2>2, CommitFacts
    <3>2. Key(r) \in liked' /\ CounterKey(r) \in liked'
      BY <3>1, CommitFacts DEF IInv, CounterInv, MadeInv
    <3>3. input[r].author # input[r].target
      BY CommitFacts DEF IInv, InputInv, InFlight, InTransaction
    <3>4. input[r].author \in Int /\ input[r].target \in Int
      BY CommitFacts, UsersAreIds DEF Inputs
    <3> QED
      BY <3>1, <3>2, <3>3, <3>4 DEF Pair, PairOf, Key, CounterKey
  <2> QED
    BY <2>1, <2>2
<1>14. SerialLikesMatch'
  <2> SUFFICES ASSUME NEW a \in Users, NEW b \in Users, a # b,
                      Positive(swipe'[<<a, b>>].action),
                      Positive(swipe'[<<b, a>>].action),
                      saved'[<<a, b>>] < swipe'[<<b, a>>].updated
               PROVE  PairOf(a, b) \in match'
    BY DEF SerialLikesMatch, Positive
  <2>1. <<a, b>> \in Keys /\ <<b, a>> \in Keys /\ <<a, b>> # <<b, a>>
    BY DEF Keys
  <2>2. CASE <<b, a>> = Key(r)
    <3>1. <<a, b>> = CounterKey(r) /\ <<a, b>> # Key(r)
      BY <2>1, <2>2 DEF Key, CounterKey
    <3>2. tx[r].counter
      BY <2>1, <2>2, <3>1, CommitFacts DEF IInv, CounterInv
    <3>3. Pair(r) \in match'
      BY <3>2, CommitFacts DEF IInv, MadeInv
    <3>4. Pair(r) = PairOf(b, a)
      BY <2>2 DEF Pair, Key
    <3> QED
      BY <3>3, <3>4, UsersAreIds DEF PairOf
  <2>3. CASE <<a, b>> = Key(r)
    <3>1. saved'[<<a, b>>] = clock /\ swipe'[<<b, a>>] = swipe[<<b, a>>]
      BY <2>1, <2>3, CommitFacts
    <3>2. /\ swipe[<<b, a>>].updated < clock
          /\ swipe[<<b, a>>].updated \in Nat /\ clock \in Nat
      BY <2>1 DEF IInv, TypeOK, ClockInv, Row
    <3> QED
      BY <3>1, <3>2
  <2>4. CASE <<a, b>> # Key(r) /\ <<b, a>> # Key(r)
    BY <2>1, <2>4, CommitFacts DEF IInv, SerialLikesMatch
  <2> QED
    BY <2>2, <2>3, <2>4
<1>15. SwipesAreEligible'
  <2> SUFFICES ASSUME NEW a \in Users, NEW b \in Users, swipe'[<<a, b>>].action # "none"
               PROVE  /\ a # b /\ profile[a] \in {"complete", "lapsed"}
                      /\ profile[b] # "absent"
    BY <1>2 DEF SwipesAreEligible, Exists
  <2>1. CASE <<a, b>> = Key(r)
    BY <2>1, CommitFacts DEF IInv, InputInv, Key, Writing, InFlight, InTransaction
  <2>2. CASE <<a, b>> # Key(r)
    BY <2>2, CommitFacts DEF IInv, SwipesAreEligible, Exists, Keys
  <2> QED
    BY <2>1, <2>2
<1> QED
  BY <1>5, <1>6, <1>7, <1>8, <1>9, <1>10, <1>11, <1>12, <1>13, <1>14, <1>15 DEF IInv

(* Every step keeps the invariant. *)
THEOREM NextIInv == IInv /\ [Next]_vars => IInv'
<1> SUFFICES ASSUME IInv, [Next]_vars PROVE IInv'
  OBVIOUS
<1>1. CASE \E u \in Users : Register(u) \/ CompleteProfile(u) \/ LapseProfile(u)
  BY <1>1, ProfileStep
<1>2. ASSUME NEW r \in Requests, Receive(r) PROVE IInv'
  BY <1>2, ReceiveStep
<1>3. ASSUME NEW r \in Requests, Proceed(r) PROVE IInv'
  BY <1>3, LoadAuthorStep, BeginStep, FindTargetStep, InsertSwipeStep,
     FindCounterStep, InsertMatchStep, CommitStep DEF Proceed
<1>4. ASSUME NEW r \in Requests, Fail(r) PROVE IInv'
  BY <1>4, AnswerStep DEF Fail, Answers
<1>5. CASE UNCHANGED vars
  <2> USE <1>5 DEF vars
  <2>1. TypeOK' /\ InputInv' /\ ClockInv' /\ LockInv' /\ DateInv'
    BY DEF IInv, TypeOK, InputInv, ClockInv, LockInv, DateInv, Writing, Exists, Key, DatesValid
  <2>2. CounterInv' /\ MadeInv'
    BY DEF IInv, CounterInv, MadeInv, CounterKey, Pair
  <2>3. LikedInv' /\ MatchNeedsBothLikes' /\ SerialLikesMatch' /\ SwipesAreEligible'
    BY SameRows
  <2> QED
    BY <2>1, <2>2, <2>3 DEF IInv
<1> QED
  BY <1>1, <1>2, <1>3, <1>4, <1>5 DEF Next

(* The inductive invariant holds in every reachable state. *)
THEOREM Invariance == Spec => []IInv
  BY InitIInv, NextIInv, PTL DEF Spec

(* The variables have their types; no row predates its own creation. *)
THEOREM TypeCorrect == Spec => []TypeOK
<1>1. IInv => TypeOK
  BY DEF IInv
<1> QED
  BY <1>1, Invariance, PTL

(* Every match rests on a like of either user about the other. *)
THEOREM MatchSound == Spec => []MatchNeedsBothLikes
<1>1. IInv => MatchNeedsBothLikes
  BY DEF IInv
<1> QED
  BY <1>1, Invariance, PTL

(* Mutual likes are matched whenever the second began after the first was *)
(* committed, in every interleaving with any other swipes.                 *)
THEOREM MatchComplete == Spec => []SerialLikesMatch
<1>1. IInv => SerialLikesMatch
  BY DEF IInv
<1> QED
  BY <1>1, Invariance, PTL

(* Swipes are by users who had completed their profile, about users who    *)
(* exist.                                                                  *)
THEOREM SwipesEligible == Spec => []SwipesAreEligible
<1>1. IInv => SwipesAreEligible
  BY DEF IInv
<1> QED
  BY <1>1, Invariance, PTL

(* Only a swipe overtaken by another one of the same author about the same *)
(* target is refused for its dates.                                        *)
THEOREM StaleTime == Spec => StaleTimeNeedsOverlap
<1>1. ASSUME IInv, [Next]_vars,
             NEW r \in Requests, pc[r] = "insert_swipe", pc'[r] = "stale_time"
      PROVE  saved[Key(r)] > tx[r].started
  <2>1. InsertSwipe(r)
    <3>1. pc'[r] # pc[r]
      BY <1>1
    <3>2. ASSUME NEW q \in Requests, q # r, Receive(q) \/ Proceed(q) \/ Fail(q)
          PROVE  pc'[r] = pc[r]
      <4> DEFINE Moves(step) == pc' = [pc EXCEPT ![q] = step]
      <4>1. CASE Receive(q)
        <5>1. Moves("invalid") \/ Moves("load_author")
          BY <4>1 DEF Receive
        <5> QED
          BY <1>1, <3>2, <5>1 DEF IInv, TypeOK
      <4>2. CASE Proceed(q) \/ Fail(q)
        <5>1. \E step \in InFlight \cup Answers : Moves(step)
          BY <4>2 DEF Proceed, Fail, LoadAuthor, Begin, FindTarget, InsertSwipe,
             FindCounter, InsertMatch, Commit, Goto, Answer, InFlight, InTransaction, Answers
        <5> QED
          BY <1>1, <3>2, <5>1 DEF IInv, TypeOK
      <4> QED
        BY <3>2, <4>1, <4>2
    <3>3. ASSUME NEW u \in Users, Register(u) \/ CompleteProfile(u) \/ LapseProfile(u)
          PROVE  pc'[r] = pc[r]
      BY <3>3 DEF Register, CompleteProfile, LapseProfile
    <3>4. Receive(r) \/ Proceed(r) \/ Fail(r)
      BY <1>1, <3>1, <3>2, <3>3 DEF Next, vars
    <3>5. ~Receive(r)
      BY <1>1 DEF Receive, Answers
    <3>6. ~Fail(r)
      BY <1>1 DEF Fail, Answer, IInv, TypeOK
    <3> QED
      BY <1>1, <3>4, <3>5, <3>6 DEF Proceed, LoadAuthor, Begin, FindTarget,
         FindCounter, InsertMatch, Commit
  <2>2. ~DatesValid(r)
    BY <1>1, <2>1 DEF InsertSwipe, Goto, IInv, TypeOK
  <2>3. Key(r) \in Keys
    BY <1>1, RowType DEF IInv, InFlight, InTransaction
  <2>4. /\ tx[r].started \in Nat /\ swipe[Key(r)] \in Row /\ saved[Key(r)] \in Nat
        /\ swipe[Key(r)].created <= swipe[Key(r)].updated
        /\ Exists(Key(r)) => swipe[Key(r)].updated < saved[Key(r)]
    BY <1>1, <2>3 DEF IInv, TypeOK, ClockInv
  <2>5. Exists(Key(r)) /\ tx[r].started < swipe[Key(r)].created
    BY <2>2, <2>4 DEF DatesValid, Row
  <2> QED
    BY <2>4, <2>5 DEF Row
<1>2. IInv /\ [Next]_vars =>
        [\A r \in Requests :
           pc[r] = "insert_swipe" /\ pc'[r] = "stale_time"
             => saved[Key(r)] > tx[r].started]_vars
  BY <1>1
<1> QED
  BY <1>2, Invariance, PTL DEF Spec, StaleTimeNeedsOverlap

-----------------------------------------------------------------------------
(* The committed tables change as SwipeLedger says: in one step per saved  *)
(* swipe, whatever statements and waits come before the commit.            *)
THEOREM Implements == Spec => ImplementsLedger
<1> USE DEF Ledger!Keys, Keys
<1>1. Init => Ledger!Init
  BY DEF Init, Ledger!Init, NoRow
<1>2. IInv /\ [Next]_vars => [Ledger!Next]_(Ledger!vars)
  <2> SUFFICES ASSUME IInv, [Next]_vars
               PROVE  Ledger!Next \/ UNCHANGED Ledger!vars
    OBVIOUS
  <2>1. CASE UNCHANGED <<swipe, match, liked>>
    BY <2>1 DEF Ledger!vars
  <2>2. ASSUME NEW r \in Requests, Commit(r)
        PROVE  Ledger!Next
    <3>1. PICK a \in Users, b \in Users :
            /\ a # b
            /\ Key(r) = <<a, b>> /\ CounterKey(r) = <<b, a>> /\ Pair(r) = PairOf(a, b)
      BY <2>2, CommitFacts
         DEF IInv, InputInv, Inputs, InFlight, InTransaction, Key, CounterKey, Pair
    <3>2. [k \in Keys |-> swipe'[k].action]
            = [[k \in Keys |-> swipe[k].action] EXCEPT ![<<a, b>>] = input[r].action]
      <4>1. \A k \in Keys : swipe'[k].action
                             = IF k = <<a, b>> THEN input[r].action ELSE swipe[k].action
        BY <2>2, <3>1, CommitFacts
      <4> QED
        BY <4>1
    <3>3. tx[r].made => <<b, a>> \in liked /\ Positive(input[r].action)
      BY <2>2, <3>1, CommitFacts DEF IInv, CounterInv, MadeInv
    <3>4. /\ match' = IF tx[r].made THEN match \cup {Pair(r)} ELSE match
          /\ liked' = IF Positive(input[r].action) THEN liked \cup {<<a, b>>} ELSE liked
      BY <2>2, <3>1 DEF Commit
    <3>5. input[r].action \in Actions
      BY <2>2, CommitFacts DEF Inputs
    <3>6. CASE Positive(input[r].action)
      <4>1. input[r].action \in Ledger!Likes
        BY <3>6 DEF Positive, Ledger!Likes
      <4>2. \E d \in Ledger!Likes :
              [k \in Keys |-> swipe'[k].action]
                = [[k \in Keys |-> swipe[k].action] EXCEPT ![<<a, b>>] = d]
        BY <3>2, <4>1
      <4>3. liked' = liked \cup {<<a, b>>}
        BY <3>4, <3>6
      <4>4. \/ match' = match
            \/ /\ <<b, a>> \in liked
               /\ match' = match \cup {IF a < b THEN <<a, b>> ELSE <<b, a>>}
        BY <3>1, <3>3, <3>4 DEF PairOf
      <4>5. Ledger!Like(a, b)
        BY <4>2, <4>3, <4>4 DEF Ledger!Like
      <4> QED
        BY <3>1, <4>5 DEF Ledger!Next
    <3>7. CASE ~Positive(input[r].action)
      <4>1. input[r].action = "dislike"
        BY <3>5, <3>7 DEF Positive, Actions
      <4>2. Ledger!Dislike(a, b)
        BY <3>2, <3>3, <3>4, <3>7, <4>1 DEF Ledger!Dislike
      <4> QED
        BY <3>1, <4>2 DEF Ledger!Next
    <3> QED
      BY <3>6, <3>7
  <2>3. (\E r \in Requests : Commit(r)) \/ UNCHANGED <<swipe, match, liked>>
    BY DEF Next, vars, dbVars, Register, CompleteProfile, LapseProfile, Receive, Proceed, Fail,
       LoadAuthor, Begin, FindTarget, InsertSwipe, FindCounter, InsertMatch
  <2> QED
    BY <2>1, <2>2, <2>3
<1> QED
  BY <1>1, <1>2, Invariance, PTL DEF Spec, ImplementsLedger, Ledger!Spec

-----------------------------------------------------------------------------
(* The waits for rows of other transactions. *)

(* q has written the row that the next statement of r writes.              *)
WaitsFor(r, q) ==
  /\ q # r
  /\ \/ pc[r] = "insert_swipe" /\ HoldsSwipe(q, Key(r))
     \/ pc[r] = "insert_match" /\ tx[r].counter /\ HoldsMatch(q, Pair(r))

(* Two transactions never insert the same match. *)
MakerInv ==
  \A r, q \in Requests :
    r # q /\ pc[r] = "commit" /\ tx[r].made /\ pc[q] = "commit" /\ tx[q].made
      => Pair(r) # Pair(q)

LEMMA MakersStep == IInv /\ MakerInv /\ [Next]_vars => MakerInv'
<1> SUFFICES ASSUME IInv, MakerInv, [Next]_vars PROVE MakerInv'
  OBVIOUS
<1>1. ASSUME NEW r \in Requests, pc'[r] # "commit" \/ (~tx'[r].made),
             \A q \in Requests \ {r} : pc'[q] = pc[q] /\ input'[q] = input[q] /\ tx'[q] = tx[q]
      PROVE  MakerInv'
  BY <1>1 DEF MakerInv, Pair
<1>2. CASE UNCHANGED <<pc, input, tx>>
  BY <1>2 DEF MakerInv, Pair
<1>3. ASSUME NEW r \in Requests, InsertMatch(r) PROVE MakerInv'
  <2>1. /\ pc[r] = "insert_match" /\ input' = input
        /\ tx[r].counter => \A q \in Requests \ {r} : ~HoldsMatch(q, Pair(r))
        /\ \A q \in Requests \ {r} : pc'[q] = pc[q] /\ tx'[q] = tx[q]
        /\ tx'[r].made => tx[r].counter
    BY <1>3 DEF InsertMatch, InsertsMatch, Goto, IInv, TypeOK
  <2>2. ASSUME NEW q \in Requests \ {r}, tx'[r].made, pc'[q] = "commit", tx'[q].made
        PROVE  Pair(r)' # Pair(q)'
    BY <2>1, <2>2 DEF HoldsMatch, Pair
  <2> QED  BY <2>1, <2>2 DEF MakerInv, Pair
<1>4. ASSUME NEW r \in Requests, Answers \cap InFlight = {},
             \E answer \in Answers : Answer(r, answer)
      PROVE  MakerInv'
  BY <1>1, <1>4 DEF Answer, IInv, TypeOK, InFlight, InTransaction
<1>5. ASSUME NEW r \in Requests, NEW step \in InFlight \ {"commit"}, Goto(r, step),
             UNCHANGED input, \A q \in Requests \ {r} : tx'[q] = tx[q]
      PROVE  MakerInv'
  BY <1>1, <1>5, OthersSame
<1>6. Answers \cap InFlight = {}
  BY DEF Answers, InFlight, InTransaction
<1>7. ASSUME NEW r \in Requests, Receive(r) PROVE MakerInv'
  <2>1. /\ tx' = tx /\ \A q \in Requests \ {r} : pc'[q] = pc[q] /\ input'[q] = input[q]
        /\ pc'[r] # "commit"
    BY <1>7 DEF Receive, IInv, TypeOK
  <2> QED  BY <1>1, <2>1
<1>8. ASSUME NEW r \in Requests, LoadAuthor(r) \/ FindTarget(r) \/ InsertSwipe(r)
                                   \/ Commit(r) \/ Fail(r)
      PROVE  MakerInv'
  <2>1. \/ \E answer \in Answers : Answer(r, answer)
        \/ \E step \in InFlight \ {"commit"} : Goto(r, step) /\ UNCHANGED <<input, tx>>
    BY <1>8 DEF LoadAuthor, FindTarget, InsertSwipe, Commit, Fail, Answers, InFlight,
                InTransaction
  <2> QED  BY <1>4, <1>5, <1>6, <2>1
<1>9. ASSUME NEW r \in Requests, Begin(r) \/ FindCounter(r) PROVE MakerInv'
  <2>1. /\ \E step \in InFlight \ {"commit"} : Goto(r, step)
        /\ UNCHANGED input /\ \A q \in Requests \ {r} : tx'[q] = tx[q]
    BY <1>9 DEF Begin, FindCounter, InFlight, InTransaction, IInv, TypeOK
  <2> QED  BY <1>5, <2>1
<1>10. CASE \E u \in Users : Register(u) \/ CompleteProfile(u) \/ LapseProfile(u)
  BY <1>2, <1>10 DEF Register, CompleteProfile, LapseProfile
<1>11. CASE UNCHANGED vars
  BY <1>2, <1>11 DEF vars
<1> QED  BY <1>3, <1>7, <1>8, <1>9, <1>10, <1>11 DEF Next, Proceed

(* The safety part of EveryRequestAnswered: a request waits for at most    *)
(* one other, and whom it waits for is in flight and waits for nobody, or  *)
(* for one that waits for nobody.  Swipes never wait for each other in a   *)
(* circle, not even two users who swipe each other at the same time.       *)
WaitsAreShort ==
  \A r \in Requests :
    /\ \A a, b \in Requests : WaitsFor(r, a) /\ WaitsFor(r, b) => a = b
    /\ \A a \in Requests : WaitsFor(r, a) =>
         /\ pc[a] \in InFlight
         /\ \A b \in Requests : WaitsFor(a, b) =>
              /\ pc[b] \in InFlight
              /\ \A c \in Requests : ~WaitsFor(b, c)
THEOREM WaitsEnd == Spec => []WaitsAreShort
<1>1. IInv /\ MakerInv => WaitsAreShort
  <2> SUFFICES ASSUME IInv, MakerInv, NEW r \in Requests
               PROVE  /\ \A a, b \in Requests : WaitsFor(r, a) /\ WaitsFor(r, b) => a = b
                      /\ \A a \in Requests : WaitsFor(r, a) =>
                           /\ pc[a] \in InFlight
                           /\ \A b \in Requests : WaitsFor(a, b) =>
                                /\ pc[b] \in InFlight
                                /\ \A c \in Requests : ~WaitsFor(b, c)
    BY DEF WaitsAreShort
  <2>1. ASSUME NEW a \in Requests, NEW b \in Requests, WaitsFor(r, a), WaitsFor(r, b)
        PROVE  a = b
    <3>1. CASE pc[r] = "insert_swipe"
      <4>1. Writing(a) /\ Writing(b) /\ Key(a) = Key(b)
        BY <2>1, <3>1 DEF WaitsFor, HoldsSwipe, Writing
      <4> QED  BY <4>1 DEF IInv, LockInv
    <3>2. CASE pc[r] = "insert_match"
      BY <2>1, <3>2 DEF WaitsFor, HoldsMatch, MakerInv
    <3> QED  BY <2>1, <3>1, <3>2 DEF WaitsFor
  <2>2. \A a, b \in Requests : WaitsFor(a, b) =>
          /\ pc[b] \in InFlight
          /\ \/ pc[a] = "insert_swipe" /\ pc[b] \in {"find_counter", "insert_match", "commit"}
             \/ pc[a] = "insert_match" /\ pc[b] = "commit"
    BY DEF WaitsFor, HoldsSwipe, HoldsMatch, InFlight, InTransaction
  <2> QED  BY <2>1, <2>2
<1>2. Init => MakerInv
  BY DEF Init, MakerInv
<1>3. Spec => [](IInv /\ MakerInv)
  BY <1>2, InitIInv, NextIInv, MakersStep, PTL DEF Spec
<1> QED  BY <1>1, <1>3, PTL
=============================================================================
