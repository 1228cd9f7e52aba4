----------------------------- MODULE PsychoTest -----------------------------
(***************************************************************************)
(* The personality test: POST /tests/{id}/results saves an attempt as a    *)
(* new revision of the profile's psychological profile, GET                *)
(* /tests/results/me reads the latest one, and GET /feed compares the      *)
(* latest one of the viewer with those of the profiles on the page.        *)
(*                                                                         *)
(* Attempts of one user overlap (two tabs, a request repeated after a lost *)
(* answer); SaveTestResult takes the row lock of the profile and saves in  *)
(* one READ COMMITTED transaction.  Profiles are complete and on one page  *)
(* of the feed: module Feed says which are.                                *)
(***************************************************************************)
EXTENDS Personality, FiniteSets

CONSTANTS Profiles,     \* ids of profiles, one of each user
          TestID,       \* id of the test
          Submissions,  \* [test, answers] that clients send
          Requests,     \* request slots: how many requests run at a time
          MaxRequests,  \* bound on the requests received in a behavior
          Nobody        \* holder of a lock nobody holds

ASSUME SubmissionsTyped ==
  Submissions \subseteq [test : Int, answers : Seq([question : Int, value : Int])]
ASSUME ProfilesExist == Profiles # {}
ASSUME NobodyIsNoRequest == Nobody \notin Requests /\ MaxRequests \in Nat

VARIABLES
  psycho,    \* rows of profile_psycho, each with its rows of user_answer
  lock,      \* who has the row of each profile FOR UPDATE
  pc,        \* next step of each request, or its last answer
  req,       \* what each request asks for, knows and answers
  received   \* requests received so far, at most MaxRequests

vars == <<psycho, lock, pc, req, received>>

-----------------------------------------------------------------------------
Answers == {"bad_request", "test_not_found", "invalid_answers", "constraint", "failed",
            "saved", "result", "no_result", "page", "page_failed"}
Writing == {"number", "insert", "answers", "commit"}
InFlight == {"lock", "read", "viewer", "query"} \cup Writing

NoScores == [trait \in Traits |-> 0]
NoResult == [revision |-> 0, scores |-> NoScores, kind |-> "none"]
NoPage == [p \in Profiles |-> NoResult]
NoSubmission == [test |-> 0, answers |-> <<>>]

Blank == [op |-> "none", profile |-> CHOOSE p \in Profiles : TRUE,
          submission |-> NoSubmission, result |-> NoResult, page |-> NoPage,
          since |-> [p \in Profiles |-> 0]]

RowsOf(p) == {row \in psycho : row.profile = p}

(* ORDER BY revision DESC LIMIT 1 *)
IsLatest(row, rows) == row \in rows /\ \A other \in rows : other.revision <= row.revision

(* COALESCE(MAX(revision), 0) *)
IsLastRevision(n, p) ==
  \/ n = 0 /\ RowsOf(p) = {}
  \/ \E row \in RowsOf(p) : IsLatest(row, RowsOf(p)) /\ n = row.revision

(* Mistake: the row recorded first is taken. *)
IsCurrentFirst(result, p) ==
  \/ result = NoResult /\ RowsOf(p) = {}
  \/ \E row \in RowsOf(p) :
       /\ \A other \in RowsOf(p) : row.revision <= other.revision
       /\ result = [revision |-> row.revision, scores |-> row.scores, kind |-> row.kind]
(* What a SELECT of the latest row returns, if there is one. *)
IsCurrent(result, p) ==
  \/ result = NoResult /\ RowsOf(p) = {}
  \/ \E row \in RowsOf(p) :
       /\ IsLatest(row, RowsOf(p))
       /\ result = [revision |-> row.revision, scores |-> row.scores, kind |-> row.kind]

Results(p) ==
  {NoResult} \cup {[revision |-> row.revision, scores |-> row.scores, kind |-> row.kind] :
                     row \in RowsOf(p)}

Goto(r, step) == pc' = [pc EXCEPT ![r] = step]

(* The request ends with an error and shows nothing. *)
Refuse(r, answer) == Goto(r, answer) /\ req' = [req EXCEPT ![r] = Blank]

(* Mistake: an error leaves the transaction open. *)
ReleasedOnCommit(r) == [p \in Profiles |-> IF pc[r] = "commit" /\ lock[p] = r
                                           THEN Nobody ELSE lock[p]]
(* defer tx.Rollback(), or COMMIT *)
Released(r) == [p \in Profiles |-> IF lock[p] = r THEN Nobody ELSE lock[p]]

-----------------------------------------------------------------------------
Init ==
  /\ psycho = {}
  /\ lock = [p \in Profiles |-> Nobody]
  /\ pc = [r \in Requests |-> "idle"]
  /\ req = [r \in Requests |-> Blank]
  /\ received = 0

Receive(r) ==
  /\ pc[r] \in {"idle"} \cup Answers
  /\ received < MaxRequests
  /\ received' = received + 1
  /\ UNCHANGED <<psycho, lock>>

(* A request to read; since is what was the latest revision then. *)
Ask(r, op, p) ==
  \E last \in [Profiles -> {0} \cup {row.revision : row \in psycho}] :
    /\ \A q \in Profiles : IsLastRevision(last[q], q)
    /\ req' = [req EXCEPT ![r] = [Blank EXCEPT !.op = op, !.profile = p, !.since = last]]

MyResult(r, p) == Receive(r) /\ Ask(r, "result", p) /\ Goto(r, "read")
OpenFeed(r, p) == Receive(r) /\ Ask(r, "feed", p) /\ Goto(r, "viewer")

(* ToModel; a missing value is refused with the missing questions. *)
Formed(s) == \A i \in DOMAIN s.answers : s.answers[i].question > 0

(* The handler and the service refuse the attempt, or compute scores and   *)
(* type; of the database they need nothing but the id of the profile.      *)
Submit(r, p, s) ==
  /\ Receive(r)
  /\ \/ ~Formed(s) /\ Refuse(r, "bad_request")
     \/ Formed(s) /\ s.test # TestID /\ Refuse(r, "test_not_found")
     \/ /\ Formed(s) /\ s.test = TestID /\ ~ValidAnswers(s.answers)
        /\ Refuse(r, "invalid_answers")
     \/ /\ Formed(s) /\ s.test = TestID /\ ValidAnswers(s.answers)
        /\ \E scores \in {BigFive(s.answers)} : \E kind \in Nearest(scores) :
             req' = [req EXCEPT ![r] =
                       [Blank EXCEPT !.op = "submit", !.profile = p, !.submission = s,
                          !.result = [revision |-> 0, scores |-> scores, kind |-> kind]]]
        /\ Goto(r, "lock")

(* Mistake: the row of the profile is read without FOR UPDATE. *)
MayLockAnyTime(r) == pc[r] = "lock"
MayLock(r) == lock[req[r].profile] = Nobody

Lock(r) ==
  /\ pc[r] = "lock"
  /\ MayLock(r)
  /\ lock' = [lock EXCEPT ![req[r].profile] = r]
  /\ Goto(r, "number")
  /\ UNCHANGED <<psycho, req, received>>

(* The SELECT of the INSERT, from the snapshot of its start. *)
Number(r) ==
  /\ pc[r] = "number"
  /\ \E last \in {0} \cup {row.revision : row \in psycho} :
       /\ IsLastRevision(last, req[r].profile)
       /\ req' = [req EXCEPT ![r].result.revision = last + 1]
  /\ Goto(r, "insert")
  /\ UNCHANGED <<psycho, lock, received>>

SameKey(a, b) ==
  req[a].profile = req[b].profile /\ req[a].result.revision = req[b].result.revision

(* The insertion waits for a transaction that has inserted the same key,   *)
(* and fails if that key is there.                                         *)
Insert(r) ==
  /\ pc[r] = "insert"
  /\ \A q \in Requests : pc[q] \in {"answers", "commit"} => ~SameKey(q, r)
  /\ IF \E row \in RowsOf(req[r].profile) : row.revision = req[r].result.revision
     THEN Refuse(r, "constraint") /\ lock' = Released(r)
     ELSE Goto(r, "answers") /\ UNCHANGED <<req, lock>>
  /\ UNCHANGED <<psycho, received>>

(* The key and the two CHECKs of user_answer. *)
AnswersFit(answers) ==
  /\ \A i, j \in DOMAIN answers : answers[i].question = answers[j].question => i = j
  /\ \A i \in DOMAIN answers : answers[i].question \in 1..10 /\ answers[i].value \in 1..7

InsertAnswers(r) ==
  /\ pc[r] = "answers"
  /\ IF AnswersFit(req[r].submission.answers)
     THEN Goto(r, "commit") /\ UNCHANGED <<req, lock>>
     ELSE Refuse(r, "constraint") /\ lock' = Released(r)
  /\ UNCHANGED <<psycho, received>>

AnswerSet(answers) == {answers[i] : i \in DOMAIN answers}

(* Mistake: two columns are filled with each other's values. *)
NewRowSwapped(r) ==
  [profile |-> req[r].profile, revision |-> req[r].result.revision,
   answers |-> AnswerSet(req[r].submission.answers), kind |-> req[r].result.kind,
   scores |-> [req[r].result.scores EXCEPT
                 !.extraversion = req[r].result.scores.agreeableness,
                 !.agreeableness = req[r].result.scores.extraversion]]
NewRow(r) ==
  [profile |-> req[r].profile, revision |-> req[r].result.revision,
   answers |-> AnswerSet(req[r].submission.answers), kind |-> req[r].result.kind,
   scores |-> req[r].result.scores]

(* The answer of COMMIT may be lost; a client that does not see it may     *)
(* send the attempt again, which is a new one.                             *)
Commit(r) ==
  /\ pc[r] = "commit"
  /\ psycho' = psycho \cup {NewRow(r)}
  /\ lock' = Released(r)
  /\ (Goto(r, "saved") /\ UNCHANGED req) \/ Refuse(r, "failed")
  /\ UNCHANGED received

-----------------------------------------------------------------------------
(* GetTestResult; the condition on openness holds of every row. *)
Read(r) ==
  /\ pc[r] = "read"
  /\ \E result \in Results(req[r].profile) :
       /\ IsCurrent(result, req[r].profile)
       /\ req' = [req EXCEPT ![r].result = result]
       /\ Goto(r, IF result = NoResult THEN "no_result" ELSE "result")
  /\ UNCHANGED <<psycho, lock, received>>

(* GetNextFeed reads the viewer's vector in a transaction of its own. *)
LoadViewer(r) ==
  /\ pc[r] = "viewer"
  /\ \E result \in Results(req[r].profile) :
       /\ IsCurrent(result, req[r].profile)
       /\ req' = [req EXCEPT ![r].result = result]
  /\ Goto(r, "query")
  /\ UNCHANGED <<psycho, lock, received>>

Comparable(v, w) == v.revision # 0 /\ w.revision # 0

(* The page is read in one snapshot; vectors are compared where both users *)
(* have one, and one vector that is not valid fails the whole page.        *)
Query(r) ==
  /\ pc[r] = "query"
  /\ \E page \in [Profiles -> UNION {Results(p) : p \in Profiles}] :
       /\ \A p \in Profiles :
            IF p = req[r].profile THEN page[p] = NoResult ELSE IsCurrent(page[p], p)
       /\ req' = [req EXCEPT ![r].page = page]
       /\ Goto(r, IF \A p \in Profiles :
                       Comparable(req[r].result, page[p]) =>
                         IsValid(req[r].result.scores) /\ IsValid(page[p].scores)
                  THEN "page" ELSE "page_failed")
  /\ UNCHANGED <<psycho, lock, received>>

(* The client disconnects, the connection breaks or the process dies. *)
Fail(r) ==
  /\ pc[r] \in InFlight
  /\ lock' = Released(r)
  /\ Refuse(r, "failed")
  /\ UNCHANGED <<psycho, received>>

Proceed(r) ==
  \/ Lock(r) \/ Number(r) \/ Insert(r) \/ InsertAnswers(r) \/ Commit(r)
  \/ Read(r) \/ LoadViewer(r) \/ Query(r)

Next ==
  \E r \in Requests :
    \/ \E p \in Profiles : \/ \E s \in Submissions : Submit(r, p, s)
                           \/ MyResult(r, p)
                           \/ OpenFeed(r, p)
    \/ Proceed(r)
    \/ Fail(r)

Spec == Init /\ [][Next]_vars

(* Every handler runs in a goroutine of its own, and the database answers. *)
FairSpec == Spec /\ \A r \in Requests : WF_vars(Proceed(r))

-----------------------------------------------------------------------------
Scored == [Traits -> 0..12]
ResultsTyped == [revision : Nat, scores : Scored, kind : Kinds \cup {"none"}]

(* The variables have their types: every score that is computed, stored or *)
(* compared lies in [0,1].                                                 *)
TypeOK ==
  /\ psycho \subseteq [profile : Profiles, revision : Nat \ {0}, scores : Scored,
                       kind : Kinds, answers : SUBSET [question : Questions, value : Options]]
  /\ lock \in [Profiles -> Requests \cup {Nobody}]
  /\ pc \in [Requests -> {"idle"} \cup Answers \cup InFlight]
  /\ req \in [Requests -> [op : {"none", "submit", "result", "feed"}, profile : Profiles,
                           submission : Submissions \cup {NoSubmission},
                           result : ResultsTyped, page : [Profiles -> ResultsTyped],
                           since : [Profiles -> Nat]]]
  /\ received \in Nat

(* No attempt that the service accepts meets a constraint of the tables,   *)
(* however attempts overlap: the revisions of a profile are 1, 2, ... each *)
(* once, and the answers fit user_answer.  No page of the feed fails for a *)
(* vector that is stored.                                                  *)
AcceptedSucceeds ==
  /\ \A r \in Requests : pc[r] \notin {"constraint", "page_failed"}
  /\ \A a, b \in psycho : a.profile = b.profile /\ a.revision = b.revision => a = b
  /\ \A row \in psycho : \A n \in 1..row.revision :
       \E older \in RowsOf(row.profile) : older.revision = n

(* What an attempt or a read shows is what the table holds under the       *)
(* revision that is shown, with the answers of that attempt: attempts are  *)
(* not mixed, and the type shown first is the type shown ever after.       *)
ShownIsStored ==
  \A r \in Requests :
    pc[r] \in {"saved", "result"} =>
      \E row \in RowsOf(req[r].profile) :
        /\ req[r].result = [revision |-> row.revision, scores |-> row.scores,
                            kind |-> row.kind]
        /\ pc[r] = "saved" => row.answers = AnswerSet(req[r].submission.answers)

(* What a request reads was the latest result at some moment of the        *)
(* request: the user's own result, the viewer's vector and the vectors of  *)
(* the page.  The last two need not be of the same moment.                 *)
ReadsAreCurrent ==
  \A r \in Requests :
    /\ pc[r] \in {"result", "no_result", "page"} =>
         req[r].since[req[r].profile] <= req[r].result.revision
    /\ pc[r] = "page" => \A p \in Profiles \ {req[r].profile} :
                           req[r].since[p] <= req[r].page[p].revision

(* Answers that take the side of a prototype in every trait: they agree    *)
(* with the one statement and disagree with the other, or answer both the  *)
(* same.                                                                   *)
Value(answers, q) == (CHOOSE a \in answers : a.question = q).value
Expresses(answers, kind) ==
  \A trait \in Traits :
    LET direct == Value(answers, Direct[trait])
        reverse == Value(answers, Reverse[trait]) IN
    /\ Prototype[kind][trait] = 8 => direct >= 6 /\ reverse <= 2
    /\ Prototype[kind][trait] = 5 => direct = reverse
    /\ Prototype[kind][trait] = 2 => direct <= 2 /\ reverse >= 6

(* Whoever answers like a prototype is given its type and no other,        *)
(* whatever rounding does.                                                 *)
TypeFits ==
  \A row \in psycho, kind \in Kinds : Expresses(row.answers, kind) => row.kind = kind

(* Every attempt, read and page is answered: the waits for the lock of the *)
(* profile end, also after errors.                                         *)
EveryRequestAnswered ==
  \A r \in Requests : pc[r] \in InFlight ~> pc[r] \notin InFlight
=============================================================================
