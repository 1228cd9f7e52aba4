-------------------------- MODULE PsychoTestProofs --------------------------
(***************************************************************************)
(* Proofs about PsychoTest: what ten answers make of scores, of a type and *)
(* of the compatibility of two users, and that attempts which overlap are  *)
(* saved one after the other, for any users, requests and submissions.     *)
(***************************************************************************)
EXTENDS PsychoTest, FiniteSetTheorems, WellFoundedInduction, TLAPS

AnswerRecords == [question : Int, value : Int]

-----------------------------------------------------------------------------
(* Answers and scores. *)

(* Ten answers without a repetition answer every question: the service     *)
(* does not look for a question that is left out, and needs not.           *)
THEOREM EveryQuestionAnswered ==
  ASSUME NEW answers \in Seq(AnswerRecords), ValidAnswers(answers)
  PROVE  \A q \in Questions : \E i \in DOMAIN answers : answers[i].question = q
<1> DEFINE f == [i \in 1..10 |-> answers[i].question]
<1>1. DOMAIN answers = 1..10
  BY DEF ValidAnswers
<1>2. f \in [1..10 -> 1..10]
  BY <1>1 DEF ValidAnswers, Questions
<1>3. \A i, j \in 1..10 : f[i] = f[j] => i = j
  BY <1>1 DEF ValidAnswers
<1>4. f \in Injection(1..10, 1..10)
  BY <1>2, <1>3 DEF Injection, IsInjective
<1>5. IsFiniteSet(1..10)
  <2>1. 1 \in Int /\ 10 \in Int
    OBVIOUS
  <2> QED  BY <2>1, FS_Interval, Zenon
<1>6. f \in Surjection(1..10, 1..10)
  BY <1>4, <1>5, FS_Injection
<1>7. \A q \in 1..10 : \E i \in 1..10 : f[i] = q
  BY <1>6 DEF Surjection
<1> QED  BY <1>1, <1>7 DEF Questions

(* Every question has a value of the scale. *)
LEMMA ValuesAreOptions ==
  ASSUME NEW answers \in Seq(AnswerRecords), ValidAnswers(answers)
  PROVE  Values(answers) \in [Questions -> Options]
<1> SUFFICES ASSUME NEW q \in Questions
             PROVE  Values(answers)[q] \in Options
  BY DEF Values
<1> DEFINE given == {i \in DOMAIN answers : answers[i].question = q}
<1>1. given # {}
  BY EveryQuestionAnswered
<1>2. (CHOOSE i \in given : TRUE) \in DOMAIN answers
  BY <1>1
<1>3. Values(answers)[q] = answers[CHOOSE i \in given : TRUE].value
  BY <1>1 DEF Values
<1> QED  BY <1>2, <1>3 DEF ValidAnswers

LEMMA TraitQuestions ==
  /\ Direct \in [Traits -> Questions]
  /\ Reverse \in [Traits -> Questions]
BY DEF Direct, Reverse, Traits, Questions

(* A score is the difference of two answers, shifted to lie in 0..12. *)
LEMMA ScoreInRange ==
  ASSUME NEW values \in [Questions -> Options], NEW trait \in Traits
  PROVE  Score(values, trait) \in 0..12
<1>1. Direct[trait] \in Questions /\ Reverse[trait] \in Questions
  BY TraitQuestions
<1>2. values[Direct[trait]] \in 1..7 /\ values[Reverse[trait]] \in 1..7
  BY <1>1 DEF Options
<1> QED  BY <1>2 DEF Score

LEMMA BigFiveIsScore ==
  ASSUME NEW answers, NEW trait \in Traits
  PROVE  BigFive(answers)[trait] = Score(Values(answers), trait)
BY DEF BigFive, At, Traits

LEMMA BigFiveDomain ==
  ASSUME NEW answers
  PROVE  BigFive(answers) = [trait \in Traits |-> BigFive(answers)[trait]]
BY DEF BigFive, At, Traits

(* The vector of an attempt that is accepted is a vector in [0,1], of      *)
(* which CalculateDistance can take the distance.                          *)
THEOREM AcceptedScoresValid ==
  ASSUME NEW answers \in Seq(AnswerRecords), ValidAnswers(answers)
  PROVE  BigFive(answers) \in Scored /\ IsValid(BigFive(answers))
<1>1. ASSUME NEW trait \in Traits
      PROVE  BigFive(answers)[trait] \in 0..12
  BY ValuesAreOptions, ScoreInRange, BigFiveIsScore
<1>2. IsValid(BigFive(answers))
  BY <1>1 DEF IsValid
<1>3. BigFive(answers) \in Scored
  BY <1>1, BigFiveDomain DEF Scored
<1> QED  BY <1>2, <1>3

-----------------------------------------------------------------------------
(* Types. *)

(* No two prototypes are the same. *)
LEMMA PrototypesDiffer ==
  ASSUME NEW kind \in Kinds, NEW other \in Kinds, kind # other
  PROVE  \E trait \in Traits : Prototype[kind][trait] # Prototype[other][trait]
BY SMTT(60) DEF Prototype, Kinds, Traits, At

LEMMA PrototypeValues ==
  ASSUME NEW kind \in Kinds, NEW trait \in Traits
  PROVE  Prototype[kind][trait] \in {2, 5, 8}
BY SMTT(60) DEF Prototype, Kinds, Traits, At

(* In the answers that are stored, a question has the value that scores    *)
(* are computed from.                                                      *)
LEMMA ValueIsStored ==
  ASSUME NEW answers \in Seq(AnswerRecords), ValidAnswers(answers), NEW q \in Questions
  PROVE  Value(AnswerSet(answers), q) = Values(answers)[q]
<1> DEFINE given == {i \in DOMAIN answers : answers[i].question = q}
           stored == AnswerSet(answers)
<1>1. PICK i \in given : TRUE
  BY EveryQuestionAnswered
<1>2. \A j \in given : j = i
  BY <1>1 DEF ValidAnswers
<1>3. Values(answers)[q] = answers[i].value
  BY <1>1, <1>2 DEF Values
<1>4. \A a \in stored : a.question = q => a = answers[i]
  BY <1>2 DEF AnswerSet
<1>5. answers[i] \in stored /\ answers[i].question = q
  BY <1>1 DEF AnswerSet
<1>6. (CHOOSE a \in stored : a.question = q) = answers[i]
  BY <1>4, <1>5
<1> QED  BY <1>3, <1>6 DEF Value

(* Answers that express a prototype lie closer to it than to any other in  *)
(* every trait in which the two differ.                                    *)
LEMMA SquareOfExpressed ==
  ASSUME NEW scores \in Scored, NEW trait \in Traits, NEW kind \in Kinds, NEW other \in Kinds,
         Prototype[kind][trait] = 8 => scores[trait] >= 10,
         Prototype[kind][trait] = 5 => scores[trait] = 6,
         Prototype[kind][trait] = 2 => scores[trait] <= 2
  PROVE  /\ SquareAt(scores, kind, trait) \in Nat
         /\ SquareAt(scores, other, trait) \in Nat
         /\ SquareAt(scores, kind, trait) <= SquareAt(scores, other, trait)
         /\ Prototype[kind][trait] # Prototype[other][trait] =>
              SquareAt(scores, kind, trait) < SquareAt(scores, other, trait)
<1> DEFINE s == scores[trait]
           p == Prototype[kind][trait]
           o == Prototype[other][trait]
           sq(x, c) == (5 * x - 6 * c) * (5 * x - 6 * c)
<1>1. s \in 0..12 /\ p \in {2, 5, 8} /\ o \in {2, 5, 8}
  BY PrototypeValues DEF Scored
<1>2. /\ SquareAt(scores, kind, trait) = sq(s, p)
      /\ SquareAt(scores, other, trait) = sq(s, o)
  BY DEF SquareAt
<1>3. /\ p = 8 => s \in {10, 11, 12}
      /\ p = 5 => s = 6
      /\ p = 2 => s \in {0, 1, 2}
  BY <1>1
<1> HIDE DEF s, p, o
<1>4. /\ sq(s, p) \in Nat /\ sq(s, o) \in Nat /\ sq(s, p) <= sq(s, o)
      /\ p # o => sq(s, p) < sq(s, o)
  <2>1. ASSUME NEW x \in 0..12, NEW c \in {2, 5, 8}
        PROVE  sq(x, c) \in Nat
    <3>1. x \in {0, 1, 2, 3, 4, 5, 6, 7, 8, 9, 10, 11, 12}
      OBVIOUS
    <3> QED  BY <3>1
  <2>2. CASE p = 8
    BY <1>1, <1>3, <2>1, <2>2
  <2>3. CASE p = 5
    BY <1>1, <1>3, <2>1, <2>3
  <2>4. CASE p = 2
    BY <1>1, <1>3, <2>1, <2>4
  <2> QED  BY <1>1, <2>2, <2>3, <2>4
<1> QED  BY <1>2, <1>4 DEF p, o

(* Whoever answers like a prototype has it as the only nearest one, by a   *)
(* distance that no rounding of doubles bridges.                           *)
THEOREM ExpressedIsNearest ==
  ASSUME NEW answers \in Seq(AnswerRecords), ValidAnswers(answers),
         NEW kind \in Kinds, Expresses(AnswerSet(answers), kind)
  PROVE  \A nearest \in Nearest(BigFive(answers)) : nearest = kind
<1> DEFINE scores == BigFive(answers)
<1>1. scores \in Scored
  BY AcceptedScoresValid
<1>2. ASSUME NEW trait \in Traits
      PROVE  /\ Prototype[kind][trait] = 8 => scores[trait] >= 10
             /\ Prototype[kind][trait] = 5 => scores[trait] = 6
             /\ Prototype[kind][trait] = 2 => scores[trait] <= 2
  <2> DEFINE direct == Values(answers)[Direct[trait]]
             reverse == Values(answers)[Reverse[trait]]
  <2>1. Direct[trait] \in Questions /\ Reverse[trait] \in Questions
    BY TraitQuestions
  <2>2. direct \in 1..7 /\ reverse \in 1..7
    BY <2>1, ValuesAreOptions DEF Options
  <2>3. scores[trait] = direct + 6 - reverse
    BY BigFiveIsScore DEF Score
  <2>4. /\ Value(AnswerSet(answers), Direct[trait]) = direct
        /\ Value(AnswerSet(answers), Reverse[trait]) = reverse
    BY <2>1, ValueIsStored
  <2>5. /\ Prototype[kind][trait] = 8 => direct >= 6 /\ reverse <= 2
        /\ Prototype[kind][trait] = 5 => direct = reverse
        /\ Prototype[kind][trait] = 2 => direct <= 2 /\ reverse >= 6
    BY <2>4 DEF Expresses
  <2> HIDE DEF direct, reverse, scores
  <2> QED  BY <2>2, <2>3, <2>5
<1> SUFFICES ASSUME NEW nearest \in Nearest(scores), nearest # kind
             PROVE  FALSE
  OBVIOUS
<1>3. nearest \in Kinds /\ Squared(scores, nearest) <= Squared(scores, kind)
  BY DEF Nearest
<1> HIDE DEF scores
<1>4. ASSUME NEW trait \in Traits
      PROVE  /\ SquareAt(scores, kind, trait) \in Nat
             /\ SquareAt(scores, nearest, trait) \in Nat
             /\ SquareAt(scores, kind, trait) <= SquareAt(scores, nearest, trait)
             /\ Prototype[kind][trait] # Prototype[nearest][trait] =>
                  SquareAt(scores, kind, trait) < SquareAt(scores, nearest, trait)
  BY <1>1, <1>2, <1>3, SquareOfExpressed
<1>5. PICK trait \in Traits : Prototype[kind][trait] # Prototype[nearest][trait]
  BY <1>3, PrototypesDiffer
<1>6. /\ Squared(scores, kind) \in Int /\ Squared(scores, nearest) \in Int
      /\ Squared(scores, kind) < Squared(scores, nearest)
  <2> DEFINE a == SquareAt(scores, kind, "openness")
             b == SquareAt(scores, kind, "conscientiousness")
             c == SquareAt(scores, kind, "extraversion")
             d == SquareAt(scores, kind, "agreeableness")
             e == SquareAt(scores, kind, "neuroticism")
             v == SquareAt(scores, nearest, "openness")
             w == SquareAt(scores, nearest, "conscientiousness")
             x == SquareAt(scores, nearest, "extraversion")
             y == SquareAt(scores, nearest, "agreeableness")
             z == SquareAt(scores, nearest, "neuroticism")
  <2>1. /\ Squared(scores, kind) = a + b + c + d + e
        /\ Squared(scores, nearest) = v + w + x + y + z
    BY DEF Squared
  <2>2. /\ a \in Nat /\ v \in Nat /\ a <= v
        /\ b \in Nat /\ w \in Nat /\ b <= w
        /\ c \in Nat /\ x \in Nat /\ c <= x
        /\ d \in Nat /\ y \in Nat /\ d <= y
        /\ e \in Nat /\ z \in Nat /\ e <= z
    BY <1>4 DEF Traits
  <2>3. a < v \/ b < w \/ c < x \/ d < y \/ e < z
    BY <1>4, <1>5 DEF Traits
  <2> HIDE DEF a, b, c, d, e, v, w, x, y, z
  <2> QED  BY <2>1, <2>2, <2>3
<1> QED  BY <1>3, <1>6

-----------------------------------------------------------------------------
(* Compatibility. *)

(* Two users with results are compatible to a degree in [0,1], the same    *)
(* from both sides, and to the degree 1 if their results are equal.        *)
THEOREM CompatibilityBounded ==
  ASSUME NEW v \in Scored, NEW w \in Scored
  PROVE  /\ Compatibility(v, w) \in 0..60
         /\ Compatibility(v, w) = Compatibility(w, v)
         /\ v = w <=> Compatibility(v, w) = 60
<1>1. ASSUME NEW trait \in Traits
      PROVE  /\ Gap(v, w, trait) \in 0..12
             /\ Gap(v, w, trait) = Gap(w, v, trait)
             /\ Gap(v, w, trait) = 0 <=> v[trait] = w[trait]
  BY DEF Scored, Gap
<1> DEFINE a == Gap(v, w, "agreeableness")
           b == Gap(v, w, "conscientiousness")
           c == Gap(v, w, "extraversion")
           d == Gap(v, w, "neuroticism")
           e == Gap(v, w, "openness")
<1>2. Difference(v, w) = a + b + c + d + e /\ Difference(w, v) = a + b + c + d + e
  BY <1>1 DEF Difference, Traits
<1>3. a \in 0..12 /\ b \in 0..12 /\ c \in 0..12 /\ d \in 0..12 /\ e \in 0..12
  BY <1>1 DEF Traits
<1>4. v = w <=> a = 0 /\ b = 0 /\ c = 0 /\ d = 0 /\ e = 0
  <2>1. v = w <=> \A trait \in Traits : v[trait] = w[trait]
    BY DEF Scored
  <2>2. v = w <=> \A trait \in Traits : Gap(v, w, trait) = 0
    BY <1>1, <2>1
  <2> QED  BY <2>2 DEF Traits
<1> HIDE DEF a, b, c, d, e
<1> QED  BY <1>2, <1>3, <1>4 DEF Compatibility

-----------------------------------------------------------------------------
(* The inductive invariant. *)

Steps == {"idle"} \cup Answers \cup InFlight

RequestType ==
  [op : {"none", "submit", "result", "feed"}, profile : Profiles,
   submission : Submissions \cup {NoSubmission}, result : ResultsTyped,
   page : [Profiles -> ResultsTyped], since : [Profiles -> Nat]]

(* What a row or a request has from an attempt: the scores and a type of   *)
(* its answers.                                                            *)
Computed(scores, kind, answers) ==
  ValidAnswers(answers) /\ scores = BigFive(answers) /\ kind \in Nearest(scores)

(* The revisions of a profile are 1, 2, ... each once. *)
Numbered ==
  /\ \A a, b \in psycho : a.profile = b.profile /\ a.revision = b.revision => a = b
  /\ \A row \in psycho : \A n \in 1..row.revision :
       \E older \in RowsOf(row.profile) : older.revision = n

RowsComputed ==
  \A row \in psycho : \E s \in Submissions :
    Computed(row.scores, row.kind, s.answers) /\ row.answers = AnswerSet(s.answers)

(* A result that is shown, and a revision that a reader may rely on. *)
Shown(r) ==
  \E row \in RowsOf(req[r].profile) :
    /\ req[r].result = [revision |-> row.revision, scores |-> row.scores, kind |-> row.kind]
    /\ pc[r] = "saved" => row.answers = AnswerSet(req[r].submission.answers)
Reached(n, p) == n = 0 \/ \E row \in RowsOf(p) : n <= row.revision

(* What each request may rely on at the step it is at. *)
Writer(r) ==
  /\ pc[r] \in Writing => lock[req[r].profile] = r
  /\ pc[r] \in {"lock"} \cup Writing =>
       /\ req[r].submission \in Submissions
       /\ Computed(req[r].result.scores, req[r].result.kind, req[r].submission.answers)
  /\ pc[r] \in {"insert", "answers", "commit"} =>
       IsLastRevision(req[r].result.revision - 1, req[r].profile)
Reader(r) ==
  /\ pc[r] \in {"read", "viewer", "query"} =>
       \A p \in Profiles : Reached(req[r].since[p], p)
  /\ pc[r] \in {"result", "no_result", "query", "page"} =>
       req[r].since[req[r].profile] <= req[r].result.revision
  /\ pc[r] = "page" => \A p \in Profiles \ {req[r].profile} :
                         req[r].since[p] <= req[r].page[p].revision
StepInv(r) ==
  /\ Writer(r)
  /\ Reader(r)
  /\ pc[r] \in {"saved", "result"} => Shown(r)
  /\ pc[r] \notin {"constraint", "page_failed"}

Inv == TypeOK /\ Numbered /\ RowsComputed /\ \A r \in Requests : StepInv(r)

-----------------------------------------------------------------------------
(* Types of what requests are given. *)

LEMMA BlankTyped == Blank \in RequestType
<1>1. (CHOOSE p \in Profiles : TRUE) \in Profiles
  BY ProfilesExist
<1>2. NoScores \in Scored
  BY DEF NoScores, Scored
<1>3. NoResult \in ResultsTyped
  BY <1>2 DEF NoResult, ResultsTyped
<1>4. NoPage \in [Profiles -> ResultsTyped]
  BY <1>3 DEF NoPage
<1> QED  BY <1>1, <1>3, <1>4 DEF Blank, RequestType

LEMMA SubmissionAnswers ==
  ASSUME NEW s \in Submissions PROVE s.answers \in Seq(AnswerRecords)
BY SubmissionsTyped DEF AnswerRecords

LEMMA ResultsAreTyped ==
  ASSUME TypeOK, NEW p \in Profiles PROVE Results(p) \subseteq ResultsTyped
<1>1. NoResult \in ResultsTyped
  BY DEF NoResult, NoScores, Scored, ResultsTyped
<1>2. ASSUME NEW row \in RowsOf(p)
      PROVE  [revision |-> row.revision, scores |-> row.scores, kind |-> row.kind] \in ResultsTyped
  BY DEF RowsOf, TypeOK, ResultsTyped
<1> QED  BY <1>1, <1>2 DEF Results

LEMMA ReleasedTyped ==
  ASSUME TypeOK, NEW r \in Requests
  PROVE  /\ Released(r) \in [Profiles -> Requests \cup {Nobody}]
         /\ \A q \in Requests \ {r}, p \in Profiles : lock[p] = q => Released(r)[p] = q
BY DEF Released, TypeOK

(* A vector that has been stored is valid. *)
LEMMA ScoredIsValid ==
  ASSUME NEW scores \in Scored PROVE IsValid(scores)
BY DEF Scored, IsValid

-----------------------------------------------------------------------------
LEMMA InvInit == Init => Inv
<1> SUFFICES ASSUME Init PROVE Inv
  OBVIOUS
<1>1. TypeOK
  <2>1. lock \in [Profiles -> Requests \cup {Nobody}]
    BY DEF Init
  <2>2. pc \in [Requests -> Steps]
    BY DEF Init, Steps
  <2>3. req \in [Requests -> RequestType]
    BY BlankTyped DEF Init
  <2> QED  BY <2>1, <2>2, <2>3 DEF Init, TypeOK, Steps, RequestType
<1>2. Numbered /\ RowsComputed
  BY DEF Init, Numbered, RowsComputed
<1>3. ASSUME NEW r \in Requests PROVE StepInv(r)
  <2>1. pc[r] = "idle"
    BY DEF Init
  <2> QED  BY <2>1 DEF StepInv, Writer, Reader, Writing
<1> QED  BY <1>1, <1>2, <1>3 DEF Inv

(* A step of r that keeps the rows: what is left to show is what r relies  *)
(* on afterwards.                                                          *)
LEMMA MoveKeepsInv ==
  ASSUME Inv, NEW r \in Requests, NEW step \in Steps, NEW record \in RequestType,
         pc' = [pc EXCEPT ![r] = step], req' = [req EXCEPT ![r] = record],
         psycho' = psycho, received' \in Nat,
         lock' \in [Profiles -> Requests \cup {Nobody}],
         \A q \in Requests \ {r}, p \in Profiles : lock[p] = q => lock'[p] = q,
         StepInv(r)'
  PROVE  Inv'
<1>1. TypeOK /\ pc \in [Requests -> Steps] /\ req \in [Requests -> RequestType]
  BY DEF Inv, TypeOK, Steps, RequestType
<1>2. pc' \in [Requests -> Steps] /\ req' \in [Requests -> RequestType]
  BY <1>1
<1>3. TypeOK'
  BY <1>1, <1>2 DEF TypeOK, Steps, RequestType
<1>4. Numbered' /\ RowsComputed'
  BY DEF Inv, Numbered, RowsComputed, RowsOf
<1>5. ASSUME NEW q \in Requests, q # r PROVE StepInv(q)'
  <2>1. StepInv(q) /\ pc'[q] = pc[q] /\ req'[q] = req[q] /\ req[q].profile \in Profiles
    BY <1>1, <1>5 DEF Inv, RequestType
  <2>2. Writer(q)'
    BY <1>5, <2>1 DEF StepInv, Writer, IsLastRevision, RowsOf
  <2>3. Reader(q)'
    BY <2>1 DEF StepInv, Reader, Reached, RowsOf
  <2>4. (pc[q] \in {"saved", "result"} => Shown(q))'
    BY <2>1 DEF StepInv, Shown, RowsOf
  <2> QED  BY <2>1, <2>2, <2>3, <2>4 DEF StepInv
<1> QED  BY <1>3, <1>4, <1>5 DEF Inv

(* A request that is refused relies on nothing. *)
LEMMA RefuseKeepsInv ==
  ASSUME Inv, NEW r \in Requests,
         NEW answer \in {"bad_request", "test_not_found", "invalid_answers", "failed"},
         Refuse(r, answer), psycho' = psycho, received' \in Nat,
         lock' = lock \/ lock' = Released(r)
  PROVE  Inv'
<1>1. TypeOK /\ r \in DOMAIN pc /\ answer \in Steps
  BY DEF Inv, TypeOK, Steps, Answers
<1>2. /\ pc' = [pc EXCEPT ![r] = answer]
      /\ req' = [req EXCEPT ![r] = Blank]
      /\ pc'[r] = answer
  BY <1>1 DEF Refuse, Goto
<1>3. /\ lock' \in [Profiles -> Requests \cup {Nobody}]
      /\ \A q \in Requests \ {r}, p \in Profiles : lock[p] = q => lock'[p] = q
  BY <1>1, ReleasedTyped DEF TypeOK
<1>4. StepInv(r)'
  BY <1>2 DEF StepInv, Writer, Reader, Writing
<1> QED  BY <1>1, <1>2, <1>3, <1>4, BlankTyped, MoveKeepsInv

LEMMA FailKeepsInv ==
  ASSUME Inv, NEW r \in Requests, Fail(r) PROVE Inv'
<1>1. received' \in Nat
  BY DEF Inv, TypeOK, Fail
<1> QED  BY <1>1, RefuseKeepsInv DEF Fail

LEMMA SubmitKeepsInv ==
  ASSUME Inv, NEW r \in Requests, NEW p \in Profiles, NEW s \in Submissions, Submit(r, p, s)
  PROVE  Inv'
<1>1. TypeOK /\ received' \in Nat /\ psycho' = psycho /\ lock' = lock
  <2>1. TypeOK /\ received \in Nat
    BY DEF Inv, TypeOK
  <2>2. Receive(r)
    BY DEF Submit
  <2> QED  BY <2>1, <2>2 DEF Receive
<1>2. CASE \E answer \in {"bad_request", "test_not_found", "invalid_answers"} :
             Refuse(r, answer)
  <2>1. PICK answer \in {"bad_request", "test_not_found", "invalid_answers"} :
          Refuse(r, answer)
    BY <1>2
  <2>2. answer \in {"bad_request", "test_not_found", "invalid_answers", "failed"}
    BY <2>1
  <2> QED  BY <1>1, <2>1, <2>2, RefuseKeepsInv
<1>3. CASE /\ ValidAnswers(s.answers)
           /\ \E scores \in {BigFive(s.answers)} : \E kind \in Nearest(scores) :
                req' = [req EXCEPT ![r] =
                          [Blank EXCEPT !.op = "submit", !.profile = p, !.submission = s,
                             !.result = [revision |-> 0, scores |-> scores, kind |-> kind]]]
           /\ Goto(r, "lock")
  <2>1. PICK kind \in Nearest(BigFive(s.answers)) :
          req' = [req EXCEPT ![r] =
                    [Blank EXCEPT !.op = "submit", !.profile = p, !.submission = s,
                       !.result = [revision |-> 0, scores |-> BigFive(s.answers),
                                   kind |-> kind]]]
    BY <1>3
  <2> DEFINE record == [Blank EXCEPT !.op = "submit", !.profile = p, !.submission = s,
                          !.result = [revision |-> 0, scores |-> BigFive(s.answers),
                                      kind |-> kind]]
  <2>2. BigFive(s.answers) \in Scored /\ kind \in Kinds
    BY <1>3, SubmissionAnswers, AcceptedScoresValid, BigFiveDomain DEF Scored, Nearest
  <2>3. record \in RequestType
    BY <2>2, BlankTyped DEF RequestType, ResultsTyped
  <2>4. /\ record.submission = s /\ record.profile = p
        /\ record.result.scores = BigFive(s.answers) /\ record.result.kind = kind
    BY BlankTyped DEF RequestType
  <2> HIDE DEF record
  <2>5. "lock" \in Steps /\ r \in DOMAIN pc /\ r \in DOMAIN req
    BY <1>1 DEF TypeOK, Steps, InFlight
  <2>6. /\ pc' = [pc EXCEPT ![r] = "lock"] /\ pc'[r] = "lock"
        /\ req' = [req EXCEPT ![r] = record] /\ req'[r] = record
    BY <1>3, <2>1, <2>5 DEF Goto, record
  <2>7. Writer(r)' /\ Reader(r)'
    BY <1>3, <2>4, <2>6 DEF Writer, Reader, Writing, Computed
  <2>8. StepInv(r)'
    BY <2>6, <2>7 DEF StepInv
  <2>9. /\ lock' \in [Profiles -> Requests \cup {Nobody}]
        /\ \A q \in Requests \ {r}, o \in Profiles : lock[o] = q => lock'[o] = q
    BY <1>1 DEF TypeOK
  <2> QED  BY <1>1, <2>3, <2>5, <2>6, <2>8, <2>9, MoveKeepsInv
<1> QED  BY <1>2, <1>3 DEF Submit

(* A request to read starts with what was the latest revision. *)
LEMMA AskKeepsInv ==
  ASSUME Inv, NEW r \in Requests, NEW p \in Profiles, NEW op \in {"result", "feed"},
         NEW step \in {"read", "viewer"}, Receive(r), Ask(r, op, p), Goto(r, step)
  PROVE  Inv'
<1>1. TypeOK /\ received' \in Nat /\ psycho' = psycho /\ lock' = lock
  <2>1. TypeOK /\ received \in Nat
    BY DEF Inv, TypeOK
  <2> QED  BY <2>1 DEF Receive
<1>2. PICK last \in [Profiles -> {0} \cup {row.revision : row \in psycho}] :
        /\ \A q \in Profiles : IsLastRevision(last[q], q)
        /\ req' = [req EXCEPT ![r] = [Blank EXCEPT !.op = op, !.profile = p, !.since = last]]
  BY DEF Ask
<1> DEFINE record == [Blank EXCEPT !.op = op, !.profile = p, !.since = last]
<1>3. last \in [Profiles -> Nat]
  BY <1>1 DEF TypeOK
<1>4. record \in RequestType /\ record.since = last
  BY <1>3, BlankTyped DEF RequestType
<1> HIDE DEF record
<1>5. step \in Steps /\ r \in DOMAIN pc /\ r \in DOMAIN req
  BY <1>1 DEF TypeOK, Steps, InFlight
<1>6. /\ pc' = [pc EXCEPT ![r] = step] /\ pc'[r] = step
      /\ req' = [req EXCEPT ![r] = record] /\ req'[r] = record
  BY <1>2, <1>5 DEF Goto, record
<1>7. \A q \in Profiles : Reached(last[q], q)
  <2> SUFFICES ASSUME NEW q \in Profiles PROVE Reached(last[q], q)
    OBVIOUS
  <2>1. CASE last[q] = 0
    BY <2>1 DEF Reached
  <2>2. CASE \E row \in RowsOf(q) : last[q] = row.revision
    BY <1>1, <1>3, <2>2 DEF Reached
  <2> QED  BY <1>2, <2>1, <2>2 DEF IsLastRevision
<1>8. StepInv(r)'
  <2>1. Writer(r)'
    BY <1>6 DEF Writer, Writing
  <2>2. Reader(r)'
    BY <1>1, <1>4, <1>6, <1>7 DEF Reader, Reached, RowsOf
  <2> QED  BY <1>6, <2>1, <2>2 DEF StepInv
<1>9. /\ lock' \in [Profiles -> Requests \cup {Nobody}]
      /\ \A q \in Requests \ {r}, o \in Profiles : lock[o] = q => lock'[o] = q
  BY <1>1 DEF TypeOK
<1> QED  BY <1>1, <1>4, <1>5, <1>6, <1>8, <1>9, MoveKeepsInv

-----------------------------------------------------------------------------
(* The steps of an attempt.  It holds the lock of its profile from Number  *)
(* on, so that the revision it has computed stays the next one.            *)

LEMMA LockKeepsInv ==
  ASSUME Inv, NEW r \in Requests, Lock(r) PROVE Inv'
<1>1. /\ TypeOK /\ StepInv(r) /\ received' \in Nat /\ psycho' = psycho /\ req' = req
      /\ pc[r] = "lock" /\ lock[req[r].profile] = Nobody
      /\ lock' = [lock EXCEPT ![req[r].profile] = r]
      /\ pc' = [pc EXCEPT ![r] = "number"]
  BY DEF Inv, TypeOK, Lock, MayLock, Goto
<1>2. /\ req \in [Requests -> RequestType] /\ pc \in [Requests -> Steps]
      /\ lock \in [Profiles -> Requests \cup {Nobody}]
  BY <1>1 DEF TypeOK, RequestType, Steps
<1>3. "number" \in Steps /\ req[r].profile \in Profiles /\ req[r] \in RequestType
  BY <1>2 DEF Steps, InFlight, Writing, RequestType
<1>4. req' = [req EXCEPT ![r] = req[r]]
  BY <1>1, <1>2
<1>5. /\ lock' \in [Profiles -> Requests \cup {Nobody}]
      /\ \A q \in Requests \ {r}, p \in Profiles : lock[p] = q => lock'[p] = q
  BY <1>1, <1>2, <1>3, NobodyIsNoRequest
<1>6. pc'[r] = "number" /\ req'[r] = req[r] /\ lock'[req[r].profile] = r
  BY <1>1, <1>2, <1>3
<1>7. Writer(r)' /\ Reader(r)'
  BY <1>1, <1>6 DEF StepInv, Writer, Reader, Writing
<1>8. StepInv(r)'
  BY <1>6, <1>7 DEF StepInv
<1> QED  BY <1>1, <1>3, <1>4, <1>5, <1>8, MoveKeepsInv

LEMMA NumberKeepsInv ==
  ASSUME Inv, NEW r \in Requests, Number(r) PROVE Inv'
<1>1. /\ TypeOK /\ StepInv(r) /\ received' \in Nat /\ psycho' = psycho /\ lock' = lock
      /\ pc[r] = "number" /\ pc' = [pc EXCEPT ![r] = "insert"]
  BY DEF Inv, TypeOK, Number, Goto
<1>2. /\ req \in [Requests -> RequestType] /\ pc \in [Requests -> Steps]
      /\ lock \in [Profiles -> Requests \cup {Nobody}]
  BY <1>1 DEF TypeOK, RequestType, Steps
<1>3. PICK last \in {0} \cup {row.revision : row \in psycho} :
        /\ IsLastRevision(last, req[r].profile)
        /\ req' = [req EXCEPT ![r].result.revision = last + 1]
  BY DEF Number
<1>4. last \in Nat /\ (last + 1) - 1 = last
  BY <1>1 DEF TypeOK
<1> DEFINE result == [req[r].result EXCEPT !.revision = last + 1]
           record == [req[r] EXCEPT !.result = result]
<1>5. /\ req[r] \in RequestType /\ result \in ResultsTyped /\ result.revision = last + 1
      /\ result.scores = req[r].result.scores /\ result.kind = req[r].result.kind
  <2>1. req[r] \in RequestType
    BY <1>2
  <2>2. req[r].result \in ResultsTyped
    BY <2>1 DEF RequestType
  <2>3. last + 1 \in Nat
    BY <1>4
  <2> QED  BY <2>1, <2>2, <2>3 DEF ResultsTyped
<1> HIDE DEF result
<1>6. /\ record \in RequestType /\ record.submission = req[r].submission
      /\ record.profile = req[r].profile /\ record.result.revision = last + 1
      /\ record.result.scores = req[r].result.scores
      /\ record.result.kind = req[r].result.kind
  BY <1>5 DEF RequestType
<1>7. req' = [req EXCEPT ![r] = record]
  BY <1>2, <1>3 DEF result
<1> HIDE DEF record
<1>8. pc'[r] = "insert" /\ req'[r] = record /\ "insert" \in Steps
  BY <1>1, <1>2, <1>7 DEF Steps, InFlight, Writing
<1>9. Writer(r)'
  <2>1. Writer(r) /\ pc[r] \in Writing
    BY <1>1 DEF StepInv, Writing
  <2>2. req'[r].result.revision - 1 = last /\ req'[r].profile = req[r].profile
    BY <1>4, <1>6, <1>8
  <2>3. IsLastRevision(req[r].result.revision - 1, req[r].profile)'
    BY <1>1, <1>3, <2>2 DEF IsLastRevision, RowsOf
  <2> QED  BY <1>1, <1>6, <1>8, <2>1, <2>3 DEF Writer, Writing
<1>10. Reader(r)'
  BY <1>8 DEF Reader
<1>11. StepInv(r)'
  BY <1>8, <1>9, <1>10 DEF StepInv
<1>12. \A q \in Requests \ {r}, p \in Profiles : lock[p] = q => lock'[p] = q
  BY <1>1
<1> QED  BY <1>1, <1>2, <1>6, <1>7, <1>8, <1>11, <1>12, MoveKeepsInv

(* An attempt that goes on to step with what it has. *)
LEMMA GoOnKeepsInv ==
  ASSUME Inv, NEW r \in Requests, NEW step \in {"answers", "commit"},
         pc[r] \in {"insert", "answers"}, Goto(r, step),
         UNCHANGED <<psycho, lock, req, received>>
  PROVE  Inv'
<1>1. TypeOK /\ StepInv(r) /\ received \in Nat /\ received' \in Nat
  BY DEF Inv, TypeOK
<1>2. /\ req \in [Requests -> RequestType] /\ pc \in [Requests -> Steps]
      /\ lock \in [Profiles -> Requests \cup {Nobody}]
  BY <1>1 DEF TypeOK, RequestType, Steps
<1>3. /\ req' = [req EXCEPT ![r] = req[r]] /\ pc' = [pc EXCEPT ![r] = step]
      /\ pc'[r] = step /\ step \in Steps
  BY <1>2 DEF Goto, Steps, InFlight, Writing
<1>4. Writer(r)'
  BY <1>1, <1>3 DEF StepInv, Writer, Writing, IsLastRevision, RowsOf
<1>5. Reader(r)'
  BY <1>3 DEF Reader
<1>6. StepInv(r)'
  BY <1>3, <1>4, <1>5 DEF StepInv
<1>7. \A q \in Requests \ {r}, p \in Profiles : lock[p] = q => lock'[p] = q
  OBVIOUS
<1> QED  BY <1>1, <1>2, <1>3, <1>6, <1>7, MoveKeepsInv

(* The revision that was computed is not in the table. *)
LEMMA InsertKeepsInv ==
  ASSUME Inv, NEW r \in Requests, Insert(r) PROVE Inv'
<1>1. TypeOK /\ StepInv(r) /\ pc[r] = "insert" /\ req \in [Requests -> RequestType]
  BY DEF Inv, TypeOK, RequestType, Insert
<1>2. req[r].result.revision \in Nat
  BY <1>1 DEF RequestType, ResultsTyped
<1>3. IsLastRevision(req[r].result.revision - 1, req[r].profile)
  BY <1>1 DEF StepInv, Writer
<1>4. \A row \in RowsOf(req[r].profile) : row.revision # req[r].result.revision
  BY <1>1, <1>2, <1>3 DEF IsLastRevision, IsLatest, RowsOf, TypeOK
<1>5. Goto(r, "answers") /\ UNCHANGED <<psycho, lock, req, received>>
  BY <1>4 DEF Insert
<1> QED  BY <1>1, <1>5, GoOnKeepsInv

(* Answers that were accepted fit the table. *)
LEMMA InsertAnswersKeepsInv ==
  ASSUME Inv, NEW r \in Requests, InsertAnswers(r) PROVE Inv'
<1>1. StepInv(r) /\ pc[r] = "answers"
  BY DEF Inv, InsertAnswers
<1>2. ValidAnswers(req[r].submission.answers)
  BY <1>1 DEF StepInv, Writer, Writing, Computed
<1>3. AnswersFit(req[r].submission.answers)
  BY <1>2 DEF ValidAnswers, AnswersFit, Questions, Options
<1>4. Goto(r, "commit") /\ UNCHANGED <<psycho, lock, req, received>>
  BY <1>3 DEF InsertAnswers
<1> QED  BY <1>1, <1>4, GoOnKeepsInv

(* The row of an attempt has the type of the rows, the next revision of    *)
(* its profile and a result that its answers give.                         *)
LEMMA NewRowFits ==
  ASSUME Inv, NEW r \in Requests, pc[r] = "commit"
  PROVE  /\ NewRow(r) \in [profile : Profiles, revision : Nat \ {0}, scores : Scored,
                           kind : Kinds,
                           answers : SUBSET [question : Questions, value : Options]]
         /\ NewRow(r).profile = req[r].profile
         /\ IsLastRevision(NewRow(r).revision - 1, req[r].profile)
         /\ \E s \in Submissions :
              /\ Computed(NewRow(r).scores, NewRow(r).kind, s.answers)
              /\ NewRow(r).answers = AnswerSet(s.answers)
<1>1. TypeOK /\ StepInv(r) /\ req \in [Requests -> RequestType]
  BY DEF Inv, TypeOK, RequestType
<1>2. req[r].profile \in Profiles /\ req[r].result \in ResultsTyped
  BY <1>1 DEF RequestType
<1>3. /\ req[r].submission \in Submissions
      /\ Computed(req[r].result.scores, req[r].result.kind, req[r].submission.answers)
      /\ IsLastRevision(req[r].result.revision - 1, req[r].profile)
  BY <1>1 DEF StepInv, Writer, Writing
<1>4. req[r].result.revision \in Nat /\ req[r].result.scores \in Scored
  BY <1>2 DEF ResultsTyped
<1>5. req[r].result.revision # 0
  <2>1. \A row \in RowsOf(req[r].profile) : row.revision \in Nat
    BY <1>1 DEF TypeOK, RowsOf
  <2> QED  BY <1>3, <1>4, <2>1 DEF IsLastRevision
<1>6. req[r].result.kind \in Kinds
  BY <1>3 DEF Computed, Nearest
<1>7. AnswerSet(req[r].submission.answers) \subseteq [question : Questions, value : Options]
  <2>1. ValidAnswers(req[r].submission.answers)
    BY <1>3 DEF Computed
  <2>2. req[r].submission.answers \in Seq(AnswerRecords)
    BY <1>3, SubmissionAnswers
  <2>3. ASSUME NEW i \in DOMAIN req[r].submission.answers
        PROVE  req[r].submission.answers[i] \in [question : Questions, value : Options]
    <3>1. req[r].submission.answers[i] \in AnswerRecords
      BY <2>2
    <3>2. /\ req[r].submission.answers[i].question \in Questions
          /\ req[r].submission.answers[i].value \in Options
      BY <2>1 DEF ValidAnswers
    <3> QED  BY <3>1, <3>2 DEF AnswerRecords
  <2> QED  BY <2>3 DEF AnswerSet
<1>8. /\ NewRow(r).profile = req[r].profile
      /\ NewRow(r).revision = req[r].result.revision
      /\ NewRow(r).scores = req[r].result.scores
      /\ NewRow(r).kind = req[r].result.kind
      /\ NewRow(r).answers = AnswerSet(req[r].submission.answers)
  BY DEF NewRow
<1>9. NewRow(r) \in [profile : Profiles, revision : Nat \ {0}, scores : Scored,
                     kind : Kinds,
                     answers : SUBSET [question : Questions, value : Options]]
  BY <1>2, <1>4, <1>5, <1>6, <1>7 DEF NewRow
<1> QED  BY <1>3, <1>8, <1>9

(* A row with the next revision of its profile keeps the revisions 1, 2,   *)
(* ... each once.                                                          *)
LEMMA RowKeepsNumbered ==
  ASSUME TypeOK, Numbered, NEW row, row.revision \in Nat \ {0},
         IsLastRevision(row.revision - 1, row.profile), psycho' = psycho \cup {row}
  PROVE  Numbered'
<1>1. \A old \in psycho : old.revision \in Nat
  BY DEF TypeOK
<1>2. \A old \in RowsOf(row.profile) : old.revision < row.revision
  BY <1>1 DEF IsLastRevision, IsLatest, RowsOf
<1>3. \A n \in 1..(row.revision - 1) : \E old \in RowsOf(row.profile) : old.revision = n
  <2> SUFFICES ASSUME NEW n \in 1..(row.revision - 1)
               PROVE  \E old \in RowsOf(row.profile) : old.revision = n
    OBVIOUS
  <2>1. PICK last \in RowsOf(row.profile) : row.revision - 1 = last.revision
    BY DEF IsLastRevision
  <2>2. last \in psycho /\ last.profile = row.profile
    BY <2>1 DEF RowsOf
  <2> QED  BY <2>1, <2>2 DEF Numbered
<1>4. ASSUME NEW a \in psycho', NEW b \in psycho',
             a.profile = b.profile, a.revision = b.revision
      PROVE  a = b
  BY <1>1, <1>2, <1>4 DEF Numbered, RowsOf
<1>5. ASSUME NEW a \in psycho', NEW n \in 1..a.revision
      PROVE  \E older \in RowsOf(a.profile)' : older.revision = n
  <2>1. CASE a \in psycho
    BY <2>1, <1>5 DEF Numbered, RowsOf
  <2>2. CASE a = row /\ n = row.revision
    BY <2>2 DEF RowsOf
  <2>3. CASE a = row /\ n # row.revision
    BY <1>3, <1>5, <2>3 DEF RowsOf
  <2> QED  BY <2>1, <2>2, <2>3
<1> QED  BY <1>4, <1>5 DEF Numbered

LEMMA CommitKeepsInv ==
  ASSUME Inv, NEW r \in Requests, Commit(r) PROVE Inv'
<1>1. /\ TypeOK /\ StepInv(r) /\ pc[r] = "commit" /\ received' = received
      /\ psycho' = psycho \cup {NewRow(r)} /\ lock' = Released(r)
      /\ (Goto(r, "saved") /\ UNCHANGED req) \/ Refuse(r, "failed")
  BY DEF Inv, Commit
<1>2. /\ req \in [Requests -> RequestType] /\ pc \in [Requests -> Steps]
  BY <1>1 DEF TypeOK, RequestType, Steps
<1>3. /\ \A q \in Requests \ {r} : pc'[q] = pc[q] /\ req'[q] = req[q]
      /\ req' \in [Requests -> RequestType] /\ pc' \in [Requests -> Steps]
      /\ \/ pc'[r] = "saved" /\ req'[r] = req[r]
         \/ pc'[r] = "failed"
  <2>1. CASE Goto(r, "saved") /\ UNCHANGED req
    BY <1>2, <2>1 DEF Goto, Steps, Answers
  <2>2. CASE Refuse(r, "failed")
    BY <1>2, <2>2, BlankTyped DEF Refuse, Goto, Steps, Answers
  <2> QED  BY <1>1, <2>1, <2>2
<1>4. TypeOK'
  <2>1. psycho' \subseteq [profile : Profiles, revision : Nat \ {0}, scores : Scored,
                           kind : Kinds,
                           answers : SUBSET [question : Questions, value : Options]]
    BY <1>1, NewRowFits DEF TypeOK
  <2>2. lock' \in [Profiles -> Requests \cup {Nobody}]
    BY <1>1, ReleasedTyped
  <2>3. received' \in Nat
    BY <1>1 DEF TypeOK
  <2> QED  BY <1>3, <2>1, <2>2, <2>3 DEF TypeOK, RequestType, Steps
<1>5. Numbered'
  <2>1. NewRow(r).revision \in Nat \ {0} /\ NewRow(r).profile = req[r].profile
    BY <1>1, NewRowFits
  <2> QED  BY <1>1, <2>1, NewRowFits, RowKeepsNumbered DEF Inv
<1>6. RowsComputed'
  BY <1>1, NewRowFits DEF Inv, RowsComputed
<1>7. \A p \in Profiles : RowsOf(p) \subseteq RowsOf(p)'
  BY <1>1 DEF RowsOf
<1>8. ASSUME NEW q \in Requests, q # r PROVE StepInv(q)'
  <2>1. StepInv(q) /\ pc'[q] = pc[q] /\ req'[q] = req[q] /\ req[q].profile \in Profiles
    BY <1>2, <1>3, <1>8 DEF Inv, RequestType
  <2>2. Writer(q)'
    <3>1. CASE pc[q] \in Writing
      <4>1. lock[req[q].profile] = q /\ lock[req[r].profile] = r
        BY <1>1, <2>1, <3>1 DEF StepInv, Writer, Writing
      <4>2. lock'[req[q].profile] = q
        BY <1>1, <1>8, <2>1, <4>1, ReleasedTyped
      <4>3. NewRow(r).profile # req[q].profile
        BY <1>1, <1>8, <4>1, NewRowFits
      <4>4. RowsOf(req[q].profile)' = RowsOf(req[q].profile)
        BY <1>1, <2>1, <4>3 DEF RowsOf
      <4> QED  BY <2>1, <4>2, <4>4 DEF StepInv, Writer, IsLastRevision
    <3>2. CASE pc[q] \notin Writing
      BY <2>1, <3>2 DEF StepInv, Writer, Writing
    <3> QED  BY <3>1, <3>2
  <2>3. Reader(q)'
    <3>1. ASSUME NEW p \in Profiles, NEW n, Reached(n, p) PROVE Reached(n, p)'
      BY <1>7, <3>1 DEF Reached
    <3> QED  BY <2>1, <3>1 DEF StepInv, Reader
  <2>4. (pc[q] \in {"saved", "result"} => Shown(q))'
    <3> SUFFICES ASSUME pc[q] \in {"saved", "result"} PROVE Shown(q)'
      BY <2>1
    <3>1. Shown(q)
      BY <2>1 DEF StepInv
    <3> QED  BY <1>7, <2>1, <3>1 DEF Shown
  <2> QED  BY <2>1, <2>2, <2>3, <2>4 DEF StepInv
<1>9. StepInv(r)'
  <2>1. Writer(r)' /\ Reader(r)'
    BY <1>3 DEF Writer, Reader, Writing
  <2>2. CASE pc'[r] = "saved" /\ req'[r] = req[r]
    <3>1. NewRow(r) \in RowsOf(req[r].profile)'
      BY <1>1, <2>2, NewRowFits DEF RowsOf
    <3>2. req[r].result \in ResultsTyped
      BY <1>2 DEF RequestType
    <3>3. /\ req[r].result = [revision |-> NewRow(r).revision, scores |-> NewRow(r).scores,
                              kind |-> NewRow(r).kind]
          /\ NewRow(r).answers = AnswerSet(req[r].submission.answers)
      BY <3>2 DEF NewRow, ResultsTyped
    <3>4. Shown(r)'
      BY <2>2, <3>1, <3>3 DEF Shown
    <3> QED  BY <2>1, <2>2, <3>4 DEF StepInv
  <2>3. CASE pc'[r] = "failed"
    BY <2>1, <2>3 DEF StepInv
  <2> QED  BY <1>3, <2>2, <2>3
<1> QED  BY <1>4, <1>5, <1>6, <1>8, <1>9 DEF Inv

-----------------------------------------------------------------------------
(* The steps of a reader. *)

(* What a SELECT of the latest row returns is no older than what there was *)
(* when the request came.                                                  *)
LEMMA CurrentIsReached ==
  ASSUME TypeOK, NEW p \in Profiles, NEW n \in Nat, Reached(n, p),
         NEW result \in Results(p), IsCurrent(result, p)
  PROVE  n <= result.revision
<1>1. \A row \in RowsOf(p) : row.revision \in Nat
  BY DEF TypeOK, RowsOf
<1>2. CASE result = NoResult /\ RowsOf(p) = {}
  BY <1>2 DEF NoResult, Reached
<1>3. CASE \E row \in RowsOf(p) :
             /\ IsLatest(row, RowsOf(p))
             /\ result = [revision |-> row.revision, scores |-> row.scores,
                          kind |-> row.kind]
  <2>1. PICK row \in RowsOf(p) : /\ IsLatest(row, RowsOf(p))
                                 /\ result = [revision |-> row.revision,
                                              scores |-> row.scores, kind |-> row.kind]
    BY <1>3
  <2>2. result.revision = row.revision
    BY <2>1
  <2> QED  BY <1>1, <2>1, <2>2 DEF IsLatest, Reached
<1> QED  BY <1>2, <1>3 DEF IsCurrent

(* A request that has read result as the result of its profile. *)
LEMMA HasRead ==
  ASSUME Inv, NEW r \in Requests, pc[r] \in {"read", "viewer"},
         NEW result \in Results(req[r].profile), IsCurrent(result, req[r].profile),
         req' = [req EXCEPT ![r].result = result]
  PROVE  /\ TypeOK /\ req[r] \in RequestType /\ pc \in [Requests -> Steps]
         /\ [req[r] EXCEPT !.result = result] \in RequestType
         /\ req' = [req EXCEPT ![r] = [req[r] EXCEPT !.result = result]]
         /\ req'[r] = [req[r] EXCEPT !.result = result]
         /\ req'[r].profile = req[r].profile /\ req'[r].since = req[r].since
         /\ req'[r].result = result
         /\ \A p \in Profiles : Reached(req[r].since[p], p)
         /\ req[r].since[req[r].profile] <= result.revision
<1>1. /\ TypeOK /\ StepInv(r) /\ req \in [Requests -> RequestType]
      /\ pc \in [Requests -> Steps]
  BY DEF Inv, TypeOK, RequestType, Steps
<1>2. req[r] \in RequestType
  BY <1>1
<1>3. req[r].profile \in Profiles /\ req[r].since \in [Profiles -> Nat]
  BY <1>2 DEF RequestType
<1>4. result \in ResultsTyped
  BY <1>1, <1>3, ResultsAreTyped
<1>5. [req[r] EXCEPT !.result = result] \in RequestType
  BY <1>2, <1>4 DEF RequestType
<1>6. \A p \in Profiles : Reached(req[r].since[p], p)
  BY <1>1 DEF StepInv, Reader
<1>7. req[r].since[req[r].profile] <= result.revision
  BY <1>1, <1>3, <1>6, CurrentIsReached
<1>8. /\ req' = [req EXCEPT ![r] = [req[r] EXCEPT !.result = result]]
      /\ req'[r] = [req[r] EXCEPT !.result = result]
  BY <1>1
<1>9. /\ req'[r].profile = req[r].profile /\ req'[r].since = req[r].since
      /\ req'[r].result = result
  BY <1>2, <1>8 DEF RequestType
<1> QED  BY <1>1, <1>2, <1>5, <1>6, <1>7, <1>8, <1>9

LEMMA ReadKeepsInv ==
  ASSUME Inv, NEW r \in Requests, Read(r) PROVE Inv'
<1>1. PICK result \in Results(req[r].profile) :
        /\ IsCurrent(result, req[r].profile)
        /\ req' = [req EXCEPT ![r].result = result]
        /\ Goto(r, IF result = NoResult THEN "no_result" ELSE "result")
  BY DEF Read
<1> DEFINE step == IF result = NoResult THEN "no_result" ELSE "result"
<1>2. pc[r] = "read" /\ psycho' = psycho /\ lock' = lock /\ received' = received
  BY DEF Read
<1>3. pc' = [pc EXCEPT ![r] = step] /\ step \in Steps /\ pc'[r] = step
  BY <1>1, <1>2, HasRead DEF Goto, Steps, Answers
<1>4. Writer(r)'
  BY <1>3 DEF Writer, Writing
<1>5. Reader(r)'
  BY <1>1, <1>2, <1>3, HasRead DEF Reader
<1>6. ASSUME step = "result" PROVE Shown(r)'
  <2>1. PICK row \in RowsOf(req[r].profile) :
          result = [revision |-> row.revision, scores |-> row.scores, kind |-> row.kind]
    BY <1>1, <1>6 DEF IsCurrent
  <2>2. row \in RowsOf(req[r].profile)' /\ req'[r].profile = req[r].profile
    BY <1>1, <1>2, HasRead DEF RowsOf
  <2> QED  BY <1>1, <1>2, <1>3, <1>6, <2>1, <2>2, HasRead DEF Shown
<1>7. StepInv(r)'
  BY <1>3, <1>4, <1>5, <1>6 DEF StepInv
<1>8. /\ received' \in Nat /\ lock' \in [Profiles -> Requests \cup {Nobody}]
      /\ \A q \in Requests \ {r}, p \in Profiles : lock[p] = q => lock'[p] = q
  BY <1>2 DEF Inv, TypeOK
<1> HIDE DEF step
<1> QED  BY <1>1, <1>2, <1>3, <1>7, <1>8, HasRead, MoveKeepsInv

LEMMA LoadViewerKeepsInv ==
  ASSUME Inv, NEW r \in Requests, LoadViewer(r) PROVE Inv'
<1>1. PICK result \in Results(req[r].profile) :
        /\ IsCurrent(result, req[r].profile)
        /\ req' = [req EXCEPT ![r].result = result]
  BY DEF LoadViewer
<1>2. /\ pc[r] = "viewer" /\ psycho' = psycho /\ lock' = lock /\ received' = received
      /\ Goto(r, "query")
  BY DEF LoadViewer
<1>3. pc' = [pc EXCEPT ![r] = "query"] /\ "query" \in Steps /\ pc'[r] = "query"
  BY <1>1, <1>2, HasRead DEF Goto, Steps, InFlight
<1>4. Writer(r)'
  BY <1>3 DEF Writer, Writing
<1>5. \A p \in Profiles : Reached(req[r].since[p], p)'
  <2>1. req'[r].since = req[r].since /\ \A p \in Profiles : Reached(req[r].since[p], p)
    BY <1>1, <1>2, HasRead
  <2> QED  BY <1>2, <2>1 DEF Reached, RowsOf
<1>6. Reader(r)'
  BY <1>1, <1>2, <1>3, <1>5, HasRead DEF Reader, Reached
<1>7. StepInv(r)'
  BY <1>3, <1>4, <1>6 DEF StepInv
<1>8. /\ received' \in Nat /\ lock' \in [Profiles -> Requests \cup {Nobody}]
      /\ \A q \in Requests \ {r}, p \in Profiles : lock[p] = q => lock'[p] = q
  BY <1>2 DEF Inv, TypeOK
<1> QED  BY <1>1, <1>2, <1>3, <1>7, <1>8, HasRead, MoveKeepsInv

(* Every vector on a page is valid, so that no page fails. *)
LEMMA QueryKeepsInv ==
  ASSUME Inv, NEW r \in Requests, Query(r) PROVE Inv'
<1>1. PICK page \in [Profiles -> UNION {Results(p) : p \in Profiles}] :
        /\ \A p \in Profiles :
             IF p = req[r].profile THEN page[p] = NoResult ELSE IsCurrent(page[p], p)
        /\ req' = [req EXCEPT ![r].page = page]
        /\ Goto(r, IF \A p \in Profiles :
                        Comparable(req[r].result, page[p]) =>
                          IsValid(req[r].result.scores) /\ IsValid(page[p].scores)
                   THEN "page" ELSE "page_failed")
  BY DEF Query
<1>2. /\ TypeOK /\ StepInv(r) /\ req \in [Requests -> RequestType]
      /\ pc \in [Requests -> Steps] /\ pc[r] = "query"
      /\ psycho' = psycho /\ lock' = lock /\ received' = received
  BY DEF Inv, TypeOK, RequestType, Steps, Query
<1>3. req[r] \in RequestType
  BY <1>2
<1>4. page \in [Profiles -> ResultsTyped]
  BY <1>1, <1>2, ResultsAreTyped
<1>5. \A v \in ResultsTyped : IsValid(v.scores)
  BY ScoredIsValid DEF ResultsTyped
<1>6. IsValid(req[r].result.scores) /\ \A p \in Profiles : IsValid(page[p].scores)
  BY <1>3, <1>4, <1>5 DEF RequestType
<1>7. pc' = [pc EXCEPT ![r] = "page"] /\ "page" \in Steps /\ pc'[r] = "page"
  BY <1>1, <1>2, <1>6 DEF Goto, Steps, Answers
<1> DEFINE record == [req[r] EXCEPT !.page = page]
<1>8. /\ record \in RequestType /\ record.page = page /\ record.since = req[r].since
      /\ record.profile = req[r].profile /\ record.result = req[r].result
  BY <1>3, <1>4 DEF RequestType
<1>9. req' = [req EXCEPT ![r] = record] /\ req'[r] = record
  BY <1>1, <1>2
<1> HIDE DEF record
<1>10. ASSUME NEW p \in Profiles \ {req[r].profile}
       PROVE  req[r].since[p] <= page[p].revision
  <2>1. IsCurrent(page[p], p)
    BY <1>1
  <2>2. page[p] \in Results(p)
    BY <2>1 DEF IsCurrent, Results
  <2>3. req[r].since[p] \in Nat /\ Reached(req[r].since[p], p)
    BY <1>2, <1>3 DEF RequestType, StepInv, Reader
  <2> QED  BY <1>2, <2>1, <2>2, <2>3, CurrentIsReached
<1>11. StepInv(r)'
  <2>1. Writer(r)'
    BY <1>7 DEF Writer, Writing
  <2>2. req[r].since[req[r].profile] <= req[r].result.revision
    BY <1>2 DEF StepInv, Reader
  <2>3. Reader(r)'
    BY <1>7, <1>8, <1>9, <1>10, <2>2 DEF Reader
  <2> QED  BY <1>7, <2>1, <2>3 DEF StepInv
<1>12. /\ received' \in Nat /\ lock' \in [Profiles -> Requests \cup {Nobody}]
       /\ \A q \in Requests \ {r}, p \in Profiles : lock[p] = q => lock'[p] = q
  BY <1>2 DEF TypeOK
<1> QED  BY <1>2, <1>7, <1>8, <1>9, <1>11, <1>12, MoveKeepsInv

-----------------------------------------------------------------------------
LEMMA InvStep == Inv /\ [Next]_vars => Inv'
<1> SUFFICES ASSUME Inv, [Next]_vars PROVE Inv'
  OBVIOUS
<1>1. ASSUME NEW r \in Requests, NEW p \in Profiles, NEW s \in Submissions, Submit(r, p, s)
      PROVE  Inv'
  BY <1>1, SubmitKeepsInv
<1>2. ASSUME NEW r \in Requests, NEW p \in Profiles, MyResult(r, p) PROVE Inv'
  BY <1>2, AskKeepsInv DEF MyResult
<1>3. ASSUME NEW r \in Requests, NEW p \in Profiles, OpenFeed(r, p) PROVE Inv'
  BY <1>3, AskKeepsInv DEF OpenFeed
<1>4. ASSUME NEW r \in Requests, Proceed(r) PROVE Inv'
  BY <1>4, LockKeepsInv, NumberKeepsInv, InsertKeepsInv, InsertAnswersKeepsInv,
     CommitKeepsInv, ReadKeepsInv, LoadViewerKeepsInv, QueryKeepsInv DEF Proceed
<1>5. ASSUME NEW r \in Requests, Fail(r) PROVE Inv'
  BY <1>5, FailKeepsInv
<1>6. CASE UNCHANGED vars
  <2>1. TypeOK' /\ Numbered' /\ RowsComputed'
    BY <1>6 DEF Inv, vars, TypeOK, Numbered, RowsComputed, RowsOf
  <2>2. ASSUME NEW r \in Requests PROVE StepInv(r)'
    BY <1>6 DEF Inv, vars, StepInv, Writer, Reader, Shown, Reached, IsLastRevision, RowsOf
  <2> QED  BY <2>1, <2>2 DEF Inv
<1> QED  BY <1>1, <1>2, <1>3, <1>4, <1>5, <1>6 DEF Next

(* Between two steps, whatever attempts and readers run: an attempt at     *)
(* work has the lock of its profile, its revision is the next one, and     *)
(* every row is what some accepted attempt gives.                          *)
THEOREM InvHolds == Spec => []Inv
BY InvInit, InvStep, PTL DEF Spec

(* The variables have their types: every score that is computed, stored or *)
(* compared lies in [0,1].                                                 *)
THEOREM TypeCorrect == Spec => []TypeOK
<1>1. Inv => TypeOK
  BY DEF Inv
<1> QED  BY <1>1, InvHolds, PTL

(* No attempt that is accepted meets a constraint of the tables, however   *)
(* many of one user overlap, the revisions of a profile are 1, 2, ... each *)
(* once, and no page of the feed fails for a vector that is stored.        *)
THEOREM AcceptedAttemptsSucceed == Spec => []AcceptedSucceeds
<1>1. Inv => AcceptedSucceeds
  BY DEF Inv, StepInv, Numbered, AcceptedSucceeds
<1> QED  BY <1>1, InvHolds, PTL

(* What an attempt or a read shows is a row of the table: scores, type and *)
(* revision of one attempt, and for an attempt those of its own answers.   *)
THEOREM ResultsAreStored == Spec => []ShownIsStored
<1>1. Inv => ShownIsStored
  BY DEF Inv, StepInv, Shown, ShownIsStored
<1> QED  BY <1>1, InvHolds, PTL

(* No read shows a result, and no page a vector, older than the latest one *)
(* when the request came.                                                  *)
THEOREM ReadsAreNotStale == Spec => []ReadsAreCurrent
<1>1. Inv => ReadsAreCurrent
  BY DEF Inv, StepInv, Reader, ReadsAreCurrent
<1> QED  BY <1>1, InvHolds, PTL

(* Whoever answers like a prototype is stored with its type, whichever way *)
(* distances are rounded.                                                  *)
THEOREM StoredTypeFits == Spec => []TypeFits
<1>1. Inv => TypeFits
  <2> SUFFICES ASSUME Inv, NEW row \in psycho, NEW kind \in Kinds,
                      Expresses(row.answers, kind)
               PROVE  row.kind = kind
    BY DEF TypeFits
  <2>1. PICK s \in Submissions :
          Computed(row.scores, row.kind, s.answers) /\ row.answers = AnswerSet(s.answers)
    BY DEF Inv, RowsComputed
  <2>2. s.answers \in Seq(AnswerRecords) /\ ValidAnswers(s.answers)
    BY <2>1, SubmissionAnswers DEF Computed
  <2>3. row.kind \in Nearest(BigFive(s.answers)) /\ Expresses(AnswerSet(s.answers), kind)
    BY <2>1 DEF Computed
  <2> QED  BY <2>2, <2>3, ExpressedIsNearest
<1> QED  BY <1>1, InvHolds, PTL
-----------------------------------------------------------------------------
(* Something is always left to be done: the types, the latest rows and the *)
(* pages that the steps ask for exist, and waits are short.                *)

(* A set of numbers that is not empty has a least one. *)
LEMMA LeastNatural ==
  ASSUME NEW S \in SUBSET Nat, S # {}
  PROVE  \E n \in S : \A m \in S : n <= m
<1>1. PICK n \in S : \A m \in S : ~(<<m, n>> \in OpToRel(<, Nat))
  BY NatLessThanWellFounded, WFMin
<1>2. \A m \in S : ~(m < n)
  BY <1>1 DEF OpToRel
<1> QED  BY <1>2

LEMMA SquareIsNat ==
  ASSUME NEW scores \in Scored, NEW kind \in Kinds, NEW trait \in Traits
  PROVE  SquareAt(scores, kind, trait) \in Nat
<1>1. scores[trait] \in 0..12 /\ Prototype[kind][trait] \in {2, 5, 8}
  BY PrototypeValues DEF Scored
<1>2. ASSUME NEW x \in Int PROVE x * x \in Nat
  OBVIOUS
<1>3. 5 * scores[trait] - 6 * Prototype[kind][trait] \in Int
  BY <1>1
<1> QED  BY <1>2, <1>3 DEF SquareAt

(* Whatever the scores are, there is a type to give. *)
THEOREM SomeTypeIsNearest ==
  ASSUME NEW scores \in Scored PROVE Nearest(scores) # {}
<1> DEFINE S == {Squared(scores, kind) : kind \in Kinds}
<1>1. ASSUME NEW kind \in Kinds PROVE Squared(scores, kind) \in Nat
  <2>1. \A trait \in Traits : SquareAt(scores, kind, trait) \in Nat
    BY SquareIsNat
  <2> QED  BY <2>1 DEF Squared, Traits
<1>2. S \in SUBSET Nat /\ S # {}
  BY <1>1 DEF Kinds
<1>3. PICK n \in S : \A m \in S : n <= m
  BY <1>2, LeastNatural
<1>4. PICK kind \in Kinds : n = Squared(scores, kind)
  BY <1>3
<1>5. \A other \in Kinds : Squared(scores, kind) <= Squared(scores, other)
  BY <1>3, <1>4
<1> QED  BY <1>5 DEF Nearest

(* Of a finite set of rows one is the latest, if there is one at all.  A   *)
(* smallest set without one would have one as soon as a row is taken out.  *)
LEMMA LatestExists ==
  ASSUME NEW S, IsFiniteSet(S), S # {}, \A row \in S : row.revision \in Nat
  PROVE  \E row \in S : IsLatest(row, S)
<1> DEFINE Bad == {T \in SUBSET S : T # {} /\ \A row \in T : ~IsLatest(row, T)}
<1> SUFFICES ASSUME Bad # {} PROVE FALSE
  OBVIOUS
<1>1. Bad \subseteq FiniteSubsetsOf(S)
  BY FS_Subset DEF FiniteSubsetsOf
<1>2. PICK T \in Bad : \A U \in Bad : ~(<<U, T>> \in StrictSubsetOrdering(S))
  BY <1>1, FS_StrictSubsetOrderingWellFounded, WFMin
<1>3. T \in SUBSET S /\ T # {} /\ \A row \in T : ~IsLatest(row, T)
  OBVIOUS
<1>4. PICK x \in T : TRUE
  BY <1>3
<1> DEFINE U == T \ {x}
<1>5. U \in SUBSET S /\ U # T /\ U \subseteq T
  BY <1>3, <1>4
<1>6. U \notin Bad
  BY <1>2, <1>3, <1>5 DEF StrictSubsetOrdering
<1>7. CASE U = {}
  BY <1>3, <1>4, <1>7 DEF IsLatest
<1>8. CASE U # {}
  <2>1. PICK y \in U : IsLatest(y, U)
    BY <1>5, <1>6, <1>8
  <2>2. x \in S /\ y \in S /\ x.revision \in Nat /\ y.revision \in Nat
    BY <1>3, <1>4, <2>1
  <2>3. CASE x.revision <= y.revision
    BY <1>3, <1>4, <2>1, <2>3 DEF IsLatest
  <2>4. CASE y.revision < x.revision
    <3>1. \A row \in T : row.revision <= x.revision
      BY <1>3, <2>1, <2>2, <2>4 DEF IsLatest
    <3> QED  BY <1>3, <1>4, <3>1 DEF IsLatest
  <2> QED  BY <2>2, <2>3, <2>4
<1> QED  BY <1>7, <1>8
(* A SELECT of the latest row returns something, if only nothing. *)
LEMMA CurrentExists ==
  ASSUME TypeOK, IsFiniteSet(psycho), NEW p \in Profiles
  PROVE  /\ \E result \in Results(p) : IsCurrent(result, p)
         /\ \E last \in {0} \cup {row.revision : row \in psycho} : IsLastRevision(last, p)
<1>1. CASE RowsOf(p) = {}
  BY <1>1 DEF Results, IsCurrent, IsLastRevision
<1>2. CASE RowsOf(p) # {}
  <2>1. IsFiniteSet(RowsOf(p)) /\ \A row \in RowsOf(p) : row.revision \in Nat
    BY FS_Subset DEF RowsOf, TypeOK
  <2>2. PICK row \in RowsOf(p) : IsLatest(row, RowsOf(p))
    BY <1>2, <2>1, LatestExists
  <2>3. \E last \in {0} \cup {other.revision : other \in psycho} : IsLastRevision(last, p)
    BY <2>2 DEF IsLastRevision, RowsOf
  <2> DEFINE result == [revision |-> row.revision, scores |-> row.scores, kind |-> row.kind]
  <2>4. result \in Results(p) /\ IsCurrent(result, p)
    BY <2>2 DEF Results, IsCurrent
  <2> QED  BY <2>3, <2>4
<1> QED  BY <1>1, <1>2

(* An attempt waits for the row lock of its profile, or for one that has   *)
(* inserted a row with its key.                                            *)
WaitsFor(r, q) ==
  \/ pc[r] = "lock" /\ lock[req[r].profile] = q
  \/ pc[r] = "insert" /\ pc[q] \in {"answers", "commit"} /\ SameKey(q, r)

(* Every SELECT of the next step has something to return. *)
FindsRows(r) ==
  /\ pc[r] = "number" => \E last \in {0} \cup {row.revision : row \in psycho} :
                           IsLastRevision(last, req[r].profile)
  /\ pc[r] \in {"read", "viewer"} => \E result \in Results(req[r].profile) :
                                       IsCurrent(result, req[r].profile)
  /\ pc[r] = "query" => \E page \in [Profiles -> UNION {Results(p) : p \in Profiles}] :
       \A p \in Profiles :
         IF p = req[r].profile THEN page[p] = NoResult ELSE IsCurrent(page[p], p)

(* A lock is held by an attempt that is at work on its profile: no error   *)
(* path has left one behind.                                               *)
HolderWrites ==
  \A p \in Profiles :
    lock[p] # Nobody => pc[lock[p]] \in Writing /\ req[lock[p]].profile = p

LEMMA HoldersStep ==
  ASSUME Inv, HolderWrites, IsFiniteSet(psycho), [Next]_vars
  PROVE  HolderWrites' /\ IsFiniteSet(psycho')
<1>1. /\ TypeOK /\ pc \in [Requests -> Steps] /\ req \in [Requests -> RequestType]
      /\ lock \in [Profiles -> Requests \cup {Nobody}]
  BY DEF Inv, TypeOK, Steps, RequestType
<1>2. ASSUME NEW r \in Requests, pc[r] \notin Writing, lock' = lock, psycho' = psycho,
             \A q \in Requests \ {r} : pc'[q] = pc[q] /\ req'[q] = req[q]
      PROVE  HolderWrites' /\ IsFiniteSet(psycho')
  BY <1>1, <1>2 DEF HolderWrites
<1>3. ASSUME NEW r \in Requests, lock' = Released(r),
             \A q \in Requests \ {r} : pc'[q] = pc[q] /\ req'[q] = req[q]
      PROVE  HolderWrites'
  BY <1>1, <1>3 DEF HolderWrites, Released
<1>4. ASSUME NEW r \in Requests, pc[r] \in Writing, pc'[r] \in Writing, lock' = lock,
             req'[r].profile = req[r].profile,
             \A q \in Requests \ {r} : pc'[q] = pc[q] /\ req'[q] = req[q]
      PROVE  HolderWrites'
  BY <1>1, <1>4 DEF HolderWrites
<1>5. ASSUME NEW r \in Requests, NEW p \in Profiles,
             (\E s \in Submissions : Submit(r, p, s)) \/ MyResult(r, p) \/ OpenFeed(r, p)
      PROVE  HolderWrites' /\ IsFiniteSet(psycho')
  <2>1. Receive(r) /\ pc[r] \notin Writing
    BY <1>5 DEF Submit, MyResult, OpenFeed, Receive, Answers, Writing
  <2>2. \A q \in Requests \ {r} : pc'[q] = pc[q] /\ req'[q] = req[q]
    BY <1>1, <1>5 DEF Submit, Refuse, MyResult, OpenFeed, Ask, Goto
  <2> QED  BY <1>2, <2>1, <2>2 DEF Receive
<1>6. ASSUME NEW r \in Requests, Lock(r) PROVE HolderWrites' /\ IsFiniteSet(psycho')
  <2>1. /\ pc' = [pc EXCEPT ![r] = "number"] /\ req' = req /\ psycho' = psycho
        /\ lock' = [lock EXCEPT ![req[r].profile] = r] /\ pc[r] = "lock"
    BY <1>6 DEF Lock, Goto
  <2>2. \A p \in Profiles : lock[p] # r
    <3> SUFFICES ASSUME NEW p \in Profiles, lock[p] = r PROVE FALSE
      OBVIOUS
    <3>1. lock[p] # Nobody
      BY NobodyIsNoRequest
    <3>2. pc[r] \in Writing
      BY <1>1, <3>1 DEF HolderWrites
    <3> QED  BY <2>1, <3>2 DEF Writing
  <2>3. req[r].profile \in Profiles
    BY <1>1 DEF RequestType
  <2> QED  BY <1>1, <2>1, <2>2, <2>3 DEF HolderWrites, Writing
<1>7. ASSUME NEW r \in Requests, Number(r) PROVE HolderWrites' /\ IsFiniteSet(psycho')
  <2>1. PICK last : req' = [req EXCEPT ![r].result.revision = last + 1]
    BY <1>7 DEF Number
  <2>2. req'[r].profile = req[r].profile
    BY <1>1, <2>1 DEF RequestType
  <2>3. /\ pc[r] \in Writing /\ pc'[r] \in Writing /\ lock' = lock /\ psycho' = psycho
        /\ \A q \in Requests \ {r} : pc'[q] = pc[q] /\ req'[q] = req[q]
    BY <1>1, <1>7, <2>1 DEF Number, Goto, Writing
  <2> QED  BY <1>4, <2>2, <2>3
<1>8. ASSUME NEW r \in Requests, Insert(r) \/ InsertAnswers(r)
      PROVE  HolderWrites' /\ IsFiniteSet(psycho')
  <2>1. CASE \E answer : Refuse(r, answer) /\ lock' = Released(r)
    BY <1>1, <1>3, <1>8, <2>1 DEF Refuse, Goto, Insert, InsertAnswers
  <2>2. CASE \E step \in {"answers", "commit"} : Goto(r, step) /\ UNCHANGED <<req, lock>>
    <3>1. pc[r] \in Writing /\ pc'[r] \in Writing /\ psycho' = psycho
      BY <1>1, <1>8, <2>2 DEF Insert, InsertAnswers, Goto, Writing
    <3> QED  BY <1>1, <1>4, <2>2, <3>1 DEF Goto
  <2> QED  BY <1>8, <2>1, <2>2 DEF Insert, InsertAnswers
<1>9. ASSUME NEW r \in Requests, Commit(r) PROVE HolderWrites' /\ IsFiniteSet(psycho')
  <2>1. IsFiniteSet(psycho')
    BY <1>9, FS_AddElement DEF Commit
  <2> QED  BY <1>1, <1>3, <1>9, <2>1 DEF Commit, Refuse, Goto
<1>10. ASSUME NEW r \in Requests, Read(r) \/ LoadViewer(r) \/ Query(r)
       PROVE  HolderWrites' /\ IsFiniteSet(psycho')
  <2>1. pc[r] \notin Writing /\ lock' = lock /\ psycho' = psycho
    BY <1>10 DEF Read, LoadViewer, Query, Writing
  <2>2. \A q \in Requests \ {r} : pc'[q] = pc[q] /\ req'[q] = req[q]
    BY <1>1, <1>10 DEF Read, LoadViewer, Query, Goto
  <2> QED  BY <1>2, <2>1, <2>2
<1>11. ASSUME NEW r \in Requests, Fail(r) PROVE HolderWrites' /\ IsFiniteSet(psycho')
  BY <1>1, <1>3, <1>11 DEF Fail, Refuse, Goto
<1>12. CASE UNCHANGED vars
  BY <1>12 DEF vars, HolderWrites
<1> QED  BY <1>5, <1>6, <1>7, <1>8, <1>9, <1>10, <1>11, <1>12 DEF Next, Proceed

LEMMA HoldersHold == Spec => [](Inv /\ HolderWrites /\ IsFiniteSet(psycho))
<1>1. Init => Inv /\ HolderWrites /\ IsFiniteSet(psycho)
  BY InvInit, FS_EmptySet DEF Init, HolderWrites
<1>2. Inv /\ HolderWrites /\ IsFiniteSet(psycho) /\ [Next]_vars
        => (Inv /\ HolderWrites /\ IsFiniteSet(psycho))'
  BY InvStep, HoldersStep
<1> QED  BY <1>1, <1>2, PTL DEF Spec

(* The safety part of EveryRequestAnswered: a request in flight finds what *)
(* its next step reads, and waits, if at all, for an attempt that is in    *)
(* flight and waits for nobody itself.  There is no deadlock, and no lock  *)
(* that an error has left behind.                                          *)
WaitsAreShort ==
  \A r \in Requests : pc[r] \in InFlight =>
    /\ FindsRows(r)
    /\ \A q \in Requests : WaitsFor(r, q) =>
         /\ pc[q] \in InFlight
         /\ \A other \in Requests : ~WaitsFor(q, other)
THEOREM WaitsEnd == Spec => []WaitsAreShort
<1>1. Inv /\ HolderWrites /\ IsFiniteSet(psycho) => WaitsAreShort
  <2> SUFFICES ASSUME Inv, HolderWrites, IsFiniteSet(psycho),
                      NEW r \in Requests, pc[r] \in InFlight
               PROVE  /\ FindsRows(r)
                      /\ \A q \in Requests : WaitsFor(r, q) =>
                           /\ pc[q] \in InFlight
                           /\ \A other \in Requests : ~WaitsFor(q, other)
    BY DEF WaitsAreShort
  <2>1. TypeOK /\ req \in [Requests -> RequestType]
    BY DEF Inv, TypeOK, RequestType
  <2>2. \A q \in Requests : req[q].profile \in Profiles
    BY <2>1 DEF RequestType
  <2>3. \E page \in [Profiles -> UNION {Results(p) : p \in Profiles}] :
          \A p \in Profiles :
            IF p = req[r].profile THEN page[p] = NoResult ELSE IsCurrent(page[p], p)
    <3> DEFINE page == [p \in Profiles |->
                          IF p = req[r].profile THEN NoResult
                          ELSE CHOOSE result \in Results(p) : IsCurrent(result, p)]
    <3>1. ASSUME NEW p \in Profiles
          PROVE  /\ page[p] \in Results(p)
                 /\ IF p = req[r].profile THEN page[p] = NoResult ELSE IsCurrent(page[p], p)
      BY <2>1, <3>1, CurrentExists DEF Results
    <3>2. page \in [Profiles -> UNION {Results(p) : p \in Profiles}]
      BY <3>1
    <3> QED  BY <3>1, <3>2
  <2>4. FindsRows(r)
    BY <2>1, <2>2, <2>3, CurrentExists DEF FindsRows
  <2>5. ASSUME NEW a \in Requests, NEW b \in Requests, WaitsFor(a, b)
        PROVE  pc[a] = "lock" /\ pc[b] \in Writing
    <3>1. CASE pc[a] = "lock" /\ lock[req[a].profile] = b
      BY <2>2, <3>1, NobodyIsNoRequest DEF HolderWrites
    <3>2. CASE pc[a] = "insert" /\ pc[b] \in {"answers", "commit"} /\ SameKey(b, a)
      <4>1. lock[req[a].profile] = a /\ lock[req[b].profile] = b
        BY <3>2 DEF Inv, StepInv, Writer, Writing
      <4>2. a = b
        BY <3>2, <4>1 DEF SameKey
      <4> QED  BY <3>2, <4>2
    <3> QED  BY <2>5, <3>1, <3>2 DEF WaitsFor
  <2>6. ASSUME NEW q \in Requests, WaitsFor(r, q)
        PROVE  pc[q] \in InFlight /\ \A other \in Requests : ~WaitsFor(q, other)
    <3>1. pc[q] \in Writing
      BY <2>5, <2>6
    <3>2. \A other \in Requests : WaitsFor(q, other) => pc[q] = "lock"
      BY <2>5
    <3> QED  BY <3>1, <3>2 DEF Writing, InFlight
  <2> QED  BY <2>4, <2>6
<1> QED  BY <1>1, HoldersHold, PTL

-----------------------------------------------------------------------------
(* The history of attempts. *)

(* The last revision of a profile is the number of its rows.               *)
LEMMA RowsAreCounted ==
  ASSUME TypeOK, Numbered, IsFiniteSet(psycho), NEW p \in Profiles,
         NEW n \in Nat, IsLastRevision(n, p)
  PROVE  Cardinality(RowsOf(p)) = n
<1> DEFINE f == [row \in RowsOf(p) |-> row.revision]
<1>1. RowsOf(p) \subseteq psycho /\ \A row \in RowsOf(p) : row.profile = p
  BY DEF RowsOf
<1>2. IsFiniteSet(RowsOf(p)) /\ \A row \in RowsOf(p) : row.revision \in Nat \ {0}
  BY <1>1, FS_Subset DEF TypeOK
<1>3. \A row \in RowsOf(p) : row.revision <= n
  BY <1>2 DEF IsLastRevision, IsLatest
<1>4. \A m \in 1..n : \E row \in RowsOf(p) : row.revision = m
  <2>1. CASE n = 0
    BY <2>1
  <2>2. CASE \E row \in RowsOf(p) : n = row.revision
    BY <1>1, <2>2 DEF Numbered
  <2> QED  BY <2>1, <2>2 DEF IsLastRevision
<1>5. f \in Bijection(RowsOf(p), 1..n)
  <2>1. f \in [RowsOf(p) -> 1..n]
    BY <1>2, <1>3
  <2>2. \A a, b \in RowsOf(p) : f[a] = f[b] => a = b
    BY <1>1 DEF Numbered
  <2>3. \A m \in 1..n : \E row \in RowsOf(p) : f[row] = m
    BY <1>4
  <2> QED  BY <2>1, <2>2, <2>3 DEF Bijection, Injection, Surjection, IsInjective
<1>6. Cardinality(1..n) = Cardinality(RowsOf(p))
  BY <1>2, <1>5, FS_Bijection DEF ExistsBijection
<1>7. Cardinality(1..n) = n
  <2>1. 1 \in Int /\ n \in Int
    OBVIOUS
  <2>2. Cardinality(1..n) = IF 1 > n THEN 0 ELSE n - 1 + 1
    BY <2>1, FS_Interval, Zenon
  <2> QED  BY <2>2
<1> QED  BY <1>6, <1>7

(* Attempts are kept for good, and each is numbered by how many came       *)
(* before it: concurrent attempts of one user, and attempts that fail      *)
(* after they were numbered, leave neither a gap nor a double.             *)
HistoryGrows ==
  /\ psycho \subseteq psycho'
  /\ \A row \in psycho' \ psycho : row.revision = Cardinality(RowsOf(row.profile)) + 1
THEOREM RevisionsCount == Spec => [][HistoryGrows]_vars
<1>1. Inv /\ IsFiniteSet(psycho) /\ [Next]_vars => [HistoryGrows]_vars
  <2> SUFFICES ASSUME Inv, IsFiniteSet(psycho), [Next]_vars, ~UNCHANGED vars
               PROVE  HistoryGrows
    OBVIOUS
  <2>1. CASE UNCHANGED psycho
    BY <2>1 DEF HistoryGrows
  <2>2. ASSUME NEW r \in Requests, Commit(r) PROVE HistoryGrows
    <3>1. /\ psycho' = psycho \cup {NewRow(r)} /\ TypeOK /\ Numbered
          /\ StepInv(r) /\ pc[r] = "commit"
      BY <2>2 DEF Inv, Commit
    <3>2. /\ NewRow(r).revision \in Nat \ {0} /\ NewRow(r).profile \in Profiles
          /\ IsLastRevision(NewRow(r).revision - 1, NewRow(r).profile)
      BY <3>1, NewRowFits DEF Inv
    <3>3. Cardinality(RowsOf(NewRow(r).profile)) = NewRow(r).revision - 1
      BY <3>1, <3>2, RowsAreCounted
    <3> QED  BY <3>1, <3>2, <3>3 DEF HistoryGrows
  <2>3. \/ UNCHANGED psycho
        \/ \E r \in Requests : Commit(r)
    BY DEF Next, Proceed, Submit, MyResult, OpenFeed, Receive, Lock, Number, Insert,
           InsertAnswers, Read, LoadViewer, Query, Fail, vars
  <2> QED  BY <2>1, <2>2, <2>3
<1> QED  BY <1>1, HoldersHold, PTL DEF Spec

-----------------------------------------------------------------------------
(* The same answers. *)

(* The questions may be answered in any order.                             *)
LEMMA OrderDoesNotMatter ==
  ASSUME NEW a \in Seq(AnswerRecords), NEW b \in Seq(AnswerRecords),
         ValidAnswers(a), ValidAnswers(b), AnswerSet(a) = AnswerSet(b)
  PROVE  BigFive(a) = BigFive(b)
<1>1. \A q \in Questions : Values(a)[q] = Values(b)[q]
  BY ValueIsStored
<1>2. Values(a) = Values(b)
  BY <1>1, ValuesAreOptions
<1> QED  BY <1>2 DEF BigFive

(* Who has given the same answers has the same scores, in whatever order   *)
(* they came and whoever gave them when: the answers that are kept tell    *)
(* the scores that are kept, and the two users are compatible in full.     *)
SameAnswersSameScores ==
  \A a, b \in psycho :
    a.answers = b.answers => a.scores = b.scores /\ Compatibility(a.scores, b.scores) = 60
THEOREM ScoresFollowAnswers == Spec => []SameAnswersSameScores
<1>1. Inv => SameAnswersSameScores
  <2> SUFFICES ASSUME Inv, NEW a \in psycho, NEW b \in psycho, a.answers = b.answers
               PROVE  a.scores = b.scores /\ Compatibility(a.scores, b.scores) = 60
    BY DEF SameAnswersSameScores
  <2>1. PICK s \in Submissions :
          Computed(a.scores, a.kind, s.answers) /\ a.answers = AnswerSet(s.answers)
    BY DEF Inv, RowsComputed
  <2>2. PICK t \in Submissions :
          Computed(b.scores, b.kind, t.answers) /\ b.answers = AnswerSet(t.answers)
    BY DEF Inv, RowsComputed
  <2>3. a.scores = b.scores
    BY <2>1, <2>2, SubmissionAnswers, OrderDoesNotMatter DEF Computed
  <2>4. a.scores \in Scored /\ b.scores \in Scored
    BY DEF Inv, TypeOK
  <2> QED  BY <2>3, <2>4, CompatibilityBounded
<1> QED  BY <1>1, InvHolds, PTL
=============================================================================
