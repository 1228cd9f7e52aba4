---------------------------- MODULE Personality ----------------------------
(***************************************************************************)
(* The arithmetic of the personality test: from the ten answers of the     *)
(* TIPI questionnaire to the five scores, from the scores to one of the    *)
(* sixteen types, and from the scores of two users to their compatibility. *)
(*                                                                         *)
(* The code computes with doubles.  A score is a multiple of 1/12, the     *)
(* coordinate of a prototype one of 1/10, and here both are integers:      *)
(* twelfths and tenths.  Rounding decides nothing but which of two         *)
(* prototypes at exactly the same distance is taken.                       *)
(***************************************************************************)
EXTENDS Integers, Sequences

(* The test that Load accepts: question i feeds operation i. *)
Questions == 1..10
Options == 1..7

Traits == {"openness", "conscientiousness", "extraversion", "agreeableness", "neuroticism"}

(* The questions that speak for a trait and against it. *)
Direct ==
  [openness |-> 5, conscientiousness |-> 3, extraversion |-> 1,
   agreeableness |-> 7, neuroticism |-> 4]
Reverse ==
  [openness |-> 10, conscientiousness |-> 8, extraversion |-> 6,
   agreeableness |-> 2, neuroticism |-> 9]

-----------------------------------------------------------------------------
(* Mistake: a question may be answered twice, and another one not at all. *)
ValidAnswersTwice(answers) ==
  /\ Len(answers) = 10
  /\ \A i \in DOMAIN answers :
       answers[i].question \in Questions /\ answers[i].value \in Options
(* Ten answers with known questions, none of them twice, and values of the *)
(* scale.  That every question is answered is not asked: it follows.       *)
ValidAnswers(answers) ==
  /\ Len(answers) = 10
  /\ \A i \in DOMAIN answers :
       answers[i].question \in Questions /\ answers[i].value \in Options
  /\ \A i, j \in DOMAIN answers : answers[i].question = answers[j].question => i = j

(* The map of values: a question without an answer has the value 0. *)
Values(answers) ==
  [q \in Questions |->
     LET given == {i \in DOMAIN answers : answers[i].question = q} IN
     IF given = {} THEN 0 ELSE answers[CHOOSE i \in given : TRUE].value]

(* Mistake: the answer against the trait is not turned around. *)
ScoreNotReversed(values, trait) == values[Direct[trait]] - values[Reverse[trait]] - 2
(* ((direct + 8 - reverse) / 2 - 1) / 6, in twelfths. *)
Score(values, trait) == values[Direct[trait]] + 6 - values[Reverse[trait]]

At(o, c, e, a, n) ==
  [openness |-> o, conscientiousness |-> c, extraversion |-> e,
   agreeableness |-> a, neuroticism |-> n]

BigFive(answers) ==
  LET values == Values(answers) IN
  At(Score(values, "openness"), Score(values, "conscientiousness"),
     Score(values, "extraversion"), Score(values, "agreeableness"),
     Score(values, "neuroticism"))

(* isValid, of every coordinate *)
IsValid(scores) == \A trait \in Traits : scores[trait] \in 0..12

-----------------------------------------------------------------------------
Kinds == {"EXPLORER", "VISIONARY", "STRATEGIST", "INVENTOR", "DREAMER", "CURATOR",
          "INSPIRER", "DEBATER", "ORGANIZER", "CONNECTOR", "COMPANION", "DRIVER",
          "ANCHOR", "CRAFTSPERSON", "OBSERVER", "KEEPER"}

(* personalityPrototypes, in tenths *)
Prototype ==
  [EXPLORER   |-> At(8, 2, 8, 5, 2), VISIONARY    |-> At(8, 5, 8, 5, 8),
   STRATEGIST |-> At(8, 8, 2, 5, 2), INVENTOR     |-> At(8, 2, 2, 5, 2),
   DREAMER    |-> At(8, 2, 2, 8, 8), CURATOR      |-> At(8, 8, 2, 8, 8),
   INSPIRER   |-> At(8, 5, 8, 8, 2), DEBATER      |-> At(8, 8, 8, 2, 5),
   ORGANIZER  |-> At(2, 8, 8, 5, 2), CONNECTOR    |-> At(5, 5, 8, 8, 8),
   COMPANION  |-> At(2, 2, 8, 8, 2), DRIVER       |-> At(5, 2, 8, 2, 8),
   ANCHOR     |-> At(2, 8, 2, 8, 2), CRAFTSPERSON |-> At(2, 8, 2, 2, 2),
   OBSERVER   |-> At(5, 5, 2, 2, 8), KEEPER       |-> At(2, 8, 2, 8, 8)]

(* The square of the difference of one coordinate, in sixtieths. *)
SquareAt(scores, kind, trait) ==
  (5 * scores[trait] - 6 * Prototype[kind][trait]) *
  (5 * scores[trait] - 6 * Prototype[kind][trait])

(* Mistake: the last coordinate is left out of the sum. *)
SquaredOfFour(scores, kind) ==
  SquareAt(scores, kind, "openness") + SquareAt(scores, kind, "conscientiousness") +
  SquareAt(scores, kind, "extraversion") + SquareAt(scores, kind, "agreeableness")
Squared(scores, kind) ==
  SquareAt(scores, kind, "openness") + SquareAt(scores, kind, "conscientiousness") +
  SquareAt(scores, kind, "extraversion") + SquareAt(scores, kind, "agreeableness") +
  SquareAt(scores, kind, "neuroticism")

(* ClassifyPersonality takes one of the nearest: of several, that whose    *)
(* distance the build rounds to the smallest double, the first of these.   *)
Nearest(scores) ==
  {kind \in Kinds : \A other \in Kinds : Squared(scores, kind) <= Squared(scores, other)}

-----------------------------------------------------------------------------
Gap(v, w, trait) == IF v[trait] >= w[trait] THEN v[trait] - w[trait] ELSE w[trait] - v[trait]

Difference(v, w) ==
  Gap(v, w, "agreeableness") + Gap(v, w, "conscientiousness") +
  Gap(v, w, "extraversion") + Gap(v, w, "neuroticism") + Gap(v, w, "openness")

(* CalculateDistance: one minus the mean difference, in sixtieths. *)
Compatibility(v, w) == 60 - Difference(v, w)
=============================================================================
