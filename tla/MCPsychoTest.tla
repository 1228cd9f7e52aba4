---------------------------- MODULE MCPsychoTest ----------------------------
(* Instances of PsychoTest for TLC: answers of a KEEPER, answers that lie   *)
(* halfway between KEEPER and ANCHOR, and answers to refuse.                *)
EXTENDS PsychoTest

Sheet(values) == [i \in 1..Len(values) |-> [question |-> i, value |-> values[i]]]

Keeper == Sheet(<<2, 1, 7, 6, 1, 7, 6, 2, 1, 6>>)
Between == [Keeper EXCEPT ![4].value = 4, ![9].value = 4]
(* Question 10 twice, question 9 not at all. *)
Twice == [Keeper EXCEPT ![9] = Keeper[10]]
TooHigh == [Keeper EXCEPT ![4].value = 8]

MCSubmissions ==
  {[test |-> 1, answers |-> answers] : answers \in {Keeper, Between, Twice, TooHigh}}
    \cup {[test |-> 2, answers |-> Keeper], [test |-> 1, answers |-> Sheet(<<4>>)],
          [test |-> 1, answers |-> [Keeper EXCEPT ![1].question = 0]]}
=============================================================================
