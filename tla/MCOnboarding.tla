---------------------------- MODULE MCOnboarding ----------------------------
(* Instances of Onboarding for TLC: birthdays around the 29th of February,  *)
(* days around the end of February of a common and of a leap year, and one  *)
(* field in most requests, on both sides of every limit.                    *)
EXTENDS Onboarding

CONSTANTS NULL, GARBLED

Repeat(kind, n) == [i \in 1..n |-> kind]
Text(pad, core) == [pad |-> pad, core |-> core]

MCNames ==
  {<<>>, <<"letter">>, <<"letter", "tab", "space", "letter">>, <<"letter", "mark", "dot">>,
   <<"letter", "dash">>, <<"dash", "letter">>, <<"mark", "letter">>, <<"other">>,
   <<"letter", "dot", "space", "letter">>, Repeat("letter", 65)}
MCBirths ==
  {Date(2008, 2, 28), Date(2008, 2, 29), Date(2008, 3, 1), Date(2010, 2, 28), Date(2010, 3, 1)}

MCRequests ==
  {[name |-> Text(1, core)] : core \in MCNames} \cup
  {[birth_date |-> b] : b \in MCBirths \cup {GARBLED, NULL}} \cup
  {[work |-> Text(1, core)] : core \in {<<>>, <<"other">>, Repeat("other", 101)}} \cup
  {[about_me |-> Text(n, <<>>)] : n \in {0, 1, 1001}} \cup
  {[height |-> h] : h \in {99, 250, NULL}} \cup
  {[tags |-> t] : t \in {<<"coffee">>, <<"coffee", "coffee">>, <<"chess">>, NULL}} \cup
  {[name |-> NULL, sex |-> "female", smoking |-> NULL, birth_date |-> Date(2008, 2, 29)],
   [sex |-> "other"], [education |-> "degree", work |-> NULL]}

MCWanted ==
  {[sex |-> "all", from |-> 18, to |-> 100], [sex |-> "male", from |-> 18, to |-> 19],
   [sex |-> "female", from |-> 20, to |-> 20], [sex |-> "all", from |-> 17, to |-> 20],
   [sex |-> "all", from |-> 20, to |-> 19], [sex |-> "all", from |-> 20, to |-> 101],
   [sex |-> "all", from |-> NULL, to |-> 20], [sex |-> "any", from |-> 20, to |-> 20]}
MCFirstDays == {Date(2026, 2, 27), Date(2028, 2, 28)}
=============================================================================
