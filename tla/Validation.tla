----------------------------- MODULE Validation -----------------------------
(***************************************************************************)
(* What the API checks before a questionnaire or a filter is stored, and   *)
(* what the CHECK constraints of the tables ask again: dates and ages,     *)
(* names and texts, tags, and the range of ages to search for.             *)
(*                                                                         *)
(* A character is one of the kinds that the checks tell apart.  A text is  *)
(* its core, from the first to the last character that is no white space,  *)
(* with pad white characters around it.  U+0000 is left out: it passes     *)
(* every check here, and PostgreSQL refuses it.                            *)
(***************************************************************************)
EXTENDS Integers, Sequences, SequencesExt

Kinds == {"letter", "mark", "dash", "apostrophe", "dot", "space", "tab", "other"}
White == {"space", "tab"}

Texts ==
  {t \in [pad : Nat, core : Seq(Kinds)] :
     t.core # <<>> => t.core[1] \notin White /\ t.core[Len(t.core)] \notin White}

Size(text) == text.pad + Len(text.core)

(* A column's text is not blank and has at most size characters. *)
Nonblank(core, size) ==
  Len(core) \in 1..size /\ \E i \in 1..Len(core) : core[i] \notin White

-----------------------------------------------------------------------------
(* Dates, as Date() of a time gives them. *)
Date(y, m, d) == [y |-> y, m |-> m, d |-> d]

IsLeap(y) == y % 4 = 0 /\ (y % 100 # 0 \/ y % 400 = 0)
DaysIn(y, m) ==
  IF m = 2 THEN IF IsLeap(y) THEN 29 ELSE 28
  ELSE IF m \in {4, 6, 9, 11} THEN 30 ELSE 31

(* The days of the calendar: all that time.Parse lets through. *)
Dates == {t \in [y : Nat, m : 1..12, d : 1..31] : t.d <= DaysIn(t.y, t.m)}

Before(s, t) ==
  s.y < t.y \/ (s.y = t.y /\ (s.m < t.m \/ (s.m = t.m /\ s.d < t.d)))

NextDay(t) ==
  IF t.d < DaysIn(t.y, t.m) THEN Date(t.y, t.m, t.d + 1)
  ELSE IF t.m < 12 THEN Date(t.y, t.m + 1, 1)
  ELSE Date(t.y + 1, 1, 1)

(* Mistake: who is born on the 29th of February comes of age on the 28th. *)
AddYearsClamped(t, n) ==
  IF t.d > DaysIn(t.y + n, t.m) THEN Date(t.y + n, t.m, DaysIn(t.y + n, t.m))
  ELSE Date(t.y + n, t.m, t.d)
(* AddDate(n, 0, 0) normalizes: a 29th of February that the year does not  *)
(* have is the 1st of March.                                               *)
AddYears(t, n) ==
  IF t.d > DaysIn(t.y + n, t.m) THEN Date(t.y + n, 3, 1)
  ELSE Date(t.y + n, t.m, t.d)

MinAge == 18

(* ValidateAgeAt *)
OldEnough(birth, today) == ~Before(today, AddYears(birth, MinAge))

(* The age the API shows: full years. *)
AgeAt(birth, today) ==
  LET birthdayAhead == \/ today.m < birth.m
                       \/ today.m = birth.m /\ today.d < birth.d
  IN  today.y - birth.y - (IF birthdayAhead THEN 1 ELSE 0)

(* Mistake: the query subtracts the years. *)
SqlAgeByYears(today, birth) == today.y - birth.y
(* date_part('year', age(today, birth)) of an earlier birth: fields are    *)
(* subtracted, and a negative one borrows from the next.                   *)
SqlAge(today, birth) ==
  LET days == today.d - birth.d
      months == today.m - birth.m - (IF days < 0 THEN 1 ELSE 0)
  IN  today.y - birth.y - (IF months < 0 THEN 1 ELSE 0)

-----------------------------------------------------------------------------
(* NormalizeName: white space is trimmed, and inside it is one space. *)
NormalizeName(text) ==
  FoldLeft(LAMBDA name, c :
             IF c \notin White THEN Append(name, c)
             ELSE IF Last(name) = "space" THEN name ELSE Append(name, "space"),
           <<>>, text.core)

Separators == {"space", "dash", "apostrophe", "dot"}

(* ValidateName: marks and separators follow a letter and its marks, and   *)
(* of the separators only a dot may end the name.                          *)
ValidName(name) ==
  /\ Len(name) \in 1..64
  /\ \A i \in 1..Len(name) :
       \/ name[i] = "letter"
       \/ /\ name[i] \in Separators \cup {"mark"}
          /\ i > 1 /\ name[i - 1] \in {"letter", "mark"}
  /\ name[Len(name)] \in {"letter", "mark", "dot"}

(* At most ten tags, none twice; blank and long ones are not in the        *)
(* dictionary anyway.                                                      *)
ValidTags(tags) ==
  Len(tags) <= 10 /\ \A i, j \in DOMAIN tags : tags[i] = tags[j] => i = j

Heights == 100..250

-----------------------------------------------------------------------------
Sexes == {"male", "female"}
SearchAges == 18..100

(* SetFilterRequest.ToModel: nothing may be missing. *)
ValidFilter(f) ==
  /\ f.sex \in Sexes \cup {"all"}
  /\ f.from \in SearchAges /\ f.to \in SearchAges
  /\ f.from <= f.to

(* The CHECK constraint of search_filter. *)
FilterFits(f) ==
  f.sex \in {"male", "female", "all"} /\ f.from >= 18 /\ f.to <= 100 /\ f.to >= f.from
=============================================================================
