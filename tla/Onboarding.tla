----------------------------- MODULE Onboarding -----------------------------
(***************************************************************************)
(* The onboarding of one user and what another is shown of it.  PATCH      *)
(* /profile/me checks the fields of a request on the day it arrives and    *)
(* stores them later; PUT /filters/me stores the ages to search for; GET   *)
(* /feed asks the database for profiles of these ages on one day and shows *)
(* the age of each on the day when it gets to it.  Midnight may come at    *)
(* any moment.                                                             *)
(*                                                                         *)
(* Module ProfileStore has the transactions, and module Feed the pages:    *)
(* here a transaction is one step, and the values are those that the       *)
(* checks, the CHECK constraints and the calendar tell apart.              *)
(***************************************************************************)
EXTENDS Validation

CONSTANTS Requests,    \* bodies of PATCH: records of the fields that are there
          Wanted,      \* bodies of PUT: [sex, from, to]
          Null,        \* null, and NULL; also what is not there in a PUT
          Garbled,     \* what is there for a date and is none
          Dictionary,  \* names in the table tag
          FirstDays,   \* days on which a behavior may begin
          MaxNights,   \* bound on the midnights in a behavior
          MaxPatches   \* bound on the patches in a behavior

Required == {"name", "birth_date", "sex", "dating_goal"}
Enums == {"sex", "dating_goal", "education", "smoking", "alcohol"}
Fields == Required \cup Enums \cup {"about_me", "work", "height", "tags"}

(* What decoding the JSON of a request leaves for each field. *)
ASSUME RequestsDecoded ==
  \A r \in Requests :
    /\ DOMAIN r \subseteq Fields
    /\ \A f \in DOMAIN r \cap {"name", "about_me", "work"} : r[f] \in Texts \cup {Null}
    /\ "birth_date" \in DOMAIN r => r.birth_date \in Dates \cup {Null, Garbled}
    /\ "height" \in DOMAIN r => r.height \in Int \cup {Null}
    /\ "tags" \in DOMAIN r => r.tags \in Seq(STRING) \cup {Null}
ASSUME DaysAreDates == FirstDays \subseteq Dates
ASSUME BoundsAreNat == MaxNights \in Nat /\ MaxPatches \in Nat

VARIABLES
  today,    \* the date of the clock
  nights,   \* midnights so far, at most MaxNights
  row,      \* the user's current version, with its tags
  patch,    \* the user's request that has been checked and not stored yet
  patches,  \* patches so far, at most MaxPatches
  filter,   \* the viewer's row of search_filter
  page,     \* the viewer's GET /feed, and the age it shows
  failed    \* a statement has violated a constraint of its table: 500

vars == <<today, nights, row, patch, patches, filter, page, failed>>

NoPatch == [at |-> "none"]
NoFilter == [sex |-> "none"]
NoPage == [at |-> "idle"]

-----------------------------------------------------------------------------
(* Of the required fields, and of tags, null means the same as nothing. *)
Given(r) == {f \in DOMAIN r : r[f] = Null => f \notin Required \cup {"tags"}}

Allowed ==
  [sex |-> Sexes,
   dating_goal |-> {"relationship", "friendship", "casual"},
   education |-> {"secondary", "vocational", "incomplete_higher", "higher", "degree"},
   smoking |-> {"negative", "neutral", "positive"},
   alcohol |-> {"negative", "neutral", "positive"}]

(* ToPatch: at least one field, and every field as it should be. *)
Valid(r, day) ==
  /\ Given(r) # {}
  /\ "name" \in Given(r) => ValidName(NormalizeName(r.name))
  /\ "birth_date" \in Given(r) =>
       r.birth_date \in Dates /\ OldEnough(r.birth_date, day)
  /\ \A f \in Given(r) \cap Enums : r[f] \in Allowed[f] \cup {Null}
  /\ "about_me" \in Given(r) => r.about_me = Null \/ Size(r.about_me) <= 1000
  /\ "work" \in Given(r) => r.work = Null \/ Len(r.work.core) <= 100
  /\ "height" \in Given(r) => r.height = Null \/ r.height \in Heights
  /\ "tags" \in Given(r) => ValidTags(r.tags)

(* Mistake: a job of white space only is no empty text. *)
WorkUntrimmed(text) == IF text = Null \/ Size(text) = 0 THEN Null ELSE text.core
(* trimmed, and an empty text clears the field *)
Work(text) == IF text = Null \/ text.core = <<>> THEN Null ELSE text.core
AboutMe(text) == IF text = Null \/ Size(text) = 0 THEN Null ELSE text

(* What a patch sets a field to. *)
Sets(r, f) ==
  IF f = "name" THEN NormalizeName(r.name)
  ELSE IF f = "work" THEN Work(r.work)
  ELSE IF f = "about_me" THEN AboutMe(r.about_me)
  ELSE r[f]

(* findTags, and Apply of the patch to the version before. *)
KnownTags(r) ==
  "tags" \in Given(r) => \A i \in DOMAIN r.tags : r.tags[i] \in Dictionary
Applied(r) == [f \in Fields |-> IF f \in Given(r) THEN Sets(r, f) ELSE row[f]]

(* The constraints of profile_version, and the primary key of profile_tag. *)
RowFits(v) ==
  /\ v.name = Null \/ Nonblank(v.name, 100)
  /\ \A f \in Enums : v[f] = Null \/ v[f] \in Allowed[f]
  /\ v.work = Null \/ Nonblank(v.work, 100)
  /\ v.height = Null \/ v.height \in 100..250
  /\ \A i, j \in DOMAIN v.tags : v.tags[i] = v.tags[j] => i = j

-----------------------------------------------------------------------------
Init ==
  /\ today \in FirstDays
  /\ nights = 0
  /\ row = [f \in Fields |-> IF f = "tags" THEN <<>> ELSE Null]
  /\ patch = NoPatch
  /\ patches = 0
  /\ filter = NoFilter
  /\ page = NoPage
  /\ failed = FALSE

Midnight ==
  /\ nights < MaxNights
  /\ today' = NextDay(today)
  /\ nights' = nights + 1
  /\ UNCHANGED <<row, patch, patches, filter, page, failed>>

(* PATCH /profile/me is checked; an invalid one changes nothing. *)
Submit ==
  /\ patch = NoPatch
  /\ patches < MaxPatches
  /\ \E r \in {q \in Requests : Valid(q, today)} : patch' = [at |-> "store", body |-> r]
  /\ patches' = patches + 1
  /\ UNCHANGED <<today, nights, row, filter, page, failed>>

(* The transaction of UpdateProfile; a tag the dictionary does not have    *)
(* ends it, and so does any failure.                                       *)
Store ==
  /\ patch # NoPatch
  /\ \E next \in {Applied(patch.body)} :
       IF ~KnownTags(patch.body) THEN UNCHANGED <<row, failed>>
       ELSE IF RowFits(next) THEN row' = next /\ UNCHANGED failed
       ELSE failed' = TRUE /\ UNCHANGED row
  /\ patch' = NoPatch
  /\ UNCHANGED <<today, nights, patches, filter, page>>

Abort ==
  /\ patch # NoPatch
  /\ patch' = NoPatch
  /\ UNCHANGED <<today, nights, row, patches, filter, page, failed>>

(* PUT /filters/me: an upsert of the whole filter. *)
SetFilter ==
  /\ \E f \in Wanted :
       /\ ValidFilter(f)
       /\ IF FilterFits(f) THEN filter' = f /\ UNCHANGED failed
                           ELSE failed' = TRUE /\ UNCHANGED filter
  /\ UNCHANGED <<today, nights, row, patch, patches, page>>

(* GET /feed, of a viewer who has a filter: the date is taken, to be a     *)
(* parameter of the query.                                                 *)
AskFeed ==
  /\ page.at \in {"idle", "shown"}
  /\ filter # NoFilter
  /\ page' = [at |-> "asked", date |-> today, since |-> nights]
  /\ UNCHANGED <<today, nights, row, patch, patches, filter, failed>>

(* The snapshot of the query, and the user's row in it if the age fits. *)
Query ==
  /\ page.at = "asked"
  /\ IF /\ row.birth_date # Null
        /\ SqlAge(page.date, row.birth_date) \in filter.from..filter.to
     THEN page' = [at |-> "read", date |-> page.date, since |-> page.since,
                   birth |-> row.birth_date, ages |-> <<filter.from, filter.to>>]
     ELSE page' = NoPage
  /\ UNCHANGED <<today, nights, row, patch, patches, filter, failed>>

(* GetNextFeed fills in the age.  WriteTimeout cuts off an answer that is  *)
(* late, which one that has seen two midnights is.                         *)
Show ==
  /\ page.at = "read"
  /\ IF nights <= page.since + 1
     THEN page' = [at |-> "shown", ages |-> page.ages, late |-> nights - page.since,
                   age |-> AgeAt(page.birth, today)]
     ELSE page' = NoPage
  /\ UNCHANGED <<today, nights, row, patch, patches, filter, failed>>

Next ==
  Midnight \/ Submit \/ Store \/ Abort \/ SetFilter \/ AskFeed \/ Query \/ Show

Spec == Init /\ [][Next]_vars

-----------------------------------------------------------------------------
(* What passes the checks of the API never violates a constraint of the    *)
(* tables: the two are written down twice, in Go and in SQL.               *)
AcceptedFits == ~failed

(* A birth date that is stored is an adult's from then on, by the age that *)
(* the API shows: checking it counts from the birth date, showing it back  *)
(* from today, and the two meet on the 29th of February.                   *)
AdultsOnly == row.birth_date # Null => AgeAt(row.birth_date, today) >= MinAge

(* The age on a card is one the filter of the query asked for, or the next *)
(* one when a midnight came between the query and the card.                *)
ShownAgeFits ==
  page.at = "shown" => /\ page.ages[1] <= page.age
                       /\ page.age <= page.ages[2] + page.late
                       /\ MinAge <= page.age /\ page.late \in 0..1
=============================================================================
