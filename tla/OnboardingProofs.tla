-------------------------- MODULE OnboardingProofs --------------------------
(***************************************************************************)
(* Proofs about Onboarding: the three ways in which the code counts years  *)
(* agree on every day of the calendar, and what follows for the rows that  *)
(* are stored and the ages that are shown, for all requests and filters.   *)
(***************************************************************************)
EXTENDS Onboarding, SequenceTheorems, TLAPS

-----------------------------------------------------------------------------
(* The calendar. *)

(* The day after a day is a day. *)
LEMMA NextDayIsDate ==
  ASSUME NEW t \in Dates PROVE NextDay(t) \in Dates
<1>1. /\ t.y \in Nat /\ t.m \in 1..12 /\ t.d \in 1..31
      /\ t.d <= DaysIn(t.y, t.m)
  BY DEF Dates
<1>2. \A y \in Nat, m \in 1..12 : DaysIn(y, m) \in 28..31
  BY DEF DaysIn
<1>3. CASE t.d < DaysIn(t.y, t.m)
  BY <1>1, <1>2, <1>3, SMT DEF NextDay, Date, Dates
<1>4. CASE ~(t.d < DaysIn(t.y, t.m)) /\ t.m < 12
  <2>1. NextDay(t) = Date(t.y, t.m + 1, 1)
    BY <1>4 DEF NextDay
  <2>2. t.m + 1 \in 1..12 /\ 1 <= DaysIn(t.y, t.m + 1)
    BY <1>1, <1>2, <1>4
  <2> QED  BY <1>1, <2>1, <2>2 DEF Date, Dates
<1>5. CASE ~(t.d < DaysIn(t.y, t.m)) /\ ~(t.m < 12)
  <2>1. NextDay(t) = Date(t.y + 1, 1, 1)
    BY <1>5 DEF NextDay
  <2>2. t.y + 1 \in Nat /\ 1 <= DaysIn(t.y + 1, 1)
    BY <1>1, <1>2
  <2> QED  BY <2>1, <2>2 DEF Date, Dates
<1> QED  BY <1>3, <1>4, <1>5

(* Date fields are numbers; ages are integers. *)
LEMMA AgeIsInt ==
  ASSUME NEW b \in Dates, NEW t \in Dates
  PROVE  AgeAt(b, t) \in Int
BY DEF AgeAt, Dates

(* From one day to the next an age stays or grows by one. *)
LEMMA AgeGrowsByOne ==
  ASSUME NEW b \in Dates, NEW t \in Dates
  PROVE  AgeAt(b, t) <= AgeAt(b, NextDay(t)) /\ AgeAt(b, NextDay(t)) <= AgeAt(b, t) + 1
<1>1. /\ t.y \in Nat /\ t.m \in 1..12 /\ t.d \in 1..31 /\ t.d <= DaysIn(t.y, t.m)
      /\ b.y \in Nat /\ b.m \in 1..12 /\ b.d \in 1..31
  BY DEF Dates
<1>2. CASE t.d < DaysIn(t.y, t.m)
  <2>1. NextDay(t) = Date(t.y, t.m, t.d + 1)
    BY <1>2 DEF NextDay
  <2> QED  BY <1>1, <2>1 DEF Date, AgeAt
<1>3. CASE ~(t.d < DaysIn(t.y, t.m)) /\ t.m < 12
  <2>1. NextDay(t) = Date(t.y, t.m + 1, 1)
    BY <1>3 DEF NextDay
  <2> QED  BY <1>1, <1>3, <2>1 DEF Date, AgeAt
<1>4. CASE ~(t.d < DaysIn(t.y, t.m)) /\ ~(t.m < 12)
  <2>1. NextDay(t) = Date(t.y + 1, 1, 1)
    BY <1>4 DEF NextDay
  <2>2. t.m = 12 /\ t.d = 31
    BY <1>1, <1>4 DEF DaysIn
  <2> QED  BY <1>1, <2>1, <2>2 DEF Date, AgeAt
<1> QED  BY <1>2, <1>3, <1>4

(* The age the query selects by, with borrowed days and months, is the age *)
(* the cards show, on every day and for every birth date.                  *)
THEOREM SqlAgeIsAgeAt ==
  ASSUME NEW birth \in Dates, NEW day \in Dates
  PROVE  SqlAge(day, birth) = AgeAt(birth, day)
BY DEF SqlAge, AgeAt, Dates

(* The check of the birth date lets exactly those through whom the cards   *)
(* show to be eighteen, those born on the 29th of February included.       *)
THEOREM OldEnoughIsAge ==
  ASSUME NEW birth \in Dates, NEW day \in Dates
  PROVE  OldEnough(birth, day) <=> AgeAt(birth, day) >= MinAge
<1>1. /\ day.y \in Nat /\ day.m \in 1..12 /\ day.d \in 1..31 /\ day.d <= DaysIn(day.y, day.m)
      /\ birth.y \in Nat /\ birth.m \in 1..12 /\ birth.d \in 1..31
      /\ birth.d <= DaysIn(birth.y, birth.m)
  BY DEF Dates
<1>2. CASE birth.d > DaysIn(birth.y + 18, birth.m)
  <2>1. birth.m = 2 /\ birth.d = 29 /\ DaysIn(birth.y + 18, 2) = 28
    BY <1>1, <1>2 DEF DaysIn
  <2>2. AddYears(birth, 18) = Date(birth.y + 18, 3, 1)
    BY <1>2 DEF AddYears
  <2>3. day.y = birth.y + 18 /\ day.m = 2 => day.d <= 28
    BY <1>1, <2>1
  <2> QED  BY <1>1, <2>1, <2>2, <2>3 DEF OldEnough, Before, Date, AgeAt, MinAge
<1>3. CASE ~(birth.d > DaysIn(birth.y + 18, birth.m))
  <2>1. AddYears(birth, 18) = Date(birth.y + 18, birth.m, birth.d)
    BY <1>3 DEF AddYears
  <2> QED  BY <1>1, <2>1 DEF OldEnough, Before, Date, AgeAt, MinAge
<1> QED  BY <1>2, <1>3

-----------------------------------------------------------------------------
(* The checks against the constraints. *)

(* What ToPatch lets through on a day, it lets through on the next. *)
LEMMA ValidStays ==
  ASSUME NEW r \in Requests, NEW day \in Dates, Valid(r, day)
  PROVE  Valid(r, NextDay(day))
<1>1. ASSUME "birth_date" \in Given(r)
      PROVE  r.birth_date \in Dates /\ OldEnough(r.birth_date, NextDay(day))
  <2>1. r.birth_date \in Dates /\ OldEnough(r.birth_date, day)
    BY <1>1 DEF Valid
  <2>2. AgeAt(r.birth_date, day) >= MinAge
    BY <2>1, OldEnoughIsAge
  <2>3. AgeAt(r.birth_date, NextDay(day)) >= MinAge
    BY <2>1, <2>2, NextDayIsDate, AgeIsInt, AgeGrowsByOne DEF MinAge
  <2> QED  BY <2>1, <2>3, NextDayIsDate, OldEnoughIsAge
<1> QED  BY <1>1 DEF Valid

(* A name that ValidateName accepts fits into its column. *)
LEMMA NameFits ==
  ASSUME NEW name, ValidName(name) PROVE Nonblank(name, 100)
<1>1. Len(name) \in 1..64 /\ 1 \in 1..Len(name)
  BY DEF ValidName
<1>2. name[1] = "letter"
  BY <1>1 DEF ValidName
<1> QED  BY <1>1, <1>2 DEF Nonblank, White

(* A job that ValidateWork accepts, trimmed, fits into its column. *)
LEMMA WorkFits ==
  ASSUME NEW text \in Texts, Len(text.core) <= 100
  PROVE  Work(text) = Null \/ Nonblank(Work(text), 100)
<1>1. CASE text = Null \/ text.core = <<>>
  BY <1>1 DEF Work
<1>2. CASE ~(text = Null \/ text.core = <<>>)
  <2>1. Work(text) = text.core
    BY <1>2 DEF Work
  <2>2. text.core \in Seq(Kinds) /\ text.core[1] \notin White
    BY <1>2 DEF Texts
  <2>3. Len(text.core) \in Nat /\ Len(text.core) # 0
    BY <1>2, <2>2, EmptySeq
  <2>4. Len(text.core) \in 1..100 /\ 1 \in 1..Len(text.core)
    <3> DEFINE n == Len(text.core)
    <3>1. n \in Nat /\ n # 0 /\ n <= 100
      BY <2>3
    <3> HIDE DEF n
    <3>2. n \in 1..100 /\ 1 \in 1..n
      BY <3>1
    <3> QED  BY <3>2 DEF n
  <2> QED  BY <2>1, <2>2, <2>4 DEF Nonblank
<1> QED  BY <1>1, <1>2

(* The next version fits, if the one before does and the patch has passed  *)
(* the checks.                                                             *)
LEMMA AppliedFits ==
  ASSUME NEW r \in Requests, NEW day, Valid(r, day), RowFits(row)
  PROVE  RowFits(Applied(r))
<1> DEFINE next == Applied(r)
<1>1. \A f \in Fields : next[f] = IF f \in Given(r) THEN Sets(r, f) ELSE row[f]
  BY DEF Applied
<1>2. Given(r) \subseteq DOMAIN r
  BY DEF Given
<1>3. next.name = Null \/ Nonblank(next.name, 100)
  <2>1. CASE "name" \in Given(r)
    BY <1>1, <2>1, NameFits DEF Valid, Sets, Fields, Required
  <2>2. CASE "name" \notin Given(r)
    BY <1>1, <2>2 DEF RowFits, Fields, Required
  <2> QED  BY <2>1, <2>2
<1>4. \A f \in Enums : next[f] = Null \/ next[f] \in Allowed[f]
  <2> SUFFICES ASSUME NEW f \in Enums PROVE next[f] = Null \/ next[f] \in Allowed[f]
    OBVIOUS
  <2>1. f \in Fields /\ f \notin {"name", "work", "about_me"}
    BY DEF Fields, Enums
  <2>2. CASE f \in Given(r)
    BY <1>1, <2>1, <2>2 DEF Valid, Sets
  <2>3. CASE f \notin Given(r)
    BY <1>1, <2>1, <2>3 DEF RowFits
  <2> QED  BY <2>2, <2>3
<1>5. next.work = Null \/ Nonblank(next.work, 100)
  <2>1. CASE "work" \in Given(r)
    <3>1. next.work = Work(r.work)
      BY <1>1, <2>1 DEF Sets, Fields
    <3>2. r.work \in Texts \cup {Null}
      BY <1>2, <2>1, RequestsDecoded
    <3>3. CASE r.work = Null
      BY <3>1, <3>3 DEF Work
    <3>4. CASE r.work # Null
      BY <2>1, <3>1, <3>2, <3>4, WorkFits DEF Valid
    <3> QED  BY <3>3, <3>4
  <2>2. CASE "work" \notin Given(r)
    BY <1>1, <2>2 DEF RowFits, Fields
  <2> QED  BY <2>1, <2>2
<1>6. next.height = Null \/ next.height \in 100..250
  <2>1. CASE "height" \in Given(r)
    BY <1>1, <2>1 DEF Valid, Sets, Fields, Heights
  <2>2. CASE "height" \notin Given(r)
    BY <1>1, <2>2 DEF RowFits, Fields
  <2> QED  BY <2>1, <2>2
<1>7. \A i, j \in DOMAIN next.tags : next.tags[i] = next.tags[j] => i = j
  <2>1. CASE "tags" \in Given(r)
    BY <1>1, <2>1 DEF Valid, ValidTags, Sets, Fields
  <2>2. CASE "tags" \notin Given(r)
    BY <1>1, <2>2 DEF RowFits, Fields
  <2> QED  BY <2>1, <2>2
<1> QED  BY <1>3, <1>4, <1>5, <1>6, <1>7 DEF RowFits

(* A filter that ToModel accepts fits its row. *)
LEMMA FilterOfRequestFits ==
  ASSUME NEW f, ValidFilter(f)
  PROVE  FilterFits(f) /\ f.from \in SearchAges /\ f.to \in SearchAges
BY DEF ValidFilter, FilterFits, SearchAges, Sexes

-----------------------------------------------------------------------------
(* The inductive invariant. *)

(* The clock shows a date and counts its nights. *)
ClockInv == today \in Dates /\ nights \in Nat

(* The stored version fits its constraints and is an adult's. *)
RowInv ==
  /\ row.birth_date \in Dates \cup {Null}
  /\ RowFits(row)
  /\ AdultsOnly

(* What waits to be stored would still pass the checks today. *)
PatchInv ==
  patch # NoPatch => patch.body \in Requests /\ Valid(patch.body, today)

FilterInv ==
  filter # NoFilter => filter.from \in SearchAges /\ filter.to \in SearchAges

(* The date of a request, and how many nights ago it was taken; the age    *)
(* the query has found on that date.                                       *)
PageInv ==
  /\ page.at \in {"asked", "read"} =>
       /\ page.date \in Dates /\ page.since \in Nat /\ page.since <= nights
       /\ page.since = nights => today = page.date
       /\ page.since + 1 = nights => today = NextDay(page.date)
  /\ page.at = "asked" => filter # NoFilter
  /\ page.at = "read" =>
       /\ page.birth \in Dates
       /\ page.ages[1] \in SearchAges /\ page.ages[2] \in SearchAges
       /\ page.ages[1] <= AgeAt(page.birth, page.date)
       /\ AgeAt(page.birth, page.date) <= page.ages[2]
  /\ ShownAgeFits

Inv == ClockInv /\ RowInv /\ PatchInv /\ FilterInv /\ PageInv /\ AcceptedFits

LEMMA InvInit == Init => Inv
<1> SUFFICES ASSUME Init PROVE Inv
  OBVIOUS
<1>1. ClockInv
  BY DaysAreDates DEF Init, ClockInv
<1>2. RowInv
  <2>1. \A f \in Fields : row[f] = IF f = "tags" THEN <<>> ELSE Null
    BY DEF Init
  <2>2. /\ row.name = Null /\ row.birth_date = Null /\ row.work = Null
        /\ row.height = Null /\ row.tags = <<>>
    BY <2>1 DEF Fields, Required
  <2>3. \A f \in Enums : row[f] = Null
    BY <2>1 DEF Fields, Enums
  <2>4. DOMAIN row.tags = {}
    BY <2>2
  <2> QED  BY <2>2, <2>3, <2>4 DEF RowInv, RowFits, AdultsOnly
<1>3. PatchInv /\ FilterInv
  BY DEF Init, PatchInv, FilterInv
<1>4. PageInv
  BY DEF Init, PageInv, NoPage, ShownAgeFits
<1>5. AcceptedFits
  BY DEF Init, AcceptedFits
<1> QED  BY <1>1, <1>2, <1>3, <1>4, <1>5 DEF Inv

LEMMA MidnightKeepsInv == Inv /\ Midnight => Inv'
<1> SUFFICES ASSUME Inv, Midnight PROVE Inv'
  OBVIOUS
<1>1. /\ today \in Dates /\ today' = NextDay(today) /\ nights \in Nat /\ nights' = nights + 1
      /\ UNCHANGED <<row, patch, patches, filter, page, failed>>
  BY DEF Inv, ClockInv, Midnight
<1>2. today' \in Dates
  BY <1>1, NextDayIsDate
<1>3. ClockInv'
  BY <1>1, <1>2 DEF ClockInv
<1>4. RowInv'
  <2>1. ASSUME row.birth_date # Null
        PROVE  AgeAt(row.birth_date, today') >= MinAge
    <3>1. row.birth_date \in Dates /\ AgeAt(row.birth_date, today) >= MinAge
      BY <2>1 DEF Inv, RowInv, AdultsOnly
    <3> QED  BY <1>1, <1>2, <3>1, AgeIsInt, AgeGrowsByOne DEF MinAge
  <2>2. AdultsOnly'
    BY <1>1, <2>1 DEF AdultsOnly
  <2> QED  BY <1>1, <2>2 DEF Inv, RowInv, RowFits
<1>5. PatchInv'
  BY <1>1, ValidStays DEF Inv, PatchInv
<1>6. FilterInv' /\ AcceptedFits'
  BY <1>1 DEF Inv, FilterInv, AcceptedFits
<1>7. PageInv'
  <2>1. ASSUME page.at \in {"asked", "read"}
        PROVE  /\ page.date \in Dates /\ page.since \in Nat /\ page.since <= nights'
               /\ page.since = nights' => today' = page.date
               /\ page.since + 1 = nights' => today' = NextDay(page.date)
    <3>1. /\ page.date \in Dates /\ page.since \in Nat /\ page.since <= nights
          /\ page.since = nights => today = page.date
      BY <2>1 DEF Inv, PageInv
    <3>2. page.since # nights'
      BY <1>1, <3>1
    <3>3. ASSUME page.since + 1 = nights' PROVE today' = NextDay(page.date)
      <4>1. page.since = nights
        BY <1>1, <3>1, <3>3
      <4> QED  BY <1>1, <3>1, <4>1
    <3> QED  BY <1>1, <3>1, <3>2, <3>3
  <2> QED  BY <1>1, <2>1 DEF Inv, PageInv, ShownAgeFits
<1> QED  BY <1>3, <1>4, <1>5, <1>6, <1>7 DEF Inv

LEMMA StoreKeepsInv == Inv /\ Store => Inv'
<1> SUFFICES ASSUME Inv, Store PROVE Inv'
  OBVIOUS
<1> DEFINE r == patch.body
           next == Applied(patch.body)
<1>1. /\ r \in Requests /\ Valid(r, today) /\ RowFits(row)
  BY DEF Inv, PatchInv, RowInv, Store
<1>2. RowFits(next)
  BY <1>1, AppliedFits
<1>3. /\ patch' = NoPatch
      /\ UNCHANGED <<today, nights, filter, page>>
      /\ failed' = failed
      /\ row' = next \/ row' = row
  BY <1>2 DEF Store
<1>4. /\ next.birth_date \in Dates \cup {Null}
      /\ next.birth_date # Null => AgeAt(next.birth_date, today) >= MinAge
  <2>1. next.birth_date = IF "birth_date" \in Given(r) THEN r.birth_date ELSE row.birth_date
    BY DEF Applied, Sets, Fields, Required
  <2>2. CASE "birth_date" \in Given(r)
    <3>1. r.birth_date \in Dates /\ OldEnough(r.birth_date, today)
      BY <1>1, <2>2 DEF Valid
    <3> QED  BY <2>1, <2>2, <3>1, OldEnoughIsAge DEF Inv, ClockInv
  <2>3. CASE "birth_date" \notin Given(r)
    BY <2>1, <2>3 DEF Inv, RowInv, AdultsOnly
  <2> QED  BY <2>2, <2>3
<1>5. RowInv'
  <2>1. CASE row' = next
    <3>1. RowFits(row)'
      BY <1>2, <2>1 DEF RowFits
    <3>2. AdultsOnly'
      BY <1>3, <1>4, <2>1 DEF AdultsOnly
    <3> QED  BY <1>4, <2>1, <3>1, <3>2 DEF RowInv
  <2>2. CASE row' = row
    BY <1>3, <2>2 DEF Inv, RowInv, RowFits, AdultsOnly
  <2> QED  BY <1>3, <2>1, <2>2
<1>6. PatchInv'
  BY <1>3 DEF PatchInv
<1>7. ClockInv' /\ FilterInv' /\ PageInv' /\ AcceptedFits'
  BY <1>3 DEF Inv, ClockInv, FilterInv, PageInv, ShownAgeFits, AcceptedFits
<1> QED  BY <1>5, <1>6, <1>7 DEF Inv

LEMMA RequestKeepsInv == Inv /\ (Submit \/ Abort \/ SetFilter) => Inv'
<1> SUFFICES ASSUME Inv, Submit \/ Abort \/ SetFilter PROVE Inv'
  OBVIOUS
<1>1. UNCHANGED <<today, nights, row, page>>
  BY DEF Submit, Abort, SetFilter
<1>2. ClockInv' /\ RowInv'
  BY <1>1 DEF Inv, ClockInv, RowInv, RowFits, AdultsOnly
<1>3. PatchInv'
  <2>1. CASE Submit
    BY <1>1, <2>1 DEF Submit, PatchInv
  <2>2. CASE Abort
    BY <2>2 DEF Abort, PatchInv
  <2>3. CASE SetFilter
    BY <1>1, <2>3 DEF SetFilter, Inv, PatchInv
  <2> QED  BY <2>1, <2>2, <2>3
<1>4. FilterInv' /\ AcceptedFits' /\ (filter # NoFilter => filter' # NoFilter)
  <2>1. CASE Submit \/ Abort
    BY <2>1 DEF Submit, Abort, Inv, FilterInv, AcceptedFits
  <2>2. CASE SetFilter
    <3>1. PICK f \in Wanted :
            /\ ValidFilter(f)
            /\ IF FilterFits(f) THEN filter' = f /\ UNCHANGED failed
                                ELSE failed' = TRUE /\ UNCHANGED filter
      BY <2>2 DEF SetFilter
    <3>2. filter' = f /\ UNCHANGED failed
      BY <3>1, FilterOfRequestFits
    <3>3. f # NoFilter
      BY <3>1 DEF ValidFilter, Sexes, NoFilter
    <3> QED  BY <3>1, <3>2, <3>3, FilterOfRequestFits DEF Inv, FilterInv, AcceptedFits
  <2> QED  BY <2>1, <2>2
<1>5. PageInv'
  BY <1>1, <1>4 DEF Inv, PageInv, ShownAgeFits
<1> QED  BY <1>2, <1>3, <1>4, <1>5 DEF Inv

LEMMA FeedKeepsInv == Inv /\ (AskFeed \/ Query \/ Show) => Inv'
<1> SUFFICES ASSUME Inv, AskFeed \/ Query \/ Show PROVE Inv'
  OBVIOUS
<1>1. UNCHANGED <<today, nights, row, patch, filter, failed>>
  BY DEF AskFeed, Query, Show
<1>2. ClockInv' /\ RowInv' /\ PatchInv' /\ FilterInv' /\ AcceptedFits'
  BY <1>1 DEF Inv, ClockInv, RowInv, RowFits, AdultsOnly, PatchInv, FilterInv, AcceptedFits
<1>3. PageInv'
  <2>1. CASE page' = NoPage
    BY <2>1 DEF NoPage, PageInv, ShownAgeFits
  <2>2. CASE AskFeed
    <3>1. page' = [at |-> "asked", date |-> today, since |-> nights]
      BY <2>2 DEF AskFeed
    <3> QED  BY <1>1, <2>2, <3>1 DEF AskFeed, Inv, ClockInv, PageInv, ShownAgeFits
  <2>3. CASE Query /\ page' # NoPage
    <3>1. /\ page.at = "asked" /\ row.birth_date # Null
          /\ SqlAge(page.date, row.birth_date) \in filter.from..filter.to
          /\ page' = [at |-> "read", date |-> page.date, since |-> page.since,
                      birth |-> row.birth_date, ages |-> <<filter.from, filter.to>>]
      BY <2>3 DEF Query
    <3>2. row.birth_date \in Dates /\ page.date \in Dates
      BY <3>1 DEF Inv, RowInv, PageInv
    <3>3. AgeAt(row.birth_date, page.date) \in filter.from..filter.to
      BY <3>1, <3>2, SqlAgeIsAgeAt
    <3>4. filter.from \in SearchAges /\ filter.to \in SearchAges
      BY <3>1 DEF Inv, FilterInv, PageInv
    <3>5. page'.ages[1] = filter.from /\ page'.ages[2] = filter.to
      BY <3>1
    <3> QED  BY <1>1, <3>1, <3>2, <3>3, <3>4, <3>5 DEF Inv, PageInv, ShownAgeFits, SearchAges
  <2>4. CASE Show /\ page' # NoPage
    <3>1. /\ page.at = "read" /\ nights <= page.since + 1
          /\ page' = [at |-> "shown", ages |-> page.ages, late |-> nights - page.since,
                      age |-> AgeAt(page.birth, today)]
      BY <2>4 DEF Show
    <3>2. /\ page.date \in Dates /\ page.since \in Nat /\ page.since <= nights /\ nights \in Nat
          /\ page.birth \in Dates
          /\ page.since = nights => today = page.date
          /\ page.since + 1 = nights => today = NextDay(page.date)
          /\ page.ages[1] \in SearchAges /\ page.ages[2] \in SearchAges
          /\ page.ages[1] <= AgeAt(page.birth, page.date)
          /\ AgeAt(page.birth, page.date) <= page.ages[2]
      BY <3>1 DEF Inv, ClockInv, PageInv
    <3>3. /\ AgeAt(page.birth, page.date) \in Int
          /\ AgeAt(page.birth, page.date) <= AgeAt(page.birth, today)
          /\ AgeAt(page.birth, today) <= AgeAt(page.birth, page.date) + (nights - page.since)
          /\ AgeAt(page.birth, today) \in Int
      <4>1. CASE nights = page.since
        BY <3>2, <4>1, AgeIsInt
      <4>2. CASE nights = page.since + 1
        BY <3>2, <4>2, AgeIsInt, AgeGrowsByOne, NextDayIsDate
      <4> QED  BY <3>1, <3>2, <4>1, <4>2
    <3> DEFINE age == AgeAt(page.birth, today)
               late == nights - page.since
    <3>4. /\ page.ages[1] <= age /\ age <= page.ages[2] + late
          /\ MinAge <= age /\ late \in 0..1
      BY <3>1, <3>2, <3>3 DEF SearchAges, MinAge
    <3>5. page'.at = "shown" /\ page'.ages = page.ages /\ page'.late = late /\ page'.age = age
      BY <3>1
    <3> QED  BY <3>4, <3>5 DEF PageInv, ShownAgeFits
  <2> QED  BY <2>1, <2>2, <2>3, <2>4
<1> QED  BY <1>2, <1>3 DEF Inv

THEOREM InvHolds == Spec => []Inv
<1>1. Inv /\ [Next]_vars => Inv'
  <2> SUFFICES ASSUME Inv, [Next]_vars PROVE Inv'
    OBVIOUS
  <2>1. CASE Next
    BY <2>1, MidnightKeepsInv, StoreKeepsInv, RequestKeepsInv, FeedKeepsInv DEF Next
  <2>2. CASE UNCHANGED vars
    BY <2>2 DEF vars, Inv, ClockInv, RowInv, RowFits, AdultsOnly, PatchInv, FilterInv, PageInv,
                ShownAgeFits, AcceptedFits
  <2> QED  BY <2>1, <2>2
<1> QED  BY <1>1, InvInit, PTL DEF Spec

-----------------------------------------------------------------------------
(* No request that the API accepts is refused by the constraints of the    *)
(* tables, whatever requests come and on whatever days.                    *)
THEOREM ChecksImplyConstraints == Spec => []AcceptedFits
BY InvHolds, PTL DEF Inv

(* Every stored birth date is an adult's on every later day.               *)
THEOREM StoredAreAdults == Spec => []AdultsOnly
BY InvHolds, PTL DEF Inv, RowInv

(* Every age shown is within the range asked for, or one above it after    *)
(* midnight.                                                               *)
THEOREM ShownFitsFilter == Spec => []ShownAgeFits
BY InvHolds, PTL DEF Inv, PageInv
=============================================================================
