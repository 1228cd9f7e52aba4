-------------------------------- MODULE Feed --------------------------------
(***************************************************************************)
(* GET /feed: a viewer scrolls through the profiles of other users, page   *)
(* by page.  A cursor is the id of the last user of the page before.  The  *)
(* service keeps nothing between pages, and profiles become complete, lapse*)
(* and change between two pages and while a page is made.                  *)
(***************************************************************************)
EXTENDS Integers, FiniteSets

CONSTANTS Users,       \* ids of registered users
          Viewer,      \* the user who scrolls
          Limit,       \* profiles on a page
          Traits,      \* [sex, age] a profile may have
          Filters,     \* [sex, from, to] the viewer may search for
          Lacks,       \* what a profile may lack at first
          MaxChanges   \* bound on the changes of profiles in a behavior

(* What a profile consists of, as far as the feed sees it. *)
Parts == {"name", "birth_date", "sex", "dating_goal", "search_filter", "photos"}

ASSUME UsersAreIds == Users \subseteq Nat \ {0} /\ IsFiniteSet(Users) /\ Viewer \in Users
ASSUME LimitPositive == Limit \in Nat \ {0} /\ MaxChanges \in Nat
ASSUME LacksParts == Lacks \subseteq Parts

VARIABLES
  has,      \* what each profile has: fields that are not NULL, a photo, a filter
  traits,   \* sex and age of each profile, once it has them
  filter,   \* the viewer's row of search_filter
  pc,       \* where the viewer's request is
  cursor,   \* next_cursor of the last page delivered, 0: none
  page,     \* the page that has been read: its users, and its next_cursor
  items,    \* what the service makes of the page
  shown,    \* users shown since the viewer began to scroll
  steady,   \* history: users who have been eligible ever since
  changes   \* changes of profiles so far, at most MaxChanges

profiles == <<has, traits, filter>>
vars == <<profiles, pc, cursor, page, items, shown, steady, changes>>

Others == Users \ {Viewer}
NoPage == [users |-> {}, next |-> 0]

-----------------------------------------------------------------------------
(* Profile.Missing *)
Missing(u) ==
  {part \in {"name", "birth_date", "sex", "dating_goal", "search_filter", "photos"} :
     part \notin has[u]}

(* Mistake: the condition of the SELECT does not know the dating goal. *)
CompleteInSQLNoGoal(u) == {"name", "birth_date", "sex", "photos", "search_filter"} \subseteq has[u]
(* IS NOT NULL of the fields and EXISTS of a photo and of a filter. *)
CompleteInSQL(u) ==
  {"name", "birth_date", "sex", "dating_goal", "photos", "search_filter"} \subseteq has[u]

(* The sex and age a filter lets through. *)
Accepts(f, t) ==
  /\ f.sex = "all" \/ f.sex = t.sex
  /\ f.from <= t.age /\ t.age <= f.to

(* Mistake: the viewer is not left out. *)
SelectsSelf(u, after) == u > after /\ CompleteInSQL(u) /\ Accepts(filter, traits[u])
(* Mistake: the last user of the page before is read again. *)
SelectsAgain(u, after) ==
  u >= after /\ u # Viewer /\ CompleteInSQL(u) /\ Accepts(filter, traits[u])
(* WHERE of GetProfilesByCursorAndLimit *)
Selects(u, after) ==
  u > after /\ u # Viewer /\ CompleteInSQL(u) /\ Accepts(filter, traits[u])

(* first holds the n users of all that have the smallest ids, or all of    *)
(* them if there are no more: ORDER BY user_id LIMIT n.                    *)
IsFirst(first, n, all) ==
  /\ first \subseteq all
  /\ \A u \in first, v \in all \ first : u < v
  /\ Cardinality(first) <= n
  /\ first # all => Cardinality(first) = n

IsLast(u, set) == u \in set /\ \A v \in set : v <= u

(* Mistake: the cursor is the user who was read only to know there is more. *)
IsPageSkipping(p, all) ==
  \E read \in SUBSET all :
    /\ IsFirst(read, Limit + 1, all)
    /\ IsFirst(p.users, Limit, read)
    /\ IF Cardinality(read) > Limit THEN IsLast(p.next, read) ELSE p.next = 0
(* One row more than the page holds is read; if it is there, the page has  *)
(* a next one.                                                             *)
IsPage(p, all) ==
  \E read \in SUBSET all :
    /\ IsFirst(read, Limit + 1, all)
    /\ IsFirst(p.users, Limit, read)
    /\ IF Cardinality(read) > Limit THEN IsLast(p.next, p.users) ELSE p.next = 0

(* Users the viewer may be shown. *)
Eligible(u) == u # Viewer /\ Missing(u) = {} /\ Accepts(filter, traits[u])

-----------------------------------------------------------------------------
(* Profiles that are complete or lack one thing: those that lack more are  *)
(* left out of the feed for the same reasons.                              *)
Init ==
  /\ has \in [Users -> {Parts} \cup {Parts \ {part} : part \in Lacks}]
  /\ traits \in [Users -> Traits]
  /\ filter \in Filters
  /\ pc = "idle"
  /\ cursor = 0
  /\ page = NoPage
  /\ items = {}
  /\ shown = {}
  /\ steady = {}
  /\ changes = 0

(* The feed is opened, or opened again, without a cursor. *)
Open ==
  /\ pc \in {"idle", "between", "end"}
  /\ pc' = "between"
  /\ cursor' = 0
  /\ shown' = {}
  /\ steady' = {u \in Users : Eligible(u)}
  /\ UNCHANGED <<profiles, page, items, changes>>

(* A transaction of its own reads the viewer's profile. *)
LoadViewer ==
  /\ pc = "between"
  /\ pc' = IF Missing(Viewer) = {} THEN "loaded" ELSE "refused"
  /\ UNCHANGED <<profiles, cursor, page, items, shown, steady, changes>>

(* The REPEATABLE READ transaction reads profiles, tags and photos of one  *)
(* snapshot; GetNextFeed then drops the profiles that miss something.      *)
Query ==
  /\ pc = "loaded"
  /\ LET all == {u \in Users : Selects(u, cursor)} IN
       page' \in {p \in [users : SUBSET all, next : all \cup {0}] : IsPage(p, all)}
  /\ items' = {u \in page'.users : Missing(u) = {}}
  /\ pc' = "answered"
  /\ UNCHANGED <<profiles, cursor, shown, steady, changes>>

Deliver ==
  /\ pc = "answered"
  /\ shown' = shown \cup items
  /\ cursor' = page.next
  /\ pc' = IF page.next = 0 THEN "end" ELSE "between"
  /\ page' = NoPage
  /\ items' = {}
  /\ UNCHANGED <<profiles, steady, changes>>

(* The request is refused, or it or its answer is lost: the viewer may ask *)
(* for the same page again.                                                *)
AskAgain ==
  /\ pc \in {"refused", "loaded", "answered"}
  /\ pc' = "between"
  /\ page' = NoPage
  /\ items' = {}
  /\ UNCHANGED <<profiles, cursor, shown, steady, changes>>

Change ==
  /\ changes < MaxChanges
  /\ changes' = changes + 1
  /\ steady' = {u \in steady : Eligible(u)'}
  /\ UNCHANGED <<pc, cursor, page, items, shown>>

(* A user fills in what the profile lacks; name, sex, ... are never cleared. *)
Complete(u) ==
  /\ \E part \in Parts \ has[u] : has' = [has EXCEPT ![u] = @ \cup {part}]
  /\ UNCHANGED <<traits, filter>>
  /\ Change

(* A user corrects sex or birth date, or has a birthday. *)
Alter(u) ==
  /\ {"sex", "birth_date"} \subseteq has[u]
  /\ \E t \in Traits : traits' = [traits EXCEPT ![u] = t]
  /\ UNCHANGED <<has, filter>>
  /\ Change

(* A user deletes the only photo. *)
LosePhoto(u) ==
  /\ "photos" \in has[u]
  /\ has' = [has EXCEPT ![u] = @ \ {"photos"}]
  /\ UNCHANGED <<traits, filter>>
  /\ Change

SetFilter ==
  /\ "search_filter" \in has[Viewer]
  /\ filter' \in Filters
  /\ UNCHANGED <<has, traits>>
  /\ Change

Next ==
  \/ Open \/ LoadViewer \/ Query \/ Deliver \/ AskAgain
  \/ \E u \in Users : Complete(u) \/ Alter(u) \/ LosePhoto(u)
  \/ SetFilter

Spec == Init /\ [][Next]_vars

-----------------------------------------------------------------------------
(* The variables have their types, and no page holds the viewer's profile  *)
(* or more than Limit others.                                              *)
TypeOK ==
  /\ has \in [Users -> SUBSET Parts]
  /\ traits \in [Users -> Traits]
  /\ filter \in Filters
  /\ pc \in {"idle", "between", "loaded", "refused", "answered", "end"}
  /\ cursor \in Users \cup {0}
  /\ page \in [users : SUBSET Others, next : Others \cup {0}]
  /\ Cardinality(page.users) <= Limit
  /\ items \subseteq page.users
  /\ shown \subseteq Others
  /\ steady \subseteq Others
  /\ changes \in 0..MaxChanges

(* However profiles change while the viewer scrolls, no page holds a       *)
(* profile that an earlier page has shown.                                 *)
NoRepeats == shown \cap items = {}

(* When the last page has been delivered, every profile that was eligible  *)
(* all the while has been shown: pages that were lost and asked for again, *)
(* and profiles that come and go around it, do not hide it.                *)
NothingSkipped == pc = "end" => steady \subseteq shown

(* The condition of the SELECT agrees with Profile.Missing: the service    *)
(* never drops a profile the database has selected.                        *)
NeverDropped == pc = "answered" => items = page.users
=============================================================================
