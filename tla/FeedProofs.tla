----------------------------- MODULE FeedProofs -----------------------------
(***************************************************************************)
(* Proofs about Feed: what a viewer is shown, for any users, page size,    *)
(* filters and changes of profiles.                                        *)
(***************************************************************************)
EXTENDS Feed, FiniteSetTheorems, WellFoundedInduction, TLAPS

(* The profiles of the page being answered lie behind the cursor, and no   *)
(* steady user is missing between the cursor and the next one.             *)
PageInv ==
  /\ pc # "answered" => page = NoPage /\ items = {}
  /\ items = page.users
  /\ \A u \in page.users : u > cursor
  /\ page.next # 0 =>
       /\ IsLast(page.next, page.users)
       /\ \A v \in steady : v > cursor /\ v <= page.next => v \in page.users
  /\ pc = "answered" /\ page.next = 0 => \A v \in steady : v > cursor => v \in page.users

(* What has been shown lies before the cursor, with every steady user.     *)
ShownInv ==
  pc # "end" =>
    /\ \A u \in shown : u <= cursor
    /\ \A v \in steady : v <= cursor => v \in shown

SteadyInv == \A u \in steady : Eligible(u)

IInv == TypeOK /\ PageInv /\ ShownInv /\ SteadyInv /\ NothingSkipped

-----------------------------------------------------------------------------
LEMMA IdsPositive == \A u \in Users : u \in Nat /\ u > 0
  BY UsersAreIds

(* Profile.Missing finds nothing exactly if the SELECT finds everything.   *)
LEMMA SameCompleteness == \A u \in Users : Missing(u) = {} <=> CompleteInSQL(u)
  BY DEF Missing, CompleteInSQL

(* A page without a next one holds all that is left; otherwise it holds    *)
(* all up to its cursor.                                                   *)
LEMMA PageHolds ==
  ASSUME NEW all, all \subseteq Others,
         NEW p \in [users : SUBSET all, next : all \cup {0}], IsPage(p, all)
  PROVE  /\ Cardinality(p.users) <= Limit
         /\ p.next = 0 => p.users = all
         /\ p.next # 0 => /\ IsLast(p.next, p.users)
                          /\ \A v \in all : v <= p.next => v \in p.users
<1>1. PICK read \in SUBSET all :
        /\ IsFirst(read, Limit + 1, all)
        /\ IsFirst(p.users, Limit, read)
        /\ IF Cardinality(read) > Limit THEN IsLast(p.next, p.users) ELSE p.next = 0
  BY DEF IsPage
<1>2. IsFiniteSet(read) /\ read \subseteq Nat \ {0} /\ all \subseteq Nat \ {0}
  BY UsersAreIds, FS_Subset DEF Others
<1>3. Cardinality(read) \in Nat /\ read \subseteq all /\ p.users \subseteq read
  BY <1>1, <1>2, FS_CardinalityType DEF IsFirst
<1>0. /\ \A v \in read, w \in all \ read : v < w
      /\ \A v \in p.users, w \in read \ p.users : v < w
  BY <1>1 DEF IsFirst
<1>4. ASSUME p.next = 0 PROVE p.users = all
  <2>0. ~ IsLast(p.next, p.users)
    BY <1>2, <1>3, <1>4 DEF IsLast
  <2>1. Cardinality(read) <= Limit
    BY <1>1, <1>3, <2>0, LimitPositive
  <2>2. read = all
    BY <1>1, <1>3, <2>1, LimitPositive DEF IsFirst
  <2>3. ASSUME p.users # read PROVE FALSE
    <3>1. Cardinality(p.users) = Limit
      BY <1>1, <2>3 DEF IsFirst
    <3>2. /\ Cardinality(p.users) <= Cardinality(read)
          /\ Cardinality(read) # Cardinality(p.users)
      <4> p.users \in SUBSET read
        BY <1>3
      <4> QED
        BY <1>2, <2>3, FS_Subset
    <3> QED
      BY <1>3, <2>1, <3>1, <3>2, LimitPositive
  <2> QED
    BY <2>2, <2>3
<1>5. ASSUME p.next # 0
      PROVE  IsLast(p.next, p.users) /\ \A v \in all : v <= p.next => v \in p.users
  <2>1. IsLast(p.next, p.users)
    BY <1>1, <1>5
  <2>2. p.next \in p.users
    BY <2>1 DEF IsLast
  <2>3. ASSUME NEW v \in all, v <= p.next PROVE v \in p.users
    <3>1. v \in Nat /\ p.next \in Nat /\ p.next \in read
      BY <1>2, <1>3, <2>2
    <3>2. v \in read
      BY <1>0, <2>3, <3>1
    <3> QED
      BY <1>0, <2>2, <2>3, <3>1, <3>2
  <2> QED
    BY <2>1, <2>3
<1> QED
  BY <1>1, <1>4, <1>5 DEF IsFirst

-----------------------------------------------------------------------------
THEOREM InitIInv == Init => IInv
<1> SUFFICES ASSUME Init PROVE IInv
  OBVIOUS
<1>1. TypeOK
  <2>1. Cardinality({}) = 0
    BY FS_EmptySet
  <2> QED
    BY <2>1, LimitPositive, LacksParts DEF Init, TypeOK, NoPage
<1> QED
  BY <1>1 DEF Init, IInv, PageInv, ShownInv, SteadyInv, NothingSkipped, NoPage

(* Changes of profiles, whatever they are, only take users from steady.    *)
LEMMA ChangeKeeps ==
  ASSUME IInv, Change,
         has' \in [Users -> SUBSET Parts], traits' \in [Users -> Traits], filter' \in Filters
  PROVE  IInv'
<1>1. steady' \subseteq steady /\ SteadyInv'
  BY DEF Change, SteadyInv
<1>2. TypeOK'
  BY <1>1, LimitPositive DEF IInv, TypeOK, Change
<1>3. PageInv' /\ ShownInv' /\ NothingSkipped'
  BY <1>1 DEF IInv, PageInv, ShownInv, NothingSkipped, Change
<1> QED
  BY <1>1, <1>2, <1>3 DEF IInv

(* A page read from the snapshot is a page the invariant speaks of.        *)
LEMMA QueryKeeps == IInv /\ Query => IInv'
<1> SUFFICES ASSUME IInv, Query PROVE IInv'
  OBVIOUS
<1> DEFINE all == {u \in Users : Selects(u, cursor)}
<1>1. TypeOK /\ PageInv /\ ShownInv /\ SteadyInv
  BY DEF IInv
<1>2. all \subseteq Others
  BY DEF Others, Selects
<1>3. page' \in [users : SUBSET all, next : all \cup {0}] /\ IsPage(page', all)
  BY DEF Query
<1>4. /\ Cardinality(page'.users) <= Limit
      /\ page'.next = 0 => page'.users = all
      /\ page'.next # 0 => /\ IsLast(page'.next, page'.users)
                           /\ \A v \in all : v <= page'.next => v \in page'.users
  <2> HIDE DEF all
  <2> QED
    BY <1>2, <1>3, PageHolds
<1>5. \A u \in all : u > cursor /\ Missing(u) = {}
  BY SameCompleteness DEF Selects
<1>6. \A v \in steady : v > cursor => v \in all
  BY <1>1, SameCompleteness DEF TypeOK, SteadyInv, Eligible, Selects, Others
<1>7. items' = page'.users
  BY <1>3, <1>5 DEF Query
<1>8. TypeOK'
  <2> HIDE DEF all
  <2> QED
    BY <1>1, <1>2, <1>3, <1>4, <1>7 DEF TypeOK, Query, profiles
<1>9. PageInv'
  <2>1. cursor' = cursor /\ steady' = steady /\ pc' = "answered"
    BY DEF Query
  <2> HIDE DEF all
  <2> QED
    BY <1>3, <1>4, <1>5, <1>6, <1>7, <2>1 DEF PageInv, IsLast
<1>10. ShownInv' /\ NothingSkipped'
  BY <1>1 DEF ShownInv, NothingSkipped, Query
<1>11. SteadyInv'
  BY <1>1 DEF SteadyInv, Eligible, Missing, Accepts, Query, profiles
<1> QED
  BY <1>8, <1>9, <1>10, <1>11 DEF IInv

(* A page delivered moves the cursor past all it shows.                    *)
LEMMA DeliverKeeps == IInv /\ Deliver => IInv'
<1> SUFFICES ASSUME IInv, Deliver PROVE IInv'
  OBVIOUS
<1>1. TypeOK /\ PageInv /\ ShownInv /\ SteadyInv
  BY DEF IInv
<1>2. /\ cursor \in Nat /\ page.next \in Nat
      /\ steady \subseteq Nat /\ shown \subseteq Nat /\ page.users \subseteq Nat
  <2>1. Others \subseteq Nat
    BY UsersAreIds DEF Others
  <2>2. cursor \in Nat
    BY <1>1, UsersAreIds DEF TypeOK
  <2>3. page.next \in Nat /\ page.users \subseteq Nat
    <3>1. page \in [users : SUBSET Others, next : Others \cup {0}]
      BY <1>1 DEF TypeOK
    <3>2. page.users \subseteq Others /\ page.next \in Others \cup {0}
      BY <3>1
    <3>3. page.users \subseteq Nat
      BY <2>1, <3>2
    <3>4. page.next \in Nat
      <4>1. CASE page.next = 0
        BY <4>1
      <4>2. CASE page.next \in Others
        BY <2>1, <4>2
      <4> QED
        BY <3>2, <4>1, <4>2
    <3> QED
      BY <3>3, <3>4
  <2> QED
    BY <1>1, <2>1, <2>2, <2>3 DEF TypeOK
<1>3. TypeOK'
  <2>1. Cardinality({}) = 0
    BY FS_EmptySet
  <2> QED
    BY <1>1, <2>1, LimitPositive DEF TypeOK, Deliver, NoPage, Others, profiles
<1>4. PageInv'
  <2>1. pc' # "answered" /\ page' = NoPage /\ items' = {}
    BY DEF Deliver
  <2>2. NoPage.users = {} /\ NoPage.next = 0
    BY DEF NoPage
  <2> QED
    BY <2>1, <2>2 DEF PageInv
<1>5. ShownInv'
  <2> SUFFICES ASSUME page.next # 0 PROVE ShownInv'
    BY DEF ShownInv, Deliver
  <2>1. page.next > cursor /\ \A u \in page.users : u <= page.next
    BY <1>1 DEF PageInv, IsLast
  <2>2. cursor' = page.next /\ shown' = shown \cup page.users /\ steady' = steady
    BY <1>1 DEF PageInv, Deliver
  <2>3. /\ \A u \in shown : u <= cursor
        /\ \A v \in steady : v <= cursor => v \in shown
        /\ \A v \in steady : v > cursor /\ v <= page.next => v \in page.users
    BY <1>1 DEF PageInv, ShownInv, Deliver
  <2>4. \A u \in shown' : u <= cursor'
    BY <1>2, <2>1, <2>2, <2>3
  <2>5. \A v \in steady' : v <= cursor' => v \in shown'
    <3> SUFFICES ASSUME NEW v \in steady, v <= page.next PROVE v \in shown \cup page.users
      BY <2>2
    <3>1. v \in Nat
      BY <1>2
    <3>2. CASE v <= cursor
      BY <2>3, <3>2
    <3>3. CASE v > cursor
      BY <2>3, <3>3
    <3> QED
      BY <1>2, <3>1, <3>2, <3>3
  <2> QED
    BY <2>4, <2>5 DEF ShownInv
<1>6. NothingSkipped'
  BY <1>1, <1>2 DEF PageInv, ShownInv, NothingSkipped, Deliver
<1>7. SteadyInv'
  BY <1>1 DEF SteadyInv, Eligible, Missing, Accepts, Deliver, profiles
<1> QED
  BY <1>3, <1>4, <1>5, <1>6, <1>7 DEF IInv

(* Every step of the feed, of the network and of other users keeps what    *)
(* the theorems rest on.                                                   *)
LEMMA Step == IInv /\ [Next]_vars => IInv'
<1> SUFFICES ASSUME IInv, [Next]_vars PROVE IInv'
  OBVIOUS
<1>0. TypeOK /\ PageInv /\ ShownInv /\ SteadyInv /\ NothingSkipped
  BY DEF IInv
<1>1. ASSUME Open PROVE IInv'
  <2>1. SteadyInv' /\ steady' \subseteq Others
    BY <1>1 DEF Open, SteadyInv, Eligible, Missing, Accepts, profiles, Others
  <2>2. TypeOK'
    BY <1>0, <1>1, <2>1 DEF TypeOK, Open, profiles
  <2>3. PageInv' /\ NothingSkipped'
    BY <1>0, <1>1 DEF PageInv, NothingSkipped, Open, NoPage
  <2>4. ShownInv'
    BY <1>1, <2>1, IdsPositive DEF ShownInv, Open, Others
  <2> QED
    BY <2>1, <2>2, <2>3, <2>4 DEF IInv
<1>2. ASSUME LoadViewer PROVE IInv'
  <2>1. TypeOK' /\ PageInv' /\ ShownInv' /\ NothingSkipped'
    BY <1>0, <1>2 DEF TypeOK, PageInv, ShownInv, NothingSkipped, LoadViewer, profiles
  <2>2. SteadyInv'
    BY <1>0, <1>2 DEF SteadyInv, Eligible, Missing, Accepts, LoadViewer, profiles
  <2> QED
    BY <2>1, <2>2 DEF IInv
<1>3. ASSUME AskAgain PROVE IInv'
  <2>1. Cardinality({}) = 0
    BY FS_EmptySet
  <2>2. TypeOK'
    BY <1>0, <1>3, <2>1, LimitPositive DEF TypeOK, AskAgain, NoPage, profiles
  <2>3. PageInv' /\ ShownInv' /\ NothingSkipped'
    BY <1>0, <1>3 DEF PageInv, ShownInv, NothingSkipped, AskAgain, NoPage
  <2>4. SteadyInv'
    BY <1>0, <1>3 DEF SteadyInv, Eligible, Missing, Accepts, AskAgain, profiles
  <2> QED
    BY <2>2, <2>3, <2>4 DEF IInv
<1>4. ASSUME NEW u \in Users, Complete(u) PROVE IInv'
  BY <1>0, <1>4, ChangeKeeps DEF TypeOK, Complete
<1>5. ASSUME NEW u \in Users, Alter(u) PROVE IInv'
  BY <1>0, <1>5, ChangeKeeps DEF TypeOK, Alter
<1>6. ASSUME NEW u \in Users, LosePhoto(u) PROVE IInv'
  BY <1>0, <1>6, ChangeKeeps DEF TypeOK, LosePhoto
<1>7. ASSUME SetFilter PROVE IInv'
  BY <1>0, <1>7, ChangeKeeps DEF TypeOK, SetFilter
<1>8. ASSUME UNCHANGED vars PROVE IInv'
  BY <1>0, <1>8 DEF vars, profiles, IInv, TypeOK, PageInv, ShownInv, SteadyInv,
                    NothingSkipped, Eligible, Missing, Accepts
<1> QED
  BY <1>1, <1>2, <1>3, <1>4, <1>5, <1>6, <1>7, <1>8, QueryKeeps, DeliverKeeps DEF Next

LEMMA Invariance == Spec => []IInv
  BY InitIInv, Step, PTL DEF Spec

(* The types hold, and no page is too long or shows the viewer.            *)
THEOREM TypeCorrect == Spec => []TypeOK
  BY Invariance, PTL DEF IInv

(* No profile appears on two pages of one scroll.                          *)
THEOREM PagesNeverRepeat == Spec => []NoRepeats
<1>1. IInv => NoRepeats
  <2> SUFFICES ASSUME IInv, NEW u \in shown, u \in items PROVE FALSE
    BY DEF NoRepeats
  <2>1. pc # "end" /\ u > cursor /\ u <= cursor
    BY DEF IInv, PageInv, ShownInv
  <2>2. u \in Nat /\ cursor \in Nat
    BY UsersAreIds DEF IInv, TypeOK, Others
  <2> QED
    BY <2>1, <2>2
<1> QED
  BY Invariance, <1>1, PTL

(* A scroll to the end has shown everybody who was eligible all the while. *)
THEOREM ScrollIsComplete == Spec => []NothingSkipped
  BY Invariance, PTL DEF IInv

(* What the SELECT takes for complete the service takes for complete.      *)
THEOREM SelectedAreComplete == Spec => []NeverDropped
<1>1. IInv => NeverDropped
  BY DEF IInv, PageInv, NeverDropped
<1> QED
  BY Invariance, <1>1, PTL

-----------------------------------------------------------------------------
(* Pages exist, and there is no choice between two. *)

(* A finite set of ids that is not empty has a last one.                   *)
LEMMA LastExists ==
  ASSUME NEW set, IsFiniteSet(set), set \subseteq Nat, set # {}
  PROVE  \E u \in set : IsLast(u, set)
<1> DEFINE Bad == {S \in SUBSET set : S # {} /\ \A u \in S : ~IsLast(u, S)}
<1> SUFFICES ASSUME Bad # {} PROVE FALSE
  OBVIOUS
<1>1. Bad \subseteq FiniteSubsetsOf(set)
  BY FS_Subset DEF FiniteSubsetsOf
<1>2. PICK S \in Bad : \A T \in Bad : ~(<<T, S>> \in StrictSubsetOrdering(set))
  BY <1>1, FS_StrictSubsetOrderingWellFounded, WFMin
<1>3. \A T \in SUBSET S : T # S => T \notin Bad
  BY <1>1, <1>2 DEF StrictSubsetOrdering, FiniteSubsetsOf
<1>4. PICK u : u \in S
  BY <1>2
<1>5. CASE S = {u}
  BY <1>2, <1>5 DEF IsLast
<1>6. CASE S # {u}
  <2>1. S \ {u} # {} /\ S \ {u} \in SUBSET set /\ S \ {u} # S
    BY <1>2, <1>4, <1>6
  <2>2. PICK last \in S \ {u} : IsLast(last, S \ {u})
    BY <1>3, <2>1
  <2>3. IsLast(last, S) \/ IsLast(u, S)
    BY <1>2, <1>4, <2>2 DEF IsLast
  <2> QED  BY <1>2, <1>4, <2>2, <2>3
<1> QED  BY <1>5, <1>6

(* ORDER BY user_id LIMIT n finds rows in every set of users: take away    *)
(* the last user from a smallest set where it does not.                    *)
LEMMA FirstExists ==
  ASSUME NEW all, IsFiniteSet(all), all \subseteq Nat, NEW n \in Nat
  PROVE  \E first \in SUBSET all : IsFirst(first, n, all)
<1> DEFINE Bad == {S \in SUBSET all : \A first \in SUBSET S : ~IsFirst(first, n, S)}
<1> SUFFICES ASSUME Bad # {} PROVE FALSE
  OBVIOUS
<1>1. Bad \subseteq FiniteSubsetsOf(all)
  BY FS_Subset DEF FiniteSubsetsOf
<1>2. PICK S \in Bad : \A T \in Bad : ~(<<T, S>> \in StrictSubsetOrdering(all))
  BY <1>1, FS_StrictSubsetOrderingWellFounded, WFMin
<1>3. IsFiniteSet(S) /\ Cardinality(S) \in Nat
  BY <1>2, FS_Subset, FS_CardinalityType
<1>4. Cardinality(S) > n
  <2>1. Cardinality(S) <= n => IsFirst(S, n, S)
    BY DEF IsFirst
  <2> QED  BY <1>2, <1>3, <2>1
<1>5. S # {}
  BY <1>4, FS_EmptySet
<1>6. PICK u \in S : IsLast(u, S)
  BY <1>2, <1>3, <1>5, LastExists
<1>7. S \ {u} \notin Bad /\ S \ {u} \in SUBSET all
  BY <1>1, <1>2 DEF StrictSubsetOrdering, FiniteSubsetsOf
<1>8. PICK first \in SUBSET (S \ {u}) : IsFirst(first, n, S \ {u})
  BY <1>7
<1>9. Cardinality(S \ {u}) = Cardinality(S) - 1
  BY <1>3, <1>6, FS_RemoveElement
<1>10. Cardinality(first) = n
  <2>1. CASE first = S \ {u}
    BY <1>3, <1>4, <1>8, <1>9, <2>1 DEF IsFirst
  <2>2. CASE first # S \ {u}
    BY <1>8, <2>2 DEF IsFirst
  <2> QED  BY <2>1, <2>2
<1>11. \A v \in first, w \in S \ first : v < w
  <2> SUFFICES ASSUME NEW v \in first, NEW w \in S \ first PROVE v < w
    OBVIOUS
  <2>1. v \in S /\ v # u /\ v \in Nat /\ u \in Nat
    BY <1>2, <1>6, <1>8
  <2>2. CASE w = u
    BY <1>6, <2>1, <2>2 DEF IsLast
  <2>3. CASE w # u
    BY <1>8, <2>3 DEF IsFirst
  <2> QED  BY <2>2, <2>3
<1>12. IsFirst(first, n, S)
  BY <1>8, <1>10, <1>11 DEF IsFirst
<1> QED  BY <1>2, <1>8, <1>12

LEMMA FirstIsUnique ==
  ASSUME NEW all, IsFiniteSet(all), all \subseteq Nat, NEW n \in Nat,
         NEW a, NEW b, IsFirst(a, n, all), IsFirst(b, n, all)
  PROVE  a = b
<1>1. ASSUME NEW c, NEW d, IsFirst(c, n, all), IsFirst(d, n, all), NEW u \in c, u \notin d
      PROVE  FALSE
  <2>1. c \subseteq all /\ d \subseteq all /\ Cardinality(c) <= n /\ Cardinality(d) = n
    BY <1>1 DEF IsFirst
  <2>2. IsFiniteSet(c) /\ Cardinality(c) \in Nat
    BY <2>1, FS_Subset, FS_CardinalityType
  <2>3. d \subseteq c
    <3> SUFFICES ASSUME NEW v \in d, v \notin c PROVE FALSE
      OBVIOUS
    <3>1. u < v /\ v < u
      BY <1>1, <2>1 DEF IsFirst
    <3>2. u \in Nat /\ v \in Nat
      BY <1>1, <2>1
    <3> QED  BY <3>1, <3>2
  <2>4. d \in SUBSET c /\ c # d
    BY <1>1, <2>3
  <2>5. Cardinality(d) <= Cardinality(c) /\ Cardinality(c) # Cardinality(d)
    BY <2>2, <2>4, FS_Subset
  <2> QED  BY <2>1, <2>2, <2>5
<1> QED  BY <1>1

(* A page that has a next one is full.                                     *)
LEMMA FullPage ==
  ASSUME NEW all, IsFiniteSet(all), all \subseteq Nat \ {0}, NEW p, IsPage(p, all), p.next # 0
  PROVE  Cardinality(p.users) = Limit
<1>1. PICK read \in SUBSET all :
        /\ IsFirst(p.users, Limit, read)
        /\ IF Cardinality(read) > Limit THEN IsLast(p.next, p.users) ELSE p.next = 0
  BY DEF IsPage
<1>2. Cardinality(read) > Limit /\ Cardinality(p.users) <= Limit
  BY <1>1 DEF IsFirst
<1>3. p.users # read
  <2>1. IsFiniteSet(read) /\ Cardinality(read) \in Nat
    BY FS_Subset, FS_CardinalityType
  <2> QED  BY <1>2, <2>1, LimitPositive
<1> QED  BY <1>1, <1>3 DEF IsFirst

(* Whatever users the SELECT finds, there is exactly one page for them:    *)
(* a page asked for again from an unchanged table is the same page, and    *)
(* the viewer's request is never left without one.                         *)
THEOREM OnePage ==
  ASSUME NEW all \in SUBSET Others
  PROVE  /\ \E p \in [users : SUBSET all, next : all \cup {0}] : IsPage(p, all)
         /\ \A p, q \in [users : SUBSET all, next : all \cup {0}] :
              IsPage(p, all) /\ IsPage(q, all) => p = q
<1>1. IsFiniteSet(all) /\ all \subseteq Nat \ {0}
  BY UsersAreIds, FS_Subset DEF Others
<1>2. Limit \in Nat /\ Limit + 1 \in Nat /\ Limit > 0
  BY LimitPositive
<1>3. \E p \in [users : SUBSET all, next : all \cup {0}] : IsPage(p, all)
  <2>1. PICK read \in SUBSET all : IsFirst(read, Limit + 1, all)
    BY <1>1, <1>2, FirstExists
  <2>2. IsFiniteSet(read) /\ Cardinality(read) \in Nat /\ read \subseteq Nat
    BY <1>1, <2>1, FS_Subset, FS_CardinalityType
  <2>3. PICK users \in SUBSET read : IsFirst(users, Limit, read)
    BY <1>2, <2>2, FirstExists
  <2>4. CASE Cardinality(read) <= Limit
    <3>1. [users |-> users, next |-> 0] \in [users : SUBSET all, next : all \cup {0}]
      BY <2>1, <2>3
    <3>2. IsPage([users |-> users, next |-> 0], all)
      BY <1>2, <2>1, <2>2, <2>3, <2>4 DEF IsPage
    <3> QED  BY <3>1, <3>2
  <2>5. CASE Cardinality(read) > Limit
    <3>1. IsFiniteSet(users) /\ users \subseteq Nat
      BY <2>2, <2>3, FS_Subset
    <3>2. users # {}
      <4> SUFFICES ASSUME users = {} PROVE FALSE
        OBVIOUS
      <4>1. Cardinality(users) = 0 /\ (users = read => Cardinality(read) = 0)
        BY FS_EmptySet
      <4>2. users # read => Cardinality(users) = Limit
        BY <2>3 DEF IsFirst
      <4> QED  BY <1>2, <2>5, <4>1, <4>2
    <3>3. PICK u \in users : IsLast(u, users)
      BY <3>1, <3>2, LastExists
    <3>4. [users |-> users, next |-> u] \in [users : SUBSET all, next : all \cup {0}]
      BY <2>1, <2>3, <3>3
    <3>5. IsPage([users |-> users, next |-> u], all)
      BY <2>1, <2>3, <2>5, <3>3 DEF IsPage
    <3> QED  BY <3>4, <3>5
  <2> QED  BY <1>2, <2>2, <2>4, <2>5
<1>4. ASSUME NEW p \in [users : SUBSET all, next : all \cup {0}],
             NEW q \in [users : SUBSET all, next : all \cup {0}],
             IsPage(p, all), IsPage(q, all)
      PROVE  p = q
  <2>1. PICK a \in SUBSET all :
          /\ IsFirst(a, Limit + 1, all)
          /\ IsFirst(p.users, Limit, a)
          /\ IF Cardinality(a) > Limit THEN IsLast(p.next, p.users) ELSE p.next = 0
    BY <1>4 DEF IsPage
  <2>2. PICK b \in SUBSET all :
          /\ IsFirst(b, Limit + 1, all)
          /\ IsFirst(q.users, Limit, b)
          /\ IF Cardinality(b) > Limit THEN IsLast(q.next, q.users) ELSE q.next = 0
    BY <1>4 DEF IsPage
  <2>3. a = b
    BY <1>1, <1>2, <2>1, <2>2, FirstIsUnique
  <2>4. IsFiniteSet(a) /\ a \subseteq Nat
    BY <1>1, FS_Subset
  <2>5. p.users = q.users
    BY <1>2, <2>1, <2>2, <2>3, <2>4, FirstIsUnique
  <2>6. p.next = q.next
    <3>1. CASE Cardinality(a) > Limit
      <4>1. p.next \in all /\ q.next \in all /\ p.next <= q.next /\ q.next <= p.next
        BY <1>4, <2>1, <2>2, <2>3, <2>5, <3>1 DEF IsLast
      <4>2. \A m, n \in Nat : m <= n /\ n <= m => m = n
        OBVIOUS
      <4>3. p.next \in Nat /\ q.next \in Nat
        BY <1>1, <4>1
      <4> QED  BY <4>1, <4>2, <4>3
    <3>2. CASE ~(Cardinality(a) > Limit)
      BY <2>1, <2>2, <2>3, <3>2
    <3> QED  BY <3>1, <3>2
  <2> QED  BY <1>4, <2>5, <2>6
<1> QED  BY <1>3, <1>4

(* A scroll makes progress: a cursor the viewer is given lies behind the   *)
(* cursor before it, is the last user of the page that came with it, and   *)
(* that page shows exactly Limit users who had not been shown before.      *)
ScrollAdvances ==
  cursor' # cursor /\ cursor' # 0 =>
    /\ cursor' > cursor
    /\ IsLast(cursor', shown' \ shown)
    /\ Cardinality(shown' \ shown) = Limit

PagesFull == page.next # 0 => Cardinality(page.users) = Limit

THEOREM ScrollGoesOn == Spec => [][ScrollAdvances]_vars
<1>1. Init => PagesFull
  BY DEF Init, PagesFull, NoPage
<1>2. IInv /\ PagesFull /\ [Next]_vars => PagesFull'
  <2> SUFFICES ASSUME PagesFull, [Next]_vars PROVE PagesFull'
    OBVIOUS
  <2>1. CASE Query
    <3> DEFINE all == {u \in Users : Selects(u, cursor)}
    <3>1. IsPage(page', all)
      BY <2>1 DEF Query
    <3>2. IsFiniteSet(all) /\ all \subseteq Nat \ {0}
      BY UsersAreIds, FS_Subset
    <3> HIDE DEF all
    <3> QED  BY <3>1, <3>2, FullPage DEF PagesFull
  <2>2. CASE page' = NoPage
    BY <2>2 DEF PagesFull, NoPage
  <2>3. CASE page' = page
    BY <2>3 DEF PagesFull
  <2> QED
    BY <2>1, <2>2, <2>3 DEF Next, Open, LoadViewer, Deliver, AskAgain, Complete, Alter,
                            LosePhoto, SetFilter, Change, vars
<1>3. IInv /\ PagesFull /\ [Next]_vars => [ScrollAdvances]_vars
  <2> SUFFICES ASSUME IInv, PagesFull, [Next]_vars, cursor' # cursor, cursor' # 0
               PROVE  ScrollAdvances
    BY DEF ScrollAdvances
  <2>1. Deliver
    BY DEF Next, Open, LoadViewer, Query, AskAgain, Complete, Alter, LosePhoto, SetFilter,
           Change, vars
  <2>2. cursor' = page.next /\ shown' = shown \cup items /\ pc # "end"
    BY <2>1 DEF Deliver
  <2>3. IsLast(page.next, page.users) /\ items = page.users /\ cursor \notin items
    <3>1. IsLast(page.next, page.users) /\ items = page.users
      BY <2>2 DEF IInv, PageInv
    <3>2. \A u \in page.users : u > cursor /\ u \in Nat /\ cursor \in Nat
      BY UsersAreIds DEF IInv, PageInv, TypeOK, Others
    <3> QED  BY <3>1, <3>2
  <2>4. shown \cap items = {}
    <3> SUFFICES ASSUME NEW u \in shown, u \in items PROVE FALSE
      OBVIOUS
    <3>1. u > cursor /\ u <= cursor
      BY <2>2 DEF IInv, PageInv, ShownInv
    <3>2. u \in Nat /\ cursor \in Nat
      BY UsersAreIds DEF IInv, TypeOK, Others
    <3> QED  BY <3>1, <3>2
  <2>5. shown' \ shown = page.users
    BY <2>2, <2>3, <2>4
  <2>6. page.next > cursor
    BY <2>3 DEF IInv, PageInv, IsLast
  <2> QED  BY <2>2, <2>3, <2>5, <2>6 DEF PagesFull, ScrollAdvances
<1>4. Spec => [](IInv /\ PagesFull)
  BY <1>1, <1>2, InitIInv, Step, PTL DEF Spec
<1> QED  BY <1>3, <1>4, PTL DEF Spec
=============================================================================
