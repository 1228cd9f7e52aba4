---------------------------- MODULE SwipeLedger -----------------------------
(***************************************************************************)
(* What SaveSwipeAndMatch promises to the rest of the system, without its  *)
(* statements, its locks and its clock: every saved swipe replaces the     *)
(* author's previous decision about the target in one step, and with a     *)
(* like that step may also create the match of a pair in which the target  *)
(* has liked the author.  "May", because two likes under way at the same   *)
(* time do not see each other.  Matches are for ever.                      *)
(***************************************************************************)
EXTENDS Integers

CONSTANTS Users

VARIABLES
  decision,  \* each user's latest decision about every other
  liked,     \* pairs <<a, b>> such that a has liked b at some time
  match      \* pairs of users, the smaller id first

vars == <<decision, liked, match>>

Decisions == {"like", "dislike", "super_like"}
Likes == {"like", "super_like"}
Keys == Users \X Users

Init ==
  /\ decision = [k \in Keys |-> "none"]
  /\ liked = {}
  /\ match = {}

Dislike(a, b) ==
  /\ decision' = [decision EXCEPT ![<<a, b>>] = "dislike"]
  /\ UNCHANGED <<liked, match>>

Like(a, b) ==
  /\ \E d \in Likes : decision' = [decision EXCEPT ![<<a, b>>] = d]
  /\ liked' = liked \cup {<<a, b>>}
  /\ \/ match' = match
     \/ /\ <<b, a>> \in liked
        /\ match' = match \cup {IF a < b THEN <<a, b>> ELSE <<b, a>>}

Next == \E a, b \in Users : a # b /\ (Dislike(a, b) \/ Like(a, b))

Spec == Init /\ [][Next]_vars
=============================================================================
