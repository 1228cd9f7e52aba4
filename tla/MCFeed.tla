------------------------------- MODULE MCFeed -------------------------------
(* Instances of Feed for TLC: two kinds of profiles, and filters that take  *)
(* both or one of them.                                                     *)
EXTENDS Feed

MCTraits == {[sex |-> "female", age |-> 18], [sex |-> "male", age |-> 30]}
MCFilters == {[sex |-> "all", from |-> 18, to |-> 100],
              [sex |-> "male", from |-> 30, to |-> 30]}
=============================================================================
