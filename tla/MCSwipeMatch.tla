---------------------------- MODULE MCSwipeMatch ----------------------------
(* Instances of SwipeMatch for TLC.  Request slots are interchangeable.     *)
EXTENDS SwipeMatch, TLC

SlotSymmetry == Permutations(Requests)
=============================================================================
