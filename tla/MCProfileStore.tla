--------------------------- MODULE MCProfileStore ---------------------------
(* Instances of ProfileStore for TLC.  Request slots and photo ids are      *)
(* interchangeable.                                                         *)
EXTENDS ProfileStore, TLC

Symmetry == Permutations(Requests) \cup Permutations(Photos)
=============================================================================
