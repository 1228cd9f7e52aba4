---------------------------- MODULE MCPhotoFiles ----------------------------
(* Instances of PhotoFiles for TLC.  Request slots and keys are            *)
(* interchangeable.                                                        *)
EXTENDS PhotoFiles, TLC

Symmetry == Permutations(Requests) \cup Permutations(Keys)
=============================================================================
