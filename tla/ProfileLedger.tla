---------------------------- MODULE ProfileLedger ----------------------------
(***************************************************************************)
(* What the repository of profiles promises: each change of a profile is   *)
(* one step on its current fields, its gallery (the photos in order, the   *)
(* first being the main one) and its filter.  Nothing is said of locks,    *)
(* statements, positions or time.                                          *)
(***************************************************************************)
EXTENDS ProfileFields, Integers, Sequences, Functions

CONSTANTS Photos, MaxPhotos

VARIABLES fields, gallery, filtered

vars == <<fields, gallery, filtered>>

Init == fields = Unfilled /\ gallery = <<>> /\ filtered = FALSE

PatchProfile ==
  /\ \E patch \in Patches : fields' = Apply(patch, fields)
  /\ UNCHANGED <<gallery, filtered>>

AddPhoto ==
  /\ Len(gallery) < MaxPhotos
  /\ \E p \in Photos \ Range(gallery) : gallery' = Append(gallery, p)
  /\ UNCHANGED <<fields, filtered>>

DeletePhoto ==
  /\ \E i \in DOMAIN gallery :
       gallery' = SubSeq(gallery, 1, i - 1) \o SubSeq(gallery, i + 1, Len(gallery))
  /\ UNCHANGED <<fields, filtered>>

ReorderPhotos ==
  /\ gallery' \in [DOMAIN gallery -> Range(gallery)]
  /\ Range(gallery') = Range(gallery)
  /\ UNCHANGED <<fields, filtered>>

SetFilter == filtered' = TRUE /\ UNCHANGED <<fields, gallery>>

Next == PatchProfile \/ AddPhoto \/ DeletePhoto \/ ReorderPhotos \/ SetFilter

Spec == Init /\ [][Next]_vars
=============================================================================
