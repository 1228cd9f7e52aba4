---------------------------- MODULE ProfileFields ----------------------------
(***************************************************************************)
(* The fields of a questionnaire and the patches that change them.  The    *)
(* tags of a version are one more optional field, named "tags".            *)
(***************************************************************************)

CONSTANTS Required,  \* fields a complete profile needs: name, birth date, ...
          Optional,  \* fields that may be cleared
          Values     \* values a field may have

Fields == Required \cup Optional

(* A patch says of every field whether it keeps, clears or sets it; tags   *)
(* may be unknown to the dictionary.  A patch that keeps everything is     *)
(* refused before it reaches the service, and null keeps a required field. *)
Patches ==
  {p \in [Fields -> Values \cup {"keep", "clear", "unknown"}] :
     /\ \E f \in Fields : p[f] # "keep"
     /\ \A f \in Required : p[f] # "clear"
     /\ \A f \in Fields : p[f] = "unknown" => f = "tags"}

Unfilled == [f \in Fields |-> "null"]

Apply(patch, fields) ==
  [f \in Fields |-> IF patch[f] = "keep" THEN fields[f]
                    ELSE IF patch[f] = "clear" THEN "null" ELSE patch[f]]

RequiredFilled(fields) == \A f \in Required : fields[f] # "null"
=============================================================================
