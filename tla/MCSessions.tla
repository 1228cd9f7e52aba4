----------------------------- MODULE MCSessions -----------------------------
(* Instances of Sessions for TLC.  Sessions, browsers and request slots are *)
(* interchangeable.                                                         *)
EXTENDS Sessions, TLC

Symmetry ==
  Permutations(Sessions) \cup Permutations(Requests) \cup Permutations(Clients)

(* A bound: all sessions go back to the same login. *)
OneLogin ==
  \A s, t \in Sessions : NoSession \in {login[s], login[t]} \/ login[s] = login[t]
=============================================================================
