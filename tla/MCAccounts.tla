----------------------------- MODULE MCAccounts -----------------------------
(* Instances of Accounts for TLC: two ways to type one address and another  *)
(* address, two passwords that are accepted, and two that are not.          *)
EXTENDS Accounts

MCMailbox == [ann |-> "ann", ANN |-> "ann", bob |-> "bob"]
MCForms ==
  {[typed |-> "ann", password |-> "first"], [typed |-> "ANN", password |-> "first"],
   [typed |-> "ANN", password |-> "second"], [typed |-> "bob", password |-> "first"],
   [typed |-> "bob", password |-> "long"], [typed |-> "ann", password |-> "weak"]}
=============================================================================
