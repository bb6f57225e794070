----------------------------- MODULE SessionsMC -----------------------------
(* Small instances of Sessions for TLC. *)
EXTENDS Sessions, TLC

Symmetry == Permutations(Users) \cup Permutations(Tokens) \cup Permutations(Handlers)
=============================================================================
