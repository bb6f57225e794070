------------------------------ MODULE AccessMC ------------------------------
(* A small instance of Access for TLC: an admin and a customer to be. *)
EXTENDS Access, TLC

CONSTANTS ada, bob, h1, h2

Symmetry == Permutations({h1, h2})
=============================================================================
