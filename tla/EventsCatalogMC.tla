-------------------------- MODULE EventsCatalogMC --------------------------
(* Small instances of EventsCatalog for TLC. *)
EXTENDS EventsCatalog, TLC

Symmetry ==
    Permutations(Events) \cup Permutations(Categories) \cup Permutations(Files)
        \cup Permutations(Handlers)
=============================================================================
