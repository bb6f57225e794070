--------------------------- MODULE EventsCacheMC ---------------------------
(* Small instances of EventsCache for TLC. *)
EXTENDS EventsCache, TLC
=============================================================================
