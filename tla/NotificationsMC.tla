--------------------------- MODULE NotificationsMC ---------------------------
(* A small instance of Notifications for TLC. *)
EXTENDS Notifications

CONSTANTS c1, c2
=============================================================================
