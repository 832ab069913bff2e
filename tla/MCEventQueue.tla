--------------------------- MODULE MCEventQueue ---------------------------
(* Finite instance of EventQueue. *)
EXTENDS EventQueue
=============================================================================
