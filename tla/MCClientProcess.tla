-------------------------- MODULE MCClientProcess --------------------------
(* Finite instance of ClientProcess. *)
EXTENDS ClientProcess
=============================================================================
