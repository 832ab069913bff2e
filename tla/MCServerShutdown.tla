-------------------------- MODULE MCServerShutdown --------------------------
(* Finite instance of ServerShutdown. *)
EXTENDS ServerShutdown
=============================================================================
