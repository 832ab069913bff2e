--------------------------- MODULE MCClientTable ---------------------------
(* Finite instance of ClientTable. *)
EXTENDS ClientTable
=============================================================================
