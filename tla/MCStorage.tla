------------------------------ MODULE MCStorage ------------------------------
(* Finite instance of PageBuffer. *)
EXTENDS PageBuffer

Blocks == {"a", "b"}
Arrays2 == {<<"a">>, <<"b", "a">>}
=============================================================================
