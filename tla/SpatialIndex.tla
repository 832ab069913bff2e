---------------------------- MODULE SpatialIndex ----------------------------
(***************************************************************************)
(* What an ISpatialIndex promises: it holds the data that were inserted    *)
(* and not deleted, and deleteData tells whether there was anything to     *)
(* delete.                                                                 *)
(***************************************************************************)
CONSTANT Data

VARIABLES
    stored,
    returned        \* by the last deleteData

Init == stored = {} /\ returned = TRUE

InsertData(e) == e \notin stored /\ stored' = stored \cup {e} /\ UNCHANGED returned

DeleteData(e) == stored' = stored \ {e} /\ returned' = (e \in stored)

\* A new index may be loaded with data at once.
BulkLoad(S) == stored = {} /\ stored' = S /\ UNCHANGED returned

Next == (\E e \in Data : InsertData(e) \/ DeleteData(e)) \/ \E S \in SUBSET Data : BulkLoad(S)

Spec == Init /\ [][Next]_<<stored, returned>>
=============================================================================
