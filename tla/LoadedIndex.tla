----------------------------- MODULE LoadedIndex -----------------------------
(***************************************************************************)
(* The life of an R-tree that may be bulk loaded when it is made.          *)
(***************************************************************************)
EXTENDS TreeIndex, BulkLoader

CONSTANT BulkSizes      \* how many of the data may be loaded at once

\* createAndBulkLoadNewRTree.
BulkLoad ==
    /\ next = 1 /\ deletes = 0
    /\ \E n \in BulkSizes :
          rtree' = bulkLoadUsingSTR(rtree, SubSeq(Input, 1, n)) /\ next' = n + 1
    /\ loaded' = "bulk" /\ UNCHANGED <<deletes, returned>>

LoadedNext == TreeNext \/ BulkLoad

LoadedSpec == TreeInit /\ [][LoadedNext]_treeVars
=============================================================================
