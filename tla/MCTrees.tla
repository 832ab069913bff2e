------------------------------- MODULE MCTrees -------------------------------
(***************************************************************************)
(* Finite instances of the R-tree, of the multi-version R-tree and of the  *)
(* C interface: every behaviour is one of one of them, and the others stay *)
(* as they were made.                                                      *)
(*                                                                         *)
(* The data are spread over a grid of 16 by 13, with all widths up to 3    *)
(* and heights up to 4.  Nodes hold 4 or 5 entries (10 in the trees with   *)
(* versions, where fewer leave no room between the two thresholds), so     *)
(* that a few dozen data make trees of three levels.  A bulk load fits in  *)
(* the memory of its sorter, or takes several passes.  The caller of the C *)
(* interface starts from one of five sets of properties, and from no files *)
(* or from files with one tree, and changes one of the properties.         *)
(***************************************************************************)
EXTENDS LoadedIndex, CInterface, TLC

VARIABLES part, v, nextVersion, deletesVersion, lives

versionVars == <<v, nextVersion, deletesVersion, lives>>
vars        == <<part, treeVars, versionVars, interfaceVars>>

Both(l, i) == [leaf |-> l, index |-> i]

TreeConf(variant, leaf, tight, far) ==
    [m_treeVariant |-> variant, m_capacity |-> Both(leaf, 4), m_minimumLoad |-> Both(2, 2),
     m_bTightMBRs |-> tight, m_nearMinimumOverlapFactor |-> 2, cReinsert |-> Both(1, 1),
     nodeSPF |-> Both(2, IF far THEN 3 ELSE 2), Far |-> far, b |-> Both(2, 2),
     pageSize |-> IF variant = "RV_RSTAR" THEN 20 ELSE 2, numberOfPages |-> 2]

TreeConfigs ==
    {TreeConf("RV_LINEAR", 4, TRUE, FALSE), TreeConf("RV_QUADRATIC", 5, FALSE, FALSE),
     TreeConf("RV_RSTAR", 4, TRUE, FALSE), TreeConf("RV_RSTAR", 4, TRUE, TRUE)}

VersionConf(variant, load, tight, far, data, maxDeletes) ==
    [m_treeVariant |-> variant, m_capacity |-> Both(10, 10), m_minimumLoad |-> Both(load, load),
     m_bTightMBRs |-> tight, m_nearMinimumOverlapFactor |-> 2, splitTenths |-> 4,
     nodeSPF |-> Both(0, 0), Far |-> far, strongVersionOverflow |-> Both(8, 8),
     versionUnderflow |-> Both(3, 3), data |-> data, maxDeletes |-> maxDeletes]

VersionConfigs ==
    {VersionConf("RV_RSTAR", 7, TRUE, FALSE, 34, 1),
     VersionConf("RV_LINEAR", 3, TRUE, FALSE, 34, 1),
     VersionConf("RV_QUADRATIC", 4, FALSE, TRUE, 34, 1),
     VersionConf("RV_RSTAR", 7, TRUE, FALSE, 64, 0)}

Shape(k) ==
    LET x == (k * 7) % 16
        y == (k * 5 + k \div 3) % 13
    IN  Region(x, y, x + (k % 4), y + ((k * 3) % 5))

Data    == [k \in 1 .. 18 |-> [mbr |-> Shape(k), id |-> k]]
Shapes  == [k \in 1 .. 64 |-> Shape(k)]
Windows == {Region(0, 0, 6, 6), Region(5, 3, 14, 12), Region(4, 4, 4, 4)}
Places  == {Region(3, 3, 3, 3), Region(9, 2, 9, 2)}

Versions == INSTANCE VersionedIndex WITH Config <- VersionConfigs, Input <- Shapes, Burst <- 4,
               Window <- Windows \ {Region(4, 4, 4, 4)}, Victims <- {2, 9},
               next <- nextVersion, deletes <- deletesVersion

-----------------------------------------------------------------------------
\* Of each property that a tree checks or keeps a value that fits and one that
\* does not; of the others the value it has already.
ValuesOf ==
    [name \in PropertyNames |->
        CASE name = "TreeVariant" -> {0, 2, 7}
          [] name = "FillFactor" -> {3, 10}
          [] name = "IndexCapacity" -> {3}
          [] name = "LeafCapacity" -> {8, 40}
          [] name = "NearMinimumOverlapFactor" -> {8, 0}
          [] name \in {"SplitDistributionFactor", "ReinsertFactor"} -> {10}
          [] name = "Dimension" -> {1, 3}
          [] name \in {"EnsureTightMBRs", "Overwrite"} -> {0, 2}
          [] name = "Horizon" -> {0}
          [] name \in {"IndexType", "IndexStorageType"} -> {0, 1, 2, 9}
          [] name = "IndexIdentifier" -> {1, 2}
          [] name = "LeafPoolCapacity" -> {5}
          [] name \in {"FileName", "FileNameDat", "FileNameIdx", "CustomStorageCallbacks"} -> {1}
          [] name = "CustomStorageCallbacksSize" -> {64}
          [] name = "WriteThrough" -> {0}
          [] name = "PageSize" -> {4096}
          [] name = "Capacity" -> {10}
          [] OTHER -> {RTreeDefaults[name]}]

SmallNodes == ("IndexCapacity" :> 8) @@ ("LeafCapacity" :> 8) @@ ("FillFactor" :> 5) @@
              ("NearMinimumOverlapFactor" :> 4)

NoneSet == [name \in {} |-> 0]

StoredTree(type, ps, data) ==
    [type |-> type, header |-> Header(type, New(type, ps)), data |-> data]

Absent   == Medium("absent", NoTrees)
Saved(r) == Medium("stored", 1 :> r)

OnDisk == ("FileName" :> 1) @@ ("Overwrite" :> 0)
OldOne == OnDisk @@ ("IndexIdentifier" :> 1)

Callers ==
    {[set |-> "FileName" :> 1, files |-> Absent],
     [set |-> OldOne @@ ("NearMinimumOverlapFactor" :> 4),
      files |-> Saved(StoredTree(RTree, SmallNodes, {1}))],
     [set |-> OldOne, files |-> Saved(StoredTree(MVRTree, NoneSet, {}))],
     [set |-> OnDisk @@ ("IndexType" :> TPRTree) @@ ("TreeVariant" :> TPRV_RSTAR),
      files |-> Saved(StoredTree(RTree, SmallNodes, {1}))],
     [set |-> ("IndexStorageType" :> 2) @@ ("CustomStorageCallbacksSize" :> 64) @@
              ("CustomStorageCallbacks" :> 1),
      files |-> Absent]}

-----------------------------------------------------------------------------
TreeRests ==
    /\ rtree = initNew(TreeConf("RV_LINEAR", 4, TRUE, FALSE))
    /\ next = 1 /\ deletes = 0 /\ loaded = "no" /\ returned = TRUE

VersionRests ==
    /\ v = Versions!initNew(VersionConf("RV_LINEAR", 3, TRUE, FALSE, 34, 1))
    /\ nextVersion = 1 /\ deletesVersion = 0 /\ lives = <<>>

InterfaceRests ==
    /\ errors = 0 /\ hProp = NULL /\ index = NULL /\ items = {}
    /\ media = [disk |-> Absent, custom |-> Absent]
    /\ ret = "void" /\ outside = FALSE /\ sets = 0

Init ==
    \/ part = "tree" /\ TreeInit /\ VersionRests /\ InterfaceRests
    \/ part = "version" /\ Versions!VersionInit /\ TreeRests /\ InterfaceRests
    \/ part = "interface" /\ InterfaceInit /\ TreeRests /\ VersionRests

Next ==
    /\ UNCHANGED part
    /\ \/ part = "tree" /\ LoadedNext /\ UNCHANGED versionVars /\ UNCHANGED interfaceVars
       \/ part = "version" /\ Versions!VersionNext /\ UNCHANGED treeVars /\ UNCHANGED interfaceVars
       \/ part = "interface" /\ InterfaceNext /\ UNCHANGED treeVars /\ UNCHANGED versionVars

Spec == Init /\ [][Next]_vars

-----------------------------------------------------------------------------
\* The properties of the tree are those of TreeIndex: IndexValid, QueriesExact and
\* ImplementsIndex.

\* In VersionedIndex: the versions and the tree of now are sound,
VersionValid == part = "version" => Versions!VersionValid

\* and every time is remembered as it was.
VersionsExact == part = "version" => Versions!VersionsExact

\* The other properties are those of CInterface: DataKept, FailuresTold and
\* SettingsFit.
=============================================================================
