------------------------------ MODULE TreeIndex ------------------------------
(***************************************************************************)
(* The life of an R-tree: it is made, and data are inserted and deleted,   *)
(* with every query asked in every state.                                  *)
(*                                                                         *)
(* An id is given to one shape only: deleteData looks for the entry with   *)
(* shape and id but removes the first one with the id.                     *)
(***************************************************************************)
EXTENDS RTree

CONSTANTS
    Config,         \* configurations of a tree that initNew accepts
    Input,          \* the data, in the order in which they are inserted
    Window, Place,  \* the regions and the points of the queries
    MaxDeletes      \* bound of the model: deletions in any order

VARIABLES
    rtree,          \* the tree
    next,           \* the first of the data not inserted yet
    deletes,
    loaded,         \* "no", or "bulk" after a bulk load, and "changed" since
    returned        \* by the last deleteData

treeVars == <<rtree, next, deletes, loaded, returned>>

\* initNew: an empty tree with the settings c, whose root is an empty leaf.
Bare(c) ==
    LET new == [page |-> [p \in {} |-> 0], m_rootID |-> 0, m_u32TreeHeight |-> 1,
                m_nodesInLevel |-> <<0>>, m_u32Nodes |-> 0, m_u64Data |-> 0,
                overflowTable |-> {}, tableSize |-> 0, outside |-> FALSE]
    IN  [x \in DOMAIN new \cup DOMAIN c |-> IF x \in DOMAIN new THEN new[x] ELSE c[x]]

initNew(c) == writeNode(Bare(c), Node(NewPage, 0, <<>>))

TreeInit ==
    /\ rtree \in {initNew(c) : c \in Config}
    /\ next = 1 /\ deletes = 0 /\ loaded = "no" /\ returned = TRUE

Changed == loaded' = IF loaded = "no" THEN "no" ELSE "changed"

InsertData ==
    /\ next <= Len(Input)
    /\ rtree' = Inserted(rtree, Input[next]) /\ next' = next + 1
    /\ Changed /\ UNCHANGED <<deletes, returned>>

Delete(e) == rtree' = Deleted(rtree, e) /\ returned' = Finds(rtree, e) /\ Changed /\ UNCHANGED next

DeleteData ==
    /\ deletes < MaxDeletes /\ deletes' = deletes + 1
    /\ \E e \in ToSet(Input) : Delete(e)

\* When all the data were inserted they may go again, the oldest first.
Left == {k \in DOMAIN Input : Finds(rtree, Input[k])}

DeleteOldest == next > Len(Input) /\ Left # {} /\ Delete(Input[Min(Left)]) /\ UNCHANGED deletes

TreeNext == InsertData \/ DeleteData \/ DeleteOldest

TreeSpec == TreeInit /\ [][TreeNext]_treeVars

-----------------------------------------------------------------------------
Nodes == {rtree.page[p] : p \in DOMAIN rtree.page}

Entries == DataOf(rtree)

\* A node has one entry, in one node; the root has none.
LinkedOnce ==
    /\ Linked(rtree)
    /\ \A p \in DOMAIN rtree.page : rtree.page[p].m_identifier = p
    /\ \A n \in Nodes : n.m_level > 0 =>
          /\ \A e \in ToSet(n.entries) : e.id # rtree.m_rootID
          /\ Cardinality({e.id : e \in ToSet(n.entries)}) = Len(n.entries)
          /\ \A m \in Nodes : m # n /\ m.m_level > 0 =>
                \A e \in ToSet(n.entries), f \in ToSet(m.entries) : e.id # f.id

\* The bounds of a node contain those of its entries, and no more when they are kept
\* tight and the numbers are small.
BoundedTightly ==
    /\ Bounded(rtree)
    /\ rtree.m_bTightMBRs /\ ~rtree.Far => \A n \in Nodes : n.m_nodeMBR = Around(n.entries)

\* No node but the root has less than its minimum, where splits keep it.
Filled ==
    \A n \in Nodes :
        /\ Len(n.entries) <= Of(rtree.m_capacity, n.m_level)
        /\ n # root(rtree) => Len(n.entries) >= 1
        /\ n # root(rtree) /\ rtree.m_treeVariant # "RV_RSTAR" /\ loaded = "no" =>
              Len(n.entries) >= Of(rtree.m_minimumLoad, n.m_level)

Counted ==
    /\ rtree.m_u32TreeHeight = root(rtree).m_level + 1
    /\ rtree.m_u64Data = Cardinality(Entries)
    /\ rtree.m_u32Nodes = Cardinality(Nodes)
    /\ loaded # "changed" => \A l \in 1 .. rtree.m_u32TreeHeight :
          rtree.m_nodesInLevel[l] = Cardinality({n \in Nodes : n.m_level = l - 1})

\* After every operation, splits, forced reinsertions and condensed paths included, the
\* tree is sound: pages, levels, bounds, fill and the statistics that the header stores
\* (RTree::isIndexValid and what it does not look at).
IndexValid == LinkedOnce /\ BoundedTightly /\ Filled /\ Counted /\ ~rtree.outside

\* Every query gives exactly what looking at all the data would: the pruning by bounds
\* loses nothing, and the nearest come with all that are equally near.
QueriesExact ==
    /\ \A r \in Window :
          /\ rangeQuery(rtree, "IntersectionQuery", r) = {e \in Entries : intersectsRegion(r, e.mbr)}
          /\ rangeQuery(rtree, "ContainmentQuery", r) = {e \in Entries : containsRegion(r, e.mbr)}
          /\ selfJoinQuery(rtree, r) =
                {p \in Entries \X Entries : /\ p[1] # p[2] /\ intersectsRegion(p[1].mbr, p[2].mbr)
                                            /\ intersectsRegion(r, p[1].mbr)
                                            /\ intersectsRegion(r, p[2].mbr)}
    /\ \A k \in 1 .. 2, r \in Place :
          nearestNeighborQuery(rtree, k, r) =
             {e \in Entries : Cardinality({f \in Entries :
                 getMinimumDistance(r, f.mbr) < getMinimumDistance(r, e.mbr)}) < k}

Abstract == INSTANCE SpatialIndex WITH Data <- ToSet(Input), stored <- Entries

\* The tree is a set of data: whatever reorganisation a call causes, it adds or removes
\* just its datum, and deleteData tells truly whether the datum was there.
ImplementsIndex == Abstract!Spec
=============================================================================
