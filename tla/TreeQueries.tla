---------------------------- MODULE TreeQueries ----------------------------
(***************************************************************************)
(* The search for the leaf of a datum, the range query and the self-join   *)
(* of the R-tree, which go down from the root by the bounds of the         *)
(* entries, and what they rely on: that every node stands where its entry  *)
(* says and that its bounds hold what is in it.                            *)
(*                                                                         *)
(* The state t of a tree, its nodes and entries are as in RTree.           *)
(***************************************************************************)
EXTENDS Regions, SequencesExt

root(t) == t.page[t.m_rootID]

\* From page p down: the pages from the first leaf found with the entry e up to p, or
\* none.
Search(t, e) ==
    LET from[p \in DOMAIN t.page] ==
            LET es   == t.page[p].entries
                hits == {k \in DOMAIN es : containsRegion(es[k].mbr, e.mbr) /\ from[es[k].id] # <<>>}
            IN  IF t.page[p].m_level = 0 THEN IF e \in ToSet(es) THEN <<p>> ELSE <<>>
                ELSE IF hits = {} THEN <<>> ELSE Append(from[es[Min(hits)].id], p)
    IN  from

findLeaf(t, e) == Search(t, e)[t.m_rootID]

\* Mutant: containment is asked of index nodes as well.
DescendsContained(type, query, mbr) ==
    IF type = "ContainmentQuery" THEN containsRegion(query, mbr) ELSE intersectsRegion(query, mbr)

Descends(type, query, mbr) == intersectsRegion(query, mbr)

Answers(type, query, mbr) ==
    IF type = "ContainmentQuery" THEN containsRegion(query, mbr) ELSE intersectsRegion(query, mbr)

\* What is answered from page p down.
Visited(t, type, query) ==
    LET from[p \in DOMAIN t.page] ==
            LET es == ToSet(t.page[p].entries)
            IN  IF t.page[p].m_level = 0 THEN {e \in es : Answers(type, query, e.mbr)}
                ELSE UNION {from[e.id] : e \in {e \in es : Descends(type, query, e.mbr)}}
    IN  from

rangeQuery(t, type, query) ==
    IF root(t).entries # <<>> /\ Descends(type, query, root(t).m_nodeMBR)
    THEN Visited(t, type, query)[t.m_rootID] ELSE {}

\* Pages of one level.
Peers(t) == {x \in (DOMAIN t.page) \X (DOMAIN t.page) : t.page[x[1]].m_level = t.page[x[2]].m_level}

\* The pairs of entries of two nodes that have a point in common and reach into r.
Meeting(t, x, r) ==
    {y \in ToSet(t.page[x[1]].entries) \X ToSet(t.page[x[2]].entries) :
        /\ intersectsRegion(r, y[1].mbr) /\ intersectsRegion(r, y[2].mbr)
        /\ intersectsRegion(y[1].mbr, y[2].mbr)}

\* What is left of r below the two entries y.
Narrowed(r, y) == getIntersectingRegion(r, getIntersectingRegion(y[1].mbr, y[2].mbr))

\* Pairs of different data that have a point in common, from two pages down and within r.
Joined(t) ==
    LET from[q \in Peers(t) \X AnyRegion] ==
            LET x == q[1]
                r == q[2]
            IN  IF t.page[x[1]].m_level = 0 THEN {y \in Meeting(t, x, r) : y[1].id # y[2].id}
                ELSE UNION {from[<<<<y[1].id, y[2].id>>, Narrowed(r, y)>>] : y \in Meeting(t, x, r)}
    IN  from

selfJoinQuery(t, r) == Joined(t)[<<<<t.m_rootID, t.m_rootID>>, r>>]

-----------------------------------------------------------------------------
\* The data of a tree.
DataOf(t) == UNION {ToSet(t.page[p].entries) : p \in {p \in DOMAIN t.page : t.page[p].m_level = 0}}

\* Every entry of an index node is for a node of the level below, with its bounds, and
\* every node but the root has such an entry.
Linked(t) ==
    /\ t.m_rootID \in DOMAIN t.page
    /\ \A p \in DOMAIN t.page :
          /\ t.page[p].m_level \in 0 .. root(t).m_level
          /\ DOMAIN t.page[p].entries \subseteq Nat
          /\ t.page[p].m_level > 0 => \A e \in ToSet(t.page[p].entries) :
                /\ e.id \in DOMAIN t.page
                /\ t.page[e.id].m_level = t.page[p].m_level - 1
                /\ t.page[e.id].m_nodeMBR = e.mbr
          /\ p # t.m_rootID => \E q \in DOMAIN t.page :
                t.page[q].m_level > 0 /\ \E e \in ToSet(t.page[q].entries) : e.id = p

\* The bounds of a node contain those of its entries.
Bounded(t) ==
    \A p \in DOMAIN t.page :
        /\ t.page[p].m_nodeMBR \in AnyRegion
        /\ \A e \in ToSet(t.page[p].entries) :
              NonEmpty(e.mbr) /\ containsRegion(t.page[p].m_nodeMBR, e.mbr)
=============================================================================
