-------------------------------- MODULE RTree --------------------------------
(***************************************************************************)
(* The R-tree of the spatial index library, in its three variants: its     *)
(* insertion with splits and forced reinsertion, its deletion, and its     *)
(* queries.                                                                *)
(*                                                                         *)
(* The code works on one object under one lock, so an operation is a       *)
(* function of the state t of a tree, which has                            *)
(*   page            the stored nodes, by page                             *)
(*   m_rootID, m_u32TreeHeight, m_nodesInLevel, m_u32Nodes, m_u64Data      *)
(*   overflowTable   the levels whose overflow was treated during this     *)
(*                   insertion; tableSize is the length of that table, and *)
(*                   outside tells that it was accessed behind its end     *)
(* and the configuration: m_treeVariant, m_capacity of leaves and of index *)
(* nodes, m_minimumLoad of both, m_bTightMBRs, m_nearMinimumOverlapFactor, *)
(* and, as counts for a full node, cReinsert and nodeSPF; BulkLoader adds  *)
(* to these b, the entries it puts in a leaf and in an index node.         *)
(*                                                                         *)
(* A node is [m_identifier, m_level, m_nodeMBR, entries], an entry         *)
(* [mbr, id].  A path is the sequence of pages from the parent of a node   *)
(* to the root.                                                            *)
(***************************************************************************)
EXTENDS TreeQueries, Sequences, FiniteSets

NewPage == -1

Entry(mbr, id) == [mbr |-> mbr, id |-> id]

Around(es) == Bounding({es[k].mbr : k \in DOMAIN es})

Node(id, level, es) ==
    [m_identifier |-> id, m_level |-> level, m_nodeMBR |-> Around(es), entries |-> es]

\* Of leaves, and of index nodes.
Of(c, level) == IF level = 0 THEN c.leaf ELSE c.index

\* Tuples of the same length, by their first difference.
LexLeq(a, b) ==
    \/ a = b
    \/ \E k \in DOMAIN a : a[k] < b[k] /\ \A j \in 1 .. k - 1 : a[j] = b[j]

First(S) == CHOOSE a \in S : \A b \in S : LexLeq(a, b)

\* s sorted by the keys of its elements.  The library's qsort and std::sort may leave equal
\* keys in any order; here they keep theirs.
Sorted(s, keys) ==
    LET at == {<<keys[i], i>> : i \in DOMAIN s}
        before(p) == {q \in at : q # p /\ LexLeq(q, p)}
    IN  [r \in DOMAIN s |-> s[(CHOOSE p \in at : Cardinality(before(p)) + 1 = r)[2]]]

\* The numbers of S from the least to the greatest.
Ascending(S) ==
    [r \in 1 .. Cardinality(S) |-> CHOOSE k \in S : Cardinality({j \in S : j < k}) + 1 = r]

-----------------------------------------------------------------------------
(* Pages                                                                   *)

\* A page that the storage does not use.
Unused(t) == Min(0 .. Cardinality(DOMAIN t.page) \ DOMAIN t.page)

Stored(page, n) ==
    [p \in DOMAIN page \cup {n.m_identifier} |-> IF p = n.m_identifier THEN n ELSE page[p]]

writeNode(t, n) ==
    IF n.m_identifier # NewPage THEN [t EXCEPT !.page = Stored(@, n)]
    ELSE [t EXCEPT !.page = Stored(@, [n EXCEPT !.m_identifier = Unused(t)]),
                   !.m_u32Nodes = @ + 1,
                   !.m_nodesInLevel[n.m_level + 1] = @ + 1]

deleteNode(t, n) ==
    [t EXCEPT !.page = [p \in DOMAIN @ \ {n.m_identifier} |-> @[p]],
              !.m_u32Nodes = @ - 1,
              !.m_nodesInLevel[n.m_level + 1] = @ - 1]

insertEntry(n, e) ==
    [n EXCEPT !.entries = Append(@, e), !.m_nodeMBR = getCombinedRegion(@, e.mbr)]

\* The last entry takes the place of entry k.
deleteEntry(t, n, k) ==
    LET last == Len(n.entries)
        es   == [j \in 1 .. last - 1 |-> n.entries[IF j = k THEN last ELSE j]]
        tight == t.m_bTightMBRs /\ touchesRegion(t.Far, n.m_nodeMBR, n.entries[k].mbr)
    IN  [n EXCEPT !.entries = es,
                  !.m_nodeMBR = IF es = <<>> \/ tight THEN Around(es) ELSE @]

\* The entry of a parent for the node c.
EntryOf(p, c) == CHOOSE k \in DOMAIN p.entries : p.entries[k].id = c.m_identifier

-----------------------------------------------------------------------------
(* The way down                                                            *)

Enlargement(mbr, r) == getArea(getCombinedRegion(mbr, r)) - getArea(mbr)

findLeastEnlargement(n, r) ==
    LET mbr == [k \in DOMAIN n.entries |-> n.entries[k].mbr]
    IN  First({<<Enlargement(mbr[k], r), getArea(mbr[k]), k>> : k \in DOMAIN mbr})[3]

\* By how much the overlap of entry k with the others grows when it must contain r.
OverlapGrowth(n, k, r) ==
    LET mbr == n.entries[k].mbr
        combined == getCombinedRegion(mbr, r)
        growth[j \in 0 .. Len(n.entries)] ==
            IF j = 0 THEN 0
            ELSE growth[j - 1] +
                 LET e == n.entries[j]
                 IN  IF e = n.entries[k] THEN 0
                     ELSE getIntersectingArea(combined, e.mbr) - getIntersectingArea(mbr, e.mbr)
    IN  growth[Len(n.entries)]

\* Only the entries that must be enlarged least are compared by overlap, unless one of
\* them need not be enlarged at all.
findLeastOverlap(t, n, r) ==
    LET mbr  == [k \in DOMAIN n.entries |-> n.entries[k].mbr]
        enl  == [k \in DOMAIN mbr |-> Enlargement(mbr[k], r)]
        near == IF Len(mbr) > t.m_nearMinimumOverlapFactor
                THEN SubSeq(Sorted([k \in DOMAIN mbr |-> k], enl), 1, t.m_nearMinimumOverlapFactor)
                ELSE [k \in DOMAIN mbr |-> k]
        best == findLeastEnlargement(n, r)
    IN  IF enl[best] = 0 THEN best
        ELSE near[First({<<OverlapGrowth(n, near[j], r), enl[near[j]], getArea(mbr[near[j]]), j>>
                         : j \in DOMAIN near})[4]]

\* The entry below which a new one goes.
Child(t, n, mbr) ==
    IF t.m_treeVariant = "RV_RSTAR" /\ n.m_level = 1
    THEN findLeastOverlap(t, n, mbr) ELSE findLeastEnlargement(n, mbr)

\* The way from the node to which an entry of that level goes up to the root.
chooseSubtree(t, mbr, level) ==
    LET way[p \in DOMAIN t.page] ==
            LET n == t.page[p]
            IN  IF n.m_level \in {0, level} THEN <<p>>
                ELSE Append(way[n.entries[Child(t, n, mbr)].id], p)
    IN  way[t.m_rootID]

-----------------------------------------------------------------------------
(* Splits: how the entries of a full node and a new one go to two nodes    *)

SeedsLinear(es) ==
    LET lowest(i)  == First({<<es[k].mbr.high[i], k>> : k \in DOMAIN es})[2]
        highest(i) == First({<<-es[k].mbr.low[i], k>> : k \in DOMAIN es})[2]
        width(i)   == Upper(1, Width(Around(es), i))
        gap(i)     == es[highest(i)].mbr.low[i] - es[lowest(i)].mbr.high[i]
        dim == IF gap(2) * width(1) > gap(1) * width(2) THEN 2 ELSE 1
        one == lowest(dim)
        two == highest(dim)
    IN  IF one # two THEN <<one, two>> ELSE IF two = 1 THEN <<1, 2>> ELSE <<one, two - 1>>

SeedsQuadratic(es) ==
    LET waste(j, k) == getArea(getCombinedRegion(es[j].mbr, es[k].mbr))
                          - getArea(es[j].mbr) - getArea(es[k].mbr)
        pairs == {p \in (DOMAIN es) \X (DOMAIN es) : p[1] < p[2]}
        least == First({<<-waste(p[1], p[2]), p[1], p[2]>> : p \in pairs})
    IN  <<least[2], least[3]>>

pickSeeds(t, es) == IF t.m_treeVariant = "RV_QUADRATIC" THEN SeedsQuadratic(es) ELSE SeedsLinear(es)

Pick(es, ks) == [j \in DOMAIN ks |-> es[ks[j]]]

\* Of the entries with numbers in g.rest, one goes to one of the groups; when a group
\* needs all of them for its minimum, it gets them.
Grouped(t, es, minimumLoad, g) ==
    LET mbr1 == Around(Pick(es, g.one))
        mbr2 == Around(Pick(es, g.two))
        d(k) == Enlargement(mbr1, es[k].mbr) - Enlargement(mbr2, es[k].mbr)
        sel  == IF t.m_treeVariant = "RV_QUADRATIC"
                THEN First({<<-Upper(d(k), -d(k)), k>> : k \in g.rest})[2] ELSE Min(g.rest)
        toFirst == LexLeq(<<d(sel), getArea(mbr1), Len(g.one)>>, <<0, getArea(mbr2), Len(g.two)>>)
        needs(group) == minimumLoad - Len(group) = Cardinality(g.rest)
    IN  IF g.rest = {} THEN g
        ELSE IF needs(g.one) THEN [g EXCEPT !.one = @ \o Ascending(g.rest), !.rest = {}]
        ELSE IF needs(g.two) THEN [g EXCEPT !.two = @ \o Ascending(g.rest), !.rest = {}]
        ELSE IF toFirst THEN [g EXCEPT !.one = Append(@, sel), !.rest = @ \ {sel}]
        ELSE [g EXCEPT !.two = Append(@, sel), !.rest = @ \ {sel}]

Seeded(es, seeds) ==
    [one |-> <<seeds[1]>>, two |-> <<seeds[2]>>, rest |-> DOMAIN es \ {seeds[1], seeds[2]}]

Picked(es, g) == <<Pick(es, g.one), Pick(es, g.two)>>

rtreeSplit(t, level, es) ==
    LET groups[k \in 0 .. Len(es)] ==
            IF k = 0 THEN Seeded(es, pickSeeds(t, es))
            ELSE Grouped(t, es, Of(t.m_minimumLoad, level), groups[k - 1])
    IN  Picked(es, groups[Len(es)])

\* The distributions that are compared: l entries in the first group.  The last one leaves
\* a group of nodeSPF - 1.
Distributions(t, level, es) ==
    LET spf == Of(t.nodeSPF, level) IN spf .. Len(es) - spf + 1

Part1(es, l) == Around(SubSeq(es, 1, l))
Part2(es, l) == Around(SubSeq(es, l + 1, Len(es)))

ByLow(es, i)  == Sorted(es, [k \in DOMAIN es |-> es[k].mbr.low[i]])
ByHigh(es, i) == Sorted(es, [k \in DOMAIN es |-> es[k].mbr.high[i]])

\* Over all distributions, the margins of both groups.
Margins(s, ls) ==
    FoldSet(LAMBDA l, sum : sum + getMargin(Part1(s, l)) + getMargin(Part2(s, l)), 0, ls)

\* The axis and the order with the least margins, of those along each axis in the order of
\* the lower bounds and of the upper ones.
Ordered(es, low, high) ==
    LET axis == IF Lower(low[2], high[2]) < Lower(low[1], high[1]) THEN 2 ELSE 1
    IN  IF low[axis] < high[axis] THEN ByLow(es, axis) ELSE ByHigh(es, axis)

\* Along that axis, the distribution with the least overlap, then the least area.
LeastOverlap(s, ls) ==
    First({<<getIntersectingArea(Part1(s, l), Part2(s, l)),
             getArea(Part1(s, l)) + getArea(Part2(s, l)), l>> : l \in ls})[3]

Halves(s, l) == <<SubSeq(s, 1, l), SubSeq(s, l + 1, Len(s))>>

HalvesOf(s, ls) == Halves(s, LeastOverlap(s, ls))

SortedSplit(low, high, ls) ==
    HalvesOf(Ordered(low[2], [i \in Dim |-> Margins(low[i], ls)],
                     [i \in Dim |-> Margins(high[i], ls)]), ls)

rstarSplit(t, level, es) ==
    SortedSplit(<<ByLow(es, 1), ByLow(ByLow(es, 1), 2)>>,
                <<ByHigh(es, 1), ByHigh(ByHigh(es, 1), 2)>>,
                Distributions(t, level, es))

split(t, level, es) ==
    IF t.m_treeVariant = "RV_RSTAR" THEN rstarSplit(t, level, es) ELSE rtreeSplit(t, level, es)

\* An R*-tree first takes out the cReinsert entries nearest to the middle of the node, to
\* insert them again from the root.
reinsertData(t, n, e) ==
    LET es == Append(n.entries, e)
        s  == Sorted(es, [k \in DOMAIN es |->
                             Square(getCenter(n.m_nodeMBR), getCenter(es[k].mbr))])
        c  == Of(t.cReinsert, n.m_level)
    IN  [out |-> SubSeq(s, 1, c), keep |-> SubSeq(s, c + 1, Len(s))]

-----------------------------------------------------------------------------
(* Insertion                                                               *)

\* The entries of p with the bounds of its child c.
WithBounds(p, c) ==
    [k \in DOMAIN p.entries |->
        IF k = EntryOf(p, c) THEN Entry(c.m_nodeMBR, c.m_identifier) ELSE p.entries[k]]

\* Mutant: the bounds of the parent are as they were.
AdjustedLoose(t, p, c) == [p EXCEPT !.entries = WithBounds(p, c)]

\* Whether the bounds of p must be computed anew because its child is now c.
Recomputes(t, p, c) ==
    \/ ~containsRegion(p.m_nodeMBR, c.m_nodeMBR)
    \/ t.m_bTightMBRs /\ touchesRegion(t.Far, p.m_nodeMBR, p.entries[EntryOf(p, c)].mbr)

\* p after that.
Adjusted(t, p, c) ==
    [p EXCEPT !.entries = WithBounds(p, c),
              !.m_nodeMBR = IF Recomputes(t, p, c) THEN Around(WithBounds(p, c)) ELSE @]

\* The bounds of n changed: so may those on the path.
adjustTree(t, n, path) ==
    LET adjusted[k \in 0 .. Len(path)] ==
            IF k = 0 THEN [t |-> t, n |-> n, changed |-> TRUE]
            ELSE LET s  == adjusted[k - 1]
                     p  == s.t.page[path[k]]
                     p2 == Adjusted(s.t, p, s.n)
                 IN  IF ~s.changed THEN s
                     ELSE [t |-> writeNode(s.t, p2), n |-> p2, changed |-> Recomputes(s.t, p, s.n)]
    IN  adjusted[Len(path)].t

\* A root that was split becomes the index node above its two halves.
NewRoot(t, level, es) ==
    LET t1 == writeNode(t, Node(NewPage, level, es[1]))
        t2 == writeNode(t1, Node(NewPage, level, es[2]))
        id1 == Unused(t)
        id2 == Unused(t1)
        t3 == writeNode(t2, Node(t.m_rootID, level + 1,
                                 <<Entry(Around(es[1]), id1), Entry(Around(es[2]), id2)>>))
    IN  [t3 EXCEPT !.m_nodesInLevel = Append([@ EXCEPT ![level + 1] = 2], 1),
                   !.m_u32TreeHeight = level + 2]

\* An insertion goes up from s.n, which gets the entry s.e and may hold changes that are
\* not stored yet; s.changed tells that its parent, the first on s.path, has not got its
\* bounds.  When it is done, s.out has what must be inserted again.
Going(t, n, e, changed, path) ==
    [t |-> t, n |-> n, e |-> e, changed |-> changed, path |-> path, done |-> FALSE, out |-> <<>>]

Finished(s, t, out) == [s EXCEPT !.t = t, !.done = TRUE, !.out = out]

\* There is room in the node.
Appended(s) ==
    LET n2 == insertEntry(s.n, s.e)
        t2 == writeNode(s.t, n2)
    IN  Finished(s, IF containsRegion(s.n.m_nodeMBR, s.e.mbr) /\ ~s.changed THEN t2
                ELSE adjustTree(t2, n2, s.path), <<>>)

\* The overflow is treated by reinsertion, which the table allows once for every level but
\* the root's.  The table is as long as the tree was high: for a level that came since, the
\* byte behind its end decides; here it is not 0.
AsksTable(s) == s.t.m_treeVariant = "RV_RSTAR" /\ s.path # <<>>

Behind(s) == AsksTable(s) /\ s.n.m_level >= s.t.tableSize

Reinserts(s) == AsksTable(s) /\ ~Behind(s) /\ s.n.m_level \notin s.t.overflowTable

Reinserted(s) ==
    LET r  == reinsertData(s.t, s.n, s.e)
        n2 == Node(s.n.m_identifier, s.n.m_level, r.keep)
        t2 == [s.t EXCEPT !.overflowTable = @ \cup {s.n.m_level}]
    IN  Finished(s, adjustTree(writeNode(t2, n2), n2, s.path),
             [k \in DOMAIN r.out |-> [e |-> r.out[k], level |-> s.n.m_level]])

\* The node was split into n1 and n2, of which the parent gets the bounds and a new entry.
adjustTree2(t, n1, n2, path) ==
    LET p == t.page[Head(path)]
    IN  Going(t, Adjusted(t, p, n1), Entry(n2.m_nodeMBR, n2.m_identifier), Recomputes(t, p, n1),
              Tail(path))

\* The node keeps the first part of its entries, and a new node gets the second.
SplitInto(s, es) ==
    LET n1 == Node(s.n.m_identifier, s.n.m_level, es[1])
        n2 == Node(NewPage, s.n.m_level, es[2])
        t1 == writeNode(s.t, n1)
    IN  IF s.path = <<>> THEN Finished(s, NewRoot(s.t, s.n.m_level, es), <<>>)
        ELSE adjustTree2(writeNode(t1, n2), n1, [n2 EXCEPT !.m_identifier = Unused(t1)], s.path)

SplitIn(s) == SplitInto(s, split(s.t, s.n.m_level, Append(s.n.entries, s.e)))

insertData(s) ==
    IF Len(s.n.entries) < Of(s.t.m_capacity, s.n.m_level) THEN Appended(s)
    ELSE IF Reinserts(s) THEN Reinserted(s)
    ELSE SplitIn(IF Behind(s) THEN [s EXCEPT !.t.outside = TRUE] ELSE s)

insertData_impl(t, e, level) ==
    LET way == chooseSubtree(t, e.mbr, level)
        up[k \in 0 .. Len(way)] ==
            IF k = 0 THEN Going(t, t.page[way[1]], e, FALSE, Tail(way))
            ELSE LET s == up[k - 1] IN IF s.done THEN s ELSE insertData(s)
    IN  up[Len(way)]

\* As many insertions as e can cause at most: those that every level of the table takes out
\* once, and its own.
Rounds(t) == 1 + Upper(t.cReinsert.leaf, t.cReinsert.index) * t.tableSize

\* The first that waited was inserted, with the result r: what this took out comes before
\* what waited already.
Resumed(s, r) == IF s.todo = <<>> THEN s ELSE [t |-> r.t, todo |-> r.out \o Tail(s.todo)]

\* e is inserted, then whatever this takes out.
InsertedAt(t, e, level) ==
    LET round[k \in 0 .. Rounds(t)] ==
            IF k = 0 THEN [t |-> t, todo |-> <<[e |-> e, level |-> level]>>]
            ELSE LET s == round[k - 1]
                 IN  Resumed(s, insertData_impl(s.t, Head(s.todo).e, Head(s.todo).level))
    IN  round[Rounds(t)].t

\* A table of that many levels, none treated.
Table(t, size) == [t EXCEPT !.overflowTable = {}, !.tableSize = size]

Inserted(t, e) ==
    [InsertedAt(Table(t, root(t).m_level), e, 0) EXCEPT !.m_u64Data = @ + 1]

-----------------------------------------------------------------------------
(* Deletion                                                                *)

\* An index root with one child is replaced by it.  The number of nodes of the new root's
\* level is set to 2, for the deletion of its sibling, which follows, to make it 1.
RootReplaced(t) ==
    LET c  == t.page[root(t).entries[1].id]
        t2 == writeNode(deleteNode(t, c), [c EXCEPT !.m_identifier = t.m_rootID])
        height == t.m_u32TreeHeight - 1
    IN  [t2 EXCEPT !.m_nodesInLevel = [Front(@) EXCEPT ![height] = 2],
                   !.m_u32TreeHeight = height]

\* From n up to the root: nodes with too few entries are taken out of their parents and
\* come to the stack toReinsert; the others get their bounds.
condenseTree(t, n, path) ==
    LET condensed[k \in 0 .. Len(path)] ==
            IF k = 0 THEN [t |-> t, n |-> n, toReinsert |-> <<>>]
            ELSE LET s   == condensed[k - 1]
                     p   == s.t.page[path[k]]
                     es  == WithBounds(p, s.n)
                     few == Len(s.n.entries) < Of(t.m_minimumLoad, s.n.m_level)
                     p2  == IF few THEN deleteEntry(t, p, EntryOf(p, s.n))
                            ELSE [p EXCEPT !.entries = es,
                                           !.m_nodeMBR = IF t.m_bTightMBRs THEN Around(es) ELSE @]
                 IN  [t |-> writeNode(s.t, p2), n |-> p2,
                      toReinsert |-> IF few THEN <<s.n>> \o s.toReinsert ELSE s.toReinsert]
        s == condensed[Len(path)]
    IN  [t |-> IF s.n.m_level # 0 /\ Len(s.n.entries) = 1 THEN RootReplaced(s.t) ELSE s.t,
         toReinsert |-> s.toReinsert]

\* Every entry of a node that was taken out gets a table of its own.
EntriesBack(t, n) ==
    LET back[k \in 0 .. Len(n.entries)] ==
            IF k = 0 THEN deleteNode(t, n)
            ELSE LET u == back[k - 1]
                 IN  InsertedAt(Table(u, u.m_u32TreeHeight), n.entries[k], n.m_level)
    IN  back[Len(n.entries)]

\* Mutant: the entries of the nodes that were taken out are lost.
CondensedOnly(c) == FoldSeq(LAMBDA n, t : deleteNode(t, n), c.t, c.toReinsert)

Condensed(c) ==
    LET back[k \in 0 .. Len(c.toReinsert)] ==
            IF k = 0 THEN c.t ELSE EntriesBack(back[k - 1], c.toReinsert[k])
    IN  back[Len(c.toReinsert)]

\* In the leaf the entry is found by its id alone.
deleteData(t, n, id, path) ==
    LET child == Min({k \in DOMAIN n.entries : n.entries[k].id = id})
        n2 == deleteEntry(t, n, child)
    IN  Condensed(condenseTree(writeNode(t, n2), n2, path))

\* What deleteData returns, and the tree without e, which is at the beginning of path.
Finds(t, e) == findLeaf(t, e) # <<>>

DeletedFrom(t, e, path) ==
    IF path = <<>> THEN t
    ELSE [deleteData(t, t.page[Head(path)], e.id, Tail(path)) EXCEPT !.m_u64Data = @ - 1]

Deleted(t, e) == DeletedFrom(t, e, findLeaf(t, e))

-----------------------------------------------------------------------------
(* The query for neighbors                                                 *)

\* The queue holds nodes and data by their distance, each [dist, entry, level], data with
\* the level -1; the nearest comes out next.  More than k are found when several are
\* equally far.
Nearer(t, k, query, s) ==
    LET first == CHOOSE x \in s.queue : \A y \in s.queue : x.dist <= y.dist
        n     == t.page[first.entry.id]
        below == {[dist |-> getMinimumDistance(query, e.mbr), entry |-> e,
                   level |-> n.m_level - 1] : e \in ToSet(n.entries)}
        knearest == Max({0} \cup {x.dist : x \in s.found})
    IN  IF s.queue = {} \/ (Cardinality(s.found) >= k /\ first.dist > knearest) THEN s
        ELSE IF first.level = -1
             THEN [queue |-> s.queue \ {first}, found |-> s.found \cup {first}]
             ELSE [s EXCEPT !.queue = (@ \ {first}) \cup below]

nearestNeighborQuery(t, k, query) ==
    LET rounds == Cardinality(DOMAIN t.page) + Cardinality(DataOf(t))
        near[j \in 0 .. rounds] ==
            IF j = 0 THEN [queue |-> {[dist |-> 0, entry |-> Entry(makeInfinite, t.m_rootID),
                                       level |-> root(t).m_level]}, found |-> {}]
            ELSE Nearer(t, k, query, near[j - 1])
    IN  {x.entry : x \in near[rounds].found}
=============================================================================
