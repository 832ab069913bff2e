------------------------------- MODULE MVRTree -------------------------------
(***************************************************************************)
(* The multi-version R-tree: every entry has a time from which and until   *)
(* which it lives, nothing but an entry deleted at the time of its         *)
(* insertion is ever removed, and a query asks about an interval of time.  *)
(*                                                                         *)
(* As in RTree an operation is a function of the state t of a tree, with   *)
(*   page           the stored nodes; no page is ever freed                *)
(*   m_roots        the roots [id, start, end] of the successive times     *)
(*   m_treeHeight   their heights                                          *)
(*   m_currentTime, m_u64Data                                              *)
(*   outside        an entry was written behind those of its node          *)
(* and the configuration of the R-tree, to which come                      *)
(*   strongVersionOverflow, versionUnderflow   of leaves and index nodes   *)
(*   splitTenths    tenths of the entries that a part of a split has       *)
(* The other counters, which nothing reads, are left out.                  *)
(*                                                                         *)
(* A node is [m_identifier, m_level, m_nodeMBR, start, end, entries], an   *)
(* entry [mbr, id, start, end].  The splits are those of the R-tree.       *)
(***************************************************************************)
EXTENDS Regions, Sequences, FiniteSets, SequencesExt

R == INSTANCE RTree

\* The end of what lives.
Forever == Big

NewPage == R!NewPage
Of(c, level) == R!Of(c, level)
Around(es) == R!Around(es)

Entry(mbr, id, start, end) == [mbr |-> mbr, id |-> id, start |-> start, end |-> end]

\* A new node, around the entries in space and in time.
Node(id, level, es) ==
    [m_identifier |-> id, m_level |-> level, m_nodeMBR |-> Around(es), entries |-> es,
     start |-> Min({es[k].start : k \in DOMAIN es}), end |-> Max({es[k].end : k \in DOMAIN es})]

\* The entry of a parent for the node n.
For(n) == Entry(n.m_nodeMBR, n.m_identifier, n.start, n.end)

Lives(e) == e.end = Forever

Living(n) == SelectSeq(n.entries, Lives)

lastRoot(t) == t.m_roots[Len(t.m_roots)]
root(t) == t.page[lastRoot(t).id]

Unused(t) == Cardinality(DOMAIN t.page)

writeNode(t, n) ==
    LET id == IF n.m_identifier = NewPage THEN Unused(t) ELSE n.m_identifier
    IN  [t EXCEPT !.page = R!Stored(@, [n EXCEPT !.m_identifier = id])]

insertEntry(n, e) ==
    [n EXCEPT !.entries = Append(@, e), !.m_nodeMBR = getCombinedRegion(@, e.mbr),
              !.start = Lower(@, e.start), !.end = Upper(@, e.end)]

\* Whether deleteEntry computes the bounds of n anew, and n without entry k, whose place
\* the last one takes.
Retightened(t, n, k) ==
    Len(n.entries) = 1 \/ (t.m_bTightMBRs /\ touchesRegion(t.Far, n.m_nodeMBR, n.entries[k].mbr))

deleteEntry(t, n, k) ==
    LET last == Len(n.entries)
        es   == [j \in 1 .. last - 1 |-> n.entries[IF j = k THEN last ELSE j]]
    IN  [n EXCEPT !.entries = es, !.m_nodeMBR = IF Retightened(t, n, k) THEN Around(es) ELSE @]

EntryOf(p, c) == CHOOSE k \in DOMAIN p.entries : p.entries[k].id = c.m_identifier

-----------------------------------------------------------------------------
(* The way down                                                            *)

\* The entries that do not end before the new one starts, by number.
Candidates(n, e) ==
    SelectSeq([k \in DOMAIN n.entries |-> k], LAMBDA k : n.entries[k].end > e.start)

\* The least enlargement and the least overlap are looked for among those.
Child(t, n, e) ==
    LET ks == Candidates(n, e)
        m  == [n EXCEPT !.entries = R!Pick(n.entries, ks)]
    IN  ks[IF t.m_treeVariant = "RV_RSTAR" /\ n.m_level = 1
           THEN R!findLeastOverlap(t, m, e.mbr) ELSE R!findLeastEnlargement(m, e.mbr)]

RECURSIVE chooseSubtree(_, _, _, _, _)
chooseSubtree(t, n, e, level, path) ==
    IF n.m_level \in {0, level} THEN [node |-> n, path |-> path]
    ELSE chooseSubtree(t, t.page[n.entries[Child(t, n, e)].id], e, level,
                       <<n.m_identifier>> \o path)

\* Only the nodes that live are searched, but a leaf for dead entries as well.
RECURSIVE findLeaf(_, _, _, _, _)
findLeaf(t, n, mbr, id, path) ==
    IF n.m_level = 0
    THEN IF \E e \in ToSet(n.entries) : e.id = id /\ e.mbr = mbr
         THEN <<[node |-> n, path |-> path]>> ELSE <<>>
    ELSE LET below == [k \in DOMAIN n.entries |->
                          IF Lives(n.entries[k]) /\ containsRegion(n.entries[k].mbr, mbr)
                          THEN findLeaf(t, t.page[n.entries[k].id], mbr, id,
                                        <<n.m_identifier>> \o path)
                          ELSE <<>>]
             hits == {k \in DOMAIN below : below[k] # <<>>}
         IN  IF hits = {} THEN <<>> ELSE below[Min(hits)]

-----------------------------------------------------------------------------
(* Bounds on the path                                                      *)

\* The entries of p with the region of its child c, and the times they had.
WithBounds(p, c) ==
    [k \in DOMAIN p.entries |->
        IF k = EntryOf(p, c) THEN [p.entries[k] EXCEPT !.mbr = c.m_nodeMBR] ELSE p.entries[k]]

RECURSIVE adjustTree(_, _, _)
adjustTree(t, n, path) ==
    IF path = <<>> THEN t
    ELSE LET p  == t.page[Head(path)]
             es == WithBounds(p, n)
             recompute ==
                \/ ~containsRegion(p.m_nodeMBR, n.m_nodeMBR)
                \/ t.m_bTightMBRs /\ touchesRegion(t.Far, p.m_nodeMBR, p.entries[EntryOf(p, n)].mbr)
             p2 == [p EXCEPT !.entries = es, !.m_nodeMBR = IF recompute THEN Around(es) ELSE @]
             t2 == writeNode(t, p2)
         IN  IF recompute THEN adjustTree(t2, p2, Tail(path)) ELSE t2

\* Two children of the first node on the path changed.
adjustTree2(t, n, nn, path) ==
    LET p  == t.page[Head(path)]
        p1 == [p EXCEPT !.entries = WithBounds(p, n)]
        es == WithBounds(p1, nn)
        recompute ==
           \/ ~containsRegion(p.m_nodeMBR, n.m_nodeMBR)
           \/ /\ t.m_bTightMBRs
              /\ \E c \in {n, nn} : touchesRegion(t.Far, p.m_nodeMBR, p.entries[EntryOf(p, c)].mbr)
        p2 == [p EXCEPT !.entries = es, !.m_nodeMBR = IF recompute THEN Around(es) ELSE @]
        t2 == writeNode(t, p2)
    IN  IF recompute THEN adjustTree(t2, p2, Tail(path)) ELSE t2

-----------------------------------------------------------------------------
(* Insertion                                                               *)

\* The root n ends at that time and r is the next one.  A root that only started at that
\* time is overwritten.
NextRoot(t, n, r, time) ==
    LET old == [n EXCEPT !.end = time]
        id  == Unused(writeNode(t, old))
        last == Len(t.m_roots)
    IN  IF n.start = time
        THEN [writeNode(t, [r EXCEPT !.m_identifier = n.m_identifier]) EXCEPT
                 !.m_treeHeight[last] = r.m_level + 1]
        ELSE [writeNode(writeNode(t, old), r) EXCEPT
                 !.m_treeHeight = Append(@, r.m_level + 1),
                 !.m_roots = Front(@) \o
                    <<[id |-> n.m_identifier, start |-> n.start, end |-> time],
                      [id |-> id, start |-> r.start, end |-> r.end]>>]

\* Mutant: the entry of the child stays alive.
EndedNever(p, n, time) ==
    [p EXCEPT !.entries = [k \in DOMAIN p.entries |->
        IF k = EntryOf(p, n)
        THEN [For(n) EXCEPT !.start = p.entries[k].start, !.end = p.entries[k].end]
        ELSE p.entries[k]]]

\* p with the entry of its child n ended.
Ended(p, n, time) ==
    [p EXCEPT !.entries = [k \in DOMAIN p.entries |->
        IF k = EntryOf(p, n) THEN [For(n) EXCEPT !.start = p.entries[k].start, !.end = time]
        ELSE p.entries[k]]]

\* What lives of n, and the new entries, in a version that starts with them.
NewVersion(n, es) ==
    [k \in 1 .. Len(Living(n)) |-> [Living(n)[k] EXCEPT !.start = es[1].start]] \o es

RECURSIVE insertData(_, _, _, _), VersionCopy(_, _, _, _, _), SplitVersion(_, _, _, _, _),
          NextVersion(_, _, _, _, _), insertTwo(_, _, _, _)

\* es are one or two entries for n, which may hold changes that are not stored yet.  If
\* they do not fit, n ends and a new version of it starts.
insertData(t, n, es, path) ==
    LET n2 == insertEntry(n, es[1])
        t2 == writeNode(t, n2)
    IN  IF Len(es) = 1 /\ Len(n.entries) < Of(t.m_capacity, n.m_level)
        THEN IF containsRegion(n.m_nodeMBR, es[1].mbr) THEN t2 ELSE adjustTree(t2, n2, path)
        ELSE VersionCopy(t, n, NewVersion(n, es), es[1].start, path)

\* The new version has the entries new, and is split when they are too many.  n itself,
\* ended, is not stored unless it is a root: its entry in the parent tells.
VersionCopy(t, n, new, time, path) ==
    LET spf == (Len(new) * t.splitTenths) \div 10
    IN  IF Len(new) >= Of(t.strongVersionOverflow, n.m_level)
        THEN SplitVersion(t, n, R!split([t EXCEPT !.nodeSPF = [leaf |-> spf, index |-> spf]],
                                        n.m_level, new), time, path)
        ELSE NextVersion(t, n, [Node(NewPage, n.m_level, new) EXCEPT !.start = time], time, path)

SplitVersion(t, n, es, time, path) ==
    LET n1  == Node(NewPage, n.m_level, es[1])
        n2  == Node(NewPage, n.m_level, es[2])
        t1  == writeNode(t, n1)
        t2  == writeNode(t1, n2)
        two == <<[For(n1) EXCEPT !.id = Unused(t)], [For(n2) EXCEPT !.id = Unused(t1)]>>
    IN  IF path = <<>> THEN NextRoot(t2, n, Node(NewPage, n.m_level + 1, two), time)
        ELSE insertTwo(t2, Ended(t.page[Head(path)], n, time), two, Tail(path))

NextVersion(t, n, copy, time, path) ==
    IF path = <<>> THEN NextRoot(t, n, copy, time)
    ELSE insertData(writeNode(t, copy), Ended(t.page[Head(path)], n, time),
                    <<[For(copy) EXCEPT !.id = Unused(t)]>>, Tail(path))

\* Two entries for the parent n of a node that was split.  When they do not fit, n is
\* stored after its new version.
insertTwo(t, n, two, path) ==
    LET n2 == insertEntry(insertEntry(n, two[1]), two[2])
        t2 == writeNode(t, n2)
    IN  IF Len(n.entries) < Of(t.m_capacity, n.m_level) - 1
        THEN IF \A k \in 1 .. 2 : containsRegion(n.m_nodeMBR, two[k].mbr)
             THEN t2 ELSE adjustTree(t2, n2, path)
        ELSE IF path = <<>> THEN insertData(t, n, two, path)
             ELSE writeNode(insertData(t, n, two, path), [n EXCEPT !.end = two[1].start])

insertData_impl(t, e, level) ==
    LET c == chooseSubtree(t, root(t), e, level, <<>>)
    IN  insertData(t, c.node, <<e>>, c.path)

Inserted(t, mbr, id, time) ==
    [insertData_impl([t EXCEPT !.m_currentTime = time], Entry(mbr, id, time, Forever), 0)
        EXCEPT !.m_u64Data = @ + 1]

-----------------------------------------------------------------------------
(* Deletion                                                                *)

\* How many entries of the node live in each of the intervals between its times.
Intervals(n) ==
    LET times == {e.start : e \in ToSet(n.entries)} \cup {e.end : e \in ToSet(n.entries)}
    IN  {i \in times \X times : i[1] < i[2] /\ \A x \in times : ~(i[1] < x /\ x < i[2])}

During(e, i) == e.start <= i[1] /\ i[2] <= e.end

Count(n, i) == Cardinality({k \in DOMAIN n.entries : During(n.entries[k], i)})

\* Mutant: an entry older than n may be borrowed.
LendableOlder(t, p, n, s) ==
    LET since(c) == p.entries[EntryOf(p, c)].start
        area(e)  == getArea(getCombinedRegion(n.m_nodeMBR, e.mbr))
        live     == {k \in DOMAIN s.entries : Lives(s.entries[k])}
        singleParent == \A e \in ToSet(s.entries) : e.start >= since(s)
        least    == Of(t.versionUnderflow, 0)
    IN  IF ~singleParent \/ Cardinality(live) = least + 1 THEN {}
        ELSE {<<area(s.entries[k]), k>> :
                k \in {k \in live :
                         /\ 10 * area(s.entries[k]) <= 11 * getArea(n.m_nodeMBR)
                         /\ \A i \in Intervals(s) : During(s.entries[k], i) => Count(s, i) > least}}

\* The entries of the sibling s of n that n may borrow: not older than n and than s, as
\* the parent p knows them, near to n, and not needed by s at any time.
Lendable(t, p, n, s) ==
    LET since(c) == p.entries[EntryOf(p, c)].start
        area(e)  == getArea(getCombinedRegion(n.m_nodeMBR, e.mbr))
        live     == {k \in DOMAIN s.entries : Lives(s.entries[k])}
        singleParent == \A e \in ToSet(s.entries) : e.start >= since(s)
        least    == Of(t.versionUnderflow, 0)
    IN  IF ~singleParent \/ Cardinality(live) = least + 1 THEN {}
        ELSE {<<area(s.entries[k]), k>> :
                k \in {k \in live :
                         /\ s.entries[k].start >= since(n)
                         /\ 10 * area(s.entries[k]) <= 11 * getArea(n.m_nodeMBR)
                         /\ \A i \in Intervals(s) : During(s.entries[k], i) => Count(s, i) > least}}

\* The siblings that can lend one, by their number in the parent.
Lenders(t, p, n) ==
    {k \in DOMAIN p.entries :
        /\ p.entries[k].id # n.m_identifier /\ Lives(p.entries[k])
        /\ intersectsRegion(p.entries[k].mbr, n.m_nodeMBR)
        /\ Lendable(t, p, n, t.page[p.entries[k].id]) # {}}

\* n takes the one that enlarges it least, from the first of them.
Borrowed(t, n, path, adjustParent) ==
    LET p  == t.page[Head(path)]
        s  == t.page[p.entries[Min(Lenders(t, p, n))].id]
        k  == R!First(Lendable(t, p, n, s))[2]
        e  == s.entries[k]
        n2 == insertEntry(n, e)
        s2 == deleteEntry(t, s, k)
        t2 == writeNode(writeNode(t, n2), s2)
        b1 == ~containsRegion(n.m_nodeMBR, e.mbr) \/ adjustParent
        b2 == touchesRegion(t.Far, s.m_nodeMBR, e.mbr)
    IN  IF b1 /\ b2 THEN adjustTree2(t2, n2, s2, path)
        ELSE IF b1 THEN adjustTree(t2, n2, path)
        ELSE IF b2 THEN adjustTree(t2, s2, path) ELSE t2

\* The data that live below the entry of an index node, in the order of the scan.
RECURSIVE LivingData(_, _)
LivingData(t, e) ==
    LET n == t.page[e.id]
        below == [k \in 1 .. Len(Living(n)) |-> LivingData(t, Reverse(Living(n))[k])]
    IN  IF n.m_level = 0 THEN Living(n) ELSE FlattenSeq(below)

RECURSIVE Reinserted(_, _, _, _)
Reinserted(t, es, level, time) ==
    IF es = <<>> THEN t
    ELSE Reinserted(insertData_impl(t, [Head(es) EXCEPT !.start = time], level),
                    Tail(es), level, time)

\* n without the entry deleted at that time: it ends, unless it only started then and is
\* removed; adjusted tells whether the bounds of n are new.
Without(t, n, child, time, force) ==
    LET physical == n.m_level = 0 /\ n.entries[child].start = time
        adjusted == physical /\ Retightened(t, n, child)
        n1 == IF physical THEN deleteEntry(t, n, child)
              ELSE [n EXCEPT !.entries = [k \in DOMAIN n.entries |->
                       IF k = child THEN [n.entries[k] EXCEPT !.end = time] ELSE n.entries[k]]]
    IN  [node |-> IF force /\ ~adjusted THEN [n1 EXCEPT !.m_nodeMBR = Around(n1.entries)] ELSE n1,
         adjusted |-> adjusted \/ force]

\* Nothing lives in the root n any more: an empty leaf is the next one.
EmptyRoot(t, n, time) ==
    NextRoot(t, n, [m_identifier |-> NewPage, m_level |-> 0, m_nodeMBR |-> makeInfinite,
                    start |-> time, end |-> Forever, entries |-> <<>>], time)

\* The entry of n in its parent p gets its bounds.  If child, which in an index node is
\* the number of the deleted entry, is not one of p's, the code writes at that place.
Rebound(t, p, n, child) ==
    IF n.m_level > 0 /\ child > Len(p.entries)
    THEN [node |-> p, outside |-> TRUE]
    ELSE [node |-> [p EXCEPT !.entries = WithBounds(p, n)], outside |-> FALSE]

\* An ended node's live entries are inserted again, from the root; if that ended as well,
\* only data are.
Rescued(up, live, level, time) ==
    IF up.newRoot /\ level > 0
    THEN Reinserted(up.t, FlattenSeq([k \in DOMAIN live |-> LivingData(up.t, live[k])]), 0, time)
    ELSE Reinserted(up.t, live, level, time)

RECURSIVE deleteData(_, _, _, _, _, _), Resolved(_, _, _, _, _, _), Died(_, _, _, _, _, _)

\* The entry id of n is deleted; newRoot tells that this ended the root.
deleteData(t, n, id, time, path, force) ==
    LET child == Max({k \in DOMAIN n.entries : n.entries[k].id = id})
    IN  Resolved(t, n, Without(t, n, child, time, force), child, time, path)

\* If too few live in n, which is w.node now, it borrows from a sibling or ends.
Resolved(t, n, w, child, time, path) ==
    LET alive == Len(Living(n)) - 1
    IN  IF alive < Of(t.versionUnderflow, n.m_level) /\ path # <<>>
        THEN IF /\ n.m_level = 0 /\ Len(w.node.entries) < t.m_capacity.leaf
                /\ Lenders(t, t.page[Head(path)], w.node) # {}
             THEN [t |-> Borrowed(t, w.node, path, w.adjusted), newRoot |-> FALSE]
             ELSE Died(t, n, w, child, time, path)
        ELSE IF alive = 0 /\ path = <<>> /\ w.node.entries # <<>>
        THEN [t |-> EmptyRoot(t, w.node, time), newRoot |-> TRUE]
        ELSE [t |-> IF w.adjusted THEN adjustTree(writeNode(t, w.node), w.node, path)
                    ELSE writeNode(t, w.node),
              newRoot |-> FALSE]

\* That a root ended below is not told any further.
Died(t, n, w, child, time, path) ==
    LET dead == [w.node EXCEPT !.end = time]
        p == t.page[Head(path)]
        q == IF w.adjusted THEN Rebound(t, p, dead, child) ELSE [node |-> p, outside |-> FALSE]
    IN  [t |-> Rescued(deleteData([writeNode(t, dead) EXCEPT !.outside = @ \/ q.outside], q.node,
                                  n.m_identifier, time, Tail(path),
                                  w.adjusted /\ touchesRegion(t.Far, p.m_nodeMBR, n.m_nodeMBR)),
                       Living(w.node), n.m_level, time),
         newRoot |-> FALSE]

\* l is the leaf of the datum, if there is one.  The time is taken over in any case.
DeletedFrom(t, l, id, time) ==
    IF l = <<>> THEN t
    ELSE [deleteData(t, l[1].node, id, time, l[1].path, FALSE).t EXCEPT !.m_u64Data = @ - 1]

Deleted(t, mbr, id, time) ==
    DeletedFrom([t EXCEPT !.m_currentTime = time], findLeaf(t, root(t), mbr, id, <<>>), id, time)

-----------------------------------------------------------------------------
(* Queries about the time from a until b                                   *)

intersectsInterval(e, a, b) == e.start < b /\ a < e.end

RECURSIVE Visited(_, _, _, _, _, _)
Visited(t, type, query, a, b, n) ==
    IF n.m_level = 0
    THEN {e.id : e \in {e \in ToSet(n.entries) :
                          intersectsInterval(e, a, b) /\ R!Answers(type, query, e.mbr)}}
    ELSE UNION {Visited(t, type, query, a, b, t.page[e.id]) :
                  e \in {e \in ToSet(n.entries) :
                           intersectsInterval(e, a, b) /\ intersectsRegion(query, e.mbr)}}

findRootIdentifiers(t, a, b) ==
    {t.m_roots[k].id : k \in {k \in DOMAIN t.m_roots : intersectsInterval(t.m_roots[k], a, b)}}

\* The ids of the data, each once.
rangeQuery(t, type, query, a, b) ==
    UNION {IF t.page[r].entries # <<>> /\ intersectsRegion(query, t.page[r].m_nodeMBR)
           THEN Visited(t, type, query, a, b, t.page[r]) ELSE {} :
             r \in findRootIdentifiers(t, a, b)}
=============================================================================
