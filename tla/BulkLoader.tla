----------------------------- MODULE BulkLoader -----------------------------
(***************************************************************************)
(* Bulk loading of an R-tree: the data are cut into slices by their        *)
(* centers along one axis, those along the other, and packed into nodes,   *)
(* level by level.  The configuration has the memory of the sorter,        *)
(* numberOfPages pages of pageSize records.                                *)
(***************************************************************************)
EXTENDS RTree

\* The first n of s, and the others.
Cut(s, n)  == SubSeq(s, 1, Lower(n, Len(s)))
Rest(s, n) == SubSeq(s, n + 1, Len(s))

-----------------------------------------------------------------------------
(* The external sorter                                                     *)

Center(e, i) == getCenter(e.mbr)[i]

\* Records in the order of their centers in dimension i.
ByCenter(es, i) == Sorted(es, [k \in DOMAIN es |-> Center(es[k], i)])

\* insert, and what sort does with the rest: whenever the memory is full it is sorted
\* and becomes a run, a file of its own.
RECURSIVE Runs(_, _, _)
Runs(es, size, i) ==
    IF es = <<>> THEN <<>> ELSE <<ByCenter(Cut(es, size), i)>> \o Runs(Rest(es, size), size, i)

\* One pass: of each run a record is in the queue pq, and up to a page waits in its
\* buffer.  The queue gives the greatest: SortAscending, which sorts a vector upwards,
\* puts the greatest record on the top of a priority_queue.
RECURSIVE Exhausted(_, _, _, _, _)
Exhausted(pq, buffers, files, size, i) ==
    IF DOMAIN pq = {} THEN <<>>
    ELSE LET n       == First({<<-Center(pq[m], i), m>> : m \in DOMAIN pq})[2]
             refill  == buffers[n] = <<>>
             buffer  == IF refill THEN Cut(files[n], size) ELSE buffers[n]
             files2  == IF refill THEN [files EXCEPT ![n] = Rest(@, size)] ELSE files
             waiting == IF buffer = <<>> THEN DOMAIN pq \ {n} ELSE DOMAIN pq
             pq2     == [m \in waiting |-> IF m = n THEN buffer[1] ELSE pq[m]]
         IN  <<pq[n]>> \o Exhausted(pq2, [buffers EXCEPT ![n] = Rest(buffer, 1)], files2, size, i)

Merged(runs, size, i) ==
    Exhausted([n \in DOMAIN runs |-> runs[n][1]], [n \in DOMAIN runs |-> Cut(Rest(runs[n], 1), size - 1)],
              [n \in DOMAIN runs |-> Rest(runs[n], size)], size, i)

\* Passes over as many runs as there are pages, until one run is left.
RECURSIVE Passes(_, _, _, _)
Passes(runs, size, pages, i) ==
    LET merged == Merged(Cut(runs, pages), size, i)
        others == Rest(runs, pages)
    IN  IF others = <<>> THEN merged ELSE Passes(Append(others, merged), size, pages, i)

\* The records as getNextRecord gives them: in order, if they fit in memory, and else as
\* the merges leave them, which is not the order of their centers.
ExternallySorted(t, es, i) ==
    LET runs == Runs(es, t.pageSize * t.numberOfPages, i)
    IN  IF Len(runs) <= 1 THEN ByCenter(es, i)
        ELSE Passes(runs, t.pageSize, t.numberOfPages, i)

-----------------------------------------------------------------------------
(* The loader                                                              *)

Up(a, b) == (a + b - 1) \div b

\* The least number whose square is at least p.
Root(p) == CHOOSE s \in 0 .. p : s * s >= p /\ \A r \in 0 .. s - 1 : r * r < p

\* Nodes of b entries each, the last with what is left.
RECURSIVE Packed(_, _, _, _, _)
Packed(t, es, b, level, out) ==
    IF es = <<>> THEN [t |-> t, out |-> out]
    ELSE LET n  == Node(Unused(t), level, Cut(es, b))
             t2 == [writeNode(t, [n EXCEPT !.m_identifier = NewPage]) EXCEPT
                       !.m_rootID = n.m_identifier]
         IN  Packed(t2, Rest(es, b), b, level, Append(out, Entry(n.m_nodeMBR, n.m_identifier)))

\* One level over the records es, sorted along the first axis; with slices of S * b of
\* them, each sorted along the second.
RECURSIVE Sliced(_, _, _, _, _)
Sliced(r, es, b, slice, level) ==
    IF es = <<>> THEN r
    ELSE Sliced(Packed(r.t, ExternallySorted(r.t, Cut(es, slice), 2), b, level, r.out),
                Rest(es, slice), b, slice, level)

createLevel(t, es, b, level) ==
    LET S == Root(Up(Len(es), b))
    IN  IF S = 1 \/ S * b = Len(es) THEN Packed(t, es, b, level, <<>>)
        ELSE Sliced([t |-> t, out |-> <<>>], es, b, S * b, level)

\* The levels, until one of them is a single node: the root.
RECURSIVE Levels(_, _, _), LevelsAbove(_, _)
Levels(t, es, level) ==
    LevelsAbove(createLevel([t EXCEPT !.m_nodesInLevel = Append(@, 0)], ExternallySorted(t, es, 1),
                            Of(t.b, level), level),
                level)

LevelsAbove(r, level) ==
    IF Len(r.out) = 1 THEN [r.t EXCEPT !.m_u32TreeHeight = level + 1]
    ELSE Levels(r.t, r.out, level + 1)

\* bulkLoadUsingSTR, into a new tree whose empty root goes first.  The level that was
\* counted for it stays in the statistics.
bulkLoadUsingSTR(t, es) ==
    [Levels(deleteNode(t, root(t)), es, 0) EXCEPT !.m_u64Data = Len(es)]
=============================================================================
