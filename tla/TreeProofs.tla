---------------------------- MODULE TreeProofs ------------------------------
(***************************************************************************)
(* Proofs about the R-tree under any sequence of insertions and deletions  *)
(* of the entries it may be given.  In order:                              *)
(*   - the deletion: the search for the leaf, condenseTree on its way up,  *)
(*     the root's replacement, and the entries that enter again;           *)
(*   - every reachable tree is one that insertions and deletions made of   *)
(*     the empty one (GrownInvariant): from it the shape of the tree, the  *)
(*     validity check, the exact answers of its queries, and that the tree *)
(*     implements the abstract index SpatialIndex;                         *)
(*   - the search for the nearest neighbors.                               *)
(***************************************************************************)
EXTENDS TreeInsertionProofs


\* Entry k goes, and the last one takes its place.
Without(es, k) == [j \in 1 .. Len(es) - 1 |-> es[IF j = k THEN Len(es) ELSE j]]

Less(es, e, a) ==
    /\ Shapely(a) /\ Distinct(a) /\ Len(a) = Len(es) - 1 /\ Len(es) \in Nat /\ 1 <= Len(es)
    /\ ToSet(a) = ToSet(es) \ {e} /\ e \in ToSet(es) /\ e \in EntryT /\ NonEmpty(e.mbr)
    /\ (a = <<>> <=> Len(es) = 1)

\* Removing an entry puts the last one in its place.
LEMMA WithoutIs ==
    ASSUME NEW es, Shapely(es), Distinct(es), NEW k \in DOMAIN es
    PROVE  Less(es, es[k], Without(es, k))
<1> DEFINE a == Without(es, k)
<1> DEFINE n == Len(es)
<1>1. /\ es \in Seq(EntryT) /\ n \in Nat /\ DOMAIN es = 1 .. n
      /\ \A j \in DOMAIN es : es[j] \in EntryT /\ NonEmpty(es[j].mbr)
  BY ShapelyIs
<1>2. k \in 1 .. n /\ 1 <= n /\ n - 1 \in Nat
  BY <1>1
<1>3. /\ DOMAIN a = 1 .. n - 1
      /\ \A j \in 1 .. n - 1 : a[j] = es[IF j = k THEN n ELSE j]
      /\ a \in Seq(EntryT) /\ Len(a) = n - 1
  <2>1. a = [j \in 1 .. n - 1 |-> es[IF j = k THEN n ELSE j]]
    BY DEF Without
  <2>2. \A j \in 1 .. n - 1 : es[IF j = k THEN n ELSE j] \in EntryT
    BY <1>1, <1>2
  <2> HIDE DEF a
  <2>3. a \in Seq(EntryT)
    BY <1>2, <2>1, <2>2
  <2>4. Len(a) = n - 1
    BY <1>2, <2>1, <2>3
  <2> QED
    BY <2>1, <2>3, <2>4
<1>4. \A j \in 1 .. n - 1 : (IF j = k THEN n ELSE j) \in 1 .. n /\ (IF j = k THEN n ELSE j) # k
  BY <1>2
<1>5. \A i, j \in 1 .. n - 1 : (IF i = k THEN n ELSE i) = (IF j = k THEN n ELSE j) => i = j
  BY <1>2
<1> HIDE DEF a, n
<1>6. Shapely(a)
  BY <1>1, <1>3, <1>4 DEF Shapely
<1>7. Distinct(a)
  <2> SUFFICES ASSUME NEW i \in DOMAIN a, NEW j \in DOMAIN a, a[i].id = a[j].id PROVE i = j
    BY DEF Distinct
  <2>1. (IF i = k THEN n ELSE i) = (IF j = k THEN n ELSE j)
    BY <1>1, <1>3, <1>4 DEF Distinct
  <2> QED
    BY <1>3, <1>5, <2>1
<1>8. \A x \in ToSet(a) : x \in ToSet(es) /\ x # es[k]
  <2> SUFFICES ASSUME NEW j \in DOMAIN a PROVE a[j] \in ToSet(es) /\ a[j] # es[k]
    BY DEF ToSet
  <2> DEFINE i == IF j = k THEN n ELSE j
  <2>1. i \in 1 .. n /\ i # k /\ a[j] = es[i]
    BY <1>3, <1>4
  <2> HIDE DEF i
  <2> QED
    BY <1>1, <2>1 DEF ToSet, Distinct
<1>9. \A x \in ToSet(es) : x # es[k] => x \in ToSet(a)
  <2> SUFFICES ASSUME NEW i \in DOMAIN es, es[i] # es[k] PROVE es[i] \in ToSet(a)
    BY DEF ToSet
  <2> DEFINE j == IF i = n THEN k ELSE i
  <2>1. j \in 1 .. n - 1 /\ i = (IF j = k THEN n ELSE j)
    BY <1>1, <1>2
  <2>2. j \in DOMAIN a /\ a[j] = es[i]
    BY <1>3, <2>1
  <2> HIDE DEF j
  <2> QED
    BY <2>2 DEF ToSet
<1>10. ToSet(a) = ToSet(es) \ {es[k]} /\ es[k] \in ToSet(es)
  BY <1>8, <1>9 DEF ToSet
<1>11. a = <<>> <=> Len(es) = 1
  <2>1. a \in Seq(EntryT)
    BY <1>3
  <2>2. a = <<>> <=> Len(a) = 0
    BY <2>1
  <2> QED
    BY <1>2, <1>3, <2>2 DEF n
<1> QED
  BY <1>1, <1>2, <1>3, <1>6, <1>7, <1>10, <1>11 DEF Less, a, n

\* A node without that entry.
Loses(t, n, p, e, q) ==
    /\ NodeOk(q, p, Tight(t)) /\ q.m_level = n.m_level /\ Less(n.entries, e, q.entries)
    /\ Pairs(q) = Pairs(n) \ {<<n.m_level, e>>}
    /\ ~t.m_bTightMBRs /\ q.entries # <<>> => q.m_nodeMBR = n.m_nodeMBR

\* deleteEntry: one entry less, and a region that still contains the others.
LEMMA DeleteEntryIs ==
    ASSUME NEW t, t.m_bTightMBRs \in BOOLEAN, t.Far \in BOOLEAN,
           NEW n, NEW p, NodeOk(n, p, Tight(t)), NEW k \in DOMAIN n.entries
    PROVE  Loses(t, n, p, n.entries[k], deleteEntry(t, n, k))
<1> DEFINE q == deleteEntry(t, n, k)
<1> DEFINE e == n.entries[k]
<1> DEFINE es == Without(n.entries, k)
<1> DEFINE touches == t.m_bTightMBRs /\ touchesRegion(t.Far, n.m_nodeMBR, e.mbr)
<1> DEFINE b == IF es = <<>> \/ touches THEN Around(es) ELSE n.m_nodeMBR
<1>1. q = [n EXCEPT !.entries = es, !.m_nodeMBR = b]
  BY DEF deleteEntry, Without
<1>2. /\ n \in NodeT /\ n.m_identifier = p /\ Shapely(n.entries) /\ Distinct(n.entries)
      /\ \A x \in ToSet(n.entries) : containsRegion(n.m_nodeMBR, x.mbr)
      /\ IF n.entries = <<>> THEN n.m_nodeMBR = makeInfinite ELSE NonEmpty(n.m_nodeMBR)
      /\ Tight(t) => n.m_nodeMBR = Around(n.entries)
  BY DEF NodeOk
<1>3. Less(n.entries, e, es)
  BY <1>2, WithoutIs
<1>4. /\ Shapely(es) /\ Distinct(es) /\ ToSet(es) = ToSet(n.entries) \ {e} /\ n.entries # <<>>
  <2>1. e \in ToSet(n.entries)
    BY <1>3 DEF Less
  <2>2. n.entries # <<>>
    BY DEF e
  <2> QED
    BY <1>3, <2>2 DEF Less
<1>5. /\ Around(es) \in AnyRegion /\ (es # <<>> => NonEmpty(Around(es)))
      /\ \A x \in ToSet(es) : containsRegion(Around(es), x.mbr)
  BY <1>4, AroundShapely DEF ToSet
<1>6. Tight(t) => touches
  BY DEF Tight, touchesRegion
<1>7. es = <<>> => Around(es) = makeInfinite
  BY AroundEmpty
<1>8. n.m_nodeMBR \in AnyRegion
  BY <1>2 DEF NodeT
<1>9. /\ b \in AnyRegion /\ (\A x \in ToSet(es) : containsRegion(b, x.mbr))
      /\ (IF es = <<>> THEN b = makeInfinite ELSE NonEmpty(b))
      /\ (Tight(t) => b = Around(es))
      /\ (~t.m_bTightMBRs /\ es # <<>> => b = n.m_nodeMBR)
  <2>1. CASE es = <<>> \/ touches
    <3>1. b = Around(es)
      BY <2>1
    <3>2. ~t.m_bTightMBRs => es = <<>>
      BY <2>1
    <3> HIDE DEF b, es, touches
    <3> QED
      BY <1>5, <1>7, <3>1, <3>2
  <2>2. CASE ~ (es = <<>> \/ touches)
    <3>1. b = n.m_nodeMBR
      BY <2>2
    <3>2. \A x \in ToSet(es) : x \in ToSet(n.entries)
      BY <1>4
    <3>3. ~Tight(t) /\ es # <<>>
      BY <1>6, <2>2
    <3> HIDE DEF b, es, touches
    <3> QED
      BY <1>2, <1>4, <1>8, <3>1, <3>2, <3>3
  <2> QED
    BY <2>1, <2>2
<1> HIDE DEF q, e, es, b, touches
<1>10. /\ q.entries = es /\ q.m_nodeMBR = b /\ q.m_level = n.m_level /\ q.m_identifier = n.m_identifier
  BY <1>1, <1>2 DEF NodeT
<1>11. q \in NodeT
  BY <1>1, <1>2, <1>4, <1>9 DEF NodeT, Shapely
<1>12. NodeOk(q, p, Tight(t))
  BY <1>2, <1>4, <1>9, <1>10, <1>11 DEF NodeOk
<1>13. Pairs(q) = Pairs(n) \ {<<n.m_level, e>>}
  BY <1>4, <1>10 DEF Pairs
<1> QED
  BY <1>3, <1>9, <1>10, <1>12, <1>13 DEF Loses, q, e


\* The page p becomes q, which lost the entry e: it waits.
Shed(t, u, p, e, q, W, X, Y) ==
    /\ Written(t, u, q, p, W \cup {<<t.page[p].m_level, e>>},
               IF t.m_bTightMBRs \/ q.entries = <<>> THEN X \cup {p} ELSE X, Y \cup {p})
    /\ <<t.page[p].m_level, e>> \notin W /\ <<t.page[p].m_level, e>> \in PairT
    /\ Kept(u.page, W \cup {<<t.page[p].m_level, e>>}) = Kept(t.page, W)
    /\ Loses(t, t.page[p], p, e, q)

\* A leaf or an index node that loses an entry; the entry no longer is anywhere.
LEMMA EntryGoes ==
    ASSUME NEW t, NEW W, NEW X, NEW Y, Works(t, W, X, Y), NEW p \in DOMAIN t.page,
           NEW c, c.m_bTightMBRs = t.m_bTightMBRs, c.Far = t.Far,
           NEW k \in DOMAIN t.page[p].entries, t.page[p].m_level # 0 => 2 <= Len(t.page[p].entries)
    PROVE  Shed(t, writeNode(t, deleteEntry(c, t.page[p], k)), p, t.page[p].entries[k],
                deleteEntry(c, t.page[p], k), W, X, Y)
<1> DEFINE P == t.page
<1> DEFINE r == t.m_rootID
<1> DEFINE n == P[p]
<1> DEFINE e == n.entries[k]
<1> DEFINE q == deleteEntry(c, n, k)
<1> DEFINE x == <<n.m_level, e>>
<1> DEFINE W2 == W \cup {x}
<1> DEFINE X2 == IF t.m_bTightMBRs \/ q.entries = <<>> THEN X \cup {p} ELSE X
<1> DEFINE Y2 == Y \cup {p}
<1>1. /\ Conf(t) /\ Forest(P, r, W, X, Tight(t)) /\ Sizes(t, P, r, Y) /\ Counts(t, P) /\ r \in DOMAIN P
      /\ NodeOk(n, p, Tight(t)) /\ p \in Nat /\ n.m_level \in Nat /\ n.m_identifier = p
      /\ \A o \in DOMAIN P : P[o].m_level <= P[r].m_level
  BY WorksIs
<1>2. t.m_bTightMBRs \in BOOLEAN /\ t.Far \in BOOLEAN
  BY <1>1 DEF Conf
<1>3. Tight(c) = Tight(t)
  BY DEF Tight
<1>4. Loses(c, n, p, e, q)
  <2> HIDE DEF P
  <2> QED
    BY <1>1, <1>2, <1>3, DeleteEntryIs DEF e, q, n, P
<1>5. Loses(t, n, p, e, q)
  BY <1>3, <1>4 DEF Loses
<1> HIDE DEF P, r, n, e, q
<1>6. /\ NodeOk(q, p, Tight(t)) /\ q.m_level = n.m_level /\ Less(n.entries, e, q.entries)
      /\ Pairs(q) = Pairs(n) \ {x}
      /\ ~t.m_bTightMBRs /\ q.entries # <<>> => q.m_nodeMBR = n.m_nodeMBR
      /\ q.m_identifier = p
  BY <1>5 DEF Loses, NodeOk
<1>7. /\ Len(q.entries) = Len(n.entries) - 1 /\ Len(n.entries) \in Nat /\ 1 <= Len(n.entries)
      /\ e \in ToSet(n.entries)
  BY <1>6 DEF Less
<1>8. Pairs(n) \in SUBSET PairT /\ x \in Pairs(n)
  BY <1>1, <1>7, PairsAre
<1>9. Pairs(n) \cap W = {}
  BY <1>1 DEF Forest, OneHolder, n, P
<1>10. Pairs(q) \cup W2 = Pairs(n) \cup W /\ Pairs(q) \cap W2 = {}
  <2> HIDE DEF x
  <2> QED
    BY <1>6, <1>8, <1>9
<1>11. X \in SUBSET X2 /\ (q.m_nodeMBR = n.m_nodeMBR \/ p \in X2 \/ p = r)
  BY <1>2, <1>6
<1> HIDE DEF x, W2, X2
<1>12. Exchanged(P, r, q, W, W2, X2, Tight(t))
  <2>1. p # r => q.m_level = P[p].m_level
    BY <1>6 DEF n
  <2>2. p = r => \A o \in DOMAIN P : o # r => P[o].m_level <= q.m_level
    BY <1>1, <1>6 DEF n
  <2>3. /\ Pairs(q) \cup W2 = Pairs(P[p]) \cup W /\ Pairs(q) \cap W2 = {} /\ p \in DOMAIN P
        /\ X \in SUBSET X2 /\ (q.m_nodeMBR = P[p].m_nodeMBR \/ p \in X2 \/ p = r)
        /\ NodeOk(q, p, Tight(t)) /\ Forest(P, r, W, X, Tight(t))
    BY <1>1, <1>6, <1>10, <1>11 DEF n, P
  <2> QED
    BY <2>1, <2>2, <2>3, Exchange
<1>13. Forest(Stored(P, q), r, W2, X2, Tight(t)) /\ Kept(Stored(P, q), W2) = Kept(P, W)
  BY <1>12 DEF Exchanged
<1>14. Sizes(t, Stored(P, q), r, Y2)
  <2>1. Sizes(t, P, r, Y2)
    BY <1>1 DEF Sizes
  <2>2. Len(n.entries) <= Of(t.m_capacity, n.m_level)
    BY <1>1 DEF Sizes, n, P
  <2>3. /\ Sized(t)
    BY <1>1 DEF Conf
  <2>4. Of(t.m_capacity, n.m_level) \in Nat
    BY <1>1, <2>3 DEF Sized
  <2>5. Len(q.entries) <= Of(t.m_capacity, q.m_level)
    BY <1>6, <1>7, <2>2, <2>4
  <2>6. q.m_level # 0 => 1 <= Len(q.entries)
    BY <1>6, <1>7 DEF n, P
  <2>7. p \in Y2
    OBVIOUS
  <2> HIDE DEF Y2
  <2> QED
    BY <1>6, <2>1, <2>5, <2>6, <2>7, SizesStored
<1> HIDE DEF Y2
<1>15. Written(t, writeNode(t, q), q, p, W2, X2, Y2)
  <2>1. /\ Conf(t) /\ Counts(t, t.page) /\ t.m_rootID \in DOMAIN t.page /\ p \in DOMAIN t.page /\ p \in Nat
        /\ q.m_identifier = p /\ q.m_level = t.page[p].m_level
        /\ Forest(Stored(t.page, q), t.m_rootID, W2, X2, Tight(t))
        /\ Sizes(t, Stored(t.page, q), t.m_rootID, Y2)
    BY <1>1, <1>6, <1>13, <1>14 DEF n, P, r
  <2> QED
    BY <2>1, WorksWrite
<1>16. Kept(writeNode(t, q).page, W2) = Kept(P, W)
  <2>1. writeNode(t, q).page = Stored(P, q)
    BY <1>15 DEF Written, P
  <2> QED
    BY <1>13, <2>1
<1>17. x \notin W /\ x \in PairT
  BY <1>8, <1>9
<1> QED
  BY <1>5, <1>15, <1>16, <1>17 DEF Shed, P, n, e, q, x, W2, X2, Y2


\* A parent in condenseTree: it gets the bounds of its child, and bounds of its own if these
\* are kept tight.
Brought(c, p, n) ==
    LET es == WithBounds(p, n)
    IN  [p EXCEPT !.entries = es, !.m_nodeMBR = IF c.m_bTightMBRs THEN Around(es) ELSE @]

\* In a node that holds what its child has.
BroughtTo(t, n, p, c, e, q) ==
    /\ NodeOk(q, p, Tight(t)) /\ q.m_level = n.m_level /\ Len(q.entries) = Len(n.entries)
    /\ ToSet(q.entries) = (ToSet(n.entries) \ {e}) \cup {Entry(c.m_nodeMBR, e.id)}
    /\ t.m_bTightMBRs \/ q.m_nodeMBR = n.m_nodeMBR

\* The parent's entry takes the region of a child that lost an entry.
LEMMA BroughtIs ==
    ASSUME NEW t, t.m_bTightMBRs \in BOOLEAN,
           NEW n, NEW p, NodeOk(n, p, Tight(t)), NEW c, c.m_nodeMBR \in AnyRegion, NonEmpty(c.m_nodeMBR),
           NEW e \in ToSet(n.entries), e.id = c.m_identifier, ~t.m_bTightMBRs => c.m_nodeMBR = e.mbr
    PROVE  BroughtTo(t, n, p, c, e, Brought(t, n, c))
<1> DEFINE q == Brought(t, n, c)
<1> DEFINE f == Entry(c.m_nodeMBR, e.id)
<1> DEFINE es == WithBounds(n, c)
<1> DEFINE b == IF t.m_bTightMBRs THEN Around(es) ELSE n.m_nodeMBR
<1>1. q = [n EXCEPT !.entries = es, !.m_nodeMBR = b]
  BY DEF Brought
<1>2. /\ n \in NodeT /\ n.m_identifier = p /\ Shapely(n.entries) /\ Distinct(n.entries)
      /\ \A x \in ToSet(n.entries) : containsRegion(n.m_nodeMBR, x.mbr)
      /\ IF n.entries = <<>> THEN n.m_nodeMBR = makeInfinite ELSE NonEmpty(n.m_nodeMBR)
      /\ Tight(t) => n.m_nodeMBR = Around(n.entries)
  BY DEF NodeOk
<1>3. /\ Shapely(es) /\ Distinct(es) /\ Len(es) = Len(n.entries)
      /\ ToSet(es) = (ToSet(n.entries) \ {e}) \cup {f} /\ f \in ToSet(es)
  BY <1>2, WithBoundsIs
<1>4. n.entries # <<>> /\ es # <<>>
  <2>1. \A s : s = <<>> => DOMAIN s = {}
    OBVIOUS
  <2>2. \A s : s = <<>> => ToSet(s) = {}
    BY <2>1 DEF ToSet
  <2> QED
    BY <1>3, <2>2
<1>5. /\ Around(es) \in AnyRegion /\ NonEmpty(Around(es))
      /\ \A x \in ToSet(es) : containsRegion(Around(es), x.mbr)
  BY <1>3, <1>4, AroundShapely DEF ToSet
<1>6. f.mbr = c.m_nodeMBR
  BY DEF Entry
<1>7. /\ b \in AnyRegion /\ NonEmpty(b) /\ \A x \in ToSet(es) : containsRegion(b, x.mbr)
      /\ Tight(t) => b = Around(es)
      /\ t.m_bTightMBRs \/ b = n.m_nodeMBR
  <2>1. CASE t.m_bTightMBRs
    <3>1. b = Around(es)
      BY <2>1
    <3> QED
      BY <1>5, <2>1, <3>1
  <2>2. CASE ~ t.m_bTightMBRs
    <3>1. b = n.m_nodeMBR
      BY <2>2
    <3>2. n.m_nodeMBR \in AnyRegion
      BY <1>2 DEF NodeT
    <3>3. \A x \in ToSet(es) : containsRegion(b, x.mbr)
      <4> HIDE DEF b, es, f
      <4> QED
        BY <1>2, <1>3, <1>6, <2>2, <3>1
    <3>4. ~ Tight(t)
      BY <2>2 DEF Tight
    <3> QED
      BY <1>2, <1>4, <3>4, <2>2, <3>1, <3>2, <3>3
  <2> QED
    BY <2>1, <2>2
<1> HIDE DEF q, f, es, b
<1>10. /\ q.entries = es /\ q.m_nodeMBR = b /\ q.m_level = n.m_level /\ q.m_identifier = n.m_identifier
  BY <1>1, <1>2 DEF NodeT
<1>11. q \in NodeT
  BY <1>1, <1>2, <1>3, <1>7 DEF NodeT, Shapely
<1>12. NodeOk(q, p, Tight(t))
  BY <1>2, <1>3, <1>4, <1>7, <1>10, <1>11 DEF NodeOk
<1> QED
  BY <1>3, <1>7, <1>10, <1>12 DEF q, f, es, BroughtTo

\* Pages with bounds that are out of date: those of Z, and c when bounds are kept tight.
With(t, Z, c) == IF t.m_bTightMBRs THEN Z \cup {c} ELSE Z

\* The parent p is written.
Brings(t, u, p, q, W, Z, Y) ==
    /\ Written(t, u, q, p, W, With(t, Z, p), Y) /\ Len(q.entries) = Len(t.page[p].entries)
    /\ \A x : x[1] = 0 => (x \in Kept(u.page, W) <=> x \in Kept(t.page, W))

\* Only the parent may now disagree with its own entry.
LEMMA ParentBrought ==
    ASSUME NEW t, NEW W, NEW Z, NEW Y, NEW c \in DOMAIN t.page, c \notin Z, Works(t, W, With(t, Z, c), Y),
           t.page[c].entries # <<>>,
           NEW p \in DOMAIN t.page, t.page[p].m_level = t.page[c].m_level + 1,
           NEW e \in ToSet(t.page[p].entries), e.id = c,
           NEW d, d.m_bTightMBRs = t.m_bTightMBRs
    PROVE  Brings(t, writeNode(t, Brought(d, t.page[p], t.page[c])), p, Brought(d, t.page[p], t.page[c]), W, Z, Y)
<1> DEFINE P == t.page
<1> DEFINE r == t.m_rootID
<1> DEFINE n == P[p]
<1> DEFINE m == P[c]
<1> DEFINE q == Brought(d, n, m)
<1> DEFINE f == Entry(m.m_nodeMBR, c)
<1> DEFINE X == With(t, Z, c)
<1> DEFINE X2 == With(t, Z, p)
<1>0. q = Brought(t, n, m)
  BY DEF Brought
<1>1. /\ Conf(t) /\ Forest(P, r, W, X, Tight(t)) /\ Sizes(t, P, r, Y) /\ Counts(t, P) /\ r \in DOMAIN P
      /\ NodeOk(n, p, Tight(t)) /\ p \in Nat /\ n.m_level \in Nat /\ n.m_identifier = p
      /\ NodeOk(m, c, Tight(t)) /\ m.m_level \in Nat /\ m.m_identifier = c /\ n.m_level = m.m_level + 1
  BY WorksIs
<1>2. t.m_bTightMBRs \in BOOLEAN /\ t.Far \in BOOLEAN
  BY <1>1 DEF Conf
<1>3. m.m_nodeMBR \in AnyRegion /\ NonEmpty(m.m_nodeMBR)
  BY <1>1 DEF NodeOk, NodeT
<1>4. ~t.m_bTightMBRs => m.m_nodeMBR = e.mbr
  <2>1. <<n.m_level, e>> \in Pairs(n)
    BY <1>1, PairsAre
  <2>2. <<n.m_level, e>> \in Kept(P, W)
    BY <2>1, KeptIs
  <2>3. n.m_level # 0
    BY <1>1
  <2>4. Down(P, r, Kept(P, W), X)
    BY <1>1 DEF Forest
  <2>5. e.id \notin X => P[e.id].m_nodeMBR = e.mbr
    <3> HIDE DEF P, n, X
    <3> QED
      BY <2>2, <2>3, <2>4 DEF Down
  <2>6. ~t.m_bTightMBRs => c \notin X
    BY DEF With
  <2> QED
    BY <2>5, <2>6
<1> HIDE DEF P, r, n, m, q, f, X, X2
<1>5. /\ NodeOk(q, p, Tight(t)) /\ q.m_level = n.m_level /\ Len(q.entries) = Len(n.entries)
      /\ ToSet(q.entries) = (ToSet(n.entries) \ {e}) \cup {f}
      /\ t.m_bTightMBRs \/ q.m_nodeMBR = n.m_nodeMBR
  <2>1. e \in ToSet(n.entries) /\ e.id = m.m_identifier
    BY <1>1 DEF n, P
  <2>2. BroughtTo(t, n, p, m, e, Brought(t, n, m))
    BY <1>1, <1>2, <1>3, <1>4, <2>1, BroughtIs
  <2>3. e.id = c
    OBVIOUS
  <2> QED
    BY <1>0, <2>2, <2>3 DEF f, BroughtTo
<1>6. X \ {e.id} \in SUBSET X2 /\ (q.m_nodeMBR = n.m_nodeMBR \/ p \in X2 \/ p = r)
  BY <1>5 DEF X, X2, With
<1>7. /\ Forest(Stored(P, q), r, W, X2, Tight(t))
      /\ \A x : x[1] = 0 => (x \in Kept(Stored(P, q), W) <=> x \in Kept(P, W))
  <2>1. /\ Forest(P, r, W, X, Tight(t)) /\ p \in DOMAIN P /\ NodeOk(q, p, Tight(t))
        /\ q.m_level = P[p].m_level /\ q.m_level # 0 /\ e \in ToSet(P[p].entries)
        /\ f = Entry(P[e.id].m_nodeMBR, e.id)
        /\ ToSet(q.entries) = (ToSet(P[p].entries) \ {e}) \cup {f}
        /\ X \ {e.id} \in SUBSET X2 /\ (q.m_nodeMBR = P[p].m_nodeMBR \/ p \in X2 \/ p = r)
    BY <1>1, <1>5, <1>6 DEF n, m, P, f
  <2> QED
    BY <2>1, Rebind
<1>8. Sizes(t, Stored(P, q), r, Y)
  <2>1. /\ Len(q.entries) <= Of(t.m_capacity, q.m_level) /\ (q.m_level # 0 => 1 <= Len(q.entries))
        /\ (p \notin Y /\ p # r => Least(t, q.m_level) <= Len(q.entries))
        /\ (p \notin Y /\ p = r /\ q.m_level # 0 => 2 <= Len(q.entries))
    BY <1>1, <1>5 DEF Sizes, n, P
  <2>2. q.m_identifier = p
    BY <1>5 DEF NodeOk
  <2> QED
    BY <1>1, <2>1, <2>2, SizesStored
<1>9. Written(t, writeNode(t, q), q, p, W, X2, Y)
  <2>1. /\ Conf(t) /\ Counts(t, t.page) /\ t.m_rootID \in DOMAIN t.page /\ p \in DOMAIN t.page /\ p \in Nat
        /\ q.m_identifier = p /\ q.m_level = t.page[p].m_level
        /\ Forest(Stored(t.page, q), t.m_rootID, W, X2, Tight(t))
        /\ Sizes(t, Stored(t.page, q), t.m_rootID, Y)
    BY <1>1, <1>5, <1>7, <1>8 DEF n, P, r, NodeOk
  <2> QED
    BY <2>1, WorksWrite
<1>10. writeNode(t, q).page = Stored(P, q)
  BY <1>9 DEF Written, P
<1> QED
  BY <1>5, <1>7, <1>9, <1>10 DEF Brings, P, n, m, q, X2


\* A node put before those taken out already.
LEMMA ConsIs ==
    ASSUME NEW S, NEW s \in Seq(S), NEW n \in S
    PROVE  /\ <<n>> \o s \in Seq(S) /\ Len(<<n>> \o s) = Len(s) + 1 /\ Len(s) \in Nat
           /\ DOMAIN s = 1 .. Len(s) /\ DOMAIN (<<n>> \o s) = 1 .. Len(s) + 1
           /\ (<<n>> \o s)[1] = n /\ \A i \in 1 .. Len(s) : (<<n>> \o s)[i + 1] = s[i]
<1>1. <<n>> \in Seq(S) /\ Len(<<n>>) = 1 /\ <<n>>[1] = n
  OBVIOUS
<1> DEFINE a == <<n>>
<1>2. a \in Seq(S) /\ Len(a) = 1 /\ a[1] = n
  BY <1>1
<1> HIDE DEF a
<1>3. /\ a \o s \in Seq(S) /\ Len(a \o s) = Len(a) + Len(s) /\ Len(s) \in Nat /\ DOMAIN s = 1 .. Len(s)
      /\ \A i \in 1 .. Len(a) + Len(s) : (a \o s)[i] = IF i <= Len(a) THEN a[i] ELSE s[i - Len(a)]
  <2>1. a \o s \in Seq(S) /\ Len(a \o s) = Len(a) + Len(s)
    BY <1>2, ConcatProperties
  <2>2. \A i \in 1 .. Len(a) + Len(s) : (a \o s)[i] = IF i <= Len(a) THEN a[i] ELSE s[i - Len(a)]
    BY <1>2, ConcatProperties
  <2>3. Len(s) \in Nat /\ DOMAIN s = 1 .. Len(s)
    OBVIOUS
  <2> QED
    BY <2>1, <2>2, <2>3
<1> DEFINE b == a \o s
<1>4. b \in Seq(S)
  BY <1>3
<1> HIDE DEF b
<1>5. DOMAIN b = 1 .. Len(b)
  BY <1>4
<1>6. b[1] = n /\ \A i \in 1 .. Len(s) : b[i + 1] = s[i]
  BY <1>2, <1>3 DEF b
<1>7. Len(b) = Len(s) + 1
  BY <1>2, <1>3 DEF b
<1> QED
  BY <1>3, <1>4, <1>5, <1>6, <1>7 DEF a, b

\* Nodes that were taken out of their parents are stored, and the entries W for them wait.
For(w, n) == w[1] = n.m_level + 1 /\ w[2].id = n.m_identifier

Taken(P, todo, W, level) ==
    /\ todo \in Seq(NodeT)
    /\ \A i \in DOMAIN todo :
          /\ todo[i].m_identifier \in DOMAIN P /\ P[todo[i].m_identifier] = todo[i]
          /\ todo[i].m_level < level /\ \E w \in W : For(w, todo[i])
    /\ \A w \in W : \E i \in DOMAIN todo : For(w, todo[i])
    /\ \A i, j \in DOMAIN todo : i < j => todo[j].m_level < todo[i].m_level

Ids(todo) == {todo[i].m_identifier : i \in DOMAIN todo}

\* Nodes taken out are cut off from the root,
LEMMA TakenOff ==
    ASSUME NEW P, NEW todo, NEW W, NEW level, Taken(P, todo, W, level)
    PROVE  Ids(todo) \in SUBSET Off(P, W)
  BY DEF Taken, Ids, Off, For

\* They stay when another page is written,
LEMMA TakenStored ==
    ASSUME NEW P, NEW todo, NEW W, NEW level, Taken(P, todo, W, level),
           NEW q, q.m_identifier \notin Off(P, W)
    PROVE  Taken(Stored(P, q), todo, W, level)
<1>1. \A i \in DOMAIN todo : todo[i].m_identifier \in Ids(todo)
  BY DEF Ids
<1>2. \A i \in DOMAIN todo : todo[i].m_identifier # q.m_identifier
  BY <1>1, TakenOff
<1>3. \A p \in DOMAIN P : p \in DOMAIN Stored(P, q) /\ (p # q.m_identifier => Stored(P, q)[p] = P[p])
  <2> SUFFICES ASSUME NEW p \in DOMAIN P
               PROVE p \in DOMAIN Stored(P, q) /\ (p # q.m_identifier => Stored(P, q)[p] = P[p])
    OBVIOUS
  <2>1. DOMAIN Stored(P, q) = DOMAIN P \cup {q.m_identifier}
    BY StoredIs
  <2> QED
    BY <2>1, StoredOther
<1> QED
  BY <1>2, <1>3 DEF Taken

\* at any level above theirs,
LEMMA TakenHigher ==
    ASSUME NEW P, NEW todo, NEW W, NEW level \in Nat, Taken(P, todo, W, level)
    PROVE  Taken(P, todo, W, level + 1)
<1> SUFFICES ASSUME NEW i \in DOMAIN todo PROVE todo[i].m_level < level + 1
  BY DEF Taken
<1>1. todo[i].m_level < level /\ todo[i] \in NodeT
  BY DEF Taken
<1>2. todo[i].m_level \in Nat
  BY <1>1 DEF NodeT
<1> QED
  BY <1>1, <1>2

\* and another one is taken out.
OneTaken(P, n, todo, W, w, level) ==
    Taken(P, <<n>> \o todo, W \cup {w}, level + 1) /\ Ids(<<n>> \o todo) = Ids(todo) \cup {n.m_identifier}

\* and one more of them,
LEMMA TakenMore ==
    ASSUME NEW P, NEW todo, NEW W, NEW level \in Nat, Taken(P, todo, W, level),
           NEW n \in NodeT, n.m_identifier \in DOMAIN P, P[n.m_identifier] = n, n.m_level = level,
           NEW w, For(w, n)
    PROVE  OneTaken(P, n, todo, W, w, level)
<1> DEFINE b == <<n>> \o todo
<1> DEFINE N == Len(todo)
<1>1. /\ b \in Seq(NodeT) /\ N \in Nat /\ DOMAIN todo = 1 .. N /\ DOMAIN b = 1 .. N + 1
      /\ b[1] = n /\ \A i \in 1 .. N : b[i + 1] = todo[i]
  <2>1. todo \in Seq(NodeT)
    BY DEF Taken
  <2> QED
    BY <2>1, ConsIs
<1> HIDE DEF b, N
<1>2. \A i \in 1 .. N + 1 : i = 1 \/ (i - 1 \in 1 .. N /\ b[i] = todo[i - 1])
  <2> SUFFICES ASSUME NEW i \in 1 .. N + 1, i # 1 PROVE i - 1 \in 1 .. N /\ b[i] = todo[i - 1]
    OBVIOUS
  <2>1. i - 1 \in 1 .. N /\ (i - 1) + 1 = i
    BY <1>1
  <2> QED
    BY <1>1, <2>1
<1>3. \A i \in 1 .. N : i + 1 \in 1 .. N + 1
  BY <1>1
<1>4. \A i \in 1 .. N : todo[i].m_level \in Nat
  <2>1. todo \in Seq(NodeT)
    BY DEF Taken
  <2>2. \A i \in 1 .. N : todo[i] \in NodeT
    BY <1>1, <2>1
  <2> QED
    BY <2>2 DEF NodeT
<1>5. \A i \in DOMAIN b : /\ b[i].m_identifier \in DOMAIN P /\ P[b[i].m_identifier] = b[i]
                         /\ b[i].m_level < level + 1 /\ \E v \in W \cup {w} : For(v, b[i])
  <2> SUFFICES ASSUME NEW i \in 1 .. N + 1
               PROVE /\ b[i].m_identifier \in DOMAIN P /\ P[b[i].m_identifier] = b[i]
                     /\ b[i].m_level < level + 1 /\ \E v \in W \cup {w} : For(v, b[i])
    BY <1>1
  <2>1. CASE i = 1
    BY <1>1, <2>1
  <2>2. CASE i # 1
    <3> DEFINE j == i - 1
    <3>1. j \in 1 .. N /\ b[i] = todo[j]
      BY <1>2, <2>2
    <3> HIDE DEF j
    <3>2. todo[j].m_level < level + 1
      <4>1. todo[j].m_level < level /\ todo[j].m_level \in Nat
        BY <1>1, <1>4, <3>1 DEF Taken
      <4> QED
        BY <4>1
    <3> QED
      BY <1>1, <3>1, <3>2 DEF Taken
  <2> QED
    BY <2>1, <2>2
<1>6. \A v \in W \cup {w} : \E i \in DOMAIN b : For(v, b[i])
  <2> SUFFICES ASSUME NEW v \in W \cup {w} PROVE \E i \in DOMAIN b : For(v, b[i])
    OBVIOUS
  <2>1. CASE v = w
    <3>1. 1 \in DOMAIN b
      BY <1>1
    <3> QED
      BY <1>1, <2>1, <3>1
  <2>2. CASE v \in W
    <3>1. PICK i \in DOMAIN todo : For(v, todo[i])
      BY <2>2 DEF Taken
    <3>2. i + 1 \in DOMAIN b /\ b[i + 1] = todo[i]
      BY <1>1, <1>3, <3>1
    <3> QED
      BY <3>1, <3>2
  <2> QED
    BY <2>1, <2>2
<1>7. \A i, j \in DOMAIN b : i < j => b[j].m_level < b[i].m_level
  <2> SUFFICES ASSUME NEW i \in 1 .. N + 1, NEW j \in 1 .. N + 1, i < j PROVE b[j].m_level < b[i].m_level
    BY <1>1
  <2>1. j # 1 /\ i - 1 < j - 1
    BY <1>1
  <2> DEFINE x == i - 1
  <2> DEFINE y == j - 1
  <2>2. y \in 1 .. N /\ b[j] = todo[y] /\ x < y
    BY <1>2, <2>1
  <2>3. CASE i = 1
    BY <1>1, <2>2, <2>3 DEF Taken
  <2>4. CASE i # 1
    <3>1. x \in 1 .. N /\ b[i] = todo[x]
      BY <1>2, <2>4
    <3> HIDE DEF x, y
    <3> QED
      BY <1>1, <2>2, <3>1 DEF Taken
  <2> QED
    BY <2>3, <2>4
<1>8. Taken(P, b, W \cup {w}, level + 1)
  BY <1>1, <1>5, <1>6, <1>7 DEF Taken
<1>9. Ids(b) = Ids(todo) \cup {n.m_identifier}
  <2>1. \A x \in Ids(b) : x \in Ids(todo) \cup {n.m_identifier}
    <3> SUFFICES ASSUME NEW i \in 1 .. N + 1 PROVE b[i].m_identifier \in Ids(todo) \cup {n.m_identifier}
      BY <1>1 DEF Ids
    <3>1. CASE i = 1
      BY <1>1, <3>1
    <3>2. CASE i # 1
      <4>1. i - 1 \in DOMAIN todo /\ b[i] = todo[i - 1]
        BY <1>1, <1>2, <3>2
      <4> QED
        BY <4>1 DEF Ids
    <3> QED
      BY <3>1, <3>2
  <2>2. \A i \in 1 .. N : b[i + 1].m_identifier \in Ids(b) /\ b[i + 1] = todo[i]
    BY <1>1, <1>3 DEF Ids
  <2>3. \A x \in Ids(todo) : x \in Ids(b)
    BY <1>1, <2>2 DEF Ids
  <2>4. n.m_identifier \in Ids(b)
    <3>1. 1 \in DOMAIN b
      BY <1>1
    <3> QED
      BY <1>1, <3>1 DEF Ids
  <2> QED
    BY <2>1, <2>3, <2>4
<1> QED
  BY <1>8, <1>9 DEF b, OneTaken


\* Bounds that are up to date and nodes that have enough entries are taken as such.
LEMMA WorksOther ==
    ASSUME NEW t, NEW W, NEW X, NEW Y, Works(t, W, X, Y),
           NEW X2, \A p \in DOMAIN t.page : p \in X => p \in X2 \/ p = t.m_rootID,
           NEW Y2, \A p \in DOMAIN t.page : p \in Y => \/ p \in Y2
                      \/ (p # t.m_rootID /\ Least(t, t.page[p].m_level) <= Len(t.page[p].entries))
                      \/ (p = t.m_rootID /\ (t.page[p].m_level # 0 => 2 <= Len(t.page[p].entries)))
    PROVE  Works(t, W, X2, Y2)
<1>1. Forest(t.page, t.m_rootID, W, X2, Tight(t))
  BY ForestOther DEF Works
<1>2. Sizes(t, t.page, t.m_rootID, Y2)
  BY DEF Works, Sizes
<1> QED
  BY <1>1, <1>2 DEF Works

CondenseStep(t, path, k, s) ==
    LET p   == s.t.page[path[k]]
        few == Len(s.n.entries) < Of(t.m_minimumLoad, s.n.m_level)
        p2  == IF few THEN deleteEntry(t, p, EntryOf(p, s.n)) ELSE Brought(t, p, s.n)
    IN  [t |-> writeNode(s.t, p2), n |-> p2,
         toReinsert |-> IF few THEN <<s.n>> \o s.toReinsert ELSE s.toReinsert]

\* The nodes of the path are condensed one after the other.
CondensingIsFun(t, node, path, n) == CHOOSE g : g = [k \in 0 .. n |-> IF k = 0 THEN [t |-> t, n |-> node, toReinsert |-> <<>>] ELSE CondenseStep(t, path, k, g[k - 1])]

\* The levels of condenseTree, as a recursion.
LEMMA CondensingIs ==
    ASSUME NEW t, NEW node, NEW path, NEW n \in Nat, NEW f, f = CondensingIsFun(t, node, path, n)
    PROVE  /\ f[0] = [t |-> t, n |-> node, toReinsert |-> <<>>]
           /\ \A k \in 1 .. n : f[k] = CondenseStep(t, path, k, f[k - 1])
<1> DEFINE S(k, x) == CondenseStep(t, path, k, x)
<1> DEFINE B == [t |-> t, n |-> node, toReinsert |-> <<>>]
<1> DEFINE Solves(m, g) == g = [k \in 0 .. m |-> IF k = 0 THEN B ELSE S(k, g[k - 1])]
<1> DEFINE Wrong == {m \in Nat : ~ \E g : Solves(m, g)}
<1> HIDE DEF S, B
<1>1. ASSUME Wrong # {} PROVE FALSE
  <2>1. PICK m \in Wrong : \A j \in Wrong : m <= j
    BY <1>1, LeastExists
  <2>2. CASE m = 0
    <3> DEFINE g == [k \in 0 .. 0 |-> B]
    <3>1. Solves(0, g)
      OBVIOUS
    <3> QED
      BY <2>1, <2>2, <3>1
  <2>3. CASE m # 0
    <3>1. m - 1 \in Nat /\ m - 1 \notin Wrong
      <4>1. m \in Nat /\ m - 1 \in Nat
        BY <2>1, <2>3
      <4> HIDE DEF Wrong
      <4> QED
        BY <2>1, <4>1
    <3>2. PICK g : Solves(m - 1, g)
      BY <3>1
    <3> DEFINE h == [k \in 0 .. m |-> IF k < m THEN g[k] ELSE S(m, g[m - 1])]
    <3>3. ASSUME NEW k \in 0 .. m PROVE h[k] = IF k = 0 THEN B ELSE S(k, h[k - 1])
      <4>1. CASE k = 0
        <5>1. g[0] = B
          BY <3>1, <3>2
        <5> QED
          BY <2>3, <4>1, <5>1
      <4>2. CASE k # 0 /\ k < m
        <5>1. k \in 0 .. m - 1 /\ k - 1 \in 0 .. m
          BY <4>2
        <5>2. g[k] = S(k, g[k - 1])
          BY <3>2, <4>2, <5>1
        <5>3. h[k] = g[k] /\ h[k - 1] = g[k - 1]
          BY <4>2, <5>1
        <5> HIDE DEF h
        <5> QED
          BY <4>2, <5>2, <5>3
      <4>3. CASE k = m
        <5>1. m - 1 \in 0 .. m /\ m - 1 < m
          BY <3>1
        <5>2. h[m] = S(m, g[m - 1]) /\ h[m - 1] = g[m - 1]
          BY <2>3, <5>1
        <5> HIDE DEF h
        <5> QED
          BY <2>3, <4>3, <5>2
      <4> QED
        BY <4>1, <4>2, <4>3
    <3>4. h = [k \in 0 .. m |-> h[k]]
      OBVIOUS
    <3> HIDE DEF h
    <3>5. Solves(m, h)
      BY <3>3, <3>4
    <3> QED
      BY <2>1, <3>5
  <2> QED
    BY <2>2, <2>3
<1>2. \E g : Solves(n, g)
  BY <1>1
<1>3. \E g : g = [k \in 0 .. n |-> IF k = 0 THEN B ELSE S(k, g[k - 1])]
  BY <1>2
<1>4. f = CHOOSE g : g = [k \in 0 .. n |-> IF k = 0 THEN B ELSE S(k, g[k - 1])]
  BY DEF S, B, CondensingIsFun
<1>5. f = [k \in 0 .. n |-> IF k = 0 THEN B ELSE S(k, f[k - 1])]
  BY <1>3, <1>4
<1>6. \A k \in 0 .. n : f[k] = IF k = 0 THEN B ELSE S(k, f[k - 1])
  BY <1>5, Zenon
<1>7. f[0] = B
  BY <1>6
<1>8. ASSUME NEW k \in 1 .. n PROVE f[k] = S(k, f[k - 1])
  <2>1. k \in 0 .. n /\ k # 0
    OBVIOUS
  <2> QED
    BY <1>6, <2>1
<1> QED
  BY <1>7, <1>8 DEF S, B

\* The last step, at the root.
CondensedTo(s) ==
    [t |-> IF s.n.m_level # 0 /\ Len(s.n.entries) = 1 THEN RootReplaced(s.t) ELSE s.t,
     toReinsert |-> s.toReinsert]

\* condenseTree is the last level's result, with what remains to do at the root.
LEMMA CondenseTreeIs ==
    ASSUME NEW t, NEW n, NEW path
    PROVE  condenseTree(t, n, path) = CondensedTo(CondensingIsFun(t, n, path, Len(path))[Len(path)])
  BY DEF condenseTree, CondensedTo, CondensingIsFun, CondenseStep, Brought

On(id, path, k) == IF k = 0 THEN id ELSE path[k]

\* Whose bounds may be out of date when the nodes of todo were taken out and n was written.
Doubt(c, todo, n) ==
    IF c.m_bTightMBRs \/ n.entries = <<>> THEN Ids(todo) \cup {n.m_identifier} ELSE Ids(todo)

\* The tree v is condensed up to node k of the path.
Condenses(v, s, W, id, path, k, K) ==
    /\ On(id, path, k) \in DOMAIN s.t.page /\ s.n = s.t.page[On(id, path, k)] /\ s.n.m_level = k
    /\ Taken(s.t.page, s.toReinsert, W, k)
    /\ Works(s.t, W, Doubt(v, s.toReinsert, s.n), Ids(s.toReinsert) \cup {On(id, path, k)})
    /\ Same(v, s.t) /\ DOMAIN s.t.page = DOMAIN v.page
    /\ \A j \in k + 1 .. Len(path) : s.t.page[path[j]] = v.page[path[j]]
    /\ SameData(K, Kept(s.t.page, W))
    /\ k # 0 /\ Len(s.n.entries) < 2 => s.toReinsert # <<>> /\ s.toReinsert[1].m_level = k - 1


\* A node that is condensed, its parent, and the entry that the parent has for it.
Parted(v, s, W, id, path, k, c, p, e) ==
    /\ c = On(id, path, k - 1) /\ p = path[k] /\ c \in DOMAIN s.t.page /\ p \in DOMAIN s.t.page /\ c # p
    /\ s.n = s.t.page[c] /\ s.n.m_level = k - 1 /\ s.t.page[p].m_level = k /\ k # 0
    /\ s.n.m_identifier = c /\ c # s.t.m_rootID
    /\ e \in ToSet(s.t.page[p].entries) /\ e.id = c
    /\ c \notin Off(s.t.page, W) /\ p \notin Off(s.t.page, W)
    /\ c \notin Ids(s.toReinsert) /\ p \notin Ids(s.toReinsert)
    /\ 2 <= Len(s.t.page[p].entries) /\ Len(s.t.page[p].entries) \in Nat /\ Len(s.n.entries) \in Nat
    /\ \A j \in k + 1 .. Len(path) : path[j] # p /\ path[j] \in DOMAIN s.t.page
    /\ EntryOf(s.t.page[p], s.n) \in DOMAIN s.t.page[p].entries
    /\ s.t.page[p].entries[EntryOf(s.t.page[p], s.n)] = e

\* A node on the way and its parent, with the entry that links them.
LEMMA PartedIs ==
    ASSUME NEW v, NEW id, NEW path, Climbs(v.page, v.m_rootID, id, 0, path),
           Up(v.page, v.m_rootID, id, 0, path),
           NEW s, NEW W, NEW K, NEW k \in 1 .. Len(path), Condenses(v, s, W, id, path, k - 1, K)
    PROVE  \E e : Parted(v, s, W, id, path, k, On(id, path, k - 1), path[k], e)
<1> DEFINE c == On(id, path, k - 1)
<1> DEFINE p == path[k]
<1> DEFINE T == s.t
<1> DEFINE P == T.page
<1> DEFINE r == v.m_rootID
<1> DEFINE N == Len(path)
<1> DEFINE Y == Ids(s.toReinsert) \cup {c}
<1> DEFINE X == Doubt(v, s.toReinsert, s.n)
<1>0. N \in Nat
  BY DEF Climbs
<1> HIDE DEF N
<1>a. k \in Nat /\ k # 0 /\ k <= N /\ k - 1 \in Nat
  BY <1>0 DEF N
<1>b. /\ DOMAIN path = 1 .. N
      /\ \A j \in 1 .. N : path[j] \in DOMAIN v.page /\ v.page[path[j]].m_level = 0 + j
      /\ \A i, j \in 1 .. N : path[i] = path[j] => i = j
      /\ \A j \in 1 .. N : path[j] = r <=> j = N
      /\ (path = <<>> <=> id = r) /\ (path = <<>> <=> N = 0)
  BY DEF Climbs, N
<1>1. /\ k \in Nat /\ k # 0 /\ k <= N /\ N \in Nat /\ k - 1 \in Nat
      /\ DOMAIN path = 1 .. N
      /\ \A j \in 1 .. N : path[j] \in DOMAIN v.page /\ v.page[path[j]].m_level = 0 + j
      /\ \A i, j \in 1 .. N : path[i] = path[j] => i = j
      /\ \A j \in 1 .. N : path[j] = r <=> j = N
      /\ (path = <<>> <=> id = r) /\ (path = <<>> <=> N = 0)
  BY <1>0, <1>a, <1>b
<1>2. /\ c \in DOMAIN P /\ s.n = P[c] /\ s.n.m_level = k - 1
      /\ Taken(P, s.toReinsert, W, k - 1)
      /\ Works(T, W, X, Y) /\ Same(v, T) /\ DOMAIN P = DOMAIN v.page
      /\ \A j \in (k - 1) + 1 .. N : P[path[j]] = v.page[path[j]]
  BY DEF Condenses, N
<1>3. T.m_rootID = r
  BY <1>2 DEF Same
<1>4. /\ Conf(T) /\ Forest(P, r, W, X, Tight(T)) /\ Sizes(T, P, r, Y)
      /\ \A o \in DOMAIN P : NodeOk(P[o], o, Tight(T)) /\ P[o].m_identifier = o /\ Shapely(P[o].entries)
  BY <1>2, <1>3, WorksIs
<1>5. \A j \in k .. N : path[j] \in DOMAIN P /\ P[path[j]] = v.page[path[j]] /\ P[path[j]].m_level = j
  <2> SUFFICES ASSUME NEW j \in k .. N
               PROVE path[j] \in DOMAIN P /\ P[path[j]] = v.page[path[j]] /\ P[path[j]].m_level = j
    OBVIOUS
  <2>1. j \in 1 .. N /\ j \in (k - 1) + 1 .. N /\ 0 + j = j
    BY <1>1
  <2> QED
    BY <1>1, <1>2, <2>1
<1>6. k \in k .. N
  BY <1>1
<1>7. p \in DOMAIN P /\ P[p] = v.page[p] /\ P[p].m_level = k
  BY <1>5, <1>6
<1>8. PICK e \in ToSet(P[p].entries) : e.id = c
  <2>1. \E e \in ToSet(v.page[path[k]].entries) : e.id = IF k = 1 THEN id ELSE path[k - 1]
    BY <1>1 DEF Up
  <2>2. c = IF k = 1 THEN id ELSE path[k - 1]
    BY <1>1 DEF On
  <2> QED
    BY <1>7, <2>1, <2>2
<1>9. c # p
  BY <1>1, <1>2, <1>7
<1>10. c # r
  <2>1. CASE k = 1
    <3>1. c = id
      BY <2>1 DEF On
    <3> QED
      BY <1>1, <2>1, <3>1
  <2>2. CASE k # 1
    <3>1. c = path[k - 1] /\ k - 1 \in 1 .. N /\ k - 1 # N
      BY <1>1, <2>2 DEF On
    <3> QED
      BY <1>1, <3>1
  <2> QED
    BY <2>1, <2>2
<1> HIDE DEF c, T, P, X, Y, r
<1>11. c \notin Off(P, W)
  <2>1. P[p].m_level = P[c].m_level + 1
    BY <1>1, <1>2, <1>7
  <2> HIDE DEF p
  <2> QED
    BY <1>2, <1>4, <1>7, <1>8, <2>1, NotOff
<1>12. p \notin Off(P, W)
  <2>1. CASE k = N
    <3>1. p = r
      BY <1>1, <2>1
    <3> QED
      BY <1>4, <3>1, RootNotOff
  <2>2. CASE k # N
    <3> DEFINE q == path[k + 1]
    <3>1. k + 1 \in 1 .. N /\ k + 1 \in k .. N /\ k + 1 # 1 /\ (k + 1) - 1 = k
      BY <1>1, <2>2
    <3>2. q \in DOMAIN P /\ P[q] = v.page[q] /\ P[q].m_level = k + 1
      BY <1>5, <3>1
    <3>3. \E f \in ToSet(v.page[path[k + 1]].entries) : f.id = IF k + 1 = 1 THEN id ELSE path[(k + 1) - 1]
      BY <1>1, <3>1 DEF Up
    <3>4. PICK f \in ToSet(P[q].entries) : f.id = p
      BY <3>1, <3>2, <3>3
    <3>5. P[q].m_level = P[p].m_level + 1
      BY <1>7, <3>2
    <3> HIDE DEF p, q
    <3> QED
      BY <1>4, <1>7, <3>2, <3>4, <3>5, NotOff
  <2> QED
    BY <2>1, <2>2
<1>13. c \notin Ids(s.toReinsert) /\ p \notin Ids(s.toReinsert)
  BY <1>2, <1>11, <1>12, TakenOff
<1>14. Len(P[p].entries) \in Nat /\ Len(s.n.entries) \in Nat
  <2>1. Shapely(P[p].entries) /\ Shapely(P[c].entries)
    BY <1>2, <1>4, <1>7
  <2> QED
    BY <1>2, <2>1, ShapelyIs
<1>15. 2 <= Len(P[p].entries)
  <2>1. p \notin Y
    BY <1>9, <1>13 DEF Y
  <2>2. CASE p = r
    BY <1>1, <1>4, <1>7, <2>1, <2>2 DEF Sizes
  <2>3. CASE p # r
    <3>1. Least(T, k) <= Len(P[p].entries)
      BY <1>4, <1>7, <2>1, <2>3 DEF Sizes
    <3>2. 2 <= Least(T, k) /\ Least(T, k) \in Nat
      BY <1>1, <1>4, LeastIs DEF Conf
    <3> QED
      BY <1>14, <3>1, <3>2
  <2> QED
    BY <2>2, <2>3
<1>16. \A j \in k + 1 .. N : path[j] # p /\ path[j] \in DOMAIN P
  <2> SUFFICES ASSUME NEW j \in k + 1 .. N PROVE path[j] # p /\ path[j] \in DOMAIN P
    OBVIOUS
  <2>1. j \in 1 .. N /\ j \in k .. N /\ j # k
    BY <1>1
  <2> QED
    BY <1>1, <1>5, <2>1
<1>17. EntryOf(P[p], s.n) \in DOMAIN P[p].entries /\ P[p].entries[EntryOf(P[p], s.n)] = e
  <2>1. Distinct(P[p].entries) /\ s.n.m_identifier = c
    BY <1>2, <1>4, <1>7 DEF NodeOk
  <2> QED
    BY <1>8, <2>1, EntryOfIs
<1>18. s.n.m_identifier = c
  BY <1>2, <1>4
<1>19. Parted(v, s, W, id, path, k, c, p, e)
  BY <1>1, <1>2, <1>3, <1>7, <1>8, <1>9, <1>10, <1>11, <1>12, <1>13, <1>14, <1>15, <1>16, <1>17, <1>18 DEF Parted, c, P, T, N
<1> QED
  BY <1>19 DEF c


\* A node with too few entries is taken out of its parent,
LEMMA NodeTakenOut ==
    ASSUME NEW v, NEW id, NEW path, NEW s, NEW W, NEW K, NEW k \in 1 .. Len(path), Len(path) \in Nat,
           Condenses(v, s, W, id, path, k - 1, K),
           NEW c, NEW p, NEW e, Parted(v, s, W, id, path, k, c, p, e),
           Len(s.n.entries) < Of(v.m_minimumLoad, s.n.m_level)
    PROVE  \E V : Condenses(v, CondenseStep(v, path, k, s), V, id, path, k, K)
<1> DEFINE T == s.t
<1> DEFINE P == T.page
<1> DEFINE todo == s.toReinsert
<1> DEFINE X == Doubt(v, todo, s.n)
<1> DEFINE Y == Ids(todo) \cup {c}
<1> DEFINE q == deleteEntry(v, P[p], EntryOf(P[p], s.n))
<1> DEFINE u == writeNode(T, q)
<1> DEFINE w == <<k, e>>
<1> DEFINE V == W \cup {w}
<1> DEFINE todo2 == <<s.n>> \o todo
<1> DEFINE s2 == CondenseStep(v, path, k, s)
<1>1. s2.t = u /\ s2.n = q /\ s2.toReinsert = todo2
  <2>1. path[k] = p
    BY DEF Parted
  <2>2. s2 = [t |-> u, n |-> q, toReinsert |-> todo2]
    BY <2>1 DEF CondenseStep
  <2> HIDE DEF s2, u, q, todo2
  <2> QED
    BY <2>2
<1>2. k \in Nat /\ k - 1 \in Nat /\ (k - 1) + 1 = k /\ k # 0
  OBVIOUS
<1>3. /\ c = On(id, path, k - 1) /\ p = path[k] /\ c \in DOMAIN P /\ p \in DOMAIN P /\ c # p
      /\ s.n = P[c] /\ s.n.m_level = k - 1 /\ P[p].m_level = k
      /\ s.n.m_identifier = c /\ e \in ToSet(P[p].entries) /\ e.id = c
      /\ p \notin Off(P, W) /\ 2 <= Len(P[p].entries)
      /\ \A j \in k + 1 .. Len(path) : path[j] # p /\ path[j] \in DOMAIN P
      /\ EntryOf(P[p], s.n) \in DOMAIN P[p].entries /\ P[p].entries[EntryOf(P[p], s.n)] = e
  BY DEF Parted
<1>4. /\ Taken(P, todo, W, k - 1) /\ Works(T, W, X, Y) /\ Same(v, T) /\ DOMAIN P = DOMAIN v.page
      /\ \A j \in (k - 1) + 1 .. Len(path) : P[path[j]] = v.page[path[j]]
      /\ SameData(K, Kept(P, W))
  BY <1>3 DEF Condenses
<1>5. v.m_bTightMBRs = T.m_bTightMBRs /\ v.Far = T.Far
  BY <1>4 DEF Same
<1>6. NodeOk(P[c], c, Tight(T))
  BY <1>3, <1>4, WorksIs
<1>7. s.n \in NodeT
  BY <1>3, <1>6 DEF NodeOk
<1> HIDE DEF s2, todo2, X, Y
<1>8. Shed(T, u, p, e, q, W, X, Y)
  <2> DEFINE j == EntryOf(P[p], s.n)
  <2>1. j \in DOMAIN T.page[p].entries /\ T.page[p].entries[j] = e
        /\ (T.page[p].m_level # 0 => 2 <= Len(T.page[p].entries)) /\ p \in DOMAIN T.page
    BY <1>3
  <2> HIDE DEF j, T
  <2>2. Shed(T, writeNode(T, deleteEntry(v, T.page[p], j)), p, T.page[p].entries[j],
             deleteEntry(v, T.page[p], j), W, X, Y)
    BY <1>4, <1>5, <2>1, EntryGoes
  <2> QED
    BY <2>1, <2>2 DEF j
<1> HIDE DEF q, u, V, w
<1>9. /\ Written(T, u, q, p, V, IF T.m_bTightMBRs \/ q.entries = <<>> THEN X \cup {p} ELSE X, Y \cup {p})
      /\ Kept(u.page, V) = Kept(P, W) /\ Loses(T, P[p], p, e, q)
  BY <1>3, <1>8 DEF Shed, V, w
<1>10. /\ q.m_level = k /\ q.m_identifier = p /\ Len(q.entries) = Len(P[p].entries) - 1
  BY <1>3, <1>9 DEF Loses, Less, NodeOk
<1>11. /\ Works(u, V, IF T.m_bTightMBRs \/ q.entries = <<>> THEN X \cup {p} ELSE X, Y \cup {p})
       /\ Same(T, u) /\ u.page = Stored(P, q) /\ DOMAIN u.page = DOMAIN P /\ u.page[p] = q
       /\ \A o \in DOMAIN P : o # p => u.page[o] = P[o]
  BY <1>9 DEF Written
<1>12. Taken(u.page, todo2, V, k) /\ Ids(todo2) = Ids(todo) \cup {c}
  <2>1. Taken(Stored(P, q), todo, W, k - 1)
    BY <1>3, <1>4, <1>10, TakenStored
  <2>2. Taken(u.page, todo, W, k - 1)
    BY <1>11, <2>1
  <2>3. u.page[s.n.m_identifier] = s.n /\ s.n.m_identifier \in DOMAIN u.page
    BY <1>3, <1>11
  <2>4. For(w, s.n)
    BY <1>2, <1>3 DEF For, w
  <2> DEFINE m == k - 1
  <2> DEFINE U == u.page
  <2>5. m \in Nat /\ m + 1 = k /\ s.n.m_level = m /\ Taken(U, todo, W, m)
        /\ U[s.n.m_identifier] = s.n /\ s.n.m_identifier \in DOMAIN U
    BY <1>2, <1>3, <2>2, <2>3
  <2> HIDE DEF m, U
  <2>6. OneTaken(U, s.n, todo, W, w, m)
    BY <1>7, <2>4, <2>5, TakenMore
  <2> QED
    BY <1>3, <2>5, <2>6 DEF U, V, todo2, OneTaken
<1>13. Works(u, V, Doubt(v, todo2, q), Ids(todo2) \cup {p})
  <2>1. \A o \in DOMAIN u.page : o \in (IF T.m_bTightMBRs \/ q.entries = <<>> THEN X \cup {p} ELSE X) => o \in Doubt(v, todo2, q)
    BY <1>3, <1>5, <1>10, <1>12 DEF X, Doubt
  <2>2. \A o \in DOMAIN u.page : o \in Y \cup {p} => o \in Ids(todo2) \cup {p}
    BY <1>12 DEF Y
  <2> DEFINE XX == IF T.m_bTightMBRs \/ q.entries = <<>> THEN X \cup {p} ELSE X
  <2> DEFINE X3 == Doubt(v, todo2, q)
  <2> DEFINE YY == Y \cup {p}
  <2> DEFINE Y3 == Ids(todo2) \cup {p}
  <2>3. /\ Works(u, V, XX, YY) /\ (\A o \in DOMAIN u.page : o \in XX => o \in X3)
        /\ (\A o \in DOMAIN u.page : o \in YY => o \in Y3)
    BY <1>11, <2>1, <2>2
  <2> HIDE DEF XX, X3, YY, Y3
  <2>4. Works(u, V, X3, Y3)
    BY <2>3, WorksOther
  <2> QED
    BY <2>4 DEF X3, Y3
<1>14. Same(v, u)
  BY <1>4, <1>11, SameTwice
<1>15. \A j \in k + 1 .. Len(path) : u.page[path[j]] = v.page[path[j]]
  <2> SUFFICES ASSUME NEW j \in k + 1 .. Len(path) PROVE u.page[path[j]] = v.page[path[j]]
    OBVIOUS
  <2>1. j \in (k - 1) + 1 .. Len(path)
    BY <1>2
  <2> HIDE DEF T, P
  <2> QED
    BY <1>3, <1>4, <1>11, <2>1
<1>16. SameData(K, Kept(u.page, V))
  BY <1>4, <1>9
<1>17. todo2 # <<>> /\ todo2[1].m_level = k - 1
  <2>1. todo \in Seq(NodeT)
    BY <1>4 DEF Taken
  <2>2. todo2 \in Seq(NodeT) /\ Len(todo2) = Len(todo) + 1 /\ Len(todo) \in Nat /\ todo2[1] = s.n
    BY <1>7, <2>1, ConsIs DEF todo2
  <2>3. Len(todo2) # 0
    BY <2>2
  <2> QED
    BY <1>3, <2>2, <2>3
<1>18. On(id, path, k) = p
  BY <1>2, <1>3 DEF On
<1>19. Condenses(v, s2, V, id, path, k, K)
  <2>1. DOMAIN u.page = DOMAIN v.page /\ p \in DOMAIN u.page
    BY <1>3, <1>4, <1>11
  <2> HIDE DEF T, P, todo
  <2> QED
    BY <1>1, <1>10, <1>11, <1>12, <1>13, <1>14, <1>15, <1>16, <1>17, <1>18, <2>1 DEF Condenses
<1> QED
  BY <1>19 DEF s2

\* another one gives it its bounds.
LEMMA NodeStays ==
    ASSUME NEW v, NEW id, NEW path, NEW s, NEW W, NEW K, NEW k \in 1 .. Len(path), Len(path) \in Nat,
           Condenses(v, s, W, id, path, k - 1, K),
           NEW c, NEW p, NEW e, Parted(v, s, W, id, path, k, c, p, e),
           ~ Len(s.n.entries) < Of(v.m_minimumLoad, s.n.m_level)
    PROVE  Condenses(v, CondenseStep(v, path, k, s), W, id, path, k, K)
<1> DEFINE T == s.t
<1> DEFINE P == T.page
<1> DEFINE todo == s.toReinsert
<1> DEFINE X == Doubt(v, todo, s.n)
<1> DEFINE Y == Ids(todo) \cup {c}
<1> DEFINE q == Brought(v, P[p], s.n)
<1> DEFINE u == writeNode(T, q)
<1> DEFINE s2 == CondenseStep(v, path, k, s)
<1>1. s2.t = u /\ s2.n = q /\ s2.toReinsert = todo
  <2>1. path[k] = p
    BY DEF Parted
  <2>2. s2 = [t |-> u, n |-> q, toReinsert |-> todo]
    BY <2>1 DEF CondenseStep
  <2> HIDE DEF s2, u, q, todo
  <2> QED
    BY <2>2
<1>2. k \in Nat /\ k - 1 \in Nat /\ (k - 1) + 1 = k /\ k # 0
  OBVIOUS
<1>3. /\ c = On(id, path, k - 1) /\ p = path[k] /\ c \in DOMAIN P /\ p \in DOMAIN P /\ c # p
      /\ s.n = P[c] /\ s.n.m_level = k - 1 /\ P[p].m_level = k /\ c # T.m_rootID
      /\ s.n.m_identifier = c /\ e \in ToSet(P[p].entries) /\ e.id = c
      /\ p \notin Off(P, W) /\ 2 <= Len(P[p].entries) /\ c \notin Ids(todo)
      /\ Len(s.n.entries) \in Nat
      /\ \A j \in k + 1 .. Len(path) : path[j] # p /\ path[j] \in DOMAIN P
  BY DEF Parted
<1>4. /\ Taken(P, todo, W, k - 1) /\ Works(T, W, X, Y) /\ Same(v, T) /\ DOMAIN P = DOMAIN v.page
      /\ \A j \in (k - 1) + 1 .. Len(path) : P[path[j]] = v.page[path[j]]
      /\ SameData(K, Kept(P, W))
  BY <1>3 DEF Condenses
<1>5. v.m_bTightMBRs = T.m_bTightMBRs /\ v.m_minimumLoad = T.m_minimumLoad
  BY <1>4 DEF Same
<1>6. Least(T, P[c].m_level) <= Len(P[c].entries) /\ 1 <= Len(P[c].entries)
  <2> DEFINE l == P[c].m_level
  <2> DEFINE n == Len(P[c].entries)
  <2>1. Sized(T)
    BY <1>4, WorksIs
  <2>2. l \in Nat /\ n \in Nat /\ ~ n < Of(T.m_minimumLoad, l)
    BY <1>2, <1>3, <1>5
  <2> HIDE DEF l, n
  <2>3. Least(T, l) \in Nat /\ 1 <= Least(T, l) /\ Least(T, l) <= Of(T.m_minimumLoad, l)
    BY <2>1, <2>2, LeastIs
  <2>4. Of(T.m_minimumLoad, l) \in Nat
    BY <2>1, <2>2 DEF Sized
  <2>5. Least(T, l) <= n /\ 1 <= n
    BY <2>2, <2>3, <2>4
  <2> QED
    BY <2>5 DEF l, n
<1>7. P[c].entries # <<>>
  BY <1>6
<1> HIDE DEF s2, Y
<1>8. Brings(T, u, p, q, W, Ids(todo), Y)
  <2> DEFINE Z == Ids(todo)
  <2>1. X = With(T, Z, c)
    BY <1>3, <1>5, <1>7 DEF Doubt, With
  <2>2. /\ c \in DOMAIN T.page /\ p \in DOMAIN T.page /\ T.page[p].m_level = T.page[c].m_level + 1
        /\ e \in ToSet(T.page[p].entries) /\ c \notin Z /\ T.page[c].entries # <<>>
        /\ Works(T, W, With(T, Z, c), Y) /\ s.n = T.page[c]
    BY <1>2, <1>3, <1>4, <1>7, <2>1
  <2> HIDE DEF T, Z
  <2>3. Brings(T, writeNode(T, Brought(v, T.page[p], T.page[c])), p, Brought(v, T.page[p], T.page[c]), W, Z, Y)
    BY <1>3, <1>5, <2>2, ParentBrought
  <2> QED
    BY <2>2, <2>3 DEF Z
<1> HIDE DEF q, u, X
<1>9. /\ Written(T, u, q, p, W, With(T, Ids(todo), p), Y) /\ Len(q.entries) = Len(P[p].entries)
      /\ \A x : x[1] = 0 => (x \in Kept(u.page, W) <=> x \in Kept(P, W))
  BY <1>8 DEF Brings
<1>10. /\ Works(u, W, With(T, Ids(todo), p), Y)
       /\ Same(T, u) /\ u.page = Stored(P, q) /\ DOMAIN u.page = DOMAIN P /\ u.page[p] = q
       /\ \A o \in DOMAIN P : o # p => u.page[o] = P[o]
  BY <1>9 DEF Written
<1>11. q.m_level = k /\ q.m_identifier = p
  <2>1. NodeOk(P[p], p, Tight(T))
    BY <1>3, <1>4, WorksIs
  <2>2. P[p] \in NodeT /\ P[p].m_identifier = p
    BY <2>1 DEF NodeOk
  <2> QED
    BY <1>3, <2>2 DEF q, Brought, NodeT
<1>12. Taken(u.page, todo, W, k)
  <2>1. Taken(Stored(P, q), todo, W, k - 1)
    BY <1>3, <1>4, <1>11, TakenStored
  <2>2. Taken(u.page, todo, W, k - 1)
    BY <1>10, <2>1
  <2> DEFINE m == k - 1
  <2>3. m \in Nat /\ m + 1 = k /\ Taken(u.page, todo, W, m)
    BY <1>2, <2>2
  <2> HIDE DEF m
  <2>4. Taken(u.page, todo, W, m + 1)
    BY <2>3, TakenHigher
  <2> QED
    BY <2>3, <2>4
<1>13. Works(u, W, Doubt(v, todo, q), Ids(todo) \cup {p})
  <2> DEFINE X2 == With(T, Ids(todo), p)
  <2> DEFINE X3 == Doubt(v, todo, q)
  <2> DEFINE Y3 == Ids(todo) \cup {p}
  <2>1. \A o \in DOMAIN u.page : o \in X2 => o \in X3
    BY <1>5, <1>11 DEF With, Doubt
  <2>2. Least(u, u.page[c].m_level) <= Len(u.page[c].entries) /\ c # u.m_rootID
    <3>1. u.page[c] = P[c]
      BY <1>3, <1>10
    <3>2. \A l : Least(u, l) = Least(T, l)
      BY <1>10, SameSizes
    <3>3. u.m_rootID = T.m_rootID
      BY <1>10 DEF Same
    <3> QED
      BY <1>3, <1>6, <3>1, <3>2, <3>3
  <2>3. \A o \in DOMAIN u.page : o \in Y =>
            o \in Y3 \/ (o # u.m_rootID /\ Least(u, u.page[o].m_level) <= Len(u.page[o].entries))
    BY <2>2 DEF Y
  <2> HIDE DEF X2, X3, Y3
  <2>4. Works(u, W, X2, Y)
    BY <1>10 DEF X2
  <2>5. Works(u, W, X3, Y3)
    BY <2>1, <2>3, <2>4, WorksOther
  <2> QED
    BY <2>5 DEF X3, Y3
<1>14. Same(v, u)
  BY <1>4, <1>10, SameTwice
<1>15. \A j \in k + 1 .. Len(path) : u.page[path[j]] = v.page[path[j]]
  <2> SUFFICES ASSUME NEW j \in k + 1 .. Len(path) PROVE u.page[path[j]] = v.page[path[j]]
    OBVIOUS
  <2>1. j \in (k - 1) + 1 .. Len(path)
    BY <1>2
  <2> HIDE DEF T, P
  <2> QED
    BY <1>3, <1>4, <1>10, <2>1
<1>16. SameData(K, Kept(u.page, W))
  BY <1>4, <1>9 DEF SameData
<1>17. ~ Len(q.entries) < 2
  <2>1. Len(P[p].entries) \in Nat
    BY DEF Parted
  <2> QED
    BY <1>3, <1>9, <2>1
<1>18. On(id, path, k) = p
  BY <1>2, <1>3 DEF On
<1>19. Condenses(v, s2, W, id, path, k, K)
  <2>1. DOMAIN u.page = DOMAIN v.page /\ p \in DOMAIN u.page
    BY <1>3, <1>4, <1>10
  <2> HIDE DEF T, P, todo
  <2> QED
    BY <1>1, <1>10, <1>11, <1>12, <1>13, <1>14, <1>15, <1>16, <1>17, <1>18, <2>1 DEF Condenses
<1> QED
  BY <1>19 DEF s2


\* A page goes: what its deletion changes.
Gone(t, u, n) ==
    /\ Alike(t, u) /\ u.page = [o \in DOMAIN t.page \ {n.m_identifier} |-> t.page[o]]
    /\ u.m_u32TreeHeight = t.m_u32TreeHeight /\ u.m_u64Data = t.m_u64Data
    /\ u.m_nodesInLevel = [t.m_nodesInLevel EXCEPT ![n.m_level + 1] = @ - 1]
    /\ u.m_u32Nodes = t.m_u32Nodes - 1

\* deleteNode removes the page and counts one node less on its level.
LEMMA DeleteNodeIs ==
    ASSUME NEW t, IsTree(t), NEW n
    PROVE  Gone(t, deleteNode(t, n), n)
<1> DEFINE P2 == [o \in DOMAIN t.page \ {n.m_identifier} |-> t.page[o]]
<1> DEFINE L2 == [t.m_nodesInLevel EXCEPT ![n.m_level + 1] = @ - 1]
<1> DEFINE u == deleteNode(t, n)
<1>1. u = [t EXCEPT !.page = P2, !.m_u32Nodes = @ - 1, !.m_nodesInLevel = L2]
  BY DEF deleteNode
<1> HIDE DEF P2, L2, u
<1>2. DOMAIN u = DOMAIN t
  BY <1>1
<1>3. Fields \subseteq DOMAIN t
  BY DEF IsTree
<1>4. /\ u.page = P2 /\ u.m_u32Nodes = t.m_u32Nodes - 1 /\ u.m_nodesInLevel = L2
      /\ u.m_rootID = t.m_rootID /\ u.m_u64Data = t.m_u64Data /\ u.m_u32TreeHeight = t.m_u32TreeHeight
      /\ u.m_treeVariant = t.m_treeVariant /\ u.m_capacity = t.m_capacity
      /\ u.m_minimumLoad = t.m_minimumLoad /\ u.m_bTightMBRs = t.m_bTightMBRs
      /\ u.m_nearMinimumOverlapFactor = t.m_nearMinimumOverlapFactor
      /\ u.cReinsert = t.cReinsert /\ u.nodeSPF = t.nodeSPF /\ u.Far = t.Far /\ u.outside = t.outside
  BY <1>1, <1>3 DEF Fields
<1> QED
  BY <1>2, <1>3, <1>4 DEF Gone, Alike, IsTree, P2, L2, u

\* The root is replaced by its child c.
Replaced(t, u, c) ==
    /\ Alike(t, u) /\ u.m_u64Data = t.m_u64Data
    /\ u.page = Stored([o \in DOMAIN t.page \ {c.m_identifier} |-> t.page[o]], [c EXCEPT !.m_identifier = t.m_rootID])
    /\ u.m_u32TreeHeight = t.m_u32TreeHeight - 1 /\ u.m_u32Nodes = t.m_u32Nodes - 1
    /\ u.m_nodesInLevel
          = [Front([t.m_nodesInLevel EXCEPT ![c.m_level + 1] = @ - 1]) EXCEPT ![t.m_u32TreeHeight - 1] = 2]

\* A root with one child takes that child's entries.
LEMMA RootReplacedIs ==
    ASSUME NEW t, IsTree(t), t.m_rootID # NewPage, NEW c, c = t.page[root(t).entries[1].id],
           "m_identifier" \in DOMAIN c
    PROVE  Replaced(t, RootReplaced(t), c)
<1> DEFINE v == deleteNode(t, c)
<1> DEFINE q == [c EXCEPT !.m_identifier = t.m_rootID]
<1> DEFINE w == writeNode(v, q)
<1> DEFINE height == t.m_u32TreeHeight - 1
<1> DEFINE L2 == [Front(w.m_nodesInLevel) EXCEPT ![height] = 2]
<1> DEFINE u == RootReplaced(t)
<1>1. u = [w EXCEPT !.m_nodesInLevel = L2, !.m_u32TreeHeight = height]
  BY DEF RootReplaced
<1>2. Gone(t, v, c)
  BY DeleteNodeIs
<1>3. q.m_identifier # NewPage
  OBVIOUS
<1> HIDE DEF q, v
<1>4. IsTree(v)
  BY <1>2 DEF Gone, Alike
<1>5. /\ Same(v, w) /\ w.page = Stored(v.page, q)
      /\ w.m_u32TreeHeight = v.m_u32TreeHeight /\ w.m_nodesInLevel = v.m_nodesInLevel
      /\ w.m_u32Nodes = v.m_u32Nodes
  BY <1>3, <1>4, WriteIs
<1> HIDE DEF w, L2, height, u
<1>6. Fields \subseteq DOMAIN w
  BY <1>5 DEF Same, IsTree
<1>7. DOMAIN u = DOMAIN w
  BY <1>1
<1>8. /\ u.m_nodesInLevel = L2 /\ u.m_u32TreeHeight = height
      /\ u.page = w.page /\ u.m_u32Nodes = w.m_u32Nodes
      /\ u.m_rootID = w.m_rootID /\ u.m_u64Data = w.m_u64Data
      /\ u.m_treeVariant = w.m_treeVariant /\ u.m_capacity = w.m_capacity
      /\ u.m_minimumLoad = w.m_minimumLoad /\ u.m_bTightMBRs = w.m_bTightMBRs
      /\ u.m_nearMinimumOverlapFactor = w.m_nearMinimumOverlapFactor
      /\ u.cReinsert = w.cReinsert /\ u.nodeSPF = w.nodeSPF /\ u.Far = w.Far /\ u.outside = w.outside
  BY <1>1, <1>6 DEF Fields
<1>9. Alike(w, u)
  BY <1>6, <1>7, <1>8 DEF Alike, IsTree
<1>10. Alike(t, u)
  <2>1. Alike(v, w)
    BY <1>5, SameAlike
  <2>2. Alike(t, v)
    BY <1>2 DEF Gone
  <2> QED
    BY <1>9, <2>1, <2>2, AlikeTwice
<1>11. u.m_u64Data = t.m_u64Data
  BY <1>2, <1>5, <1>8 DEF Gone, Same
<1>12. u.page = Stored([o \in DOMAIN t.page \ {c.m_identifier} |-> t.page[o]], q)
  BY <1>2, <1>5, <1>8 DEF Gone
<1>13. u.m_u32Nodes = t.m_u32Nodes - 1
  BY <1>2, <1>5, <1>8 DEF Gone
<1>14. u.m_nodesInLevel = [Front([t.m_nodesInLevel EXCEPT ![c.m_level + 1] = @ - 1]) EXCEPT ![t.m_u32TreeHeight - 1] = 2]
  <2>1. u.m_nodesInLevel = [Front(w.m_nodesInLevel) EXCEPT ![t.m_u32TreeHeight - 1] = 2]
    BY <1>8 DEF L2, height
  <2>2. w.m_nodesInLevel = [t.m_nodesInLevel EXCEPT ![c.m_level + 1] = @ - 1]
    BY <1>2, <1>5 DEF Gone
  <2> QED
    BY <2>1, <2>2
<1> QED
  BY <1>8, <1>10, <1>11, <1>12, <1>13, <1>14 DEF Replaced, q, u, height

\* A page that is not the root's goes: the numbers of nodes.
LEMMA CountsGone ==
    ASSUME NEW t, NEW P, Counts(t, P), IsFiniteSet(DOMAIN P), NEW r, r = t.m_rootID, r \in DOMAIN P,
           NEW h \in Nat, P[r].m_level = h, NEW p \in DOMAIN P, p # r, NEW l \in Nat, P[p].m_level = l, l <= h,
           NEW P2, P2 = [o \in DOMAIN P \ {p} |-> P[o]],
           NEW u, u.m_rootID = r, u.m_u32TreeHeight = t.m_u32TreeHeight,
           u.m_nodesInLevel = [t.m_nodesInLevel EXCEPT ![l + 1] = @ - 1],
           u.m_u32Nodes = t.m_u32Nodes - 1
    PROVE  Counts(u, P2)
<1> DEFINE L == t.m_nodesInLevel
<1> DEFINE L2 == u.m_nodesInLevel
<1>1. /\ t.m_u32Nodes = Cardinality(DOMAIN P) /\ L \in Seq(Int) /\ Len(L) = h + 1
      /\ t.m_u32TreeHeight = h + 1
      /\ \A k \in 1 .. h + 1 : L[k] = Cardinality(OnLevel(P, k - 1))
  BY DEF Counts
<1>2. DOMAIN P2 = DOMAIN P \ {p} /\ \A o \in DOMAIN P \ {p} : P2[o] = P[o]
  OBVIOUS
<1>3. r \in DOMAIN P2 /\ P2[r].m_level = h
  BY <1>2
<1>4. Cardinality(DOMAIN P2) = Cardinality(DOMAIN P) - 1
  BY <1>2, FS_RemoveElement
<1>5. l + 1 \in 1 .. h + 1
  OBVIOUS
<1>6. DOMAIN L = 1 .. h + 1 /\ \A k \in 1 .. h + 1 : L[k] \in Int
  <2> HIDE DEF L
  <2> QED
    BY <1>1
<1>7. /\ DOMAIN L2 = 1 .. h + 1 /\ L2[l + 1] = L[l + 1] - 1
      /\ \A k \in 1 .. h + 1 : k # l + 1 => L2[k] = L[k]
      /\ L2 = [k \in 1 .. h + 1 |-> L2[k]]
  <2> HIDE DEF L
  <2>1. L2 = [L EXCEPT ![l + 1] = L[l + 1] - 1]
    BY DEF L
  <2> HIDE DEF L2
  <2> QED
    BY <1>5, <1>6, <2>1
<1> HIDE DEF L, L2
<1>8. \A k \in 1 .. h + 1 : L2[k] \in Int
  BY <1>5, <1>6, <1>7
<1>9. L2 \in Seq(Int) /\ Len(L2) = h + 1
  <2> DEFINE n == h + 1
  <2>1. n \in Nat /\ DOMAIN L2 = 1 .. n /\ L2 = [k \in 1 .. n |-> L2[k]] /\ \A k \in 1 .. n : L2[k] \in Int
    BY <1>7, <1>8
  <2> HIDE DEF n
  <2>2. L2 \in Seq(Int)
    BY <2>1
  <2>3. Len(L2) = n
    BY <2>1, <2>2
  <2> QED
    BY <2>2, <2>3 DEF n
<1>10. OnLevel(P2, l) = OnLevel(P, l) \ {p} /\ p \in OnLevel(P, l)
  BY <1>2 DEF OnLevel
<1>11. Cardinality(OnLevel(P2, l)) = Cardinality(OnLevel(P, l)) - 1
  <2>1. IsFiniteSet(OnLevel(P, l))
    BY FS_Subset DEF OnLevel
  <2> QED
    BY <1>10, <2>1, FS_RemoveElement
<1>12. \A k \in 1 .. h + 1 : k # l + 1 => OnLevel(P2, k - 1) = OnLevel(P, k - 1)
  <2> SUFFICES ASSUME NEW k \in 1 .. h + 1, k # l + 1 PROVE OnLevel(P2, k - 1) = OnLevel(P, k - 1)
    OBVIOUS
  <2>1. k - 1 # l
    OBVIOUS
  <2> QED
    BY <1>2, <2>1 DEF OnLevel
<1>13. \A k \in 1 .. h + 1 : L2[k] = Cardinality(OnLevel(P2, k - 1))
  <2> SUFFICES ASSUME NEW k \in 1 .. h + 1 PROVE L2[k] = Cardinality(OnLevel(P2, k - 1))
    OBVIOUS
  <2>1. CASE k = l + 1
    <3>1. k - 1 = l
      BY <2>1
    <3> QED
      BY <1>1, <1>7, <1>11, <2>1, <3>1
  <2>2. CASE k # l + 1
    BY <1>1, <1>7, <1>12, <2>2
  <2> QED
    BY <2>1, <2>2
<1> QED
  BY <1>1, <1>3, <1>4, <1>9, <1>13 DEF Counts, L2


\* A node of one entry.
LEMMA OneEntry ==
    ASSUME NEW es, Shapely(es), Len(es) = 1
    PROVE  ToSet(es) = {es[1]} /\ 1 \in DOMAIN es
<1>1. DOMAIN es = 1 .. 1
  BY ShapelyIs
<1> QED
  BY <1>1 DEF ToSet

\* A node of none.
LEMMA EmptyIs ==
    /\ Shapely(<<>>) /\ Distinct(<<>>) /\ ToSet(<<>>) = {}
  BY DEF Shapely, Distinct, ToSet

\* The pages without c, and c in the place of the root.
Lifted(P, r, c) == Stored([o \in DOMAIN P \ {c} |-> P[o]], [P[c] EXCEPT !.m_identifier = r])

LiftedTo(P, r, W, X, tight, h, e, Q) ==
    /\ Forest(Q, r, W, X, tight) /\ Kept(Q, W) = Kept(P, W) \ {<<h, e>>}
    /\ e.id \in DOMAIN P /\ e.id # r /\ P[e.id].m_level = h - 1
    /\ Q[r] = [P[e.id] EXCEPT !.m_identifier = r] /\ NodeOk(Q[r], r, tight)
    /\ Q[r].m_level = h - 1 /\ Q[r].entries = P[e.id].entries
    /\ DOMAIN Q = DOMAIN P \ {e.id} /\ \A o \in DOMAIN Q : o # r => Q[o] = P[o]

\* An index root with one child is replaced by it.
LEMMA RootLifted ==
    ASSUME NEW P, NEW r, NEW W, NEW X, NEW tight, Forest(P, r, W, X, tight), Low(P, r, W),
           NEW h \in Nat, h # 0, P[r].m_level = h, Len(P[r].entries) = 1,
           NEW e, e = P[r].entries[1], NEW c, c = e.id
    PROVE  LiftedTo(P, r, W, X, tight, h, e, Lifted(P, r, c))
<1> DEFINE x == <<h, e>>
<1> DEFINE q0 == Node(r, h, <<>>)
<1> DEFINE n == P[c]
<1> DEFINE q == [n EXCEPT !.m_identifier = r]
<1> DEFINE P1 == Stored(P, q0)
<1> DEFINE P2 == [o \in DOMAIN P1 \ {c} |-> P1[o]]
<1> DEFINE Q == Lifted(P, r, c)
<1>1. /\ r \in DOMAIN P /\ r \in Nat /\ r \in Int
      /\ \A o \in DOMAIN P : NodeOk(P[o], o, tight) /\ P[o].m_level <= h
  BY DEF Forest, Paged, Sound
<1>2. Shapely(P[r].entries)
  BY <1>1 DEF NodeOk
<1>3. ToSet(P[r].entries) = {e}
  BY <1>2, OneEntry
<1>4. Pairs(P[r]) = {x}
  BY <1>3 DEF Pairs
<1>5. x \in Kept(P, W) /\ x \notin W
  <2>1. x \in Pairs(P[r])
    BY <1>4
  <2>2. x \notin W
    BY <1>1, <2>1 DEF Forest, OneHolder
  <2> QED
    BY <1>1, <2>1, <2>2, KeptIs
<1>6. c \in DOMAIN P /\ c # r /\ n.m_level = h - 1
  <2>1. x[1] # 0 /\ x[2].id = c /\ x[1] = h
    OBVIOUS
  <2>2. Down(P, r, Kept(P, W), X)
    BY DEF Forest
  <2> HIDE DEF x
  <2> QED
    BY <1>5, <2>1, <2>2 DEF Down
<1>7. NodeOk(n, c, tight) /\ Pairs(n) \cap W = {}
  <2>1. NodeOk(n, c, tight)
    BY <1>1, <1>6
  <2>2. Pairs(n) \cap W = {}
    BY <1>6 DEF Forest, OneHolder
  <2> QED
    BY <2>1, <2>2
<1>8. /\ NodeOk(q0, r, tight) /\ q0.m_level = h /\ q0.m_identifier = r /\ Pairs(q0) = {}
  <2>1. NodeOk(q0, r, tight) /\ q0.m_level = h /\ q0.m_identifier = r /\ q0.entries = <<>>
    BY <1>1, EmptyIs, NodeIs
  <2> QED
    BY <2>1, EmptyIs DEF Pairs
<1>9. /\ NodeOk(q, r, tight) /\ q.m_level = h - 1 /\ q.m_identifier = r /\ Pairs(q) = Pairs(n)
      /\ q.entries = n.entries
  <2>1. n \in NodeT
    BY <1>7 DEF NodeOk
  <2>2. /\ q.m_level = n.m_level /\ q.m_identifier = r /\ q.entries = n.entries
        /\ q.m_nodeMBR = n.m_nodeMBR /\ q \in NodeT
    BY <1>1, <2>1 DEF NodeT
  <2> HIDE DEF q, n
  <2> QED
    BY <1>6, <1>7, <2>2 DEF NodeOk, Pairs
<1>10. h - 1 \in Nat /\ (h - 1) + 1 = h
  OBVIOUS
<1>11. \A o \in DOMAIN P : o # r => P[o].m_level <= h - 1
  <2> SUFFICES ASSUME NEW o \in DOMAIN P, o # r PROVE P[o].m_level <= h - 1
    OBVIOUS
  <2>1. P[o].m_level + 1 <= P[r].m_level /\ P[o].m_level \in Nat
    BY RootAlone
  <2> QED
    BY <2>1
<1> HIDE DEF q0, q, n, x
<1>12. /\ Forest(P1, r, W \cup {x}, X, tight) /\ Kept(P1, W \cup {x}) = Kept(P, W)
       /\ DOMAIN P1 = DOMAIN P /\ P1[r] = q0 /\ \A o \in DOMAIN P : o # r => P1[o] = P[o]
  <2> DEFINE W2 == W \cup {x}
  <2>1. /\ Pairs(q0) \cup W2 = Pairs(P[r]) \cup W /\ Pairs(q0) \cap W2 = {} /\ X \in SUBSET X
        /\ (r # r => q0.m_level = P[r].m_level)
        /\ (r = r => \A o \in DOMAIN P : o # r => P[o].m_level <= q0.m_level)
        /\ r \in DOMAIN P /\ NodeOk(q0, r, tight)
        /\ (q0.m_nodeMBR = P[r].m_nodeMBR \/ r \in X \/ r = r)
    BY <1>1, <1>4, <1>8
  <2> HIDE DEF W2
  <2>2. Exchanged(P, r, q0, W, W2, X, tight)
    BY <2>1, Exchange
  <2>3. DOMAIN P1 = DOMAIN P \cup {r} /\ P1[r] = q0
    BY <1>8, StoredIs
  <2>4. \A o \in DOMAIN P : o # r => P1[o] = P[o]
    BY <1>8, StoredOther
  <2> QED
    BY <1>1, <2>2, <2>3, <2>4 DEF Exchanged, W2
<1> HIDE DEF P1
<1>13. /\ Forest(P2, r, W \cup Pairs(n), X, tight)
       /\ Kept(P2, W \cup Pairs(n)) = Kept(P, W) \ {x}
       /\ DOMAIN P2 = DOMAIN P \ {c} /\ P2[r] = q0 /\ \A o \in DOMAIN P : o # r /\ o # c => P2[o] = P[o]
  <2> DEFINE W1 == W \cup {x}
  <2> DEFINE W2 == W \cup Pairs(n)
  <2>1. P1[c] = n /\ c \in DOMAIN P1
    BY <1>6, <1>12 DEF n
  <2>2. x \in W1 /\ x[1] = P1[c].m_level + 1 /\ x[2].id = c
    BY <1>6, <1>10, <2>1 DEF x
  <2>3. W2 = (W1 \ {x}) \cup Pairs(P1[c])
    BY <1>5, <2>1
  <2>4. Forest(P1, r, W1, X, tight) /\ Kept(P1, W1) = Kept(P, W)
    BY <1>12
  <2>5. /\ DOMAIN P2 = DOMAIN P \ {c} /\ P2[r] = q0 /\ \A o \in DOMAIN P : o # r /\ o # c => P2[o] = P[o]
    BY <1>1, <1>6, <1>12
  <2>6. P2 = [o \in DOMAIN P1 \ {c} |-> P1[o]]
    OBVIOUS
  <2> HIDE DEF W1, W2, P2
  <2>7. Forest(P2, r, W2, X, tight) /\ Kept(P2, W2) = Kept(P1, W1) \ {x}
    BY <1>6, <2>1, <2>2, <2>3, <2>4, <2>6, PageGoes
  <2> QED
    BY <2>4, <2>5, <2>7 DEF W2
<1> HIDE DEF P2
<1>14. Forest(Stored(P2, q), r, W, X, tight) /\ Kept(Stored(P2, q), W) = Kept(P, W) \ {x}
  <2> DEFINE W2 == W \cup Pairs(n)
  <2>1. /\ Pairs(q) \cup W = Pairs(P2[r]) \cup W2 /\ Pairs(q) \cap W = {} /\ X \in SUBSET X
        /\ (r # r => q.m_level = P2[r].m_level)
        /\ (r = r => \A o \in DOMAIN P2 : o # r => P2[o].m_level <= q.m_level)
        /\ r \in DOMAIN P2 /\ NodeOk(q, r, tight)
        /\ (q.m_nodeMBR = P2[r].m_nodeMBR \/ r \in X \/ r = r)
    BY <1>1, <1>6, <1>7, <1>8, <1>9, <1>11, <1>13
  <2>2. Forest(P2, r, W2, X, tight) /\ Kept(P2, W2) = Kept(P, W) \ {x}
    BY <1>13
  <2> HIDE DEF W2
  <2>3. Exchanged(P2, r, q, W2, W, X, tight)
    BY <2>1, <2>2, Exchange
  <2> QED
    BY <2>2, <2>3 DEF Exchanged
<1>15. Q = Stored(P2, q)
  <2> DEFINE P3 == [o \in DOMAIN P \ {c} |-> P[o]]
  <2>1. DOMAIN P3 = DOMAIN P2 /\ DOMAIN P2 = DOMAIN P \ {c}
    BY <1>13
  <2>2. \A o \in DOMAIN P2 : o # r => P3[o] = P2[o]
    BY <1>13
  <2>3. \A o \in DOMAIN P2 \cup {r} : (IF o = r THEN q ELSE P3[o]) = (IF o = r THEN q ELSE P2[o])
    BY <2>2
  <2> HIDE DEF P3
  <2>4. Stored(P3, q) = Stored(P2, q)
    BY <1>9, <2>1, <2>3 DEF Stored
  <2> QED
    BY <2>4 DEF Lifted, P3, q, n
<1>16. /\ DOMAIN Q = DOMAIN P \ {c} /\ Q[r] = q /\ \A o \in DOMAIN Q : o # r => Q[o] = P[o]
  <2>1. DOMAIN Stored(P2, q) = DOMAIN P2 \cup {r} /\ Stored(P2, q)[r] = q
    BY <1>9, StoredIs
  <2>2. \A o \in DOMAIN P2 : o # r => Stored(P2, q)[o] = P2[o]
    BY <1>9, StoredOther
  <2> HIDE DEF Q
  <2> QED
    BY <1>1, <1>6, <1>13, <1>15, <2>1, <2>2
<1> HIDE DEF Q
<1>17. Q[r] = [P[c] EXCEPT !.m_identifier = r]
  BY <1>16 DEF q, n
<1> QED
  BY <1>6, <1>9, <1>14, <1>15, <1>16, <1>17 DEF LiftedTo, Q, x, n


\* Below the root there are just its child and the node that was taken out last.
LEMMA TwoBelow ==
    ASSUME NEW P, NEW r, NEW W, NEW X, NEW tight, Forest(P, r, W, X, tight), Low(P, r, W),
           NEW h \in Nat, h # 0, P[r].m_level = h, Len(P[r].entries) = 1, NEW c, c = P[r].entries[1].id,
           NEW todo, NEW level, Taken(P, todo, W, level), todo # <<>>, todo[1].m_level = h - 1
    PROVE  OnLevel(P, h - 1) \in SUBSET {c, todo[1].m_identifier} /\ todo[1].m_identifier \in OnLevel(P, h - 1)
<1> DEFINE z == todo[1].m_identifier
<1> DEFINE e == P[r].entries[1]
<1>1. /\ r \in DOMAIN P
      /\ \A o \in DOMAIN P : NodeOk(P[o], o, tight) /\ P[o].m_level <= h
  BY DEF Forest, Paged, Sound
<1>2. ToSet(P[r].entries) = {e}
  <2>1. Shapely(P[r].entries)
    BY <1>1 DEF NodeOk
  <2> QED
    BY <2>1, OneEntry
<1>3. 1 \in DOMAIN todo /\ \A i \in DOMAIN todo : i = 1 \/ 1 < i
  <2>1. todo \in Seq(NodeT)
    BY DEF Taken
  <2>2. DOMAIN todo = 1 .. Len(todo) /\ Len(todo) \in Nat
    BY <2>1
  <2>3. Len(todo) # 0
    BY <2>1
  <2> QED
    BY <2>2, <2>3
<1>4. z \in OnLevel(P, h - 1)
  BY <1>3 DEF Taken, OnLevel
<1>5. ASSUME NEW o \in OnLevel(P, h - 1) PROVE o \in {c, z}
  <2>1. o \in DOMAIN P /\ P[o].m_level = h - 1
    BY <1>5 DEF OnLevel
  <2>2. o # r
    BY <2>1
  <2>3. PICK x \in Kept(P, W) : x[1] = P[o].m_level + 1 /\ x[2].id = o
    BY <2>1, <2>2 DEF Forest, Held
  <2>4. x[1] = h
    BY <2>1, <2>3
  <2>5. CASE x \in W
    <3>1. PICK i \in DOMAIN todo : For(x, todo[i])
      BY <2>5 DEF Taken
    <3>2. todo[i].m_level = h - 1
      <4>1. todo \in Seq(NodeT)
        BY DEF Taken
      <4>2. todo[i] \in NodeT
        BY <4>1
      <4>3. todo[i].m_level \in Nat
        BY <4>2 DEF NodeT
      <4>4. h = todo[i].m_level + 1
        BY <2>4, <3>1 DEF For
      <4> QED
        BY <4>3, <4>4
    <3>3. i = 1
      <4>1. 1 < i => todo[i].m_level < todo[1].m_level
        BY <1>3, <3>1 DEF Taken
      <4>2. ~ 1 < i
        BY <3>2, <4>1
      <4> QED
        BY <1>3, <3>1, <4>2
    <3>4. x[2].id = z
      BY <3>1, <3>3 DEF For
    <3> QED
      BY <2>3, <3>4
  <2>6. CASE x \notin W
    <3>1. PICK p \in DOMAIN P : x \in Pairs(P[p])
      BY <2>3, <2>6, KeptIs
    <3>2. x[1] = P[p].m_level /\ x[2] \in ToSet(P[p].entries)
      BY <1>1, <3>1, PairsAre
    <3>3. p = r
      <4>1. p # r => P[p].m_level + 1 <= P[r].m_level /\ P[p].m_level \in Nat
        BY RootAlone
      <4> QED
        BY <2>4, <3>2, <4>1
    <3>4. x[2] = e
      BY <1>2, <3>2, <3>3
    <3> QED
      BY <2>3, <3>4
  <2> QED
    BY <2>5, <2>6
<1> QED
  BY <1>4, <1>5

\* The pages without c, which is the root now, next to z.
Beside(t, u, P, r, h, c, z, Q) ==
    /\ Counts(t, P) /\ IsFiniteSet(DOMAIN P) /\ r = t.m_rootID /\ r \in DOMAIN P /\ P[r].m_level = h
    /\ c \in DOMAIN P /\ c # r /\ P[c].m_level = h - 1
    /\ DOMAIN Q = DOMAIN P \ {c} /\ Q[r].m_level = h - 1 /\ \A o \in DOMAIN Q : o # r => Q[o] = P[o]
    /\ Replaced(t, u, P[c])
    /\ z # c /\ OnLevel(P, h - 1) \in SUBSET {c, z} /\ z \in OnLevel(P, h - 1)

\* The counters after the tree became one level lower.
LEMMA CountsLifted ==
    ASSUME NEW t, NEW u, NEW P, NEW r, NEW h \in Nat, h # 0, NEW c, NEW z, NEW Q, Beside(t, u, P, r, h, c, z, Q)
    PROVE  Counts(u, Q)
<1>0. /\ Counts(t, P) /\ IsFiniteSet(DOMAIN P) /\ r = t.m_rootID /\ r \in DOMAIN P /\ P[r].m_level = h
      /\ c \in DOMAIN P /\ c # r /\ P[c].m_level = h - 1
      /\ DOMAIN Q = DOMAIN P \ {c} /\ Q[r].m_level = h - 1 /\ (\A o \in DOMAIN Q : o # r => Q[o] = P[o])
      /\ Replaced(t, u, P[c])
      /\ z # c /\ OnLevel(P, h - 1) \in SUBSET {c, z} /\ z \in OnLevel(P, h - 1)
  BY DEF Beside
<1> DEFINE L == t.m_nodesInLevel
<1> DEFINE L1 == [L EXCEPT ![P[c].m_level + 1] = @ - 1]
<1> DEFINE L2 == Front(L1)
<1> DEFINE L3 == u.m_nodesInLevel
<1>1. /\ t.m_u32Nodes = Cardinality(DOMAIN P) /\ L \in Seq(Int) /\ Len(L) = h + 1
      /\ t.m_u32TreeHeight = h + 1
      /\ \A k \in 1 .. h + 1 : L[k] = Cardinality(OnLevel(P, k - 1))
  BY <1>0 DEF Counts
<1>2. /\ c \in DOMAIN P /\ c # r /\ P[c].m_level = h - 1 /\ Q[r].m_level = h - 1
      /\ DOMAIN Q = DOMAIN P \ {c} /\ \A o \in DOMAIN Q : o # r => Q[o] = P[o]
  BY <1>0
<1>3. /\ u.m_rootID = r /\ u.m_u32TreeHeight = t.m_u32TreeHeight - 1 /\ u.m_u32Nodes = t.m_u32Nodes - 1
      /\ L3 = [L2 EXCEPT ![t.m_u32TreeHeight - 1] = 2]
  BY <1>0 DEF Replaced, Alike
<1>4. u.m_u32TreeHeight = h /\ P[c].m_level + 1 = h /\ t.m_u32TreeHeight - 1 = h
  BY <1>1, <1>2, <1>3
<1>5. DOMAIN L = 1 .. h + 1 /\ \A k \in 1 .. h + 1 : L[k] \in Int
  <2> HIDE DEF L
  <2> QED
    BY <1>1
<1>6. /\ L1 \in Seq(Int) /\ Len(L1) = h + 1 /\ \A k \in 1 .. h + 1 : k # h => L1[k] = L[k]
  <2>1. L1 = [L EXCEPT ![h] = L[h] - 1]
    BY <1>4
  <2> HIDE DEF L, L1
  <2>2. h \in 1 .. h + 1
    OBVIOUS
  <2>3. L[h] - 1 \in Int
    BY <1>5, <2>2
  <2>4. DOMAIN L1 = 1 .. h + 1 /\ \A k \in 1 .. h + 1 : k # h => L1[k] = L[k]
    BY <1>5, <2>1, <2>2
  <2>5. \A k \in 1 .. h + 1 : L1[k] \in Int
    BY <1>5, <2>1, <2>2, <2>3
  <2>6. L1 = [k \in 1 .. h + 1 |-> L1[k]]
    BY <1>5, <2>1
  <2> DEFINE n == h + 1
  <2>7. n \in Nat /\ DOMAIN L1 = 1 .. n /\ L1 = [k \in 1 .. n |-> L1[k]] /\ \A k \in 1 .. n : L1[k] \in Int
    BY <2>4, <2>5, <2>6
  <2> HIDE DEF n
  <2>8. L1 \in Seq(Int)
    BY <2>7
  <2>9. Len(L1) = n
    BY <2>7, <2>8
  <2> QED
    BY <2>4, <2>8, <2>9 DEF n
<1> HIDE DEF L, L1
<1>7. L2 \in Seq(Int) /\ Len(L2) = h /\ DOMAIN L2 = 1 .. h /\ \A k \in 1 .. h : L2[k] = L1[k]
  <2>1. /\ h \in Int /\ 1 <= h /\ Len(L1) - 1 = h /\ h - 1 + 1 = h
        /\ \A i \in 1 .. h : L1[i] \in Int
    BY <1>6
  <2>2. L2 = SubSeq(L1, 1, h)
    BY <2>1 DEF Front
  <2> HIDE DEF L2
  <2>3. /\ SubSeq(L1, 1, h) \in Seq(Int)
        /\ Len(SubSeq(L1, 1, h)) = IF 1 <= h THEN h - 1 + 1 ELSE 0
        /\ \A i \in 1 .. h - 1 + 1 : SubSeq(L1, 1, h)[i] = L1[1 + i - 1]
    BY <2>1, SubSeqProperties
  <2>4. L2 \in Seq(Int) /\ Len(L2) = h
    BY <2>1, <2>2, <2>3
  <2>5. \A i \in 1 .. h : L2[i] = L1[i]
    BY <2>1, <2>2, <2>3
  <2> QED
    BY <2>1, <2>4, <2>5
<1> HIDE DEF L2, L3
<1>8. /\ L3 \in Seq(Int) /\ Len(L3) = h /\ L3[h] = 2 /\ \A k \in 1 .. h : k # h => L3[k] = L[k]
  <2>1. L3 = [L2 EXCEPT ![h] = 2]
    BY <1>3, <1>4
  <2>2. h \in DOMAIN L2
    BY <1>7
  <2>3. \A k \in 1 .. h : L2[k] \in Int
    BY <1>7
  <2>4. /\ DOMAIN L3 = 1 .. h /\ L3[h] = 2 /\ \A k \in 1 .. h : k # h => L3[k] = L2[k]
        /\ L3 = [k \in 1 .. h |-> L3[k]]
    BY <1>7, <2>1, <2>2
  <2>5. \A k \in 1 .. h : L3[k] \in Int
    BY <2>3, <2>4
  <2>6. L3 \in Seq(Int)
    BY <2>4, <2>5
  <2>7. Len(L3) = h
    BY <2>4, <2>6
  <2>8. \A k \in 1 .. h : k # h => L3[k] = L[k]
    <3> SUFFICES ASSUME NEW k \in 1 .. h, k # h PROVE L3[k] = L[k]
      OBVIOUS
    <3>1. k \in 1 .. h + 1
      OBVIOUS
    <3> QED
      BY <1>6, <1>7, <2>4, <3>1
  <2> QED
    BY <2>4, <2>6, <2>7, <2>8
<1>9. u.m_u32Nodes = Cardinality(DOMAIN Q)
  <2>1. Cardinality(DOMAIN P \ {c}) = Cardinality(DOMAIN P) - 1
    BY <1>0, <1>2, FS_RemoveElement
  <2> QED
    BY <1>1, <1>2, <1>3, <2>1
<1>10. Cardinality(OnLevel(Q, h - 1)) = 2
  <2>1. z \in DOMAIN P /\ P[z].m_level = h - 1
    BY <1>0 DEF OnLevel
  <2>2. z # r
    BY <1>0, <2>1
  <2>3. z \in DOMAIN Q /\ Q[z].m_level = h - 1
    BY <1>0, <1>2, <2>1, <2>2
  <2>4. \A o \in OnLevel(Q, h - 1) : o \in {r, z}
    <3> SUFFICES ASSUME NEW o \in OnLevel(Q, h - 1), o # r PROVE o = z
      OBVIOUS
    <3>1. o \in DOMAIN P /\ o # c /\ P[o].m_level = h - 1
      BY <1>2 DEF OnLevel
    <3>2. o \in OnLevel(P, h - 1)
      BY <3>1 DEF OnLevel
    <3> QED
      BY <1>0, <3>1, <3>2
  <2>5. r \in OnLevel(Q, h - 1) /\ z \in OnLevel(Q, h - 1)
    BY <1>0, <1>2, <2>3 DEF OnLevel
  <2>6. OnLevel(Q, h - 1) = {r, z}
    BY <2>4, <2>5
  <2>7. Cardinality({z}) = 1 /\ IsFiniteSet({z})
    BY FS_Singleton
  <2>8. Cardinality({z} \cup {r}) = Cardinality({z}) + 1
    <3>1. r \notin {z}
      BY <2>2
    <3> QED
      BY <2>7, <3>1, FS_AddElement
  <2>9. {z} \cup {r} = {r, z}
    OBVIOUS
  <2> QED
    BY <2>6, <2>7, <2>8, <2>9
<1>11. \A k \in 1 .. h : k # h => OnLevel(Q, k - 1) = OnLevel(P, k - 1)
  <2> SUFFICES ASSUME NEW k \in 1 .. h, k # h PROVE OnLevel(Q, k - 1) = OnLevel(P, k - 1)
    OBVIOUS
  <2>1. k - 1 # h - 1 /\ k - 1 # h
    OBVIOUS
  <2> QED
    BY <1>0, <1>2, <2>1 DEF OnLevel
<1>12. \A k \in 1 .. (h - 1) + 1 : L3[k] = Cardinality(OnLevel(Q, k - 1))
  <2> SUFFICES ASSUME NEW k \in 1 .. h PROVE L3[k] = Cardinality(OnLevel(Q, k - 1))
    OBVIOUS
  <2>1. CASE k = h
    BY <1>8, <1>10, <2>1
  <2>2. CASE k # h
    <3>1. k \in 1 .. h + 1
      OBVIOUS
    <3> QED
      BY <1>1, <1>8, <1>11, <2>2, <3>1
  <2> QED
    BY <2>1, <2>2
<1>13. (h - 1) + 1 = h
  OBVIOUS
<1> QED
  BY <1>0, <1>2, <1>3, <1>4, <1>8, <1>9, <1>12, <1>13 DEF Counts, L3


\* The way up is done: what was taken out waits below the root or next to it.
Lopped(v, u, todo, W, K) ==
    /\ Works(u, W, Ids(todo), Ids(todo)) /\ Alike(v, u) /\ u.m_u64Data = v.m_u64Data
    /\ SameData(K, Kept(u.page, W))
    /\ Taken(u.page, todo, W, u.page[u.m_rootID].m_level + 1)

\* What the last step finds.
AtRoot(v, s, W, h, K) ==
    /\ Works(s.t, W, Ids(s.toReinsert), Ids(s.toReinsert) \cup {v.m_rootID}) /\ Same(v, s.t)
    /\ s.n = s.t.page[v.m_rootID] /\ s.n.m_level = h /\ v.m_rootID \in DOMAIN s.t.page
    /\ Taken(s.t.page, s.toReinsert, W, h)
    /\ Low(s.t.page, v.m_rootID, W) /\ SameData(K, Kept(s.t.page, W))
    /\ Len(s.n.entries) \in Nat /\ (h # 0 => 1 <= Len(s.n.entries))
    /\ h # 0 /\ Len(s.n.entries) < 2 => s.toReinsert # <<>> /\ s.toReinsert[1].m_level = h - 1

\* What is known when condenseTree has reached the root.
LEMMA AtRootIs ==
    ASSUME NEW v, NEW id, NEW path, Climbs(v.page, v.m_rootID, id, 0, path),
           NEW s, NEW W, NEW K, NEW h, h = Len(path), Condenses(v, s, W, id, path, h, K)
    PROVE  AtRoot(v, s, W, h, K)
<1> DEFINE T == s.t
<1> DEFINE P == T.page
<1> DEFINE r == v.m_rootID
<1> DEFINE todo == s.toReinsert
<1>1. On(id, path, h) = r
  <2>1. h \in Nat /\ (path = <<>> <=> id = r) /\ (path = <<>> <=> h = 0)
        /\ \A k \in 1 .. h : path[k] = r <=> k = h
    BY DEF Climbs
  <2>2. h # 0 => h \in 1 .. h
    BY <2>1
  <2> QED
    BY <2>1, <2>2 DEF On
<1>2. h \in Nat
  BY DEF Climbs
<1>3. /\ r \in DOMAIN P /\ s.n = P[r] /\ s.n.m_level = h /\ Taken(P, todo, W, h)
      /\ Works(T, W, Doubt(v, todo, s.n), Ids(todo) \cup {r}) /\ Same(v, T) /\ SameData(K, Kept(P, W))
      /\ (h # 0 /\ Len(s.n.entries) < 2 => todo # <<>> /\ todo[1].m_level = h - 1)
  BY <1>1 DEF Condenses
<1>4. T.m_rootID = r
  BY <1>3 DEF Same
<1>5. s.n.m_identifier = r /\ Shapely(s.n.entries)
  BY <1>3, <1>4, WorksIs
<1>6. Works(T, W, Ids(todo), Ids(todo) \cup {r})
  <2> DEFINE X == Doubt(v, todo, s.n)
  <2> DEFINE X2 == Ids(todo)
  <2> DEFINE Y == Ids(todo) \cup {r}
  <2>1. Works(T, W, X, Y) /\ \A p \in DOMAIN T.page : p \in X => p \in X2 \/ p = T.m_rootID
    BY <1>3, <1>4, <1>5 DEF Doubt
  <2> HIDE DEF X, X2, Y, T
  <2>2. Works(T, W, X2, Y)
    BY <2>1, WorksOther
  <2> QED
    BY <2>2 DEF X2, Y
<1>7. Low(P, r, W)
  <2> SUFFICES ASSUME NEW x \in W PROVE x[1] <= P[r].m_level
    BY DEF Low
  <2>1. PICK i \in DOMAIN todo : For(x, todo[i])
    BY <1>3 DEF Taken
  <2>2. todo \in Seq(NodeT)
    BY <1>3 DEF Taken
  <2>3. todo[i] \in NodeT
    BY <2>1, <2>2
  <2>4. todo[i].m_level \in Nat /\ todo[i].m_level < h /\ x[1] = todo[i].m_level + 1
    BY <1>3, <2>1, <2>3 DEF NodeT, For, Taken
  <2>5. P[r].m_level = h
    BY <1>3
  <2> QED
    BY <1>2, <2>4, <2>5
<1>8. Len(s.n.entries) \in Nat
  BY <1>5, ShapelyIs
<1>9. h # 0 => 1 <= Len(s.n.entries)
  <2>1. Sizes(T, P, T.m_rootID, Ids(todo) \cup {r})
    BY <1>3, WorksIs
  <2> QED
    BY <1>3, <2>1 DEF Sizes
<1> QED
  BY <1>3, <1>6, <1>7, <1>8, <1>9 DEF AtRoot

\* The root stays when it is a leaf or keeps two children,
LEMMA RootStays ==
    ASSUME NEW v, NEW s, NEW W, NEW h \in Nat, NEW K, AtRoot(v, s, W, h, K),
           h = 0 \/ Len(s.n.entries) # 1
    PROVE  Lopped(v, s.t, s.toReinsert, W, K)
<1> DEFINE T == s.t
<1> DEFINE P == T.page
<1> DEFINE r == v.m_rootID
<1> DEFINE todo == s.toReinsert
<1>1. /\ Works(T, W, Ids(todo), Ids(todo) \cup {r}) /\ Same(v, T)
      /\ s.n = P[r] /\ s.n.m_level = h /\ Taken(P, todo, W, h) /\ SameData(K, Kept(P, W))
      /\ Len(s.n.entries) \in Nat /\ (h # 0 => 1 <= Len(s.n.entries))
  BY DEF AtRoot
<1>2. T.m_rootID = r /\ T.m_u64Data = v.m_u64Data
  BY <1>1 DEF Same
<1>3. P[r].m_level # 0 => 2 <= Len(P[r].entries)
  <2> DEFINE n == Len(s.n.entries)
  <2>1. n \in Nat /\ (h # 0 => 1 <= n) /\ (h = 0 \/ n # 1)
    BY <1>1
  <2> HIDE DEF n
  <2>2. h # 0 => 2 <= n
    BY <2>1
  <2> QED
    BY <1>1, <2>2 DEF n
<1>4. Works(T, W, Ids(todo), Ids(todo))
  <2> DEFINE X == Ids(todo)
  <2> DEFINE Y == Ids(todo) \cup {r}
  <2>1. Works(T, W, X, Y)
        /\ \A p \in DOMAIN T.page : p \in Y => p \in X \/ (p = T.m_rootID /\ (T.page[p].m_level # 0 => 2 <= Len(T.page[p].entries)))
    BY <1>1, <1>2, <1>3
  <2> HIDE DEF X, Y, T
  <2>2. Works(T, W, X, X)
    BY <2>1, WorksOther
  <2> QED
    BY <2>2 DEF X
<1>5. Taken(P, todo, W, h + 1) /\ P[T.m_rootID].m_level = h
  BY <1>1, <1>2, TakenHigher
<1>6. Alike(v, T)
  BY <1>1, SameAlike
<1> QED
  BY <1>1, <1>2, <1>4, <1>5, <1>6 DEF Lopped

\* and is replaced by its only child otherwise.
LEMMA RootGoes ==
    ASSUME NEW v, NEW s, NEW W, NEW h \in Nat, NEW K, AtRoot(v, s, W, h, K), v.m_rootID \in Nat,
           h # 0, Len(s.n.entries) = 1
    PROVE  Lopped(v, RootReplaced(s.t), s.toReinsert, W, K)
<1> DEFINE T == s.t
<1> DEFINE P == T.page
<1> DEFINE r == v.m_rootID
<1> DEFINE todo == s.toReinsert
<1> DEFINE e == P[r].entries[1]
<1> DEFINE c == e.id
<1> DEFINE u == RootReplaced(T)
<1> DEFINE Q == Lifted(P, r, c)
<1> DEFINE z == todo[1].m_identifier
<1> DEFINE X == Ids(todo)
<1> DEFINE Y == X \cup {r}
<1>1. /\ Works(T, W, X, Y) /\ Same(v, T)
      /\ s.n = P[r] /\ s.n.m_level = h /\ Taken(P, todo, W, h) /\ SameData(K, Kept(P, W)) /\ Low(P, r, W)
      /\ todo # <<>> /\ todo[1].m_level = h - 1 /\ r \in DOMAIN P
  BY DEF AtRoot
<1>2. T.m_rootID = r /\ T.m_u64Data = v.m_u64Data
  BY <1>1 DEF Same
<1>3. /\ Conf(T) /\ IsTree(T) /\ Forest(P, r, W, X, Tight(T)) /\ Sizes(T, P, r, Y) /\ Counts(T, P)
      /\ IsFiniteSet(DOMAIN P)
      /\ \A p \in DOMAIN P : NodeOk(P[p], p, Tight(T)) /\ P[p].m_identifier = p
  <2>1. Works(T, W, X, Y)
    BY <1>1
  <2> HIDE DEF X, Y, r, T
  <2> QED
    BY <1>2, <2>1, WorksIs
<1>4. P[r].m_level = h /\ Len(P[r].entries) = 1
  BY <1>1
<1> HIDE DEF u, Q, X, Y, T, P, r
<1>5. LiftedTo(P, r, W, X, Tight(T), h, e, Q)
  <2>1. Forest(P, r, W, X, Tight(T)) /\ Low(P, r, W) /\ h \in Nat /\ h # 0 /\ P[r].m_level = h
        /\ Len(P[r].entries) = 1
    BY <1>1, <1>3, <1>4
  <2> QED
    BY <2>1, RootLifted DEF Q
<1>6. /\ Forest(Q, r, W, X, Tight(T)) /\ Kept(Q, W) = Kept(P, W) \ {<<h, e>>}
      /\ c \in DOMAIN P /\ c # r /\ P[c].m_level = h - 1
      /\ Q[r].m_level = h - 1 /\ Q[r].entries = P[c].entries
      /\ DOMAIN Q = DOMAIN P \ {c} /\ \A o \in DOMAIN Q : o # r => Q[o] = P[o]
  BY <1>5 DEF LiftedTo
<1>7. Replaced(T, u, P[c])
  <2>1. P[c] \in NodeT
    BY <1>3, <1>6 DEF NodeOk
  <2>2. "m_identifier" \in DOMAIN P[c]
    BY <2>1 DEF NodeT
  <2>3. r # NewPage
    BY DEF NewPage, r
  <2>4. P[c] = T.page[root(T).entries[1].id]
    BY <1>2 DEF root, P
  <2> QED
    BY <1>2, <1>3, <2>2, <2>3, <2>4, RootReplacedIs DEF u
<1>8. Alike(T, u) /\ u.m_u64Data = T.m_u64Data /\ u.page = Q
  <2>1. P[c].m_identifier = c
    BY <1>3, <1>6
  <2> QED
    BY <1>2, <1>7, <2>1 DEF Replaced, Lifted, Q, P
<1>9. c \notin Off(P, W) /\ r \notin Off(P, W)
  <2>1. e \in ToSet(P[r].entries)
    <3>1. Shapely(P[r].entries)
      BY <1>1, <1>3 DEF NodeOk
    <3> QED
      BY <1>4, <3>1, OneEntry DEF e
  <2>2. P[r].m_level = P[c].m_level + 1
    BY <1>4, <1>6
  <2> HIDE DEF e
  <2> DEFINE cc == c
  <2>3. e.id = cc /\ cc \in DOMAIN P /\ P[r].m_level = P[cc].m_level + 1
    BY <1>6, <2>2
  <2> HIDE DEF cc
  <2>4. cc \notin Off(P, W)
    BY <1>1, <1>3, <2>1, <2>3, NotOff
  <2>5. r \notin Off(P, W)
    BY <1>3, RootNotOff
  <2> QED
    BY <2>3, <2>4, <2>5
<1>10. c \notin X /\ r \notin X
  BY <1>1, <1>9, TakenOff DEF X
<1>11. Sizes(T, Q, r, X)
  <2>1. Least(T, h - 1) \in Nat /\ 1 <= Least(T, h - 1) /\ (h - 1 # 0 => 2 <= Least(T, h - 1))
    <3>1. h - 1 \in Nat
      OBVIOUS
    <3> QED
      BY <1>3, <3>1, LeastIs DEF Conf
  <2>2. /\ Len(P[c].entries) <= Of(T.m_capacity, h - 1) /\ Least(T, h - 1) <= Len(P[c].entries)
    <3>1. c \notin Y
      BY <1>6, <1>10 DEF Y
    <3> QED
      BY <1>3, <1>6, <3>1 DEF Sizes
  <2>3. Len(P[c].entries) \in Nat
    <3>1. Shapely(P[c].entries)
      BY <1>3, <1>6 DEF NodeOk
    <3> QED
      BY <3>1, ShapelyIs
  <2> SUFFICES ASSUME NEW p \in DOMAIN Q
               PROVE /\ Len(Q[p].entries) <= Of(T.m_capacity, Q[p].m_level)
                     /\ Q[p].m_level # 0 => 1 <= Len(Q[p].entries)
                     /\ p \notin X /\ p # r => Least(T, Q[p].m_level) <= Len(Q[p].entries)
                     /\ p \notin X /\ p = r /\ Q[p].m_level # 0 => 2 <= Len(Q[p].entries)
    BY DEF Sizes
  <2>4. CASE p = r
    <3> DEFINE n == Len(P[c].entries)
    <3> DEFINE l == Least(T, h - 1)
    <3> HIDE DEF n, l
    <3>1. n \in Nat /\ l \in Nat /\ l <= n /\ 1 <= l /\ (h - 1 # 0 => 2 <= l)
      BY <2>1, <2>2, <2>3 DEF n, l
    <3>2. 1 <= n /\ (h - 1 # 0 => 2 <= n)
      BY <3>1
    <3>3. Len(Q[p].entries) = n /\ Q[p].m_level = h - 1
      BY <1>6, <2>4 DEF n
    <3> QED
      BY <2>2, <2>4, <3>2, <3>3 DEF n
  <2>5. CASE p # r
    <3>1. Q[p] = P[p] /\ p \in DOMAIN P /\ (p \notin X => p \notin Y)
      BY <1>6, <2>5 DEF Y
    <3> QED
      BY <1>3, <2>5, <3>1 DEF Sizes
  <2> QED
    BY <2>4, <2>5
<1>12. OnLevel(P, h - 1) \in SUBSET {c, z} /\ z \in OnLevel(P, h - 1)
  <2>1. Forest(P, r, W, X, Tight(T)) /\ Low(P, r, W) /\ Taken(P, todo, W, h) /\ todo # <<>> /\ todo[1].m_level = h - 1
    BY <1>1, <1>3
  <2> QED
    BY <1>4, <2>1, TwoBelow
<1>13. z # c
  <2>1. todo \in Seq(NodeT)
    BY <1>1 DEF Taken
  <2>2. 1 \in DOMAIN todo
    BY <1>1, <2>1
  <2>3. z \in X
    BY <2>2 DEF Ids, X
  <2> QED
    BY <1>10, <2>3
<1>14. Counts(u, Q)
  <2> DEFINE cc == c
  <2>1. /\ Replaced(T, u, P[cc]) /\ z # cc /\ OnLevel(P, h - 1) \in SUBSET {cc, z} /\ z \in OnLevel(P, h - 1)
        /\ cc \in DOMAIN P /\ cc # r /\ P[cc].m_level = h - 1 /\ Q[r].m_level = h - 1
        /\ DOMAIN Q = DOMAIN P \ {cc} /\ \A o \in DOMAIN Q : o # r => Q[o] = P[o]
    BY <1>6, <1>7, <1>12, <1>13
  <2>2. /\ T.page = P /\ Counts(T, P) /\ IsFiniteSet(DOMAIN P) /\ r = T.m_rootID /\ r \in DOMAIN P
        /\ P[r].m_level = h /\ h # 0
    BY <1>1, <1>2, <1>3, <1>4 DEF P
  <2> HIDE DEF cc, z, c, e
  <2>3. Beside(T, u, P, r, h, cc, z, Q)
    BY <2>1, <2>2 DEF Beside
  <2> QED
    BY <2>3, CountsLifted
<1>15. u.m_rootID = r
  BY <1>2, <1>8 DEF Alike
<1>16. Works(u, W, X, X)
  <2>1. /\ Conf(u) /\ Tight(u) = Tight(T) /\ Sizes(u, Q, r, X)
    BY <1>3, <1>8, <1>11, AlikeConf
  <2> QED
    BY <1>6, <1>8, <1>14, <1>15, <2>1 DEF Works
<1>17. Taken(Q, todo, W, h)
  <2>1. \A p \in Off(P, W) : p \in DOMAIN Q /\ Q[p] = P[p]
    BY <1>6, <1>9 DEF Off
  <2>2. \A i \in DOMAIN todo : todo[i].m_identifier \in Off(P, W)
    BY <1>1, TakenOff DEF Ids
  <2> QED
    BY <1>1, <2>1, <2>2 DEF Taken
<1>18. (h - 1) + 1 = h
  OBVIOUS
<1>19. SameData(K, Kept(Q, W))
  <2>1. <<h, e>>[1] # 0
    OBVIOUS
  <2> DEFINE x == <<h, e>>
  <2>2. x[1] # 0 /\ Kept(Q, W) = Kept(P, W) \ {x}
    BY <1>6
  <2> HIDE DEF x
  <2> QED
    BY <1>1, <2>2 DEF SameData
<1>20. Alike(v, u)
  BY <1>1, <1>8, SameAlike, AlikeTwice
<1> QED
  <2>1. Taken(u.page, todo, W, u.page[u.m_rootID].m_level + 1)
    BY <1>6, <1>8, <1>15, <1>17, <1>18
  <2>2. SameData(K, Kept(u.page, W)) /\ u.m_u64Data = v.m_u64Data
    BY <1>2, <1>8, <1>19
  <2> QED
    BY <1>16, <1>20, <2>1, <2>2 DEF Lopped, X, u, T


\* A leaf was written: the nodes above it are condensed.
LEMMA CondenseTreeKeeps ==
    ASSUME NEW v, NEW id \in DOMAIN v.page, v.page[id].m_level = 0,
           NEW path, Up(v.page, v.m_rootID, id, 0, path),
           Works(v, {}, IF v.m_bTightMBRs \/ v.page[id].entries = <<>> THEN {id} ELSE {}, {id})
    PROVE  \E W : Lopped(v, condenseTree(v, v.page[id], path).t, condenseTree(v, v.page[id], path).toReinsert,
                         W, Kept(v.page, {}))
<1> DEFINE n == v.page[id]
<1> DEFINE N == Len(path)
<1> DEFINE K == Kept(v.page, {})
<1> DEFINE b == [t |-> v, n |-> n, toReinsert |-> <<>>]
<1> DEFINE f == CondensingIsFun(v, n, path, N)
<1>1. Climbs(v.page, v.m_rootID, id, 0, path)
  <2>1. 0 \in Nat
    OBVIOUS
  <2> QED
    BY <2>1, UpIs
<1>2. N \in Nat /\ v.m_rootID \in DOMAIN v.page
  BY <1>1 DEF Climbs
<1>3. f[0] = b /\ \A k \in 1 .. N : f[k] = CondenseStep(v, path, k, f[k - 1])
  <2> HIDE DEF n, N
  <2> QED
    BY <1>2, CondensingIs
<1>4. b.t = v /\ b.n = n /\ b.toReinsert = <<>>
  <2> HIDE DEF n
  <2> QED
    OBVIOUS
<1>5. v.m_rootID \in Nat /\ n.m_identifier = id /\ IsTree(v)
  BY <1>2, WorksIs
<1>6. Ids(<<>>) = {}
  BY DEF Ids
<1> HIDE DEF f, b
<1>7. Condenses(v, b, {}, id, path, 0, K)
  <2>1. On(id, path, 0) = id
    BY DEF On
  <2>2. Taken(v.page, <<>>, {}, 0)
    BY DEF Taken
  <2>3. Same(v, v)
    BY <1>5 DEF Same
  <2>4. Works(v, {}, Doubt(v, <<>>, n), Ids(<<>>) \cup {id})
    <3>1. Doubt(v, <<>>, n) = IF v.m_bTightMBRs \/ n.entries = <<>> THEN {id} ELSE {}
      BY <1>5, <1>6 DEF Doubt
    <3>2. Ids(<<>>) \cup {id} = {id}
      BY <1>6
    <3> QED
      BY <3>1, <3>2
  <2>5. SameData(K, Kept(v.page, {}))
    BY DEF SameData
  <2> HIDE DEF K
  <2> QED
    BY <1>4, <2>1, <2>2, <2>3, <2>4, <2>5 DEF Condenses
<1> HIDE DEF K, n
<1> DEFINE Good(k) == \E W : Condenses(v, f[k], W, id, path, k, K)
<1>8. Good(0)
  BY <1>3, <1>7
<1>9. ASSUME NEW k \in 1 .. N, Good(k - 1) PROVE Good(k)
  <2> DEFINE s == f[k - 1]
  <2> DEFINE c == On(id, path, k - 1)
  <2> DEFINE p == path[k]
  <2>1. PICK W : Condenses(v, s, W, id, path, k - 1, K)
    BY <1>9
  <2>2. f[k] = CondenseStep(v, path, k, s)
    BY <1>3
  <2> HIDE DEF s
  <2>3. \E e : Parted(v, s, W, id, path, k, c, p, e)
    BY <1>1, <2>1, PartedIs
  <2>4. PICK e : Parted(v, s, W, id, path, k, c, p, e)
    BY <2>3
  <2> HIDE DEF c, p
  <2>5. CASE Len(s.n.entries) < Of(v.m_minimumLoad, s.n.m_level)
    <3>1. \E V : Condenses(v, CondenseStep(v, path, k, s), V, id, path, k, K)
      BY <1>2, <2>1, <2>4, <2>5, NodeTakenOut
    <3> QED
      BY <2>2, <3>1
  <2>6. CASE ~ Len(s.n.entries) < Of(v.m_minimumLoad, s.n.m_level)
    <3>1. Condenses(v, CondenseStep(v, path, k, s), W, id, path, k, K)
      BY <1>2, <2>1, <2>4, <2>6, NodeStays
    <3> QED
      BY <2>2, <3>1
  <2> QED
    BY <2>5, <2>6
<1> HIDE DEF N
<1>10. \A k \in 0 .. N : Good(k)
  <2> HIDE DEF Good
  <2>1. SUFFICES ASSUME {k \in Nat : k <= N /\ ~ Good(k)} # {} PROVE FALSE
    BY <1>2
  <2>2. PICK k \in {j \in Nat : j <= N /\ ~ Good(j)} : \A j \in {j \in Nat : j <= N /\ ~ Good(j)} : k <= j
    BY <2>1, LeastExists
  <2>3. k # 0
    BY <1>8, <2>2
  <2>4. Good(k - 1)
    BY <1>2, <2>2, <2>3
  <2> QED
    BY <1>2, <1>9, <2>2, <2>3, <2>4
<1>11. Good(N)
  <2> HIDE DEF Good
  <2> QED
    BY <1>2, <1>10
<1> DEFINE s == f[N]
<1>12. PICK W : Condenses(v, s, W, id, path, N, K)
  BY <1>11
<1>13. condenseTree(v, n, path) = CondensedTo(s)
  BY CondenseTreeIs DEF f, N
<1> HIDE DEF s
<1>14. AtRoot(v, s, W, N, K)
  BY <1>1, <1>12, AtRootIs DEF N
<1> DEFINE ct == CondensedTo(s)
<1>15. Lopped(v, ct.t, ct.toReinsert, W, K)
  <2>1. s.n.m_level = N
    BY <1>14 DEF AtRoot
  <2>2. CASE N # 0 /\ Len(s.n.entries) = 1
    <3>1. Lopped(v, RootReplaced(s.t), s.toReinsert, W, K)
      BY <1>2, <1>5, <1>14, <2>2, RootGoes
    <3>2. ct.t = RootReplaced(s.t) /\ ct.toReinsert = s.toReinsert
      BY <2>1, <2>2 DEF CondensedTo
    <3> QED
      BY <3>1, <3>2
  <2>3. CASE ~ (N # 0 /\ Len(s.n.entries) = 1)
    <3>1. Lopped(v, s.t, s.toReinsert, W, K)
      BY <1>2, <1>14, <2>3, RootStays
    <3>2. ct.t = s.t /\ ct.toReinsert = s.toReinsert
      BY <2>1, <2>3 DEF CondensedTo
    <3> QED
      BY <3>1, <3>2
  <2> QED
    BY <2>2, <2>3
<1> HIDE DEF ct
<1>16. condenseTree(v, n, path) = ct
  BY <1>13 DEF ct
<1> QED
  BY <1>15, <1>16 DEF n, K


BackStep(node, k, u) == InsertedAt(Table(u, u.m_u32TreeHeight), node.entries[k], node.m_level)

\* The entries of a node that was taken out are inserted one after the other.
EnteringAreFun(b, node, n) == CHOOSE g : g = [k \in 0 .. n |-> IF k = 0 THEN b ELSE BackStep(node, k, g[k - 1])]

\* The entries of a node taken out, as a recursion.
LEMMA EnteringAre ==
    ASSUME NEW b, NEW node, NEW n \in Nat, NEW f, f = EnteringAreFun(b, node, n)
    PROVE  /\ f[0] = b
           /\ \A k \in 1 .. n : f[k] = BackStep(node, k, f[k - 1])
<1> DEFINE S(k, x) == BackStep(node, k, x)
<1> DEFINE B == b
<1> DEFINE Solves(m, g) == g = [k \in 0 .. m |-> IF k = 0 THEN B ELSE S(k, g[k - 1])]
<1> DEFINE Wrong == {m \in Nat : ~ \E g : Solves(m, g)}
<1> HIDE DEF S, B
<1>1. ASSUME Wrong # {} PROVE FALSE
  <2>1. PICK m \in Wrong : \A j \in Wrong : m <= j
    BY <1>1, LeastExists
  <2>2. CASE m = 0
    <3> DEFINE g == [k \in 0 .. 0 |-> B]
    <3>1. Solves(0, g)
      OBVIOUS
    <3> QED
      BY <2>1, <2>2, <3>1
  <2>3. CASE m # 0
    <3>1. m - 1 \in Nat /\ m - 1 \notin Wrong
      <4>1. m \in Nat /\ m - 1 \in Nat
        BY <2>1, <2>3
      <4> HIDE DEF Wrong
      <4> QED
        BY <2>1, <4>1
    <3>2. PICK g : Solves(m - 1, g)
      BY <3>1
    <3> DEFINE h == [k \in 0 .. m |-> IF k < m THEN g[k] ELSE S(m, g[m - 1])]
    <3>3. ASSUME NEW k \in 0 .. m PROVE h[k] = IF k = 0 THEN B ELSE S(k, h[k - 1])
      <4>1. CASE k = 0
        <5>1. g[0] = B
          BY <3>1, <3>2
        <5> QED
          BY <2>3, <4>1, <5>1
      <4>2. CASE k # 0 /\ k < m
        <5>1. k \in 0 .. m - 1 /\ k - 1 \in 0 .. m
          BY <4>2
        <5>2. g[k] = S(k, g[k - 1])
          BY <3>2, <4>2, <5>1
        <5>3. h[k] = g[k] /\ h[k - 1] = g[k - 1]
          BY <4>2, <5>1
        <5> HIDE DEF h
        <5> QED
          BY <4>2, <5>2, <5>3
      <4>3. CASE k = m
        <5>1. m - 1 \in 0 .. m /\ m - 1 < m
          BY <3>1
        <5>2. h[m] = S(m, g[m - 1]) /\ h[m - 1] = g[m - 1]
          BY <2>3, <5>1
        <5> HIDE DEF h
        <5> QED
          BY <2>3, <4>3, <5>2
      <4> QED
        BY <4>1, <4>2, <4>3
    <3>4. h = [k \in 0 .. m |-> h[k]]
      OBVIOUS
    <3> HIDE DEF h
    <3>5. Solves(m, h)
      BY <3>3, <3>4
    <3> QED
      BY <2>1, <3>5
  <2> QED
    BY <2>2, <2>3
<1>2. \E g : Solves(n, g)
  BY <1>1
<1>3. \E g : g = [k \in 0 .. n |-> IF k = 0 THEN B ELSE S(k, g[k - 1])]
  BY <1>2
<1>4. f = CHOOSE g : g = [k \in 0 .. n |-> IF k = 0 THEN B ELSE S(k, g[k - 1])]
  BY DEF S, B, EnteringAreFun
<1>5. f = [k \in 0 .. n |-> IF k = 0 THEN B ELSE S(k, f[k - 1])]
  BY <1>3, <1>4
<1>6. \A k \in 0 .. n : f[k] = IF k = 0 THEN B ELSE S(k, f[k - 1])
  BY <1>5, Zenon
<1>7. f[0] = B
  BY <1>6
<1>8. ASSUME NEW k \in 1 .. n PROVE f[k] = S(k, f[k - 1])
  <2>1. k \in 0 .. n /\ k # 0
    OBVIOUS
  <2> QED
    BY <1>6, <2>1
<1> QED
  BY <1>7, <1>8 DEF S, B

\* EntriesBack is the last entry's result.
LEMMA EntriesBackIs ==
    ASSUME NEW t, NEW n
    PROVE  EntriesBack(t, n) = EnteringAreFun(deleteNode(t, n), n, Len(n.entries))[Len(n.entries)]
  BY DEF EntriesBack, EnteringAreFun, BackStep

\* The entries of n behind number k.
Later(n, k) == {<<n.m_level, n.entries[j]>> : j \in k + 1 .. Len(n.entries)}

Lists(n, k) ==
    /\ Later(n, k - 1) = Later(n, k) \cup {<<n.m_level, n.entries[k]>>}
    /\ <<n.m_level, n.entries[k]>> \notin Later(n, k)
    /\ Later(n, k - 1) \in SUBSET Pairs(n)

\* The entries that have not entered again yet.
LEMMA LaterIs ==
    ASSUME NEW n, Shapely(n.entries), Distinct(n.entries)
    PROVE  /\ Later(n, 0) = Pairs(n) /\ Later(n, Len(n.entries)) = {}
           /\ \A k \in 1 .. Len(n.entries) : Lists(n, k)
<1> DEFINE N == Len(n.entries)
<1> DEFINE e(j) == n.entries[j]
<1>1. N \in Nat /\ DOMAIN n.entries = 1 .. N
  BY ShapelyIs
<1>2. ToSet(n.entries) = {e(j) : j \in 1 .. N}
  BY <1>1 DEF ToSet
<1>3. \A j, k \in 1 .. N : e(j) = e(k) => j = k
  BY <1>1 DEF Distinct
<1> HIDE DEF N
<1>4. Later(n, 0) = Pairs(n)
  <2>1. Later(n, 0) = {<<n.m_level, e(j)>> : j \in 1 .. N}
    BY DEF Later, N
  <2> HIDE DEF e
  <2>2. Pairs(n) = {<<n.m_level, e(j)>> : j \in 1 .. N}
    BY <1>2 DEF Pairs
  <2> QED
    BY <2>1, <2>2
<1>5. Later(n, N) = {}
  <2>1. N + 1 .. N = {}
    BY <1>1
  <2> QED
    BY <2>1 DEF Later, N
<1>6. ASSUME NEW k \in 1 .. N PROVE Lists(n, k)
  <2>1. (k - 1) + 1 = k /\ k .. N = (k + 1 .. N) \cup {k} /\ k \notin k + 1 .. N /\ k + 1 .. N \subseteq 1 .. N
    BY <1>1
  <2> DEFINE w(j) == <<n.m_level, e(j)>>
  <2> DEFINE B == k + 1 .. N
  <2>2. Later(n, k - 1) = {w(j) : j \in k .. N}
    BY <2>1 DEF Later, N
  <2>3. Later(n, k) = {w(j) : j \in B}
    BY DEF Later, N
  <2>4. \A j \in 1 .. N : w(j) = w(k) => j = k
    BY <1>3
  <2>5. \A j \in 1 .. N : w(j) \in Pairs(n)
    BY <1>2 DEF Pairs
  <2>6. k .. N = B \cup {k} /\ k \notin B /\ B \subseteq 1 .. N
    BY <2>1
  <2> HIDE DEF w, B
  <2>7. Later(n, k - 1) = Later(n, k) \cup {w(k)}
    BY <2>2, <2>3, <2>6
  <2>8. w(k) \notin Later(n, k)
    BY <2>3, <2>4, <2>6
  <2>9. Later(n, k - 1) \in SUBSET Pairs(n)
    BY <2>2, <2>5, <2>6
  <2> QED
    BY <2>7, <2>8, <2>9 DEF Lists, w
<1> QED
  BY <1>4, <1>5, <1>6 DEF N

\* Entered is transitive.
LEMMA EnteredTwice ==
    ASSUME NEW t, NEW u, NEW v, NEW W, NEW X, NEW Y, NEW K, NEW W2, NEW X2, NEW Y2, NEW K2, W \in SUBSET W2,
           Entered(t, u, W2, X2, Y2, K2), Entered(u, v, W, X, Y, Kept(u.page, W2)),
           t.page[t.m_rootID].m_level \in Nat, K = K2
    PROVE  Entered(t, v, W, X, Y, K)
<1>1. /\ Alike(t, u) /\ Rests(t.page, u.page, W2) /\ t.page[t.m_rootID].m_level <= u.page[t.m_rootID].m_level
      /\ SameData(K2, Kept(u.page, W2)) /\ u.m_u64Data = t.m_u64Data /\ Works(u, W2, X2, Y2)
  BY DEF Entered
<1>2. /\ Works(v, W, X, Y) /\ Alike(u, v) /\ Rests(u.page, v.page, W)
      /\ u.page[u.m_rootID].m_level <= v.page[u.m_rootID].m_level
      /\ SameData(Kept(u.page, W2), Kept(v.page, W)) /\ Low(v.page, u.m_rootID, W)
      /\ v.m_u64Data = u.m_u64Data
  BY DEF Entered
<1>3. u.m_rootID = t.m_rootID /\ v.m_rootID = t.m_rootID
  BY <1>1, <1>2 DEF Alike
<1>4. Rests(t.page, v.page, W)
  BY <1>1, <1>2, RestsLess, RestsTwice
<1>5. SameData(K, Kept(v.page, W))
  BY <1>1, <1>2 DEF SameData
<1>6. t.page[t.m_rootID].m_level <= v.page[t.m_rootID].m_level
  <2>1. u.page[u.m_rootID].m_level \in Nat
    BY <1>1, WorksIs
  <2>2. v.page[v.m_rootID].m_level \in Nat
    BY <1>2, WorksIs
  <2> QED
    BY <1>1, <1>2, <1>3, <2>1, <2>2
<1>7. Alike(t, v)
  BY <1>1, <1>2, AlikeTwice
<1> QED
  BY <1>1, <1>2, <1>3, <1>4, <1>5, <1>6, <1>7 DEF Entered

\* What a tree may be given does not change with the tree.
LEMMA AlikeTake ==
    ASSUME NEW t, CanTake(t), NEW u, Alike(t, u)
    PROVE  CanTake(u)
  BY DEF CanTake, Alike

\* All entries of a node wait: they are inserted.
LEMMA EntriesEnter ==
    ASSUME NEW t, NEW V, NEW X, NEW Y, NEW n, Works(t, V \cup Pairs(n), X, Y), V \cap Pairs(n) = {},
           Low(t.page, t.m_rootID, V \cup Pairs(n)), CanTake(t), n \in NodeT,
           Shapely(n.entries), Distinct(n.entries),
           NEW u, u = EnteringAreFun(t, n, Len(n.entries))[Len(n.entries)]
    PROVE  Entered(t, u, V, X, Y, Kept(t.page, V \cup Pairs(n)))
<1> DEFINE N == Len(n.entries)
<1> DEFINE K == Kept(t.page, V \cup Pairs(n))
<1> DEFINE f == EnteringAreFun(t, n, N)
<1> DEFINE W(k) == V \cup Later(n, k)
<1>1. N \in Nat
  BY ShapelyIs
<1>2. f[0] = t /\ \A k \in 1 .. N : f[k] = BackStep(n, k, f[k - 1])
  <2> HIDE DEF N
  <2> QED
    BY <1>1, EnteringAre
<1>3. /\ Later(n, 0) = Pairs(n) /\ Later(n, N) = {}
      /\ \A k \in 1 .. N : Lists(n, k)
  BY LaterIs
<1>4. n.m_level \in Nat
  BY DEF NodeT
<1>5. t.page[t.m_rootID].m_level \in Nat /\ IsTree(t)
  BY WorksIs
<1> HIDE DEF f
<1> DEFINE Good(k) == Entered(t, f[k], W(k), X, Y, K)
<1>6. Good(0)
  <2>1. Alike(t, t)
    BY <1>5 DEF Alike
  <2>2. Rests(t.page, t.page, V \cup Pairs(n))
    BY DEF Rests, Off
  <2>3. SameData(K, Kept(t.page, V \cup Pairs(n)))
    BY DEF SameData
  <2>4. t.page[t.m_rootID].m_level <= t.page[t.m_rootID].m_level
    BY <1>5
  <2> DEFINE W0 == V \cup Pairs(n)
  <2>5. W(0) = W0
    BY <1>3
  <2>6. Works(t, W0, X, Y) /\ Low(t.page, t.m_rootID, W0) /\ Rests(t.page, t.page, W0) /\ SameData(K, Kept(t.page, W0))
    BY <2>2, <2>3
  <2> HIDE DEF W0, W, K
  <2>7. Entered(t, t, W0, X, Y, K)
    BY <2>1, <2>4, <2>6 DEF Entered
  <2> QED
    BY <1>2, <2>5, <2>7
<1> HIDE DEF K, N
<1>7. ASSUME NEW k \in 1 .. N, Good(k - 1) PROVE Good(k)
  <2> DEFINE s == f[k - 1]
  <2> DEFINE e == n.entries[k]
  <2> DEFINE l == n.m_level
  <2> DEFINE W1 == W(k - 1)
  <2> DEFINE W2 == W(k)
  <2> DEFINE h == s.m_u32TreeHeight
  <2>1. Lists(n, k)
    BY <1>3
  <2>2. W1 = W2 \cup {<<l, e>>} /\ <<l, e>> \notin W2
    BY <2>1 DEF Lists
  <2>3. Entered(t, s, W1, X, Y, K)
    BY <1>7
  <2>4. f[k] = InsertedAt(Table(s, h), e, l)
    BY <1>2 DEF BackStep
  <2> HIDE DEF s, W1, W2, e, l, W
  <2>5. Works(s, W1, X, Y) /\ Alike(t, s) /\ Low(s.page, t.m_rootID, W1)
    BY <2>3 DEF Entered
  <2>6. CanTake(s) /\ s.m_rootID = t.m_rootID
    BY <2>5, AlikeTake DEF Alike
  <2>7. h \in Nat
    <3>1. Counts(s, s.page) /\ s.page[s.m_rootID].m_level \in Nat
      BY <2>5, WorksIs
    <3> QED
      BY <3>1 DEF Counts
  <2> HIDE DEF h
  <2>8. Works(s, W2 \cup {<<l, e>>}, X, Y) /\ Low(s.page, s.m_rootID, W2 \cup {<<l, e>>}) /\ l \in Nat
    BY <1>4, <2>2, <2>5, <2>6 DEF l
  <2>9. Entered(s, InsertedAt(Table(s, h), e, l), W2, X, Y, Kept(s.page, W2 \cup {<<l, e>>}))
    BY <2>2, <2>6, <2>7, <2>8, TabledKeeps
  <2>10. Entered(s, f[k], W2, X, Y, Kept(s.page, W1))
    BY <2>2, <2>4, <2>9
  <2>11. W2 \in SUBSET W1
    BY <2>2
  <2>12. Entered(t, f[k], W2, X, Y, K)
    BY <1>5, <2>3, <2>10, <2>11, EnteredTwice
  <2> QED
    BY <2>12 DEF W2
<1>8. \A k \in 0 .. N : Good(k)
  <2> HIDE DEF Good
  <2>1. SUFFICES ASSUME {k \in Nat : k <= N /\ ~ Good(k)} # {} PROVE FALSE
    BY <1>1
  <2>2. PICK k \in {j \in Nat : j <= N /\ ~ Good(j)} : \A j \in {j \in Nat : j <= N /\ ~ Good(j)} : k <= j
    BY <2>1, LeastExists
  <2>3. k # 0
    BY <1>6, <2>2
  <2>4. Good(k - 1)
    BY <1>1, <2>2, <2>3
  <2> QED
    BY <1>1, <1>7, <2>2, <2>3, <2>4
<1>9. Good(N)
  <2> HIDE DEF Good
  <2> QED
    BY <1>1, <1>8
<1>10. W(N) = V
  BY <1>3
<1> HIDE DEF W
<1>11. Entered(t, f[N], V, X, Y, K)
  BY <1>9, <1>10
<1> QED
  BY <1>11 DEF f, N, K


\* The first of the nodes that were taken out, and the entry for it that waits.
OffFirst(P, todo, W, w, level) ==
    /\ w \in W /\ For(w, Head(todo)) /\ Head(todo) \in NodeT
    /\ Head(todo).m_identifier \in DOMAIN P /\ P[Head(todo).m_identifier] = Head(todo)
    /\ Head(todo).m_level \in Nat /\ Head(todo).m_level < level
    /\ Taken(P, Tail(todo), W \ {w}, Head(todo).m_level)
    /\ Head(todo).m_identifier \in Ids(todo)
    /\ \A p \in Ids(todo) : p # Head(todo).m_identifier => p \in Ids(Tail(todo))

\* The nodes taken out, but the first.
LEMMA TailIs ==
    ASSUME NEW S, NEW s \in Seq(S), s # <<>>
    PROVE  /\ Tail(s) \in Seq(S) /\ Len(s) \in Nat /\ 1 <= Len(s) /\ DOMAIN s = 1 .. Len(s)
           /\ DOMAIN Tail(s) = 1 .. Len(s) - 1 /\ Head(s) = s[1] /\ Head(s) \in S
           /\ \A i \in 1 .. Len(s) - 1 : Tail(s)[i] = s[i + 1]
<1>1. Len(s) \in Nat /\ DOMAIN s = 1 .. Len(s) /\ (s = <<>> <=> Len(s) = 0)
  OBVIOUS
<1>2. Tail(s) \in Seq(S) /\ Len(Tail(s)) = Len(s) - 1
  BY HeadTailProperties
<1>3. Head(s) = s[1] /\ Head(s) \in S /\ \A i \in 1 .. Len(Tail(s)) : Tail(s)[i] = s[i + 1]
  BY HeadTailProperties
<1> DEFINE b == Tail(s)
<1>4. b \in Seq(S) /\ Len(b) = Len(s) - 1
  BY <1>2
<1> HIDE DEF b
<1>5. DOMAIN b = 1 .. Len(b)
  BY <1>4
<1>6. 1 <= Len(s)
  BY <1>1
<1> QED
  BY <1>1, <1>2, <1>3, <1>4, <1>5, <1>6 DEF b

\* The first of them waits under an entry of its own;
LEMMA TakenFirst ==
    ASSUME NEW P, NEW todo, NEW W, NEW level \in Nat, Taken(P, todo, W, level), todo # <<>>,
           \A x, y \in W : x[1] = y[1] /\ x[2].id = y[2].id => x = y
    PROVE  \E w \in W : OffFirst(P, todo, W, w, level)
<1> DEFINE N == Len(todo)
<1> DEFINE n == Head(todo)
<1> DEFINE b == Tail(todo)
<1>1. todo \in Seq(NodeT)
  BY DEF Taken
<1>2. /\ b \in Seq(NodeT) /\ N \in Nat /\ 1 <= N /\ DOMAIN todo = 1 .. N
      /\ DOMAIN b = 1 .. N - 1 /\ n = todo[1] /\ n \in NodeT
      /\ \A i \in 1 .. N - 1 : b[i] = todo[i + 1]
  BY <1>1, TailIs
<1> HIDE DEF N, n, b
<1>3. 1 \in DOMAIN todo
  BY <1>2
<1>4. PICK w \in W : For(w, n)
  BY <1>2, <1>3 DEF Taken
<1>5. n.m_identifier \in DOMAIN P /\ P[n.m_identifier] = n /\ n.m_level < level /\ n.m_level \in Nat
  BY <1>2, <1>3 DEF Taken, NodeT
<1>6. \A i \in 1 .. N - 1 : i + 1 \in DOMAIN todo /\ 1 < i + 1
  BY <1>2
<1>7. \A i \in DOMAIN b : /\ i + 1 \in DOMAIN todo /\ b[i] = todo[i + 1] /\ b[i].m_level < n.m_level
                         /\ b[i].m_level \in Nat
  <2> SUFFICES ASSUME NEW i \in 1 .. N - 1
               PROVE  /\ i + 1 \in DOMAIN todo /\ b[i] = todo[i + 1] /\ b[i].m_level < n.m_level
                      /\ b[i].m_level \in Nat
    BY <1>2
  <2>1. b[i] \in NodeT
    BY <1>2
  <2>2. b[i].m_level \in Nat
    BY <2>1 DEF NodeT
  <2> QED
    BY <1>2, <1>3, <1>6, <2>2 DEF Taken
<1>8. \A i \in DOMAIN todo : i # 1 => \E j \in DOMAIN b : b[j] = todo[i]
  <2> SUFFICES ASSUME NEW i \in 1 .. N, i # 1 PROVE \E j \in DOMAIN b : b[j] = todo[i]
    BY <1>2
  <2>1. i - 1 \in 1 .. N - 1 /\ (i - 1) + 1 = i
    BY <1>2
  <2> QED
    BY <1>2, <2>1
<1>9. ASSUME NEW i \in DOMAIN b
      PROVE  /\ b[i].m_identifier \in DOMAIN P /\ P[b[i].m_identifier] = b[i]
             /\ b[i].m_level < n.m_level /\ \E v \in W \ {w} : For(v, b[i])
  <2>1. PICK v \in W : For(v, b[i])
    BY <1>7 DEF Taken
  <2>2. v[1] = b[i].m_level + 1 /\ w[1] = n.m_level + 1
    BY <1>4, <2>1 DEF For
  <2>3. b[i].m_level < n.m_level /\ b[i].m_level \in Nat
    BY <1>7
  <2>4. v # w
    BY <1>5, <2>2, <2>3
  <2> QED
    BY <1>7, <2>1, <2>4 DEF Taken
<1>10. \A v \in W \ {w} : \E i \in DOMAIN b : For(v, b[i])
  <2> SUFFICES ASSUME NEW v \in W, v # w PROVE \E i \in DOMAIN b : For(v, b[i])
    OBVIOUS
  <2>1. PICK i \in DOMAIN todo : For(v, todo[i])
    BY DEF Taken
  <2>2. i # 1
    BY <1>2, <1>4, <2>1 DEF For
  <2> QED
    BY <1>8, <2>1, <2>2
<1>11. \A i, j \in DOMAIN b : i < j => b[j].m_level < b[i].m_level
  <2> SUFFICES ASSUME NEW i \in DOMAIN b, NEW j \in DOMAIN b, i < j PROVE b[j].m_level < b[i].m_level
    OBVIOUS
  <2>1. i + 1 < j + 1
    BY <1>2
  <2> QED
    BY <1>7, <2>1 DEF Taken
<1>12. Taken(P, b, W \ {w}, n.m_level)
  BY <1>2, <1>9, <1>10, <1>11 DEF Taken
<1>13. n.m_identifier \in Ids(todo)
  BY <1>2, <1>3 DEF Ids
<1>14. \A p \in Ids(todo) : p # n.m_identifier => p \in Ids(b)
  <2> SUFFICES ASSUME NEW i \in DOMAIN todo, todo[i].m_identifier # n.m_identifier
               PROVE  todo[i].m_identifier \in Ids(b)
    BY DEF Ids
  <2>1. i # 1
    BY <1>2
  <2> QED
    BY <1>8, <2>1 DEF Ids
<1> QED
  BY <1>2, <1>4, <1>5, <1>12, <1>13, <1>14 DEF OffFirst, n, b

\* They stay when the pages for which entries wait stay.
LEMMA TakenRests ==
    ASSUME NEW P, NEW todo, NEW W, NEW level, Taken(P, todo, W, level), NEW Q, Rests(P, Q, W)
    PROVE  Taken(Q, todo, W, level)
<1>1. \A i \in DOMAIN todo : todo[i].m_identifier \in Ids(todo)
  BY DEF Ids
<1>2. \A i \in DOMAIN todo : todo[i].m_identifier \in DOMAIN Q
                             /\ Q[todo[i].m_identifier] = P[todo[i].m_identifier]
  BY <1>1, TakenOff DEF Rests
<1> QED
  BY <1>2 DEF Taken

\* the others lie below as before.
LEMMA TakenBelow ==
    ASSUME NEW P, NEW todo, NEW W, NEW a \in Nat, Taken(P, todo, W, a), NEW b \in Nat, a <= b
    PROVE  Taken(P, todo, W, b)
<1> SUFFICES ASSUME NEW i \in DOMAIN todo PROVE todo[i].m_level < b
  BY DEF Taken
<1>1. todo[i].m_level < a /\ todo[i] \in NodeT
  BY DEF Taken
<1>2. todo[i].m_level \in Nat
  BY <1>1 DEF NodeT
<1> QED
  BY <1>1, <1>2


\* The page n, taken out of its parent, is deleted: its entries wait.
Leaving(t, u, n, todo, V) ==
    /\ Works(u, V \cup Pairs(n), Ids(todo), Ids(todo)) /\ V \cap Pairs(n) = {} /\ Alike(t, u)
    /\ u.m_u64Data = t.m_u64Data /\ Low(u.page, u.m_rootID, V \cup Pairs(n))
    /\ Taken(u.page, todo, V, n.m_level)
    /\ n.m_level \in Nat /\ n.m_level <= u.page[u.m_rootID].m_level
    /\ n \in NodeT /\ Shapely(n.entries) /\ Distinct(n.entries)

\* The page of a node taken out is deleted; its entries wait.
LEMMA NodeLeaves ==
    ASSUME NEW t, NEW W, NEW todo, Works(t, W, Ids(todo), Ids(todo)), NEW level,
           NEW w, OffFirst(t.page, todo, W, w, level)
    PROVE  /\ Leaving(t, deleteNode(t, Head(todo)), Head(todo), Tail(todo), W \ {w})
           /\ SameData(Kept(t.page, W), Kept(deleteNode(t, Head(todo)).page, (W \ {w}) \cup Pairs(Head(todo))))
<1> DEFINE P == t.page
<1> DEFINE r == t.m_rootID
<1> DEFINE n == Head(todo)
<1> DEFINE c == n.m_identifier
<1> DEFINE b == Tail(todo)
<1> DEFINE V == W \ {w}
<1> DEFINE u == deleteNode(t, n)
<1> DEFINE P2 == [o \in DOMAIN P \ {c} |-> P[o]]
<1> DEFINE W2 == V \cup Pairs(n)
<1> DEFINE X == Ids(todo)
<1> DEFINE Z == Ids(b)
<1>1. /\ w \in W /\ For(w, n) /\ n \in NodeT /\ c \in DOMAIN P /\ P[c] = n
      /\ n.m_level \in Nat /\ Taken(P, b, V, n.m_level) /\ c \in X
      /\ \A p \in X : p # c => p \in Z
  BY DEF OffFirst
<1>2. Works(t, W, X, X)
  OBVIOUS
<1> HIDE DEF P, r, n, b, X, Z, V, u, P2, W2
<1>3. /\ Conf(t) /\ IsTree(t) /\ Forest(P, r, W, X, Tight(t)) /\ Sizes(t, P, r, X) /\ Counts(t, P)
      /\ r \in DOMAIN P /\ IsFiniteSet(DOMAIN P)
      /\ \A p \in DOMAIN P : /\ NodeOk(P[p], p, Tight(t)) /\ P[p].m_level \in Nat
                             /\ P[p].m_level <= P[r].m_level
  BY <1>2, WorksIs DEF P, r
<1>4. c # r
  <2>1. c \in Off(P, W)
    BY <1>1 DEF Off, For
  <2> QED
    BY <1>3, <2>1, RootNotOff
<1>5. n.m_level \in Nat /\ n.m_level <= P[r].m_level /\ P[r].m_level \in Nat /\ NodeOk(n, c, Tight(t))
  <2>1. NodeOk(P[c], c, Tight(t)) /\ P[c].m_level <= P[r].m_level /\ P[r].m_level \in Nat /\ P[c].m_level \in Nat
    BY <1>1, <1>3
  <2> QED
    BY <1>1, <2>1
<1>6. Gone(t, u, n)
  BY <1>3, DeleteNodeIs DEF u
<1>7. /\ Alike(t, u) /\ u.page = P2 /\ u.m_u64Data = t.m_u64Data
      /\ u.m_u32TreeHeight = t.m_u32TreeHeight /\ u.m_u32Nodes = t.m_u32Nodes - 1
      /\ u.m_nodesInLevel = [t.m_nodesInLevel EXCEPT ![n.m_level + 1] = @ - 1]
  BY <1>6 DEF Gone, P2, P
<1>8. u.m_rootID = r
  BY <1>7 DEF Alike, r
<1>9. w[1] = P[c].m_level + 1 /\ w[2].id = c
  BY <1>1 DEF For
<1>10. /\ Forest(P2, r, W2, X, Tight(t)) /\ Kept(P2, W2) = Kept(P, W) \ {w}
  <2>1. P2 = [o \in DOMAIN P \ {c} |-> P[o]] /\ W2 = (W \ {w}) \cup Pairs(P[c])
    BY <1>1 DEF P2, W2, V
  <2> QED
    BY <1>1, <1>3, <1>4, <1>9, <2>1, PageGoes
<1>11. DOMAIN P2 = DOMAIN P \ {c} /\ \A o \in DOMAIN P2 : P2[o] = P[o]
  BY DEF P2
<1>12. \A o \in DOMAIN P2 : o \in X => o \in Z
  BY <1>1, <1>11
<1>13. Forest(P2, r, W2, Z, Tight(t))
  BY <1>10, <1>12, ForestOther
<1>14. r \in DOMAIN P2 /\ P2[r] = P[r]
  BY <1>3, <1>4, <1>11
<1>15. Conf(u) /\ Tight(u) = Tight(t) /\ Sizes(u, P, r, X)
  BY <1>3, <1>7, AlikeConf
<1>16. Sizes(u, P2, r, Z)
  <2> SUFFICES ASSUME NEW p \in DOMAIN P2
               PROVE  /\ Len(P2[p].entries) <= Of(u.m_capacity, P2[p].m_level)
                      /\ P2[p].m_level # 0 => 1 <= Len(P2[p].entries)
                      /\ p \notin Z /\ p # r => Least(u, P2[p].m_level) <= Len(P2[p].entries)
                      /\ p \notin Z /\ p = r /\ P2[p].m_level # 0 => 2 <= Len(P2[p].entries)
    BY DEF Sizes
  <2>1. p \in DOMAIN P /\ P2[p] = P[p] /\ (p \in X => p \in Z)
    BY <1>11, <1>12
  <2> QED
    BY <1>15, <2>1 DEF Sizes
<1>17. Counts(u, P2)
  <2> DEFINE h == P[r].m_level
  <2> DEFINE l == n.m_level
  <2>1. h \in Nat /\ l \in Nat /\ l <= h /\ P[r].m_level = h /\ P[c].m_level = l /\ r = t.m_rootID
        /\ u.m_rootID = r /\ u.m_nodesInLevel = [t.m_nodesInLevel EXCEPT ![l + 1] = @ - 1]
        /\ P2 = [o \in DOMAIN P \ {c} |-> P[o]]
    BY <1>1, <1>5, <1>7, <1>8 DEF r, P2
  <2> HIDE DEF h, l
  <2> QED
    BY <1>1, <1>3, <1>4, <1>7, <2>1, CountsGone
<1>18. Works(u, W2, Z, Z)
  BY <1>7, <1>8, <1>13, <1>15, <1>16, <1>17 DEF Works
<1>19. V \cap Pairs(n) = {}
  <2>1. OneHolder(P, W)
    BY <1>3 DEF Forest
  <2>2. \A x \in Pairs(n) : x \notin W
    BY <1>1, <2>1 DEF OneHolder
  <2> QED
    BY <2>2 DEF V
<1>20. Low(u.page, u.m_rootID, W2)
  <2> SUFFICES ASSUME NEW x \in W2 PROVE x[1] <= P[r].m_level
    BY <1>7, <1>8, <1>14 DEF Low
  <2>1. CASE x \in Pairs(n)
    <3>1. x[1] = n.m_level
      BY <2>1 DEF Pairs
    <3> QED
      BY <1>5, <3>1
  <2>2. CASE x \in V
    <3>1. PICK i \in DOMAIN b : For(x, b[i])
      BY <1>1, <2>2 DEF Taken
    <3>2. b \in Seq(NodeT)
      BY <1>1 DEF Taken
    <3>3. b[i] \in NodeT
      BY <3>1, <3>2
    <3>4. b[i].m_level \in Nat /\ b[i].m_level < n.m_level /\ x[1] = b[i].m_level + 1
      BY <1>1, <3>1, <3>3 DEF Taken, For, NodeT
    <3> QED
      BY <1>5, <3>4
  <2> QED
    BY <2>1, <2>2 DEF W2
<1>21. Taken(u.page, b, V, n.m_level)
  <2>1. Rests(P, P2, V)
    <3> SUFFICES ASSUME NEW p \in DOMAIN P, NEW x \in V, x[1] = P[p].m_level + 1, x[2].id = p
                 PROVE  p \in DOMAIN P2 /\ P2[p] = P[p]
      BY DEF Rests, Off
    <3>1. p # c
      <4> SUFFICES ASSUME p = c PROVE FALSE
        OBVIOUS
      <4>1. x \in Kept(P, W) /\ w \in Kept(P, W) /\ x # w
        BY <1>1, KeptIs DEF V
      <4>2. OneId(Kept(P, W))
        BY <1>3 DEF Forest
      <4>3. x[1] = w[1] /\ x[2].id = w[2].id
        BY <1>9
      <4> QED
        BY <4>1, <4>2, <4>3 DEF OneId
    <3> QED
      BY <1>11, <3>1
  <2> QED
    BY <1>1, <1>7, <2>1, TakenRests
<1>22. SameData(Kept(P, W), Kept(u.page, W2))
  <2>1. w[1] # 0
    BY <1>1, <1>9
  <2>2. Kept(u.page, W2) = Kept(P, W) \ {w}
    BY <1>7, <1>10
  <2> QED
    BY <2>1, <2>2 DEF SameData
<1>23. /\ n.m_level \in Nat /\ n.m_level <= u.page[u.m_rootID].m_level
       /\ n \in NodeT /\ Shapely(n.entries) /\ Distinct(n.entries)
  BY <1>1, <1>5, <1>7, <1>8, <1>14 DEF NodeOk
<1>24. Leaving(t, u, n, b, V)
  BY <1>7, <1>18, <1>19, <1>20, <1>21, <1>23 DEF Leaving, W2, Z
<1> QED
  BY <1>22, <1>24 DEF u, n, b, V, W2, P


\* The nodes todo are still to be inserted again, in a tree that had the data K.
Restoring(t, u, todo, W, K) ==
    /\ Works(u, W, Ids(todo), Ids(todo)) /\ Alike(t, u) /\ u.m_u64Data = t.m_u64Data
    /\ SameData(K, Kept(u.page, W))
    /\ Taken(u.page, todo, W, u.page[u.m_rootID].m_level + 1)

\* One node goes, and its entries come back.
LEMMA NodeRestored ==
    ASSUME NEW t, NEW u, NEW todo, NEW W, NEW K, Restoring(t, u, todo, W, K), CanTake(t), todo # <<>>
    PROVE  \E V : Restoring(t, EntriesBack(u, Head(todo)), Tail(todo), V, K)
<1> DEFINE n == Head(todo)
<1> DEFINE b == Tail(todo)
<1> DEFINE d == deleteNode(u, n)
<1> DEFINE z == EntriesBack(u, n)
<1> DEFINE h == u.page[u.m_rootID].m_level
<1>1. /\ Works(u, W, Ids(todo), Ids(todo)) /\ Alike(t, u) /\ u.m_u64Data = t.m_u64Data
      /\ SameData(K, Kept(u.page, W)) /\ Taken(u.page, todo, W, h + 1)
  BY DEF Restoring
<1>2. h \in Nat /\ h + 1 \in Nat
  <2>1. u.m_rootID \in DOMAIN u.page /\ \A p \in DOMAIN u.page : u.page[p].m_level \in Nat
    BY <1>1, WorksIs
  <2>2. h \in Nat
    BY <2>1
  <2> HIDE DEF h
  <2> QED
    BY <2>2
<1>3. \A x, y \in W : x[1] = y[1] /\ x[2].id = y[2].id => x = y
  <2>1. OneId(Kept(u.page, W))
    BY <1>1, WorksIs DEF Forest
  <2>2. \A x \in W : x \in Kept(u.page, W)
    BY KeptIs
  <2> QED
    BY <2>1, <2>2 DEF OneId
<1> HIDE DEF h
<1> DEFINE m == h + 1
<1>4. PICK w \in W : OffFirst(u.page, todo, W, w, m)
  <2>1. m \in Nat /\ Taken(u.page, todo, W, m)
    BY <1>1, <1>2
  <2> HIDE DEF m
  <2> QED
    BY <1>3, <2>1, TakenFirst
<1> DEFINE V == W \ {w}
<1>5. Leaving(u, d, n, b, V) /\ SameData(Kept(u.page, W), Kept(d.page, V \cup Pairs(n)))
  BY <1>1, <1>4, NodeLeaves
<1> HIDE DEF n, b, d, z, V
<1> DEFINE Z == Ids(b)
<1>6. /\ Works(d, V \cup Pairs(n), Z, Z) /\ V \cap Pairs(n) = {} /\ Alike(u, d)
      /\ d.m_u64Data = u.m_u64Data /\ Low(d.page, d.m_rootID, V \cup Pairs(n))
      /\ Taken(d.page, b, V, n.m_level)
      /\ n.m_level \in Nat /\ n.m_level <= d.page[d.m_rootID].m_level
      /\ n \in NodeT /\ Shapely(n.entries) /\ Distinct(n.entries)
  BY <1>5 DEF Leaving
<1> HIDE DEF Z
<1>7. z = EnteringAreFun(d, n, Len(n.entries))[Len(n.entries)]
  BY EntriesBackIs DEF z, d
<1>8. CanTake(d)
  BY <1>1, <1>6, AlikeTake
<1>9. Entered(d, z, V, Z, Z, Kept(d.page, V \cup Pairs(n)))
  BY <1>6, <1>7, <1>8, EntriesEnter
<1>10. /\ Works(z, V, Z, Z) /\ Alike(d, z) /\ Rests(d.page, z.page, V)
       /\ d.page[d.m_rootID].m_level <= z.page[d.m_rootID].m_level
       /\ SameData(Kept(d.page, V \cup Pairs(n)), Kept(z.page, V)) /\ z.m_u64Data = d.m_u64Data
  BY <1>9 DEF Entered
<1>11. z.m_rootID = d.m_rootID
  BY <1>10 DEF Alike
<1>12. Alike(t, z)
  BY <1>1, <1>6, <1>10, AlikeTwice
<1>13. SameData(K, Kept(z.page, V))
  BY <1>1, <1>5, <1>10 DEF SameData
<1>14. Taken(z.page, b, V, z.page[z.m_rootID].m_level + 1)
  <2> DEFINE g == z.page[z.m_rootID].m_level
  <2> DEFINE l == d.page[d.m_rootID].m_level
  <2>1. g \in Nat /\ l \in Nat
    <3>1. z.m_rootID \in DOMAIN z.page /\ \A p \in DOMAIN z.page : z.page[p].m_level \in Nat
      BY <1>10, WorksIs
    <3>2. d.m_rootID \in DOMAIN d.page /\ \A p \in DOMAIN d.page : d.page[p].m_level \in Nat
      BY <1>6, WorksIs
    <3> QED
      BY <3>1, <3>2
  <2>2. n.m_level <= l /\ l <= g
    BY <1>6, <1>10, <1>11
  <2> HIDE DEF g, l
  <2> DEFINE k == g + 1
  <2>3. k \in Nat /\ n.m_level <= k
    BY <1>6, <2>1, <2>2
  <2> HIDE DEF k
  <2>4. Taken(z.page, b, V, n.m_level)
    BY <1>6, <1>10, TakenRests
  <2>5. Taken(z.page, b, V, k)
    BY <1>6, <2>3, <2>4, TakenBelow
  <2> QED
    BY <2>5 DEF k, g
<1>15. Restoring(t, z, b, V, K)
  BY <1>1, <1>6, <1>10, <1>12, <1>13, <1>14 DEF Restoring, Z
<1> QED
  BY <1>15 DEF z, n, b


\* What is left of s behind number k.
Rest(s, k) == [i \in 1 .. Len(s) - k |-> s[i + k]]

RestGoes(s, k) ==
    /\ Rest(s, k - 1) # <<>> /\ Head(Rest(s, k - 1)) = s[k] /\ Tail(Rest(s, k - 1)) = Rest(s, k)

\* The nodes that have not come back yet.
LEMMA RestIs ==
    ASSUME NEW S, NEW s \in Seq(S), NEW n \in Nat, Len(s) = n
    PROVE  /\ Rest(s, 0) = s /\ Rest(s, n) = <<>>
           /\ \A k \in 1 .. n : RestGoes(s, k)
<1>1. DOMAIN s = 1 .. n /\ s = [i \in 1 .. n |-> s[i]]
  OBVIOUS
<1>2. \A i \in 1 .. n : s[i] \in S
  OBVIOUS
<1>3. \A k \in 0 .. n : \A i \in 1 .. n - k : i + k \in 1 .. n
  OBVIOUS
<1>4. \A k \in 0 .. n : n - k \in Nat
  OBVIOUS
<1>5. \A k \in 0 .. n : Rest(s, k) = [i \in 1 .. n - k |-> s[i + k]]
  BY DEF Rest
<1>6. ASSUME NEW k \in 0 .. n
      PROVE  /\ Rest(s, k) \in Seq(S) /\ Len(Rest(s, k)) = n - k
             /\ \A i \in 1 .. n - k : Rest(s, k)[i] = s[i + k]
  <2> DEFINE m == n - k
  <2> DEFINE f == Rest(s, k)
  <2>1. m \in Nat /\ f = [i \in 1 .. m |-> s[i + k]]
    BY <1>4, <1>5
  <2>2. \A i \in 1 .. m : s[i + k] \in S
    BY <1>2, <1>3
  <2> HIDE DEF m, f
  <2>3. f \in Seq(S)
    BY <2>1, <2>2
  <2>4. DOMAIN f = 1 .. m
    BY <2>1
  <2>5. Len(f) = m
    BY <2>1, <2>3, <2>4
  <2>6. \A i \in 1 .. m : f[i] = s[i + k]
    BY <2>1
  <2> QED
    BY <2>3, <2>5, <2>6 DEF m, f
<1>7. Rest(s, 0) = s
  <2>1. Rest(s, 0) = [i \in 1 .. n |-> s[i]]
    BY <1>5
  <2> QED
    BY <1>1, <2>1
<1>8. Rest(s, n) = <<>>
  <2> DEFINE f == Rest(s, n)
  <2>1. f \in Seq(S) /\ Len(f) = 0
    BY <1>6
  <2> HIDE DEF f
  <2>2. f = <<>>
    BY <2>1, EmptySeq
  <2> QED
    BY <2>2 DEF f
<1>9. ASSUME NEW k \in 1 .. n PROVE RestGoes(s, k)
  <2> DEFINE a == Rest(s, k - 1)
  <2> DEFINE b == Rest(s, k)
  <2>1. k - 1 \in 0 .. n /\ k \in 0 .. n /\ 1 \in 1 .. n - (k - 1) /\ 1 + (k - 1) = k
    OBVIOUS
  <2>2. /\ a \in Seq(S) /\ Len(a) = n - (k - 1) /\ b \in Seq(S) /\ Len(b) = n - k /\ a[1] = s[k]
    BY <1>6, <2>1
  <2>3. \A i \in 1 .. n - k : b[i] = s[i + k] /\ a[i + 1] = s[i + k]
    <3> SUFFICES ASSUME NEW i \in 1 .. n - k PROVE b[i] = s[i + k] /\ a[i + 1] = s[i + k]
      OBVIOUS
    <3>1. i + 1 \in 1 .. n - (k - 1) /\ (i + 1) + (k - 1) = i + k
      OBVIOUS
    <3> QED
      BY <1>6, <2>1, <3>1
  <2> HIDE DEF a, b
  <2>4. n - (k - 1) = (n - k) + 1 /\ n - k \in Nat
    OBVIOUS
  <2> DEFINE m == n - k
  <2>5. m \in Nat /\ Len(a) = m + 1 /\ Len(b) = m /\ \A i \in 1 .. m : b[i] = a[i + 1]
    BY <2>2, <2>3, <2>4
  <2> HIDE DEF m
  <2>6. a # <<>>
    BY <2>2, <2>5
  <2>7. /\ Tail(a) \in Seq(S) /\ Len(Tail(a)) = Len(a) - 1 /\ Head(a) = a[1]
        /\ \A i \in 1 .. Len(Tail(a)) : Tail(a)[i] = a[i + 1]
    BY <2>2, <2>6, HeadTailProperties
  <2>8. Len(Tail(a)) = m
    BY <2>5, <2>7
  <2>9. Tail(a) = b
    BY <2>2, <2>5, <2>7, <2>8, SeqEqual
  <2> QED
    BY <2>2, <2>6, <2>7, <2>9 DEF RestGoes, a, b
<1> QED
  BY <1>7, <1>8, <1>9

\* The nodes that were taken out come back one after the other.
RestoringAreFun(b, todo, n) == CHOOSE g : g = [k \in 0 .. n |-> IF k = 0 THEN b ELSE EntriesBack(g[k - 1], todo[k])]

\* The nodes taken out, as a recursion.
LEMMA RestoringAre ==
    ASSUME NEW b, NEW todo, NEW n \in Nat, NEW f, f = RestoringAreFun(b, todo, n)
    PROVE  /\ f[0] = b
           /\ \A k \in 1 .. n : f[k] = EntriesBack(f[k - 1], todo[k])
<1> DEFINE S(k, x) == EntriesBack(x, todo[k])
<1> DEFINE B == b
<1> DEFINE Solves(m, g) == g = [k \in 0 .. m |-> IF k = 0 THEN B ELSE S(k, g[k - 1])]
<1> DEFINE Wrong == {m \in Nat : ~ \E g : Solves(m, g)}
<1> HIDE DEF S, B
<1>1. ASSUME Wrong # {} PROVE FALSE
  <2>1. PICK m \in Wrong : \A j \in Wrong : m <= j
    BY <1>1, LeastExists
  <2>2. CASE m = 0
    <3> DEFINE g == [k \in 0 .. 0 |-> B]
    <3>1. Solves(0, g)
      OBVIOUS
    <3> QED
      BY <2>1, <2>2, <3>1
  <2>3. CASE m # 0
    <3>1. m - 1 \in Nat /\ m - 1 \notin Wrong
      <4>1. m \in Nat /\ m - 1 \in Nat
        BY <2>1, <2>3
      <4> HIDE DEF Wrong
      <4> QED
        BY <2>1, <4>1
    <3>2. PICK g : Solves(m - 1, g)
      BY <3>1
    <3> DEFINE h == [k \in 0 .. m |-> IF k < m THEN g[k] ELSE S(m, g[m - 1])]
    <3>3. ASSUME NEW k \in 0 .. m PROVE h[k] = IF k = 0 THEN B ELSE S(k, h[k - 1])
      <4>1. CASE k = 0
        <5>1. g[0] = B
          BY <3>1, <3>2
        <5> QED
          BY <2>3, <4>1, <5>1
      <4>2. CASE k # 0 /\ k < m
        <5>1. k \in 0 .. m - 1 /\ k - 1 \in 0 .. m
          BY <4>2
        <5>2. g[k] = S(k, g[k - 1])
          BY <3>2, <4>2, <5>1
        <5>3. h[k] = g[k] /\ h[k - 1] = g[k - 1]
          BY <4>2, <5>1
        <5> HIDE DEF h
        <5> QED
          BY <4>2, <5>2, <5>3
      <4>3. CASE k = m
        <5>1. m - 1 \in 0 .. m /\ m - 1 < m
          BY <3>1
        <5>2. h[m] = S(m, g[m - 1]) /\ h[m - 1] = g[m - 1]
          BY <2>3, <5>1
        <5> HIDE DEF h
        <5> QED
          BY <2>3, <4>3, <5>2
      <4> QED
        BY <4>1, <4>2, <4>3
    <3>4. h = [k \in 0 .. m |-> h[k]]
      OBVIOUS
    <3> HIDE DEF h
    <3>5. Solves(m, h)
      BY <3>3, <3>4
    <3> QED
      BY <2>1, <3>5
  <2> QED
    BY <2>2, <2>3
<1>2. \E g : Solves(n, g)
  BY <1>1
<1>3. \E g : g = [k \in 0 .. n |-> IF k = 0 THEN B ELSE S(k, g[k - 1])]
  BY <1>2
<1>4. f = CHOOSE g : g = [k \in 0 .. n |-> IF k = 0 THEN B ELSE S(k, g[k - 1])]
  BY DEF S, B, RestoringAreFun
<1>5. f = [k \in 0 .. n |-> IF k = 0 THEN B ELSE S(k, f[k - 1])]
  BY <1>3, <1>4
<1>6. \A k \in 0 .. n : f[k] = IF k = 0 THEN B ELSE S(k, f[k - 1])
  BY <1>5, Zenon
<1>7. f[0] = B
  BY <1>6
<1>8. ASSUME NEW k \in 1 .. n PROVE f[k] = S(k, f[k - 1])
  <2>1. k \in 0 .. n /\ k # 0
    OBVIOUS
  <2> QED
    BY <1>6, <2>1
<1> QED
  BY <1>7, <1>8 DEF S, B

\* Condensed is the last node's result.
LEMMA CondensedIs ==
    ASSUME NEW c
    PROVE  Condensed(c) = RestoringAreFun(c.t, c.toReinsert, Len(c.toReinsert))[Len(c.toReinsert)]
  BY DEF Condensed, RestoringAreFun

\* All of them are back.
Restored(t, u, K) ==
    /\ Works(u, {}, {}, {}) /\ Alike(t, u) /\ u.m_u64Data = t.m_u64Data /\ SameData(K, Kept(u.page, {}))

\* When no node is left the tree is whole.
LEMMA NothingLeft ==
    ASSUME NEW t, NEW u, NEW todo, NEW W, NEW K, Restoring(t, u, todo, W, K), todo = <<>>
    PROVE  Restored(t, u, K)
<1>1. /\ Works(u, W, Ids(todo), Ids(todo)) /\ Alike(t, u) /\ u.m_u64Data = t.m_u64Data
      /\ SameData(K, Kept(u.page, W))
      /\ Taken(u.page, todo, W, u.page[u.m_rootID].m_level + 1)
  BY DEF Restoring
<1>2. DOMAIN todo = {}
  OBVIOUS
<1>3. Ids(todo) = {}
  BY <1>2 DEF Ids
<1>4. W = {}
  BY <1>1, <1>2 DEF Taken
<1> QED
  BY <1>1, <1>3, <1>4 DEF Restored

\* After every node came back the tree is whole, with the same data.
LEMMA CondensedKeeps ==
    ASSUME NEW t, CanTake(t), NEW c, NEW W, NEW K, Restoring(t, c.t, c.toReinsert, W, K)
    PROVE  Restored(t, Condensed(c), K)
<1> DEFINE todo == c.toReinsert
<1> DEFINE N == Len(todo)
<1> DEFINE f == RestoringAreFun(c.t, todo, N)
<1>1. todo \in Seq(NodeT)
  BY DEF Restoring, Taken
<1>2. N \in Nat
  BY <1>1
<1>3. f[0] = c.t /\ \A k \in 1 .. N : f[k] = EntriesBack(f[k - 1], todo[k])
  <2> HIDE DEF N
  <2> QED
    BY <1>2, RestoringAre
<1>4. Rest(todo, 0) = todo /\ Rest(todo, N) = <<>> /\ \A k \in 1 .. N : RestGoes(todo, k)
  BY <1>1, <1>2, RestIs
<1>5. Condensed(c) = f[N]
  BY CondensedIs
<1> HIDE DEF f, N
<1> DEFINE Good(k) == \E V : Restoring(t, f[k], Rest(todo, k), V, K)
<1>6. Good(0)
  BY <1>3, <1>4
<1>7. ASSUME NEW k \in 1 .. N, Good(k - 1) PROVE Good(k)
  <2> DEFINE a == Rest(todo, k - 1)
  <2>1. PICK V : Restoring(t, f[k - 1], a, V, K)
    BY <1>7
  <2>2. a # <<>> /\ Head(a) = todo[k] /\ Tail(a) = Rest(todo, k)
    BY <1>4 DEF RestGoes
  <2> HIDE DEF a
  <2>3. \E U : Restoring(t, EntriesBack(f[k - 1], Head(a)), Tail(a), U, K)
    BY <2>1, <2>2, NodeRestored
  <2> QED
    BY <1>3, <2>2, <2>3
<1>8. \A k \in 0 .. N : Good(k)
  <2> HIDE DEF Good
  <2>1. SUFFICES ASSUME {k \in Nat : k <= N /\ ~ Good(k)} # {} PROVE FALSE
    BY <1>2
  <2>2. PICK k \in {j \in Nat : j <= N /\ ~ Good(j)} : \A j \in {j \in Nat : j <= N /\ ~ Good(j)} : k <= j
    BY <2>1, LeastExists
  <2>3. k # 0
    BY <1>6, <2>2
  <2>4. Good(k - 1)
    BY <1>2, <2>2, <2>3
  <2> QED
    BY <1>2, <1>7, <2>2, <2>3, <2>4
<1>9. Good(N)
  <2> HIDE DEF Good
  <2> QED
    BY <1>2, <1>8
<1>10. PICK V : Restoring(t, f[N], Rest(todo, N), V, K)
  BY <1>9
<1> QED
  BY <1>4, <1>5, <1>10, NothingLeft


\* A tree in which nothing waits is one that the queries can rely on.
LEMMA WorksLinked ==
    ASSUME NEW t, NEW Y, Works(t, {}, {}, Y)
    PROVE  Linked(t) /\ Bounded(t)
<1> DEFINE P == t.page
<1> DEFINE r == t.m_rootID
<1> DEFINE K == Kept(P, {})
<1>1. /\ Forest(P, r, {}, {}, Tight(t)) /\ r \in DOMAIN P
      /\ \A p \in DOMAIN P : /\ NodeOk(P[p], p, Tight(t)) /\ P[p].m_level \in Nat /\ p \in Nat
                             /\ Shapely(P[p].entries) /\ P[p].m_level <= P[r].m_level
  BY WorksIs
<1>2. Down(P, r, K, {}) /\ Held(P, r, K)
  BY <1>1 DEF Forest
<1>3. \A x : x \in K <=> \E p \in DOMAIN P : x \in Pairs(P[p])
  BY KeptIs
<1>4. ASSUME NEW p \in DOMAIN P PROVE P[p].m_level \in 0 .. root(t).m_level /\ DOMAIN P[p].entries \subseteq Nat
  <2>1. P[p].m_level \in Nat /\ P[r].m_level \in Nat /\ P[p].m_level <= P[r].m_level /\ root(t) = P[r]
    BY <1>1 DEF root
  <2> DEFINE n == Len(P[p].entries)
  <2>2. DOMAIN P[p].entries = 1 .. n /\ n \in Nat
    BY <1>1, ShapelyIs
  <2> HIDE DEF n
  <2>3. DOMAIN P[p].entries \subseteq Nat
    BY <2>2
  <2> QED
    BY <2>1, <2>3
<1>5. ASSUME NEW p \in DOMAIN P, P[p].m_level > 0, NEW e \in ToSet(P[p].entries)
      PROVE  e.id \in DOMAIN P /\ P[e.id].m_level = P[p].m_level - 1 /\ P[e.id].m_nodeMBR = e.mbr
  <2> DEFINE x == <<P[p].m_level, e>>
  <2>1. x \in Pairs(P[p])
    BY DEF Pairs
  <2>2. x \in K
    BY <1>3, <2>1
  <2>3. x[1] # 0 /\ x[1] = P[p].m_level /\ x[2] = e
    BY <1>1, <1>5
  <2> QED
    BY <1>2, <2>2, <2>3 DEF Down
<1>6. ASSUME NEW p \in DOMAIN P, p # r
      PROVE  \E q \in DOMAIN P : P[q].m_level > 0 /\ \E e \in ToSet(P[q].entries) : e.id = p
  <2>1. PICK x \in K : x[1] = P[p].m_level + 1 /\ x[2].id = p
    BY <1>2, <1>6 DEF Held
  <2>2. PICK q \in DOMAIN P : x \in Pairs(P[q])
    BY <1>3
  <2>3. PICK e \in ToSet(P[q].entries) : x = <<P[q].m_level, e>>
    BY <2>2 DEF Pairs
  <2>4. P[q].m_level = P[p].m_level + 1 /\ e.id = p /\ P[p].m_level \in Nat
    BY <1>1, <2>1, <2>3
  <2> QED
    BY <2>4
<1>7. Linked(t)
  BY <1>1, <1>4, <1>5, <1>6 DEF Linked
<1>8. ASSUME NEW p \in DOMAIN P
      PROVE  /\ P[p].m_nodeMBR \in AnyRegion
             /\ \A e \in ToSet(P[p].entries) : NonEmpty(e.mbr) /\ containsRegion(P[p].m_nodeMBR, e.mbr)
  <2>1. NodeOk(P[p], p, Tight(t)) /\ Shapely(P[p].entries)
    BY <1>1
  <2>2. P[p] \in NodeT
    BY <2>1 DEF NodeOk
  <2>3. P[p].m_nodeMBR \in AnyRegion
    BY <2>2 DEF NodeT
  <2> QED
    BY <2>1, <2>3, ShapelyIs DEF NodeOk
<1> QED
  BY <1>7, <1>8 DEF Bounded

\* The way from a leaf with the entry e.
FoundIn(t, e, way) ==
    /\ way # <<>> /\ Head(way) \in DOMAIN t.page /\ t.page[Head(way)].m_level = 0
    /\ e \in ToSet(t.page[Head(way)].entries)
    /\ Up(t.page, t.m_rootID, Head(way), 0, Tail(way))

\* What FindLeaf returns is a way from the root to the leaf that holds the entry.
LEMMA WayFound ==
    ASSUME NEW t, NEW Y, Works(t, {}, {}, Y), NEW e, NEW way, WayUp(t, e, way, t.m_rootID)
    PROVE  FoundIn(t, e, way)
<1> DEFINE n == Len(way)
<1>1. /\ way \in Seq(DOMAIN t.page) /\ n > 0 /\ way[n] = t.m_rootID /\ e \in Es(t, way[1])
      /\ \A i \in 1 .. n : Level(t, way[i]) = i - 1
      /\ \A i \in 1 .. n - 1 : \E x \in Es(t, way[i + 1]) : x.id = way[i]
  BY DEF WayUp
<1>2. \A p \in DOMAIN t.page : p \in Nat
  BY WorksIs
<1>3. n \in Nat /\ DOMAIN way = 1 .. n /\ (way = <<>> <=> n = 0) /\ \A k \in 1 .. n : way[k] \in DOMAIN t.page
  BY <1>1
<1>4. way \in Seq(Nat)
  <2>1. way = [k \in 1 .. n |-> way[k]]
    BY <1>1
  <2>2. \A k \in 1 .. n : way[k] \in Nat
    BY <1>2, <1>3
  <2> HIDE DEF n
  <2>3. [k \in 1 .. n |-> way[k]] \in Seq(Nat)
    BY <1>3, <2>2
  <2> QED
    BY <2>1, <2>3
<1> HIDE DEF n
<1>5. \A k \in 1 .. n : t.page[way[k]].m_level = 0 + (k - 1)
  <2> SUFFICES ASSUME NEW k \in 1 .. n PROVE t.page[way[k]].m_level = 0 + (k - 1)
    OBVIOUS
  <2>1. t.page[way[k]].m_level = k - 1
    BY <1>1 DEF Level
  <2>2. k - 1 = 0 + (k - 1)
    OBVIOUS
  <2> QED
    BY <2>1, <2>2
<1>6. \A k \in 1 .. n : k # 1 => \E x \in Es(t, way[k]) : x.id = way[k - 1]
  <2> SUFFICES ASSUME NEW k \in 1 .. n, k # 1 PROVE \E x \in Es(t, way[k]) : x.id = way[k - 1]
    OBVIOUS
  <2>1. k - 1 \in 1 .. n - 1 /\ (k - 1) + 1 = k
    BY <1>3
  <2> QED
    BY <1>1, <2>1
<1>7. WayTo(t, 0, way, t.m_rootID)
  <2>1. n # 0
    BY <1>1, <1>3
  <2> QED
    BY <1>1, <1>3, <1>4, <1>5, <1>6, <2>1 DEF WayTo, Level, n
<1>8. /\ way[1] \in DOMAIN t.page /\ t.page[way[1]].m_level = 0
      /\ Up(t.page, t.m_rootID, way[1], 0, Tail(way))
  BY <1>7, WayIsUp
<1>9. way # <<>>
  BY <1>1, <1>3
<1>10. Head(way) = way[1]
  BY <1>4, <1>9, TailIs
<1> QED
  BY <1>1, <1>8, <1>9, <1>10 DEF FoundIn, Es


\* In a leaf the first entry with the id is the one that was searched for.
LEMMA FoundByID ==
    ASSUME NEW es, Shapely(es), Distinct(es), NEW e \in ToSet(es)
    PROVE  LET k == Min({k \in DOMAIN es : es[k].id = e.id}) IN k \in DOMAIN es /\ es[k] = e
<1> DEFINE S == {k \in DOMAIN es : es[k].id = e.id}
<1> DEFINE n == Len(es)
<1>1. n \in Nat /\ DOMAIN es = 1 .. n
  BY ShapelyIs
<1>2. PICK j \in DOMAIN es : es[j] = e
  BY DEF ToSet
<1>3. S # {} /\ S \in SUBSET Int
  BY <1>1, <1>2
<1>4. IsFiniteSet(S)
  <2>1. IsFiniteSet(1 .. n)
    BY <1>1, FS_Interval
  <2>2. S \in SUBSET (1 .. n)
    BY <1>1
  <2> HIDE DEF S, n
  <2> QED
    BY <2>1, <2>2, FS_Subset
<1> DEFINE k == Min(S)
<1>5. k \in S
  <2> HIDE DEF S
  <2> QED
    BY <1>3, <1>4, MinIs
<1> HIDE DEF k
<1>6. k \in DOMAIN es /\ es[k].id = e.id
  BY <1>5
<1>7. k = j
  BY <1>2, <1>6 DEF Distinct
<1> QED
  BY <1>2, <1>6, <1>7 DEF k

\* An entry of a leaf goes, and what that brings about comes to an end.
Removed(t, u, e) ==
    /\ Works(u, {}, {}, {}) /\ Alike(t, u) /\ u.m_u64Data = t.m_u64Data
    /\ \A x : x \in Kept(u.page, {}) /\ x[1] = 0 <=> x \in Kept(t.page, {}) /\ x[1] = 0 /\ x # <<0, e>>

\* deleteData removes the entry that was found and nothing else.
LEMMA EntryRemoved ==
    ASSUME NEW t, Works(t, {}, {}, {}), CanTake(t), NEW e, NEW way, FoundIn(t, e, way)
    PROVE  Removed(t, deleteData(t, t.page[Head(way)], e.id, Tail(way)), e)
<1> DEFINE P == t.page
<1> DEFINE r == t.m_rootID
<1> DEFINE id == Head(way)
<1> DEFINE path == Tail(way)
<1> DEFINE n == P[id]
<1> DEFINE k == Min({j \in DOMAIN n.entries : n.entries[j].id = e.id})
<1> DEFINE q == deleteEntry(t, n, k)
<1> DEFINE v == writeNode(t, q)
<1> DEFINE w == <<0, e>>
<1> DEFINE X == IF t.m_bTightMBRs \/ q.entries = <<>> THEN {} \cup {id} ELSE {}
<1> DEFINE c == condenseTree(v, q, path)
<1> DEFINE u == Condensed(c)
<1>1. id \in DOMAIN P /\ n.m_level = 0 /\ e \in ToSet(n.entries) /\ Up(P, r, id, 0, path)
  BY DEF FoundIn
<1>2. Shapely(n.entries) /\ Distinct(n.entries) /\ r \in DOMAIN P
  BY <1>1, WorksIs DEF NodeOk
<1>3. k \in DOMAIN n.entries /\ n.entries[k] = e
  <2> DEFINE es == n.entries
  <2>1. Shapely(es) /\ Distinct(es) /\ e \in ToSet(es)
    BY <1>1, <1>2
  <2> HIDE DEF es
  <2>2. LET j == Min({i \in DOMAIN es : es[i].id = e.id}) IN j \in DOMAIN es /\ es[j] = e
    BY <2>1, FoundByID
  <2> QED
    BY <2>2 DEF es
<1>4. deleteData(t, n, e.id, path) = u
  BY DEF deleteData
<1> HIDE DEF k, q, v, c, u
<1>5. Shed(t, v, id, e, q, {}, {}, {})
  <2> DEFINE E == {}
  <2>1. Works(t, E, E, E) /\ id \in DOMAIN t.page /\ t.m_bTightMBRs = t.m_bTightMBRs /\ t.Far = t.Far
        /\ k \in DOMAIN t.page[id].entries /\ (t.page[id].m_level # 0 => 2 <= Len(t.page[id].entries))
    BY <1>1, <1>3
  <2> HIDE DEF E, id
  <2>2. Shed(t, writeNode(t, deleteEntry(t, t.page[id], k)), id, t.page[id].entries[k],
             deleteEntry(t, t.page[id], k), E, E, E)
    BY <2>1, EntryGoes
  <2> QED
    BY <1>3, <2>2 DEF v, q, E
<1> DEFINE W == {} \cup {<<n.m_level, e>>}
<1>6. /\ Written(t, v, q, id, W, X, {} \cup {id}) /\ Kept(v.page, W) = Kept(P, {}) /\ Loses(t, n, id, e, q)
  BY <1>5 DEF Shed
<1> DEFINE Y == {} \cup {id}
<1> HIDE DEF X
<1>7. W = {w}
  BY <1>1
<1> HIDE DEF W
<1>8. /\ Works(v, W, X, Y) /\ Same(t, v) /\ DOMAIN v.page = DOMAIN P /\ v.page[id] = q
      /\ \A o \in DOMAIN P : o # id => v.page[o] = P[o]
  BY <1>6 DEF Written
<1>9. v.m_rootID = r /\ v.m_bTightMBRs = t.m_bTightMBRs /\ v.m_u64Data = t.m_u64Data
  BY <1>8 DEF Same
<1> DEFINE E == {}
<1> DEFINE L == IF v.m_bTightMBRs \/ v.page[id].entries = <<>> THEN {id} ELSE {}
<1> DEFINE J == {id}
<1>10. X = L /\ Y = J
  BY <1>8, <1>9 DEF X
<1> HIDE DEF L, Y, J, E
<1>11. /\ Conf(v) /\ Forest(v.page, r, W, X, Tight(v)) /\ Sizes(v, v.page, r, Y) /\ Counts(v, v.page)
  BY <1>8, <1>9, WorksIs
<1>12. Dropped(v.page, r, W, X, Tight(v), w)
  <2>1. w \in W /\ w[1] = 0
    BY <1>7
  <2> HIDE DEF w, r
  <2> QED
    BY <1>11, <2>1, Leaves
<1>13. Works(v, E, L, J) /\ Kept(v.page, E) = Kept(P, E) \ {w}
  <2>1. W \ {w} = E
    BY <1>7 DEF E
  <2>2. Forest(v.page, r, E, X, Tight(v)) /\ Kept(v.page, E) = Kept(v.page, W) \ {w}
    BY <1>12, <2>1 DEF Dropped
  <2>3. Kept(v.page, W) = Kept(P, E)
    BY <1>6 DEF E
  <2>4. Works(v, E, X, Y)
    BY <1>9, <1>11, <2>2 DEF Works
  <2> QED
    BY <1>10, <2>2, <2>3, <2>4
<1>14. q.m_level = 0 /\ id \in DOMAIN v.page /\ v.page[id].m_level = 0
  <2>1. q.m_level = n.m_level
    BY <1>6 DEF Loses, Less
  <2> QED
    BY <1>1, <1>8, <2>1
<1>15. Up(v.page, r, id, 0, path)
  <2>1. \A j \in DOMAIN path : path[j] # id
    <3> SUFFICES ASSUME NEW j \in DOMAIN path PROVE path[j] # id
      OBVIOUS
    <3>1. P[path[j]].m_level = 0 + j
      BY <1>1 DEF Up
    <3>2. j \in Nat \ {0}
      <4>1. path \in Seq(Nat)
        BY <1>1 DEF Up
      <4> HIDE DEF path
      <4> QED
        BY <4>1
    <3> QED
      BY <1>1, <3>1, <3>2
  <2>2. \A j \in DOMAIN path : path[j] \in DOMAIN P
    BY <1>1 DEF Up
  <2>3. \A j \in DOMAIN path : v.page[path[j]] = P[path[j]] /\ path[j] \in DOMAIN v.page
    BY <1>8, <2>1, <2>2
  <2> HIDE DEF path, id
  <2> QED
    BY <1>1, <2>3 DEF Up
<1>16. \E V : Lopped(v, c.t, c.toReinsert, V, Kept(v.page, E))
  <2>1. v.page[id] = q
    BY <1>8
  <2>2. Works(v, {}, IF v.m_bTightMBRs \/ v.page[id].entries = <<>> THEN {id} ELSE {}, {id})
    BY <1>13 DEF E, L, J
  <2>3. Up(v.page, v.m_rootID, id, 0, path)
    BY <1>9, <1>15
  <2> HIDE DEF id, path, w, r
  <2>4. \E V : Lopped(v, condenseTree(v, v.page[id], path).t, condenseTree(v, v.page[id], path).toReinsert,
                      V, Kept(v.page, {}))
    BY <1>14, <2>2, <2>3, CondenseTreeKeeps
  <2> QED
    BY <2>1, <2>4 DEF E, c
<1>17. PICK V : Lopped(v, c.t, c.toReinsert, V, Kept(v.page, E))
  BY <1>16
<1>18. Restoring(v, c.t, c.toReinsert, V, Kept(v.page, E))
  BY <1>17 DEF Lopped, Restoring
<1>19. Alike(t, v)
  BY <1>8, SameAlike
<1>20. CanTake(v)
  BY <1>19, AlikeTake
<1>21. Restored(v, u, Kept(v.page, E))
  BY <1>18, <1>20, CondensedKeeps DEF u
<1>22. /\ Works(u, {}, {}, {}) /\ Alike(v, u) /\ u.m_u64Data = v.m_u64Data
       /\ SameData(Kept(v.page, E), Kept(u.page, {}))
  BY <1>21 DEF Restored
<1>23. Alike(t, u)
  BY <1>19, <1>22, AlikeTwice
<1>24. \A x : x \in Kept(u.page, {}) /\ x[1] = 0 <=> x \in Kept(P, {}) /\ x[1] = 0 /\ x # w
  <2> DEFINE A == Kept(v.page, E)
  <2> DEFINE B == Kept(u.page, {})
  <2> DEFINE C == Kept(P, {})
  <2>1. A = C \ {w} /\ {x \in A : x[1] = 0} = {x \in B : x[1] = 0}
    BY <1>13, <1>22 DEF E, SameData
  <2> HIDE DEF A, B, C, w
  <2> SUFFICES ASSUME NEW x PROVE x \in B /\ x[1] = 0 <=> x \in C /\ x[1] = 0 /\ x # w
    BY DEF B, C
  <2>2. x \in {y \in A : y[1] = 0} <=> x \in {y \in B : y[1] = 0}
    BY <2>1
  <2>3. x \in A <=> x \in C /\ x # w
    BY <2>1
  <2> QED
    BY <2>2, <2>3
<1>25. Removed(t, u, e)
  BY <1>9, <1>22, <1>23, <1>24 DEF Removed
<1> QED
  BY <1>4, <1>25


\* The tree without e.
OneLess(t, u, e) ==
    /\ Works(u, {}, {}, {}) /\ Alike(t, u) /\ DataOf(u) = DataOf(t) \ {e}
    /\ u.m_u64Data = IF e \in DataOf(t) THEN t.m_u64Data - 1 ELSE t.m_u64Data

\* A deletion finds the entry just if it is there, and takes it and nothing else away.
THEOREM DeletedKeeps ==
    ASSUME NEW t, Works(t, {}, {}, {}), CanTake(t), NEW e
    PROVE  OneLess(t, Deleted(t, e), e) /\ (Finds(t, e) <=> e \in DataOf(t))
<1> DEFINE way == findLeaf(t, e)
<1> DEFINE u == Deleted(t, e)
<1>1. Linked(t) /\ Bounded(t)
  BY WorksLinked
<1>2. (way # <<>> <=> e \in DataOf(t)) /\ (way # <<>> => WayUp(t, e, way, t.m_rootID))
  BY <1>1, SearchExact
<1>3. u = DeletedFrom(t, e, way)
  BY DEF Deleted
<1>4. Finds(t, e) <=> e \in DataOf(t)
  BY <1>2 DEF Finds
<1> HIDE DEF way, u
<1>5. CASE way = <<>>
  <2>1. u = t /\ e \notin DataOf(t)
    BY <1>2, <1>3, <1>5 DEF DeletedFrom
  <2>2. Alike(t, t)
    BY WorksIs DEF Alike
  <2> QED
    BY <1>4, <2>1, <2>2 DEF OneLess, u
<1>6. CASE way # <<>>
  <2> DEFINE v == deleteData(t, t.page[Head(way)], e.id, Tail(way))
  <2>1. u = [v EXCEPT !.m_u64Data = @ - 1] /\ e \in DataOf(t)
    BY <1>2, <1>3, <1>6 DEF DeletedFrom
  <2>2. FoundIn(t, e, way)
    BY <1>2, <1>6, WayFound
  <2>3. Removed(t, v, e)
    BY <2>2, EntryRemoved
  <2> HIDE DEF v
  <2>4. /\ Works(v, {}, {}, {}) /\ Alike(t, v) /\ v.m_u64Data = t.m_u64Data /\ IsTree(v)
        /\ \A x : x \in Kept(v.page, {}) /\ x[1] = 0 <=> x \in Kept(t.page, {}) /\ x[1] = 0 /\ x # <<0, e>>
    BY <2>3 DEF Removed, Alike
  <2>5. /\ Alike(v, u) /\ u.page = v.page /\ u.m_u32TreeHeight = v.m_u32TreeHeight
        /\ u.m_nodesInLevel = v.m_nodesInLevel /\ u.m_u32Nodes = v.m_u32Nodes
        /\ u.m_u64Data = v.m_u64Data - 1
    BY <2>1, <2>4 DEF IsTree, Fields, Alike
  <2>6. Works(u, {}, {}, {}) /\ Alike(t, u)
    BY <2>4, <2>5, WorksAlike, AlikeTwice
  <2>7. \A d : <<0, d>> \in Kept(u.page, {}) <=> <<0, d>> \in Kept(t.page, {}) /\ d # e
    <3> SUFFICES ASSUME NEW d PROVE <<0, d>> \in Kept(u.page, {}) <=> <<0, d>> \in Kept(t.page, {}) /\ d # e
      OBVIOUS
    <3> DEFINE x == <<0, d>>
    <3>1. x[1] = 0 /\ (x = <<0, e>> <=> d = e)
      OBVIOUS
    <3> HIDE DEF x
    <3>2. x \in Kept(u.page, {}) <=> x \in Kept(t.page, {}) /\ x # <<0, e>>
      BY <2>4, <2>5, <3>1
    <3> QED
      BY <3>1, <3>2 DEF x
  <2>8. \A d : d \in DataOf(t) <=> <<0, d>> \in Kept(t.page, {})
    <3> DEFINE P == t.page
    <3>1. Forest(P, t.m_rootID, {}, {}, Tight(t)) /\ t.page = P
      BY WorksIs
    <3> HIDE DEF P
    <3>2. \A d : d \in DataOf(t) <=> <<0, d>> \in Kept(P, {})
      BY <3>1, DataAre
    <3> QED
      BY <3>2 DEF P
  <2>9. \A d : d \in DataOf(u) <=> <<0, d>> \in Kept(u.page, {})
    <3> DEFINE P == u.page
    <3>1. Forest(P, u.m_rootID, {}, {}, Tight(u)) /\ u.page = P
      BY <2>6, WorksIs
    <3> HIDE DEF P
    <3>2. \A d : d \in DataOf(u) <=> <<0, d>> \in Kept(P, {})
      BY <3>1, DataAre
    <3> QED
      BY <3>2 DEF P
  <2>10. DataOf(u) = DataOf(t) \ {e}
    BY <2>7, <2>8, <2>9
  <2>11. u.m_u64Data = t.m_u64Data - 1
    BY <2>4, <2>5
  <2>12. OneLess(t, u, e)
    BY <2>1, <2>6, <2>10, <2>11 DEF OneLess
  <2> QED
    BY <1>4, <2>12 DEF u
<1> QED
  BY <1>5, <1>6


\* Different elements have different values: as many of these as of those.
LEMMA ImageCount ==
    ASSUME NEW S, IsFiniteSet(S), NEW f, \A x, y \in S : f[x] = f[y] => x = y
    PROVE  IsFiniteSet({f[x] : x \in S}) /\ Cardinality({f[x] : x \in S}) = Cardinality(S)
<1> DEFINE T == {f[x] : x \in S}
<1> DEFINE g == [x \in S |-> f[x]]
<1>1. g \in [S -> T]
  OBVIOUS
<1>2. \A x, y \in S : g[x] = g[y] => x = y
  OBVIOUS
<1>3. \A y \in T : \E x \in S : g[x] = y
  OBVIOUS
<1> HIDE DEF g, T
<1>4. g \in Bijection(S, T)
  BY <1>1, <1>2, <1>3 DEF Bijection, Injection, Surjection, IsInjective
<1>5. ExistsBijection(S, T)
  BY <1>4 DEF ExistsBijection
<1> QED
  BY <1>5, FS_Bijection DEF T

(***************************************************************************)
(* What the tree of a behaviour is                                         *)
(***************************************************************************)
LEMMA TreeIs ==
    ASSUME Works(rtree, {}, {}, {})
    PROVE  /\ \A p \in DOMAIN rtree.page :
                 /\ rtree.page[p].m_identifier = p /\ NodeOk(rtree.page[p], p, Tight(rtree))
                 /\ rtree.page[p].m_level \in Nat
           /\ \A n \in Nodes : n.m_identifier \in DOMAIN rtree.page /\ rtree.page[n.m_identifier] = n
           /\ \A p, q \in DOMAIN rtree.page : rtree.page[p] = rtree.page[q] => p = q
           /\ IsFiniteSet(DOMAIN rtree.page) /\ rtree.m_rootID \in DOMAIN rtree.page
<1>1. /\ rtree.m_rootID \in DOMAIN rtree.page /\ IsFiniteSet(DOMAIN rtree.page)
      /\ \A p \in DOMAIN rtree.page : /\ NodeOk(rtree.page[p], p, Tight(rtree))
                                      /\ rtree.page[p].m_identifier = p /\ rtree.page[p].m_level \in Nat
  BY WorksIs
<1>2. \A n \in Nodes : n.m_identifier \in DOMAIN rtree.page /\ rtree.page[n.m_identifier] = n
  BY <1>1 DEF Nodes
<1>3. \A p, q \in DOMAIN rtree.page : rtree.page[p] = rtree.page[q] => p = q
  BY <1>1
<1> QED
  BY <1>1, <1>2, <1>3

\* The invariants of the runs are parts of Works.
LEMMA LinkedOnceHolds ==
    ASSUME Works(rtree, {}, {}, {})
    PROVE  LinkedOnce
<1> DEFINE P == rtree.page
<1> DEFINE r == rtree.m_rootID
<1> DEFINE K == Kept(P, {})
<1>1. /\ \A p \in DOMAIN P : P[p].m_identifier = p /\ NodeOk(P[p], p, Tight(rtree)) /\ P[p].m_level \in Nat
      /\ \A n \in Nodes : n.m_identifier \in DOMAIN P /\ P[n.m_identifier] = n
  BY TreeIs
<1>2. OneId(K) /\ OneHolder(P, {}) /\ Down(P, r, K, {})
  BY WorksIs DEF Forest
<1>3. Linked(rtree)
  BY WorksLinked
<1>4. ASSUME NEW n \in Nodes, n.m_level > 0, NEW e \in ToSet(n.entries)
      PROVE  /\ <<n.m_level, e>> \in Pairs(n) /\ <<n.m_level, e>> \in K
             /\ e.id # r /\ e.id \in DOMAIN P /\ n.m_level = P[e.id].m_level + 1
  <2>1. n.m_level \in Nat /\ n.m_identifier \in DOMAIN P /\ P[n.m_identifier] = n
    BY <1>1
  <2> DEFINE x == <<n.m_level, e>>
  <2>2. x \in Pairs(n)
    BY DEF Pairs
  <2>3. x[1] = n.m_level /\ x[2] = e /\ x[1] # 0
    BY <1>4, <2>1
  <2> HIDE DEF x
  <2>4. x \in K
    BY <2>1, <2>2, KeptIs
  <2>5. e.id \in DOMAIN P /\ e.id # r /\ P[e.id].m_level = n.m_level - 1
    BY <1>2, <2>3, <2>4 DEF Down
  <2>6. n.m_level = P[e.id].m_level + 1
    BY <2>1, <2>5
  <2> QED
    BY <2>2, <2>4, <2>5, <2>6 DEF x
<1>5. ASSUME NEW n \in Nodes, n.m_level > 0
      PROVE  Cardinality({e.id : e \in ToSet(n.entries)}) = Len(n.entries)
  <2> DEFINE es == n.entries
  <2> DEFINE l == Len(es)
  <2> DEFINE f == [k \in 1 .. l |-> es[k].id]
  <2>1. Shapely(es) /\ Distinct(es)
    BY <1>1 DEF NodeOk
  <2> HIDE DEF es
  <2>2. l \in Nat /\ DOMAIN es = 1 .. l
    BY <2>1, ShapelyIs
  <2> HIDE DEF l
  <2>3. \A x, y \in 1 .. l : f[x] = f[y] => x = y
    BY <2>1, <2>2 DEF Distinct
  <2>4. {e.id : e \in ToSet(es)} = {f[k] : k \in 1 .. l}
    BY <2>2 DEF ToSet
  <2>5. IsFiniteSet(1 .. l) /\ Cardinality(1 .. l) = l
    BY <2>2, FS_Interval
  <2> DEFINE S == 1 .. l
  <2>6. IsFiniteSet(S) /\ Cardinality(S) = l /\ \A x, y \in S : f[x] = f[y] => x = y
    BY <2>3, <2>5
  <2>7. {e.id : e \in ToSet(es)} = {f[x] : x \in S}
    BY <2>4
  <2> HIDE DEF f, S
  <2>8. Cardinality({f[x] : x \in S}) = Cardinality(S)
    BY <2>6, ImageCount
  <2> QED
    BY <2>6, <2>7, <2>8 DEF es, l
<1>6. ASSUME NEW n \in Nodes, n.m_level > 0, NEW m \in Nodes, m # n, m.m_level > 0,
             NEW e \in ToSet(n.entries), NEW f \in ToSet(m.entries), e.id = f.id
      PROVE  FALSE
  <2>1. /\ <<n.m_level, e>> \in Pairs(n) /\ <<n.m_level, e>> \in K /\ n.m_level = P[e.id].m_level + 1
    BY <1>4, <1>6
  <2>2. /\ <<m.m_level, f>> \in Pairs(m) /\ <<m.m_level, f>> \in K /\ m.m_level = P[f.id].m_level + 1
    BY <1>4, <1>6
  <2>3. n.m_level = m.m_level
    BY <1>6, <2>1, <2>2
  <2>4. <<n.m_level, e>> = <<m.m_level, f>>
    <3> DEFINE x == <<n.m_level, e>>
    <3> DEFINE y == <<m.m_level, f>>
    <3>1. x \in K /\ y \in K /\ x[1] = y[1] /\ x[2].id = y[2].id
      BY <1>6, <2>1, <2>2, <2>3
    <3> HIDE DEF x, y, K
    <3>2. x = y
      BY <1>2, <3>1 DEF OneId
    <3> QED
      BY <3>2 DEF x, y
  <2>5. n.m_identifier = m.m_identifier
    BY <1>1, <1>2, <2>1, <2>2, <2>4 DEF OneHolder
  <2> QED
    BY <1>1, <1>6, <2>5
<1> QED
  BY <1>1, <1>3, <1>4, <1>5, <1>6 DEF LinkedOnce

\* Regions,
LEMMA BoundedTightlyHolds ==
    ASSUME Works(rtree, {}, {}, {})
    PROVE  BoundedTightly
<1>1. Bounded(rtree)
  BY WorksLinked
<1>2. \A n \in Nodes : NodeOk(n, n.m_identifier, Tight(rtree))
  BY TreeIs
<1>3. \A n \in Nodes : Tight(rtree) => n.m_nodeMBR = Around(n.entries)
  BY <1>2 DEF NodeOk
<1> QED
  BY <1>1, <1>3 DEF BoundedTightly, Tight

\* sizes
LEMMA FilledHolds ==
    ASSUME Works(rtree, {}, {}, {})
    PROVE  Filled
<1> SUFFICES ASSUME NEW n \in Nodes
             PROVE  /\ Len(n.entries) <= Of(rtree.m_capacity, n.m_level)
                    /\ n # root(rtree) => Len(n.entries) >= 1
                    /\ n # root(rtree) /\ rtree.m_treeVariant # "RV_RSTAR" /\ loaded = "no" =>
                          Len(n.entries) >= Of(rtree.m_minimumLoad, n.m_level)
  BY DEF Filled
<1> DEFINE c == rtree
<1> DEFINE p == n.m_identifier
<1> DEFINE l == n.m_level
<1> DEFINE a == Len(n.entries)
<1>1. p \in DOMAIN c.page /\ c.page[p] = n /\ l \in Nat /\ NodeOk(n, p, Tight(c))
  BY TreeIs
<1>2. a \in Nat
  BY <1>1, ShapelyIs DEF NodeOk
<1>3. Sizes(c, c.page, c.m_rootID, {}) /\ Sized(c)
  BY WorksIs
<1>4. a <= Of(c.m_capacity, l) /\ (p # c.m_rootID => Least(c, l) <= a)
  BY <1>1, <1>3 DEF Sizes
<1>5. n # root(c) => p # c.m_rootID
  BY <1>1 DEF root
<1>6. /\ Of(c.m_minimumLoad, l) \in Nat /\ (IF l = 0 THEN 1 ELSE 2) <= Of(c.m_minimumLoad, l)
  BY <1>1, <1>3 DEF Sized
<1> HIDE DEF a, l, p
<1>7. Least(c, l) \in Nat /\ 1 <= Least(c, l)
  <2> DEFINE m == Of(c.m_minimumLoad, l)
  <2>1. m \in Nat /\ (IF l = 0 THEN 1 ELSE 2) <= m
    BY <1>6
  <2> HIDE DEF m
  <2>2. m \in Nat /\ 1 <= m
    BY <2>1
  <2> QED
    BY <2>2 DEF Least, m
<1>8. c.m_treeVariant # "RV_RSTAR" => Least(c, l) = Of(c.m_minimumLoad, l)
  BY DEF Least
<1>9. n # root(c) => a >= 1
  BY <1>2, <1>4, <1>5, <1>7
<1>10. n # root(c) /\ c.m_treeVariant # "RV_RSTAR" => a >= Of(c.m_minimumLoad, l)
  BY <1>2, <1>4, <1>5, <1>6, <1>8
<1> QED
  BY <1>4, <1>9, <1>10 DEF a, l

\* and counters are those of the tree.
LEMMA CountedHolds ==
    ASSUME Works(rtree, {}, {}, {}), rtree.m_u64Data = Cardinality(DataOf(rtree))
    PROVE  Counted
<1> DEFINE P == rtree.page
<1>1. Counts(rtree, P) /\ IsFiniteSet(DOMAIN P)
  BY WorksIs
<1>2. \A p, q \in DOMAIN P : P[p] = P[q] => p = q
  BY TreeIs
<1>3. rtree.m_u32TreeHeight = root(rtree).m_level + 1
  BY <1>1 DEF Counts, root
<1>4. rtree.m_u32Nodes = Cardinality(Nodes)
  <2>1. Nodes = {P[p] : p \in DOMAIN P}
    BY DEF Nodes
  <2> DEFINE f == P
  <2> DEFINE S == DOMAIN P
  <2>2. IsFiniteSet(S) /\ \A p, q \in S : f[p] = f[q] => p = q
    BY <1>1, <1>2
  <2>3. Nodes = {f[x] : x \in S}
    BY <2>1
  <2>4. rtree.m_u32Nodes = Cardinality(S)
    BY <1>1 DEF Counts
  <2> HIDE DEF f, S
  <2>5. Cardinality({f[x] : x \in S}) = Cardinality(S)
    BY <2>2, ImageCount
  <2> QED
    BY <2>3, <2>4, <2>5
<1>5. ASSUME NEW l \in 1 .. rtree.m_u32TreeHeight
      PROVE  rtree.m_nodesInLevel[l] = Cardinality({n \in Nodes : n.m_level = l - 1})
  <2> DEFINE f == P
  <2> DEFINE S == OnLevel(P, l - 1)
  <2>1. S \in SUBSET DOMAIN P
    BY DEF OnLevel
  <2>2. IsFiniteSet(S) /\ \A p, q \in S : f[p] = f[q] => p = q
    <3>1. IsFiniteSet(S)
      BY <1>1, <2>1, FS_Subset
    <3> QED
      BY <1>2, <2>1, <3>1
  <2>3. {n \in Nodes : n.m_level = l - 1} = {f[x] : x \in S}
    BY DEF Nodes, OnLevel
  <2>4. rtree.m_nodesInLevel[l] = Cardinality(S)
    BY <1>1 DEF Counts
  <2> HIDE DEF f, S
  <2>5. Cardinality({f[x] : x \in S}) = Cardinality(S)
    BY <2>2, ImageCount
  <2> QED
    BY <2>3, <2>4, <2>5
<1> QED
  BY <1>3, <1>4, <1>5 DEF Counted, Entries


\* A configuration that initNew accepts, with room for splits.
Accepted(c) ==
    /\ {"m_treeVariant", "m_capacity", "m_minimumLoad", "m_bTightMBRs", "m_nearMinimumOverlapFactor",
        "cReinsert", "nodeSPF", "Far"} \subseteq DOMAIN c
    /\ Sized(c) /\ c.m_bTightMBRs \in BOOLEAN /\ c.Far \in BOOLEAN /\ CanTake(c)

IsBare(t, c) ==
    /\ IsTree(t) /\ t.page = [p \in {} |-> 0] /\ t.m_rootID = 0 /\ t.m_u32TreeHeight = 1
    /\ t.m_nodesInLevel = <<0>> /\ t.m_u32Nodes = 0 /\ t.m_u64Data = 0
    /\ t.overflowTable = {} /\ t.tableSize = 0 /\ t.outside = FALSE
    /\ t.m_treeVariant = c.m_treeVariant /\ t.m_capacity = c.m_capacity
    /\ t.m_minimumLoad = c.m_minimumLoad /\ t.m_bTightMBRs = c.m_bTightMBRs
    /\ t.m_nearMinimumOverlapFactor = c.m_nearMinimumOverlapFactor
    /\ t.cReinsert = c.cReinsert /\ t.nodeSPF = c.nodeSPF /\ t.Far = c.Far

\* The tree's settings before it has a page.
LEMMA BareIs ==
    ASSUME NEW c, Accepted(c)
    PROVE  IsBare(Bare(c), c)
<1> DEFINE a == [page |-> [p \in {} |-> 0], m_rootID |-> 0, m_u32TreeHeight |-> 1,
                 m_nodesInLevel |-> <<0>>, m_u32Nodes |-> 0, m_u64Data |-> 0,
                 overflowTable |-> {}, tableSize |-> 0, outside |-> FALSE]
<1> DEFINE t == Bare(c)
<1>1. t = [x \in (DOMAIN a) \cup (DOMAIN c) |-> IF x \in DOMAIN a THEN a[x] ELSE c[x]]
  BY DEF Bare
<1>2. DOMAIN a = {"page", "m_rootID", "m_u32TreeHeight", "m_nodesInLevel", "m_u32Nodes", "m_u64Data",
                  "overflowTable", "tableSize", "outside"}
  OBVIOUS
<1>3. /\ a.page = [p \in {} |-> 0] /\ a.m_rootID = 0 /\ a.m_u32TreeHeight = 1
      /\ a.m_nodesInLevel = <<0>> /\ a.m_u32Nodes = 0 /\ a.m_u64Data = 0
      /\ a.overflowTable = {} /\ a.tableSize = 0 /\ a.outside = FALSE
  OBVIOUS
<1> HIDE DEF a, t
<1>4. DOMAIN t = (DOMAIN a) \cup (DOMAIN c)
  BY <1>1
<1>5. Fields \subseteq DOMAIN t
  BY <1>2, <1>4 DEF Fields, Accepted
<1>6. \A x \in DOMAIN a : t[x] = a[x]
  BY <1>1
<1>7. \A x \in DOMAIN c : x \notin DOMAIN a => t[x] = c[x]
  BY <1>1
<1>8. /\ t.page = a.page /\ t.m_rootID = a.m_rootID /\ t.m_u32TreeHeight = a.m_u32TreeHeight
      /\ t.m_nodesInLevel = a.m_nodesInLevel /\ t.m_u32Nodes = a.m_u32Nodes /\ t.m_u64Data = a.m_u64Data
      /\ t.overflowTable = a.overflowTable /\ t.tableSize = a.tableSize /\ t.outside = a.outside
  BY <1>2, <1>6
<1>9. /\ t.m_treeVariant = c.m_treeVariant /\ t.m_capacity = c.m_capacity
      /\ t.m_minimumLoad = c.m_minimumLoad /\ t.m_bTightMBRs = c.m_bTightMBRs
      /\ t.m_nearMinimumOverlapFactor = c.m_nearMinimumOverlapFactor
      /\ t.cReinsert = c.cReinsert /\ t.nodeSPF = c.nodeSPF /\ t.Far = c.Far
  BY <1>2, <1>7 DEF Accepted
<1> QED
  BY <1>3, <1>5, <1>8, <1>9 DEF IsBare, IsTree, t

\* A tree that was just made.
Fresh(t, c) ==
    /\ Works(t, {}, {}, {}) /\ CanTake(t) /\ DataOf(t) = {} /\ t.m_u64Data = 0
    /\ t.outside = FALSE /\ t.m_treeVariant = c.m_treeVariant

\* The empty leaf.
LEMMA EmptyLeafIs ==
    ASSUME NEW tight, NEW q, q = Node(0, 0, <<>>)
    PROVE  /\ NodeOk(q, 0, tight) /\ q.m_identifier = 0 /\ q.m_level = 0 /\ q.entries = <<>>
           /\ Pairs(q) = {} /\ ToSet(q.entries) = {} /\ Len(q.entries) = 0
<1> DEFINE s == <<>>
<1>1. s \in Seq(EntryT) /\ DOMAIN s = {} /\ Len(s) = 0 /\ ToSet(s) = {} /\ s = <<>>
  BY DEF ToSet
<1>2. q = Node(0, 0, s)
  OBVIOUS
<1> HIDE DEF s
<1>3. Shapely(s) /\ Distinct(s) /\ 0 \in Int /\ 0 \in Nat
  BY <1>1 DEF Shapely, Distinct
<1>4. NodeOk(q, 0, tight) /\ q.m_identifier = 0 /\ q.m_level = 0 /\ q.entries = s
  BY <1>2, <1>3, NodeIs
<1> QED
  BY <1>1, <1>4 DEF Pairs

\* A new tree is the empty leaf.
LEMMA NewIs ==
    ASSUME NEW c, Accepted(c)
    PROVE  Fresh(initNew(c), c)
<1> DEFINE b == Bare(c)
<1> DEFINE t == initNew(c)
<1> DEFINE q == Node(0, 0, <<>>)
<1> DEFINE Q == Node(Unused(b), 0, <<>>)
<1>1. IsBare(b, c)
  BY BareIs
<1>2. t = writeNode(b, Node(NewPage, 0, <<>>))
  BY DEF initNew
<1> HIDE DEF b, t
<1>3. IsTree(b) /\ b.page = [p \in {} |-> 0]
  BY <1>1 DEF IsBare
<1>4. Created(b, t, Q)
  BY <1>2, <1>3, WriteNewIs
<1>5. DOMAIN b.page = {}
  BY <1>3
<1>6. Unused(b) = 0
  <2>1. Unused(b) = Min(0 .. Cardinality({}) \ {})
    BY <1>5 DEF Unused
  <2>2. Cardinality({}) = 0
    BY FS_EmptySet
  <2> DEFINE S == {0}
  <2>3. S = 0 .. 0 \ {} /\ S \in SUBSET Int /\ S # {}
    OBVIOUS
  <2>4. IsFiniteSet(S)
    BY FS_Singleton
  <2>5. Unused(b) = Min(S)
    BY <2>1, <2>2, <2>3
  <2> HIDE DEF S
  <2>6. Min(S) \in S
    BY <2>3, <2>4, MinIs
  <2> QED
    BY <2>5, <2>6 DEF S
<1>7. Q = q
  BY <1>6
<1> HIDE DEF q, Q
<1>8. /\ \A tight : NodeOk(q, 0, tight)
      /\ q.m_identifier = 0 /\ q.m_level = 0 /\ q.entries = <<>>
      /\ Pairs(q) = {} /\ ToSet(q.entries) = {} /\ Len(q.entries) = 0
  BY EmptyLeafIs DEF q
<1>9. Created(b, t, q)
  BY <1>4, <1>7
<1>10. /\ Same(b, t) /\ t.page = Stored(b.page, q) /\ t.m_u32TreeHeight = b.m_u32TreeHeight
       /\ t.m_nodesInLevel = [b.m_nodesInLevel EXCEPT ![q.m_level + 1] = @ + 1]
       /\ t.m_u32Nodes = b.m_u32Nodes + 1 /\ t.outside = b.outside
  BY <1>9 DEF Created
<1>11. IsTree(t) /\ t.m_rootID = 0 /\ t.m_u64Data = 0 /\ t.outside = FALSE
       /\ t.m_u32Nodes = 1 /\ t.m_u32TreeHeight = 1
  BY <1>1, <1>10 DEF IsBare, Same
<1>12. /\ t.m_treeVariant = c.m_treeVariant /\ t.m_capacity = c.m_capacity
       /\ t.m_minimumLoad = c.m_minimumLoad /\ t.m_bTightMBRs = c.m_bTightMBRs
       /\ t.m_nearMinimumOverlapFactor = c.m_nearMinimumOverlapFactor
       /\ t.cReinsert = c.cReinsert /\ t.nodeSPF = c.nodeSPF /\ t.Far = c.Far
  <2>1. Same(b, t) /\ IsBare(b, c)
    BY <1>1, <1>10
  <2>2. /\ t.m_treeVariant = b.m_treeVariant
          /\ t.m_capacity = b.m_capacity
          /\ t.m_minimumLoad = b.m_minimumLoad
          /\ t.m_bTightMBRs = b.m_bTightMBRs
          /\ t.m_nearMinimumOverlapFactor = b.m_nearMinimumOverlapFactor
          /\ t.cReinsert = b.cReinsert
          /\ t.nodeSPF = b.nodeSPF
          /\ t.Far = b.Far
    BY <2>1 DEF Same
  <2>3. /\ b.m_treeVariant = c.m_treeVariant
          /\ b.m_capacity = c.m_capacity
          /\ b.m_minimumLoad = c.m_minimumLoad
          /\ b.m_bTightMBRs = c.m_bTightMBRs
          /\ b.m_nearMinimumOverlapFactor = c.m_nearMinimumOverlapFactor
          /\ b.cReinsert = c.cReinsert
          /\ b.nodeSPF = c.nodeSPF
          /\ b.Far = c.Far
    BY <2>1 DEF IsBare
  <2> QED
    BY <2>2, <2>3
<1>13. Conf(t) /\ CanTake(t)
  BY <1>11, <1>12 DEF Accepted, Conf, CanTake, Sized, Of
<1> DEFINE P == t.page
<1>14. DOMAIN P = {0} /\ P[0] = q
  <2> DEFINE R == b.page
  <2>1. DOMAIN R = {} /\ P = Stored(R, q)
    BY <1>5, <1>10
  <2> HIDE DEF R, P
  <2>2. DOMAIN Stored(R, q) = DOMAIN R \cup {q.m_identifier} /\ Stored(R, q)[q.m_identifier] = q
    BY StoredIs
  <2> QED
    BY <1>8, <2>1, <2>2
<1>15. t.m_nodesInLevel \in Seq(Int) /\ Len(t.m_nodesInLevel) = 1 /\ t.m_nodesInLevel[1] = 1
  <2> DEFINE s == <<0>>
  <2>1. s \in Seq(Int) /\ Len(s) = 1 /\ DOMAIN s = 1 .. 1 /\ s[1] = 0
    OBVIOUS
  <2>2. b.m_nodesInLevel = s
    BY <1>1 DEF IsBare
  <2>3. t.m_nodesInLevel = [s EXCEPT ![1] = @ + 1]
    BY <1>8, <1>10, <2>2
  <2> HIDE DEF s
  <2> QED
    BY <2>1, <2>3
<1> HIDE DEF P
<1>16. IsFiniteSet({0}) /\ Cardinality({0}) = 1
  BY FS_Singleton
<1>17. Kept(P, {}) = {}
  BY <1>8, <1>14 DEF Kept
<1>18. Paged(P, 0)
  BY <1>14, <1>16 DEF Paged
<1>19. Sound(P, 0, Tight(t))
  BY <1>8, <1>14 DEF Sound
<1>20. Forest(P, 0, {}, {}, Tight(t))
  <2>1. OneHolder(P, {})
    BY <1>14 DEF OneHolder
  <2>2. Down(P, 0, {}, {}) /\ Held(P, 0, {}) /\ OneId({})
    BY <1>14 DEF Down, Held, OneId
  <2>3. {} \in SUBSET PairT
    OBVIOUS
  <2> QED
    BY <1>17, <1>18, <1>19, <2>1, <2>2, <2>3 DEF Forest
<1>21. Sizes(t, P, 0, {})
  <2>1. Of(t.m_capacity, 0) \in Nat
    BY <1>13 DEF Conf, Sized
  <2> QED
    BY <1>8, <1>14, <2>1 DEF Sizes
<1>22. Counts(t, P)
  <2>1. OnLevel(P, 0) = {0}
    BY <1>8, <1>14 DEF OnLevel
  <2>2. P[t.m_rootID].m_level + 1 = 1
    BY <1>8, <1>11, <1>14
  <2> DEFINE s == t.m_nodesInLevel
  <2>3. s \in Seq(Int) /\ Len(s) = 1 /\ s[1] = 1
    BY <1>15
  <2> HIDE DEF s
  <2>6. OnLevel(P, 0) = {0} /\ Cardinality(OnLevel(P, 0)) = 1
    BY <1>16, <2>1
  <2>4. \A l \in 1 .. 1 : s[l] = Cardinality(OnLevel(P, l - 1))
    <3> TAKE l \in 1 .. 1
    <3>1. l = 1
      OBVIOUS
    <3>2. l - 1 = 0
      BY <3>1
    <3> QED
      BY <2>3, <2>6, <3>1, <3>2
  <2>5. t.m_u32Nodes = Cardinality(DOMAIN P)
    BY <1>11, <1>14, <1>16
  <2> QED
    BY <1>11, <2>2, <2>3, <2>4, <2>5 DEF Counts, s
<1>23. Works(t, {}, {}, {})
  BY <1>11, <1>13, <1>20, <1>21, <1>22 DEF Works, P
<1>24. DataOf(t) = {}
  BY <1>8, <1>14 DEF DataOf, P
<1> QED
  BY <1>11, <1>12, <1>13, <1>23, <1>24 DEF Fresh, t


\* What TreeSpec is proved for: configurations with room for splits and data with shapes and
\* with ids of their own.
Suits == (\A c \in Config : Accepted(c)) /\ Shapely(Input) /\ Distinct(Input)

\* The inductive invariant: a sound tree of data that were inserted.
GrownTo(t, n) ==
    /\ Works(t, {}, {}, {}) /\ CanTake(t)
    /\ n \in 1 .. Len(Input) + 1
    /\ \A d \in DataOf(t) : \E k \in 1 .. n - 1 : Input[k] = d
    /\ IsFiniteSet(DataOf(t)) /\ t.m_u64Data = Cardinality(DataOf(t))
    /\ \E c \in Config : t.m_treeVariant = c.m_treeVariant
    /\ t.m_treeVariant # "RV_RSTAR" => t.outside = FALSE

GrownNow == GrownTo(rtree, next)

\* The entries to insert.
LEMMA InputIs ==
    ASSUME Suits
    PROVE  /\ Input \in Seq(EntryT) /\ Len(Input) \in Nat /\ DOMAIN Input = 1 .. Len(Input)
           /\ \A k \in 1 .. Len(Input) : Input[k] \in EntryT /\ NonEmpty(Input[k].mbr)
           /\ \A j, k \in 1 .. Len(Input) : Input[j].id = Input[k].id => j = k
<1> DEFINE s == Input
<1>1. Shapely(s) /\ Distinct(s)
  BY DEF Suits
<1>2. s \in Seq(EntryT) /\ \A k \in DOMAIN s : NonEmpty(s[k].mbr)
  BY <1>1 DEF Shapely
<1> HIDE DEF s
<1>3. Len(s) \in Nat /\ DOMAIN s = 1 .. Len(s) /\ \A k \in DOMAIN s : s[k] \in EntryT
  BY <1>2
<1>4. \A j, k \in DOMAIN s : s[j].id = s[k].id => j = k
  BY <1>1 DEF Distinct
<1> QED
  BY <1>2, <1>3, <1>4 DEF s

\* A new tree is one that nothing was inserted in.
LEMMA FreshGrown ==
    ASSUME Suits, NEW c \in Config
    PROVE  GrownTo(initNew(c), 1) /\ DataOf(initNew(c)) = {}
<1> DEFINE t == initNew(c)
<1>1. Accepted(c)
  BY DEF Suits
<1>2. Fresh(t, c)
  BY <1>1, NewIs
<1> HIDE DEF t
<1>3. /\ Works(t, {}, {}, {}) /\ CanTake(t) /\ DataOf(t) = {} /\ t.m_u64Data = 0
      /\ t.m_treeVariant = c.m_treeVariant /\ t.outside = FALSE
  BY <1>2 DEF Fresh
<1>4. 1 \in 1 .. Len(Input) + 1
  BY InputIs
<1>5. IsFiniteSet({}) /\ Cardinality({}) = 0
  BY FS_EmptySet
<1> QED
  BY <1>3, <1>4, <1>5 DEF GrownTo, t

\* An insertion adds its entry to a tree it has not been inserted in,
LEMMA InsertGrows ==
    ASSUME Suits, NEW t, NEW n, GrownTo(t, n), n <= Len(Input)
    PROVE  /\ GrownTo(Inserted(t, Input[n]), n + 1)
           /\ Input[n] \notin DataOf(t) /\ DataOf(Inserted(t, Input[n])) = DataOf(t) \cup {Input[n]}
<1> DEFINE e == Input[n]
<1> DEFINE u == Inserted(t, e)
<1> DEFINE L == Len(Input)
<1>1. /\ Works(t, {}, {}, {}) /\ CanTake(t) /\ n \in 1 .. L + 1
      /\ \A d \in DataOf(t) : \E k \in 1 .. n - 1 : Input[k] = d
      /\ IsFiniteSet(DataOf(t)) /\ t.m_u64Data = Cardinality(DataOf(t))
      /\ \E c \in Config : t.m_treeVariant = c.m_treeVariant
      /\ t.m_treeVariant # "RV_RSTAR" => t.outside = FALSE
  BY DEF GrownTo
<1>2. L \in Nat /\ n <= L
  BY InputIs
<1> HIDE DEF L
<1>3. n \in 1 .. L /\ n \in Int /\ n + 1 \in 1 .. L + 1
  BY <1>1, <1>2
<1>4. e \in EntryT /\ NonEmpty(e.mbr)
  BY <1>3, InputIs DEF L
<1>5. \A d \in DataOf(t) : d.id # e.id
  <2> TAKE d \in DataOf(t)
  <2>1. PICK k \in 1 .. n - 1 : Input[k] = d
    BY <1>1
  <2>2. k \in 1 .. L /\ k # n
    BY <1>2, <1>3, <2>1
  <2> QED
    BY <1>3, <2>1, <2>2, InputIs DEF L
<1> HIDE DEF e, u
<1>6. OneMore(t, u, e)
  BY <1>1, <1>4, <1>5, InsertedKeeps DEF u
<1>7. e \notin DataOf(t)
  BY <1>5
<1>8. /\ Works(u, {}, {}, {}) /\ Alike(t, u) /\ DataOf(u) = DataOf(t) \cup {e}
      /\ u.m_u64Data = t.m_u64Data + 1
  BY <1>6 DEF OneMore
<1>9. CanTake(u)
  BY <1>1, <1>8, AlikeTake
<1>10. IsFiniteSet(DataOf(u)) /\ Cardinality(DataOf(u)) = Cardinality(DataOf(t)) + 1
  BY <1>1, <1>7, <1>8, FS_AddElement
<1>11. \A d \in DataOf(u) : \E k \in 1 .. (n + 1) - 1 : Input[k] = d
  <2> TAKE d \in DataOf(u)
  <2>1. CASE d = e
    <3>1. Input[n] = d /\ n \in 1 .. (n + 1) - 1
      BY <1>3, <2>1 DEF e
    <3> QED
      BY <3>1
  <2>2. CASE d # e
    <3>1. PICK k \in 1 .. n - 1 : Input[k] = d
      BY <1>1, <1>8, <2>2
    <3>2. k \in 1 .. (n + 1) - 1
      BY <1>3, <3>1
    <3> QED
      BY <3>1, <3>2
  <2> QED
    BY <2>1, <2>2
<1>12. u.m_u64Data = Cardinality(DataOf(u))
  BY <1>1, <1>8, <1>10
<1>13. /\ \E c \in Config : u.m_treeVariant = c.m_treeVariant
       /\ u.m_treeVariant # "RV_RSTAR" => u.outside = FALSE
  BY <1>1, <1>8 DEF Alike
<1>14. GrownTo(u, n + 1)
  BY <1>3, <1>8, <1>9, <1>10, <1>11, <1>12, <1>13 DEF GrownTo, L
<1> QED
  BY <1>7, <1>8, <1>14 DEF u, e

\* a deletion removes its entry if the tree holds it,
LEMMA DeleteGrows ==
    ASSUME NEW t, NEW n, GrownTo(t, n), NEW e
    PROVE  /\ GrownTo(Deleted(t, e), n) /\ DataOf(Deleted(t, e)) = DataOf(t) \ {e}
           /\ Finds(t, e) <=> e \in DataOf(t)
<1> DEFINE u == Deleted(t, e)
<1>1. /\ Works(t, {}, {}, {}) /\ CanTake(t) /\ n \in 1 .. Len(Input) + 1
      /\ \A d \in DataOf(t) : \E k \in 1 .. n - 1 : Input[k] = d
      /\ IsFiniteSet(DataOf(t)) /\ t.m_u64Data = Cardinality(DataOf(t))
      /\ \E c \in Config : t.m_treeVariant = c.m_treeVariant
      /\ t.m_treeVariant # "RV_RSTAR" => t.outside = FALSE
  BY DEF GrownTo
<1>2. OneLess(t, u, e) /\ (Finds(t, e) <=> e \in DataOf(t))
  BY <1>1, DeletedKeeps
<1> HIDE DEF u
<1>3. /\ Works(u, {}, {}, {}) /\ Alike(t, u) /\ DataOf(u) = DataOf(t) \ {e}
      /\ u.m_u64Data = IF e \in DataOf(t) THEN t.m_u64Data - 1 ELSE t.m_u64Data
  BY <1>2 DEF OneLess
<1>4. CanTake(u)
  BY <1>1, <1>3, AlikeTake
<1>5. \A d \in DataOf(u) : \E k \in 1 .. n - 1 : Input[k] = d
  BY <1>1, <1>3
<1>6. IsFiniteSet(DataOf(u)) /\ u.m_u64Data = Cardinality(DataOf(u))
  <2>1. CASE e \in DataOf(t)
    <3>1. IsFiniteSet(DataOf(t) \ {e}) /\ Cardinality(DataOf(t) \ {e}) = Cardinality(DataOf(t)) - 1
      BY <1>1, <2>1, FS_RemoveElement
    <3> QED
      BY <1>1, <1>3, <2>1, <3>1
  <2>2. CASE e \notin DataOf(t)
    <3>1. DataOf(u) = DataOf(t)
      BY <1>3, <2>2
    <3> QED
      BY <1>1, <1>3, <2>2, <3>1
  <2> QED
    BY <2>1, <2>2
<1>7. /\ \E c \in Config : u.m_treeVariant = c.m_treeVariant
      /\ u.m_treeVariant # "RV_RSTAR" => u.outside = FALSE
  BY <1>1, <1>3 DEF Alike
<1>8. GrownTo(u, n)
  BY <1>1, <1>3, <1>4, <1>5, <1>6, <1>7 DEF GrownTo
<1> QED
  BY <1>2, <1>3, <1>8 DEF u

\* so that every reachable tree is one of these,
LEMMA GrownInvariant ==
    ASSUME Suits
    PROVE  TreeSpec => []GrownNow
<1>1. TreeInit => GrownNow
  BY FreshGrown DEF TreeInit, GrownNow
<1>2. GrownNow /\ [TreeNext]_treeVars => GrownNow'
  <2> SUFFICES ASSUME GrownNow, [TreeNext]_treeVars PROVE GrownNow'
    OBVIOUS
  <2>1. GrownTo(rtree, next)
    BY DEF GrownNow
  <2>2. CASE InsertData
    BY <2>1, <2>2, InsertGrows DEF InsertData, GrownNow
  <2>3. ASSUME NEW e, Delete(e) PROVE GrownNow'
    BY <2>1, <2>3, DeleteGrows DEF Delete, GrownNow
  <2>4. CASE DeleteData
    BY <2>3, <2>4 DEF DeleteData
  <2>5. CASE DeleteOldest
    BY <2>3, <2>5 DEF DeleteOldest
  <2>6. CASE UNCHANGED treeVars
    BY <2>1, <2>6 DEF treeVars, GrownNow
  <2> QED
    BY <2>2, <2>4, <2>5, <2>6 DEF TreeNext
<1> QED
  BY <1>1, <1>2, PTL DEF TreeSpec

\* which all have the shape that the runs check.
LEMMA GrownIs ==
    ASSUME GrownNow
    PROVE  LinkedOnce /\ BoundedTightly /\ Filled /\ Counted
<1>1. Works(rtree, {}, {}, {}) /\ rtree.m_u64Data = Cardinality(DataOf(rtree))
  BY DEF GrownNow, GrownTo
<1> QED
  BY <1>1, LinkedOnceHolds, BoundedTightlyHolds, FilledHolds, CountedHolds

\* After any insertions and deletions every page but the root has one entry that names it, on
\* the level above; an entry's region is its child's and contains all below it; nodes hold no
\* more than their capacity and, the root apart, no less than their splits leave them; and the
\* counters of nodes, levels, height and data are those of the tree (insertData, adjustTree,
\* condenseTree and split keep all four over every overflow, reinsertion and underflow).
THEOREM TreeIsSound ==
    ASSUME Suits
    PROVE  TreeSpec => [](LinkedOnce /\ BoundedTightly /\ Filled /\ Counted)
<1>1. TreeSpec => []GrownNow
  BY GrownInvariant
<1>2. GrownNow => LinkedOnce /\ BoundedTightly /\ Filled /\ Counted
  BY GrownIs
<1> QED
  BY <1>1, <1>2, PTL

\* isIndexValid accepts the tree in every state, except that for an R*-tree a split may have
\* looked behind the end of the overflow table (Node.cc:372-374: undefined in the code).
THEOREM TreeIndexValid ==
    ASSUME Suits
    PROVE  TreeSpec => []((rtree.m_treeVariant # "RV_RSTAR" \/ ~rtree.outside) => IndexValid)
<1>1. TreeSpec => []GrownNow
  BY GrownInvariant
<1>2. GrownNow => ((rtree.m_treeVariant # "RV_RSTAR" \/ ~rtree.outside) => IndexValid)
  <2>1. GrownNow => (rtree.m_treeVariant # "RV_RSTAR" => ~rtree.outside)
    BY DEF GrownNow, GrownTo
  <2>2. GrownNow => (~rtree.outside => IndexValid)
    BY GrownIs DEF IndexValid
  <2> QED
    BY <2>1, <2>2
<1> QED
  BY <1>1, <1>2, PTL

\* Without R*-trees isIndexValid always holds: neither insertion nor deletion ever leaves a
\* tree that the library's own check (RTree::isIndexValid) would refuse.
THEOREM PlainIndexValid ==
    ASSUME Suits, \A c \in Config : c.m_treeVariant # "RV_RSTAR"
    PROVE  TreeSpec => []IndexValid
<1>1. TreeSpec => []GrownNow
  BY GrownInvariant
<1>2. GrownNow => IndexValid
  <2>1. GrownNow => ~rtree.outside
    BY DEF GrownNow, GrownTo
  <2> QED
    BY <2>1, GrownIs DEF IndexValid
<1> QED
  BY <1>1, <1>2, PTL

\* The R-tree implements the abstract index: insertData adds the entry to the data, deleteData
\* removes it just if it is there and says whether it was, and nothing the tree does to its
\* pages in between loses, doubles or changes data.
THEOREM TreeImplementsIndex ==
    ASSUME Suits
    PROVE  TreeSpec => ImplementsIndex
<1>1. TreeSpec => []GrownNow
  BY GrownInvariant
<1>2. TreeInit => Abstract!Init
  BY FreshGrown DEF TreeInit, Abstract!Init, Entries
<1>3. GrownNow /\ [TreeNext]_treeVars => [Abstract!Next]_<<Entries, returned>>
  <2> SUFFICES ASSUME GrownNow, [TreeNext]_treeVars PROVE [Abstract!Next]_<<Entries, returned>>
    OBVIOUS
  <2>1. GrownTo(rtree, next)
    BY DEF GrownNow
  <2>2. CASE InsertData
    <3> DEFINE e == Input[next]
    <3>1. /\ next <= Len(Input) /\ rtree' = Inserted(rtree, e) /\ returned' = returned
      BY <2>2 DEF InsertData
    <3>2. e \notin DataOf(rtree) /\ DataOf(rtree') = DataOf(rtree) \cup {e}
      BY <2>1, <3>1, InsertGrows
    <3>3. e \in ToSet(Input)
      <4>1. next \in 1 .. Len(Input)
        BY <2>1, <3>1, InputIs DEF GrownTo
      <4> QED
        BY <4>1, InputIs DEF ToSet
    <3> HIDE DEF e
    <3>4. Abstract!InsertData(e)
      BY <3>1, <3>2 DEF Abstract!InsertData, Entries
    <3> QED
      BY <3>3, <3>4 DEF Abstract!Next
  <2>3. ASSUME NEW e \in ToSet(Input), Delete(e) PROVE Abstract!Next
    <3>1. rtree' = Deleted(rtree, e) /\ returned' = Finds(rtree, e)
      BY <2>3 DEF Delete
    <3>2. DataOf(rtree') = DataOf(rtree) \ {e} /\ (Finds(rtree, e) <=> e \in DataOf(rtree))
      BY <2>1, <3>1, DeleteGrows
    <3>3. Finds(rtree, e) \in BOOLEAN
      BY DEF Finds
    <3>4. Abstract!DeleteData(e)
      BY <3>1, <3>2, <3>3 DEF Abstract!DeleteData, Entries
    <3> QED
      BY <3>4 DEF Abstract!Next
  <2>4. CASE DeleteData
    BY <2>3, <2>4 DEF DeleteData
  <2>5. CASE DeleteOldest
    <3>1. Left \in SUBSET Int /\ IsFiniteSet(Left) /\ Left # {} /\ Left \subseteq DOMAIN Input
      <4>1. IsFiniteSet(1 .. Len(Input))
        BY InputIs, FS_Interval
      <4>2. Left \subseteq 1 .. Len(Input)
        BY InputIs DEF Left
      <4>3. IsFiniteSet(Left)
        BY <4>1, <4>2, FS_Subset
      <4> QED
        BY <2>5, <4>2, <4>3, InputIs DEF DeleteOldest
    <3>2. Min(Left) \in DOMAIN Input
      BY <3>1, MinIs
    <3>3. Input[Min(Left)] \in ToSet(Input)
      BY <3>2 DEF ToSet
    <3> QED
      BY <2>3, <2>5, <3>3 DEF DeleteOldest
  <2>6. CASE UNCHANGED treeVars
    BY <2>6 DEF treeVars, Entries
  <2> QED
    BY <2>2, <2>4, <2>5, <2>6 DEF TreeNext
<1> QED
  BY <1>1, <1>2, <1>3, PTL DEF TreeSpec, ImplementsIndex, Abstract!Spec


-----------------------------------------------------------------------------
(* The query for neighbors                                                 *)

\* Squares grow.
LEMMA SquareUp ==
    ASSUME NEW x \in Nat, NEW y \in Nat, x <= y
    PROVE  x * x \in Nat /\ x * x <= y * y
<1>1. x * x \in Int /\ 0 <= x * x
  OBVIOUS
<1>2. x * x <= x * y
  OBVIOUS
<1>3. x * y <= y * y
  OBVIOUS
<1>4. x * y \in Int /\ y * y \in Int
  OBVIOUS
<1> QED
  BY <1>1, <1>2, <1>3, <1>4

\* The gap to a region is no less than that to a region around it,
LEMMA GapIs ==
    ASSUME NEW q, NonEmpty(q), NEW a \in AnyRegion, NEW b \in AnyRegion, containsRegion(a, b),
           NonEmpty(b), NEW i \in Dim
    PROVE  Gap(q, a, i) \in Nat /\ Gap(q, b, i) \in Nat /\ Gap(q, a, i) <= Gap(q, b, i)
<1>1. /\ q.low[i] \in Int /\ q.high[i] \in Int /\ a.low[i] \in Int /\ a.high[i] \in Int
      /\ b.low[i] \in Int /\ b.high[i] \in Int /\ q.low[i] <= q.high[i]
  BY DEF AnyRegion, NonEmpty
<1>2. a.low[i] <= b.low[i] /\ b.high[i] <= a.high[i] /\ b.low[i] <= b.high[i]
  BY DEF containsRegion, NonEmpty
<1> DEFINE l == q.low[i]
<1> DEFINE h == q.high[i]
<1> DEFINE al == a.low[i]
<1> DEFINE ah == a.high[i]
<1> DEFINE bl == b.low[i]
<1> DEFINE bh == b.high[i]
<1>3. /\ Gap(q, a, i) = IF ah < l THEN l - ah ELSE IF h < al THEN al - h ELSE 0
      /\ Gap(q, b, i) = IF bh < l THEN l - bh ELSE IF h < bl THEN bl - h ELSE 0
  BY DEF Gap
<1>4. /\ l \in Int /\ h \in Int /\ al \in Int /\ ah \in Int /\ bl \in Int /\ bh \in Int
      /\ al <= bl /\ bh <= ah /\ bl <= bh /\ l <= h
  BY <1>1, <1>2
<1> HIDE DEF l, h, al, ah, bl, bh
<1> QED
  BY <1>3, <1>4

\* and is a number.
LEMMA GapNat ==
    ASSUME NEW q \in AnyRegion, NEW a \in AnyRegion, NEW i \in Dim
    PROVE  Gap(q, a, i) \in Nat
<1>1. /\ q.low[i] \in Int /\ q.high[i] \in Int /\ a.low[i] \in Int /\ a.high[i] \in Int
  BY DEF AnyRegion
<1> QED
  BY <1>1 DEF Gap

\* So is the distance.
LEMMA DistanceNat ==
    ASSUME NEW q \in AnyRegion, NEW a \in AnyRegion
    PROVE  getMinimumDistance(q, a) \in Nat
<1> DEFINE x == Gap(q, a, 1)
<1> DEFINE y == Gap(q, a, 2)
<1>1. x \in Nat /\ y \in Nat
  BY GapNat, DimIs
<1>2. getMinimumDistance(q, a) = x * x + y * y
  BY DEF getMinimumDistance
<1> HIDE DEF x, y
<1>3. x * x \in Nat /\ y * y \in Nat
  BY <1>1, SquareUp
<1> QED
  BY <1>2, <1>3

\* What is in a region is not nearer than the region.
LEMMA DistanceWithin ==
    ASSUME NEW q, NonEmpty(q), NEW a \in AnyRegion, NEW b, NonEmpty(b), containsRegion(a, b)
    PROVE  getMinimumDistance(q, a) <= getMinimumDistance(q, b)
<1> DEFINE x == Gap(q, a, 1)
<1> DEFINE y == Gap(q, a, 2)
<1> DEFINE v == Gap(q, b, 1)
<1> DEFINE w == Gap(q, b, 2)
<1>0. b \in AnyRegion
  BY DEF NonEmpty
<1>1. x \in Nat /\ y \in Nat /\ v \in Nat /\ w \in Nat /\ x <= v /\ y <= w
  BY <1>0, GapIs, DimIs
<1>2. getMinimumDistance(q, a) = x * x + y * y /\ getMinimumDistance(q, b) = v * v + w * w
  BY DEF getMinimumDistance
<1> HIDE DEF x, y, v, w
<1>3. x * x \in Nat /\ y * y \in Nat /\ v * v \in Nat /\ w * w \in Nat /\ x * x <= v * v /\ y * y <= w * w
  BY <1>1, SquareUp
<1> DEFINE A == x * x
<1> DEFINE B == y * y
<1> DEFINE C == v * v
<1> DEFINE E == w * w
<1>4. A \in Nat /\ B \in Nat /\ C \in Nat /\ E \in Nat /\ A <= C /\ B <= E
      /\ getMinimumDistance(q, a) = A + B /\ getMinimumDistance(q, b) = C + E
  BY <1>2, <1>3
<1> HIDE DEF A, B, C, E
<1> QED
  BY <1>4

\* What the search relies on: every page has one entry and every datum is in one leaf.
Searchable(t) ==
    /\ Linked(t) /\ Bounded(t) /\ IsFiniteSet(DOMAIN t.page) /\ IsFiniteSet(DataOf(t))
    /\ \A p, q \in DOMAIN t.page : \A e \in Es(t, p), f \in Es(t, q) :
          /\ Level(t, p) > 0 /\ Level(t, q) > 0 /\ e.id = f.id => p = q /\ e = f
          /\ Level(t, p) = 0 /\ Level(t, q) = 0 /\ e = f => p = q
    /\ \A p \in DOMAIN t.page : \A e \in Es(t, p) : Level(t, p) > 0 => e.id # t.m_rootID

\* A tree that works can be searched for neighbors.
LEMMA WorksSearchable ==
    ASSUME NEW t, Works(t, {}, {}, {}), IsFiniteSet(DataOf(t))
    PROVE  Searchable(t)
<1> DEFINE P == t.page
<1> DEFINE r == t.m_rootID
<1> DEFINE K == Kept(P, {})
<1>1. Linked(t) /\ Bounded(t)
  BY WorksLinked
<1>2. Forest(P, r, {}, {}, Tight(t))
  BY DEF Works
<1>3. OneId(K) /\ OneHolder(P, {}) /\ Down(P, r, K, {}) /\ IsFiniteSet(DOMAIN P)
  BY <1>2 DEF Forest, Paged
<1>4. \A p \in DOMAIN P : Level(t, p) \in Nat
  BY <1>1, LinkedIs
<1>5. ASSUME NEW p \in DOMAIN P, NEW e \in Es(t, p)
      PROVE  /\ <<Level(t, p), e>> \in Pairs(P[p]) /\ <<Level(t, p), e>> \in K
  <2> DEFINE x == <<Level(t, p), e>>
  <2>1. x \in Pairs(P[p])
    BY DEF Pairs, Level, Es
  <2> HIDE DEF x
  <2>2. x \in K
    BY <2>1, KeptIs
  <2> QED
    BY <2>1, <2>2 DEF x
<1>6. ASSUME NEW p \in DOMAIN P, NEW e \in Es(t, p), Level(t, p) > 0
      PROVE  e.id # r /\ e.id \in DOMAIN P /\ Level(t, p) = Level(t, e.id) + 1
  <2> DEFINE x == <<Level(t, p), e>>
  <2>1. x \in K
    BY <1>5
  <2>2. x[1] = Level(t, p) /\ x[2] = e /\ x[1] # 0
    BY <1>4, <1>6
  <2> HIDE DEF x
  <2>3. e.id \in DOMAIN P /\ e.id # r /\ Level(t, e.id) = Level(t, p) - 1
    BY <1>3, <2>1, <2>2 DEF Down, Level
  <2> QED
    BY <1>4, <2>3
<1>7. ASSUME NEW p \in DOMAIN P, NEW q \in DOMAIN P, NEW e \in Es(t, p), NEW f \in Es(t, q),
             Level(t, p) = Level(t, q), e.id = f.id
      PROVE  p = q /\ e = f
  <2> DEFINE x == <<Level(t, p), e>>
  <2> DEFINE y == <<Level(t, q), f>>
  <2>1. x \in K /\ y \in K /\ x \in Pairs(P[p]) /\ y \in Pairs(P[q])
    BY <1>5
  <2>2. x[1] = y[1] /\ x[2].id = y[2].id
    BY <1>7
  <2>3. x[2] = e /\ y[2] = f
    OBVIOUS
  <2> HIDE DEF x, y
  <2>4. x = y
    BY <1>3, <2>1, <2>2 DEF OneId
  <2> QED
    BY <1>3, <2>1, <2>3, <2>4 DEF OneHolder
<1>8. ASSUME NEW p \in DOMAIN P, NEW q \in DOMAIN P, NEW e \in Es(t, p), NEW f \in Es(t, q)
      PROVE  /\ Level(t, p) > 0 /\ Level(t, q) > 0 /\ e.id = f.id => p = q /\ e = f
             /\ Level(t, p) = 0 /\ Level(t, q) = 0 /\ e = f => p = q
  <2>1. ASSUME Level(t, p) > 0, Level(t, q) > 0, e.id = f.id PROVE p = q /\ e = f
    <3>1. Level(t, p) = Level(t, e.id) + 1 /\ Level(t, q) = Level(t, f.id) + 1
      BY <1>6, <2>1
    <3>2. Level(t, p) = Level(t, q)
      BY <2>1, <3>1
    <3> QED
      BY <1>7, <2>1, <3>2
  <2>2. ASSUME Level(t, p) = 0, Level(t, q) = 0, e = f PROVE p = q
    BY <1>7, <2>2
  <2> QED
    BY <2>1, <2>2
<1> QED
  BY <1>1, <1>3, <1>6, <1>8 DEF Searchable


\* A datum in the queue or found.
Item(query, e) == [dist |-> getMinimumDistance(query, e.mbr), entry |-> e, level |-> -1]

\* A page in the queue is not farther than what is below it.
PageItem(t, query, x) ==
    /\ x.level # -1 /\ x.entry.id \in DOMAIN t.page /\ x.level = Level(t, x.entry.id)
    /\ x.dist \in Nat /\ x.dist <= getMinimumDistance(query, t.page[x.entry.id].m_nodeMBR)

InQueue(t, query, x) ==
    \/ x.entry \in DataOf(t) /\ x = Item(query, x.entry)
    \/ PageItem(t, query, x)

\* Data that are nearer than e.
Before(t, query, e) ==
    {d \in DataOf(t) : getMinimumDistance(query, d.mbr) < getMinimumDistance(query, e.mbr)}

\* Nothing is lost: a datum was found, or it waits, or a page above it does.
Reached(t, query, s, e) ==
    \/ Item(query, e) \in s.found
    \/ Item(query, e) \in s.queue
    \/ \E x \in s.queue : PageItem(t, query, x) /\ e \in Under(t, x.entry.id)

ByDistance(s) == \A x \in s.found, y \in s.queue : x.dist <= y.dist

Founds(t, k, query, s) ==
    /\ IsFiniteSet(s.found)
    /\ \A x \in s.found : /\ x.entry \in DataOf(t) /\ x = Item(query, x.entry)
                          /\ Cardinality(Before(t, query, x.entry)) < k

\* The pages A were not opened yet.
Unopened(t, query, s, A) ==
    /\ A \subseteq DOMAIN t.page
    /\ \A x \in s.queue : PageItem(t, query, x) => x.entry.id \in A
    /\ \A x, y \in s.queue : PageItem(t, query, x) /\ PageItem(t, query, y) /\ x.entry.id = y.entry.id => x = y
    /\ \A p \in A : \A e \in Es(t, p) :
          /\ Level(t, p) > 0 => e.id \in A /\ \A x \in s.queue : PageItem(t, query, x) => x.entry.id # e.id
          /\ Level(t, p) = 0 => Item(query, e) \notin s.queue /\ Item(query, e) \notin s.found
    /\ \A x \in s.queue : x \notin s.found

Searching(t, k, query, s, A) ==
    /\ DOMAIN s = {"queue", "found"}
    /\ \A x \in s.queue : InQueue(t, query, x)
    /\ \A e \in DataOf(t) : Reached(t, query, s, e)
    /\ ByDistance(s) /\ Founds(t, k, query, s) /\ Unopened(t, query, s, A)

Closest(s) == CHOOSE x \in s.queue : \A y \in s.queue : x.dist <= y.dist

Farthest(s) == Max({0} \cup {x.dist : x \in s.found})

Enough(k, s) == s.queue = {} \/ (Cardinality(s.found) >= k /\ Closest(s).dist > Farthest(s))

Opened(t, query, n) ==
    {[dist |-> getMinimumDistance(query, e.mbr), entry |-> e, level |-> n.m_level - 1] : e \in ToSet(n.entries)}

\* The three cases of one step of the search.
LEMMA NearerIs ==
    ASSUME NEW t, NEW k, NEW query, NEW s, NEW x, x = Closest(s), NEW u, u = Nearer(t, k, query, s)
    PROVE  /\ Enough(k, s) => u = s
           /\ ~Enough(k, s) /\ x.level = -1 => u = [queue |-> s.queue \ {x}, found |-> s.found \cup {x}]
           /\ ~Enough(k, s) /\ x.level # -1 =>
                 u = [s EXCEPT !.queue = (s.queue \ {x}) \cup Opened(t, query, t.page[x.entry.id])]
  BY DEF Nearer, Enough, Closest, Farthest, Opened

\* What waits for one entry of a leaf.
LEMMA ItemIs ==
    ASSUME NEW query, NEW e
    PROVE  /\ Item(query, e).dist = getMinimumDistance(query, e.mbr) /\ Item(query, e).entry = e
           /\ Item(query, e).level = -1
  BY DEF Item

\* The entries of the tree have regions.
LEMMA DataShaped ==
    ASSUME NEW t, Searchable(t), NEW query, NonEmpty(query), NEW e \in DataOf(t)
    PROVE  NonEmpty(e.mbr) /\ e.mbr \in AnyRegion /\ getMinimumDistance(query, e.mbr) \in Nat
<1>1. PICK p \in DOMAIN t.page : e \in Es(t, p)
  BY DEF DataOf, Es
<1>2. NonEmpty(e.mbr) /\ e.mbr \in AnyRegion
  BY <1>1, BoundedIs DEF Searchable
<1>3. query \in AnyRegion
  BY DEF NonEmpty
<1> QED
  BY <1>2, <1>3, DistanceNat

\* Whatever waits has a distance,
LEMMA WaitingDist ==
    ASSUME NEW t, Searchable(t), NEW query, NonEmpty(query), NEW x, InQueue(t, query, x)
    PROVE  x.dist \in Nat
<1>1. CASE PageItem(t, query, x)
  BY <1>1 DEF PageItem
<1>2. CASE x.entry \in DataOf(t) /\ x = Item(query, x.entry)
  BY <1>2, ItemIs, DataShaped
<1> QED
  BY <1>1, <1>2 DEF InQueue

\* and one of what waits is closest.
LEMMA ClosestIs ==
    ASSUME NEW t, Searchable(t), NEW query, NonEmpty(query), NEW s,
           \A x \in s.queue : InQueue(t, query, x), s.queue # {}
    PROVE  Closest(s) \in s.queue /\ \A y \in s.queue : Closest(s).dist <= y.dist
<1> DEFINE Q == s.queue
<1> DEFINE N == {x.dist : x \in Q}
<1>1. N \in SUBSET Nat /\ N # {}
  BY WaitingDist
<1> HIDE DEF N
<1>2. PICK d \in N : \A n \in N : d <= n
  BY <1>1, LeastExists
<1>3. \E x \in Q : \A y \in Q : x.dist <= y.dist
  BY <1>2 DEF N
<1> QED
  BY <1>3 DEF Closest

\* Who is not found is not nearer than the closest in the queue.
LEMMA RestFarther ==
    ASSUME NEW t, Searchable(t), NEW query, NonEmpty(query), NEW k, NEW A, NEW s, Searching(t, k, query, s, A),
           NEW e \in DataOf(t), Item(query, e) \notin s.found
    PROVE  s.queue # {} /\ Closest(s).dist <= getMinimumDistance(query, e.mbr)
<1> DEFINE d == getMinimumDistance(query, e.mbr)
<1>1. (\A x \in s.queue : InQueue(t, query, x)) /\ Reached(t, query, s, e)
  BY DEF Searching
<1>2. d \in Nat
  BY DataShaped
<1>3. \E x \in s.queue : x.dist <= d /\ x.dist \in Nat
  <2>1. CASE Item(query, e) \in s.queue
    BY <1>2, <2>1, ItemIs
  <2>2. ASSUME NEW x \in s.queue, PageItem(t, query, x), e \in Under(t, x.entry.id)
        PROVE  x.dist <= d /\ x.dist \in Nat
    <3> DEFINE p == x.entry.id
    <3>1. p \in DOMAIN t.page /\ x.dist \in Nat /\ x.dist <= getMinimumDistance(query, t.page[p].m_nodeMBR)
      BY <2>2 DEF PageItem
    <3> HIDE DEF p
    <3>2. e \in Under(t, p)
      BY <2>2 DEF p
    <3>3. NonEmpty(e.mbr) /\ containsRegion(t.page[p].m_nodeMBR, e.mbr) /\ t.page[p].m_nodeMBR \in AnyRegion
      BY <3>1, <3>2, UnderWithin, BoundedIs DEF Searchable
    <3> DEFINE m == getMinimumDistance(query, t.page[p].m_nodeMBR)
    <3>4. m <= d
      BY <3>3, DistanceWithin
    <3>5. m \in Nat
      BY <3>3, DistanceNat DEF NonEmpty
    <3> HIDE DEF d, m
    <3> QED
      BY <1>2, <3>1, <3>4, <3>5 DEF m
  <2> QED
    BY <1>1, <2>1, <2>2 DEF Reached
<1>4. PICK x \in s.queue : x.dist <= d /\ x.dist \in Nat
  BY <1>3
<1>5. Closest(s) \in s.queue /\ Closest(s).dist <= x.dist
  BY <1>1, ClosestIs
<1>6. Closest(s).dist \in Nat
  BY <1>1, <1>5, WaitingDist
<1> HIDE DEF d
<1> QED
  BY <1>2, <1>4, <1>5, <1>6 DEF d


\* What is not found yet.
Unfound(t, query, s) == {e \in DataOf(t) : Item(query, e) \notin s.found}

Begun(t) ==
    [queue |-> {[dist |-> 0, entry |-> Entry(makeInfinite, t.m_rootID), level |-> root(t).m_level]},
     found |-> {}]

\* The search starts with the root.
LEMMA SearchStarts ==
    ASSUME NEW t, Searchable(t), NEW query, NonEmpty(query), NEW k
    PROVE  Searching(t, k, query, Begun(t), DOMAIN t.page)
<1> DEFINE r == t.m_rootID
<1> DEFINE x == [dist |-> 0, entry |-> Entry(makeInfinite, r), level |-> root(t).m_level]
<1> DEFINE s == Begun(t)
<1>1. Linked(t) /\ Bounded(t) /\ r \in DOMAIN t.page /\ Level(t, r) \in Nat
  BY LinkedIs DEF Searchable
<1>2. x.dist = 0 /\ x.entry.id = r /\ x.level = Level(t, r)
  BY DEF Entry, Level, root
<1>3. DOMAIN s = {"queue", "found"} /\ s.queue = {x} /\ s.found = {}
  BY DEF Begun
<1> HIDE DEF x, s
<1>4. getMinimumDistance(query, t.page[r].m_nodeMBR) \in Nat
  BY <1>1, BoundedIs, DistanceNat DEF NonEmpty
<1>5. x.level # -1
  BY <1>1, <1>2
<1>6. PageItem(t, query, x)
  <2>1. 0 <= getMinimumDistance(query, t.page[r].m_nodeMBR)
    BY <1>4
  <2> QED
    BY <1>1, <1>2, <1>5, <2>1 DEF PageItem
<1>7. \A y \in s.queue : InQueue(t, query, y)
  BY <1>3, <1>6 DEF InQueue
<1>8. \A e \in DataOf(t) : Reached(t, query, s, e)
  BY <1>1, <1>2, <1>3, <1>6, AllUnderRoot DEF Reached
<1>9. ByDistance(s) /\ Founds(t, k, query, s)
  BY <1>3, FS_EmptySet DEF ByDistance, Founds
<1>10. Unopened(t, query, s, DOMAIN t.page)
  <2>1. \A p \in DOMAIN t.page : \A e \in Es(t, p) : Level(t, p) > 0 => e.id \in DOMAIN t.page /\ e.id # r
    BY <1>1, LinkedIs DEF Searchable
  <2>2. \A e : Item(query, e) \notin s.queue
    BY <1>3, <1>5, ItemIs
  <2> QED
    BY <1>1, <1>2, <1>3, <2>1, <2>2 DEF Unopened
<1> QED
  BY <1>3, <1>7, <1>8, <1>9, <1>10 DEF Searching, s

Popped(t, k, query, s, u, A) ==
    /\ Searching(t, k, query, u, A)
    /\ \E e \in Unfound(t, query, s) : Unfound(t, query, u) = Unfound(t, query, s) \ {e}

\* A datum that comes out of the queue is found: fewer than k are nearer.
LEMMA SearchPops ==
    ASSUME NEW t, Searchable(t), NEW query, NonEmpty(query), NEW k \in Nat, 1 <= k, NEW A, NEW s,
           Searching(t, k, query, s, A), ~Enough(k, s), NEW x, x = Closest(s), x.level = -1,
           NEW u, u = [queue |-> s.queue \ {x}, found |-> s.found \cup {x}]
    PROVE  Popped(t, k, query, s, u, A)
<1> DEFINE d(e) == getMinimumDistance(query, e.mbr)
<1>1. /\ \A y \in s.queue : InQueue(t, query, y)
      /\ \A e \in DataOf(t) : Reached(t, query, s, e)
      /\ ByDistance(s) /\ Founds(t, k, query, s) /\ Unopened(t, query, s, A)
  BY DEF Searching
<1>2. s.queue # {}
  BY DEF Enough
<1>3. x \in s.queue /\ \A y \in s.queue : x.dist <= y.dist
  BY <1>1, <1>2, ClosestIs
<1>4. DOMAIN u = {"queue", "found"} /\ u.queue = s.queue \ {x} /\ u.found = s.found \cup {x}
  OBVIOUS
<1>5. x.entry \in DataOf(t) /\ x = Item(query, x.entry)
  BY <1>1, <1>3 DEF InQueue, PageItem
<1> DEFINE z == x.entry
<1>6. z \in DataOf(t) /\ x = Item(query, z) /\ x.dist = d(z)
  BY <1>5, ItemIs
<1> HIDE DEF z
<1>7. x \notin s.found
  BY <1>1, <1>3 DEF Unopened
<1>8. \A y \in u.queue : InQueue(t, query, y)
  BY <1>1, <1>4
<1>9. \A e \in DataOf(t) : Reached(t, query, u, e)
  <2> TAKE e \in DataOf(t)
  <2>1. Reached(t, query, s, e)
    BY <1>1
  <2>2. \A y : PageItem(t, query, y) => y # x
    BY DEF PageItem
  <2> QED
    BY <1>4, <2>1, <2>2 DEF Reached
<1>10. ByDistance(u)
  <2> SUFFICES ASSUME NEW f \in u.found, NEW y \in u.queue PROVE f.dist <= y.dist
    BY DEF ByDistance
  <2>1. CASE f = x
    BY <1>3, <1>4, <2>1
  <2>2. CASE f # x
    BY <1>1, <1>4, <2>2 DEF ByDistance
  <2> QED
    BY <2>1, <2>2
<1>11. IsFiniteSet(s.found) /\ IsFiniteSet(DataOf(t))
  BY <1>1 DEF Founds, Searchable
<1>12. \A f \in s.found : f.entry \in DataOf(t) /\ f = Item(query, f.entry) /\ Cardinality(Before(t, query, f.entry)) < k
  BY <1>1 DEF Founds
<1>13. \A e \in DataOf(t) : IsFiniteSet(Before(t, query, e)) /\ Cardinality(Before(t, query, e)) \in Nat
  <2> TAKE e \in DataOf(t)
  <2>1. Before(t, query, e) \subseteq DataOf(t)
    BY DEF Before
  <2> QED
    BY <1>11, <2>1, FS_Subset, FS_CardinalityType
<1>14. \A e \in DataOf(t) : d(e) \in Nat
  BY DataShaped
<1>15. Cardinality(Before(t, query, z)) < k
  <2> DEFINE B == Before(t, query, z)
  <2>1. ASSUME NEW e \in B PROVE Item(query, e) \in s.found
    <3>1. e \in DataOf(t) /\ d(e) < d(z)
      BY <2>1 DEF Before
    <3>2. CASE Item(query, e) \notin s.found
      <4>1. x.dist <= d(e)
        BY <3>1, <3>2, RestFarther
      <4>2. d(e) \in Nat /\ d(z) \in Nat
        BY <1>6, <1>14, <3>1
      <4> HIDE DEF d
      <4> QED
        BY <1>6, <3>1, <4>1, <4>2
    <3> QED
      BY <3>2
  <2>2. IsFiniteSet(B) /\ Cardinality(B) \in Nat
    BY <1>6, <1>13
  <2>3. CASE Cardinality(s.found) < k
    <3> DEFINE F == [f \in s.found |-> f.entry]
    <3> DEFINE T == {F[f] : f \in s.found}
    <3> DEFINE S == s.found
    <3>1. IsFiniteSet(T) /\ Cardinality(T) <= Cardinality(S)
      <4> HIDE DEF F
      <4> QED
        BY <1>11, FiniteImage
    <3>2. \A e \in B : Item(query, e) \in S /\ F[Item(query, e)] = e
      BY <2>1, ItemIs
    <3>3. B \subseteq T
      <4> HIDE DEF F, B
      <4> QED
        BY <3>2
    <3>4. Cardinality(B) <= Cardinality(T)
      BY <3>1, <3>3, FS_Subset
    <3>5. Cardinality(T) \in Nat /\ Cardinality(S) \in Nat
      BY <1>11, <3>1, FS_CardinalityType
    <3> HIDE DEF B, T
    <3> QED
      BY <2>2, <2>3, <3>1, <3>4, <3>5 DEF B
  <2>4. CASE ~(Cardinality(s.found) < k)
    <3> DEFINE N == {0} \cup {f.dist : f \in s.found}
    <3> DEFINE c == Cardinality(s.found)
    <3>1. c \in Nat
      BY <1>11, FS_CardinalityType
    <3>2. c >= k
      <4> HIDE DEF c
      <4> QED
        BY <2>4, <3>1 DEF c
    <3>3. ~(x.dist > Max(N))
      BY <3>2 DEF Enough, Farthest
    <3>4. N \in SUBSET Nat /\ N # {}
      <4>1. \A f \in s.found : f.dist \in Nat
        BY <1>12, <1>14, ItemIs
      <4> QED
        BY <4>1
    <3>5. IsFiniteSet(N)
      <4> DEFINE F == [f \in s.found |-> f.dist]
      <4> DEFINE T == {F[f] : f \in s.found}
      <4>1. IsFiniteSet(T)
        <5> HIDE DEF F
        <5> QED
          BY <1>11, FiniteImage
      <4>2. N = {0} \cup T
        OBVIOUS
      <4> HIDE DEF N, T
      <4> QED
        BY <4>1, <4>2, FS_Singleton, FS_Union
    <3>6. Max(N) \in N
      <4> HIDE DEF N
      <4>1. N \in SUBSET Int
        BY <3>4
      <4> QED
        BY <3>4, <3>5, <4>1, MaxIs
    <3> DEFINE m == Max(N)
    <3>7. m \in Nat /\ ~(x.dist > m) /\ m \in N
      BY <3>3, <3>4, <3>6
    <3> HIDE DEF m
    <3>8. d(z) \in Nat /\ d(z) <= m
      <4>1. x.dist = d(z) /\ d(z) \in Nat
        BY <1>6, <1>14
      <4> HIDE DEF d, N
      <4> QED
        BY <3>7, <4>1
    <3>9. CASE m = 0
      <4>1. B = {}
        <5> SUFFICES ASSUME NEW e \in B PROVE FALSE
          OBVIOUS
        <5>1. d(e) \in Nat /\ d(e) < d(z)
          BY <1>14 DEF Before
        <5> HIDE DEF d
        <5> QED
          BY <3>8, <3>9, <5>1
      <4>2. Cardinality(B) = 0
        <5> HIDE DEF B
        <5> QED
          BY <4>1, FS_EmptySet
      <4> HIDE DEF B
      <4> QED
        BY <4>2 DEF B
    <3>10. CASE m # 0
      <4>1. PICK f \in s.found : f.dist = m
        BY <3>7, <3>10
      <4>2. f.entry \in DataOf(t) /\ f.dist = d(f.entry) /\ Cardinality(Before(t, query, f.entry)) < k
        BY <1>12, ItemIs
      <4>3. B \subseteq Before(t, query, f.entry)
        <5> SUFFICES ASSUME NEW e \in B PROVE e \in Before(t, query, f.entry)
          OBVIOUS
        <5>1. e \in DataOf(t) /\ d(e) \in Nat /\ d(e) < d(z)
          BY <1>14 DEF Before
        <5>2. d(e) < d(f.entry)
          <6>1. d(f.entry) = m
            BY <4>1, <4>2
          <6> HIDE DEF d
          <6> QED
            BY <3>7, <3>8, <5>1, <6>1
        <5> QED
          BY <5>1, <5>2 DEF Before
      <4> DEFINE D == Before(t, query, f.entry)
      <4>4. IsFiniteSet(D) /\ Cardinality(D) \in Nat /\ B \subseteq D /\ Cardinality(D) < k
        BY <1>13, <4>2, <4>3
      <4> HIDE DEF B, D
      <4>5. Cardinality(B) <= Cardinality(D)
        BY <4>4, FS_Subset
      <4> QED
        BY <2>2, <4>4, <4>5 DEF B
    <3> QED
      BY <3>9, <3>10
  <2> QED
    BY <2>3, <2>4
<1>16. Founds(t, k, query, u)
  <2>1. IsFiniteSet(u.found)
    BY <1>4, <1>11, FS_AddElement
  <2>2. x.entry \in DataOf(t) /\ x = Item(query, x.entry) /\ Cardinality(Before(t, query, x.entry)) < k
    BY <1>5, <1>15 DEF z
  <2> QED
    BY <1>4, <1>12, <2>1, <2>2 DEF Founds
<1>17. Unopened(t, query, u, A)
  BY <1>1, <1>3, <1>4 DEF Unopened
<1>18. Searching(t, k, query, u, A)
  BY <1>4, <1>8, <1>9, <1>10, <1>16, <1>17 DEF Searching
<1>19. z \in Unfound(t, query, s)
  BY <1>6, <1>7 DEF Unfound
<1>20. Unfound(t, query, u) = Unfound(t, query, s) \ {z}
  <2>1. \A e : Item(query, e) = x <=> e = z
    BY <1>6, ItemIs
  <2> QED
    BY <1>4, <2>1 DEF Unfound
<1> QED
  BY <1>18, <1>19, <1>20 DEF Popped


\* The item of the entry c of page p.
ChildItem(t, query, p, c) ==
    [dist |-> getMinimumDistance(query, c.mbr), entry |-> c, level |-> Level(t, p) - 1]

\* What an opened page puts in the queue.
LEMMA OpenedIs ==
    ASSUME NEW t, Searchable(t), NEW query, NonEmpty(query), NEW p \in DOMAIN t.page,
           NEW O, O = Opened(t, query, t.page[p])
    PROVE  /\ \A y : y \in O <=> \E c \in Es(t, p) : y = ChildItem(t, query, p, c)
           /\ \A c \in Es(t, p) : /\ ChildItem(t, query, p, c).entry = c
                                  /\ ChildItem(t, query, p, c).dist = getMinimumDistance(query, c.mbr)
                                  /\ ChildItem(t, query, p, c).level = Level(t, p) - 1
           /\ Level(t, p) \in Nat
           /\ Level(t, p) = 0 => \A c \in Es(t, p) : c \in DataOf(t) /\ ChildItem(t, query, p, c) = Item(query, c)
           /\ Level(t, p) > 0 => \A c \in Es(t, p) : PageItem(t, query, ChildItem(t, query, p, c))
<1>1. Level(t, p) \in Nat /\ Linked(t) /\ Bounded(t)
  BY LinkedIs DEF Searchable
<1>2. \A y : y \in O <=> \E c \in Es(t, p) : y = ChildItem(t, query, p, c)
  BY DEF Opened, ChildItem, Es, Level
<1>3. \A c : /\ ChildItem(t, query, p, c).entry = c
             /\ ChildItem(t, query, p, c).dist = getMinimumDistance(query, c.mbr)
             /\ ChildItem(t, query, p, c).level = Level(t, p) - 1
  BY DEF ChildItem
<1>4. ASSUME Level(t, p) = 0, NEW c \in Es(t, p)
      PROVE  c \in DataOf(t) /\ ChildItem(t, query, p, c) = Item(query, c)
  <2>1. c \in DataOf(t)
    BY <1>4 DEF DataOf, Es, Level
  <2>2. Level(t, p) - 1 = -1
    BY <1>4
  <2> QED
    BY <2>1, <2>2 DEF ChildItem, Item
<1>5. ASSUME Level(t, p) > 0, NEW c \in Es(t, p)
      PROVE  PageItem(t, query, ChildItem(t, query, p, c))
  <2> DEFINE y == ChildItem(t, query, p, c)
  <2>1. y.entry = c /\ y.dist = getMinimumDistance(query, c.mbr) /\ y.level = Level(t, p) - 1
    BY <1>3
  <2> HIDE DEF y
  <2>2. c.id \in DOMAIN t.page /\ Level(t, c.id) = Level(t, p) - 1 /\ t.page[c.id].m_nodeMBR = c.mbr
    BY <1>1, <1>5, LinkedIs DEF Level
  <2>3. y.level # -1
    BY <1>1, <1>5, <2>1
  <2>4. c.mbr \in AnyRegion /\ query \in AnyRegion
    BY <1>1, BoundedIs DEF NonEmpty
  <2>5. y.dist \in Nat
    BY <2>1, <2>4, DistanceNat
  <2>6. y.dist <= getMinimumDistance(query, t.page[c.id].m_nodeMBR)
    BY <2>1, <2>2, <2>5
  <2> QED
    BY <2>1, <2>2, <2>3, <2>5, <2>6 DEF PageItem, y
<1> QED
  BY <1>1, <1>2, <1>3, <1>4, <1>5

\* A page that comes out of the queue is opened.
LEMMA SearchOpens ==
    ASSUME NEW t, Searchable(t), NEW query, NonEmpty(query), NEW k, NEW A, NEW s,
           Searching(t, k, query, s, A), ~Enough(k, s), NEW x, x = Closest(s), x.level # -1,
           NEW u, u = [s EXCEPT !.queue = (s.queue \ {x}) \cup Opened(t, query, t.page[x.entry.id])]
    PROVE  /\ Searching(t, k, query, u, A \ {x.entry.id}) /\ x.entry.id \in A
           /\ Unfound(t, query, u) = Unfound(t, query, s)
<1> DEFINE p == x.entry.id
<1> DEFINE O == Opened(t, query, t.page[p])
<1> DEFINE C(c) == ChildItem(t, query, p, c)
<1>1. /\ \A y \in s.queue : InQueue(t, query, y)
      /\ \A e \in DataOf(t) : Reached(t, query, s, e)
      /\ ByDistance(s) /\ Founds(t, k, query, s) /\ Unopened(t, query, s, A)
      /\ DOMAIN s = {"queue", "found"}
  BY DEF Searching
<1>2. s.queue # {}
  BY DEF Enough
<1>3. x \in s.queue /\ \A y \in s.queue : x.dist <= y.dist
  BY <1>1, <1>2, ClosestIs
<1>4. DOMAIN u = {"queue", "found"} /\ u.queue = (s.queue \ {x}) \cup O /\ u.found = s.found
  BY <1>1
<1>5. PageItem(t, query, x)
  BY <1>1, <1>3, ItemIs DEF InQueue
<1>6. p \in DOMAIN t.page /\ p \in A /\ x.level = Level(t, p) /\ x.dist \in Nat
      /\ x.dist <= getMinimumDistance(query, t.page[p].m_nodeMBR)
  BY <1>1, <1>3, <1>5 DEF Unopened, PageItem
<1>7. /\ \A y : y \in O <=> \E c \in Es(t, p) : y = C(c)
      /\ \A c \in Es(t, p) : /\ C(c).entry = c /\ C(c).dist = getMinimumDistance(query, c.mbr)
                             /\ C(c).level = Level(t, p) - 1
      /\ Level(t, p) \in Nat
      /\ Level(t, p) = 0 => \A c \in Es(t, p) : c \in DataOf(t) /\ C(c) = Item(query, c)
      /\ Level(t, p) > 0 => \A c \in Es(t, p) : PageItem(t, query, C(c))
  BY <1>6, OpenedIs
<1> HIDE DEF p, O, C
<1>8. \A y \in u.queue : InQueue(t, query, y)
  <2> TAKE y \in u.queue
  <2>1. CASE y \in s.queue
    BY <1>1, <2>1
  <2>2. ASSUME NEW c \in Es(t, p), y = C(c) PROVE InQueue(t, query, y)
    <3>1. CASE Level(t, p) = 0
      BY <1>7, <2>2, <3>1 DEF InQueue
    <3>2. CASE Level(t, p) > 0
      BY <1>7, <2>2, <3>2 DEF InQueue
    <3> QED
      BY <1>7, <3>1, <3>2
  <2> QED
    BY <1>4, <1>7, <2>1, <2>2
<1>9. \A e \in DataOf(t) : Reached(t, query, u, e)
  <2> TAKE e \in DataOf(t)
  <2>1. Reached(t, query, s, e)
    BY <1>1
  <2>2. CASE Item(query, e) \in s.found
    BY <1>4, <2>2 DEF Reached
  <2>3. CASE Item(query, e) \in s.queue
    <3>1. Item(query, e) # x
      BY ItemIs
    <3> QED
      BY <1>4, <2>3, <3>1 DEF Reached
  <2>4. ASSUME NEW y \in s.queue, PageItem(t, query, y), e \in Under(t, y.entry.id)
        PROVE  Reached(t, query, u, e)
    <3>1. CASE y # x
      BY <1>4, <2>4, <3>1 DEF Reached
    <3>2. CASE y = x
      <4>1. e \in Under(t, p)
        BY <2>4, <3>2 DEF p
      <4>2. Linked(t)
        BY DEF Searchable
      <4>3. e \in IF Level(t, p) = 0 THEN Es(t, p) ELSE UNION {Under(t, f.id) : f \in Es(t, p)}
        BY <1>6, <4>1, <4>2, UnderIs
      <4>4. CASE Level(t, p) = 0
        <5>1. C(e) \in O /\ C(e) = Item(query, e)
          BY <1>7, <4>3, <4>4
        <5> QED
          BY <1>4, <5>1 DEF Reached
      <4>5. CASE Level(t, p) # 0
        <5>1. PICK f \in Es(t, p) : e \in Under(t, f.id)
          BY <4>3, <4>5
        <5>2. C(f) \in O /\ PageItem(t, query, C(f)) /\ C(f).entry = f
          BY <1>7, <4>5
        <5>3. C(f) \in u.queue /\ e \in Under(t, C(f).entry.id)
          BY <1>4, <5>1, <5>2
        <5> QED
          BY <5>2, <5>3 DEF Reached
      <4> QED
        BY <4>4, <4>5
    <3> QED
      BY <3>1, <3>2
  <2> QED
    BY <2>1, <2>2, <2>3, <2>4 DEF Reached
<1>10. ByDistance(u)
  <2> SUFFICES ASSUME NEW f \in u.found, NEW y \in u.queue PROVE f.dist <= y.dist
    BY DEF ByDistance
  <2>1. f \in s.found /\ f.dist <= x.dist
    BY <1>1, <1>3, <1>4 DEF ByDistance
  <2>2. CASE y \in s.queue
    BY <1>1, <2>1, <2>2 DEF ByDistance
  <2>3. ASSUME NEW c \in Es(t, p), y = C(c) PROVE f.dist <= y.dist
    <3>1. NonEmpty(c.mbr) /\ containsRegion(t.page[p].m_nodeMBR, c.mbr) /\ t.page[p].m_nodeMBR \in AnyRegion
      BY <1>6, BoundedIs DEF Searchable
    <3> DEFINE m == getMinimumDistance(query, t.page[p].m_nodeMBR)
    <3>2. m <= getMinimumDistance(query, c.mbr) /\ m \in Nat
      BY <3>1, DistanceWithin, DistanceNat DEF NonEmpty
    <3>3. getMinimumDistance(query, c.mbr) \in Nat
      BY <3>1, DistanceNat DEF NonEmpty
    <3>4. f.dist \in Nat
      BY <1>1, <2>1, ItemIs, DataShaped DEF Founds
    <3>5. y.dist = getMinimumDistance(query, c.mbr) /\ x.dist <= m
      BY <1>6, <1>7, <2>3
    <3> DEFINE n == getMinimumDistance(query, c.mbr)
    <3> HIDE DEF m, n
    <3> QED
      BY <1>6, <2>1, <3>2, <3>3, <3>4, <3>5 DEF n
  <2> QED
    BY <1>4, <1>7, <2>2, <2>3
<1>11. Founds(t, k, query, u)
  BY <1>1, <1>4 DEF Founds
<1>12. \A q, v \in DOMAIN t.page : \A e \in Es(t, q), f \in Es(t, v) :
          /\ Level(t, q) > 0 /\ Level(t, v) > 0 /\ e.id = f.id => q = v /\ e = f
          /\ Level(t, q) = 0 /\ Level(t, v) = 0 /\ e = f => q = v
  BY DEF Searchable
<1>13. /\ A \subseteq DOMAIN t.page
       /\ \A y \in s.queue : PageItem(t, query, y) => y.entry.id \in A
       /\ \A y, z \in s.queue : PageItem(t, query, y) /\ PageItem(t, query, z) /\ y.entry.id = z.entry.id => y = z
       /\ \A q \in A : \A e \in Es(t, q) :
             /\ Level(t, q) > 0 => e.id \in A /\ \A y \in s.queue : PageItem(t, query, y) => y.entry.id # e.id
             /\ Level(t, q) = 0 => Item(query, e) \notin s.queue /\ Item(query, e) \notin s.found
       /\ \A y \in s.queue : y \notin s.found
  BY <1>1 DEF Unopened
<1> DEFINE B == A \ {p}
\* Pages that come to the queue are below p.
<1>14. ASSUME NEW y \in O, PageItem(t, query, y)
       PROVE  /\ Level(t, p) > 0
              /\ \E c \in Es(t, p) : y = C(c) /\ y.entry = c /\ c.id \in A /\ c.id # p
  <2>1. PICK c \in Es(t, p) : y = C(c)
    BY <1>7
  <2>2. y.entry = c /\ y.level = Level(t, p) - 1 /\ Level(t, p) \in Nat
    BY <1>7, <2>1
  <2>3. Level(t, p) > 0
    BY <1>14, <2>2 DEF PageItem
  <2>4. c.id \in A /\ c.id # x.entry.id
    BY <1>3, <1>5, <1>6, <1>13, <2>3
  <2> QED
    BY <2>1, <2>2, <2>3, <2>4 DEF p
<1>15. \A y \in u.queue : PageItem(t, query, y) => y.entry.id \in B
  <2> SUFFICES ASSUME NEW y \in u.queue, PageItem(t, query, y) PROVE y.entry.id \in B
    OBVIOUS
  <2>1. CASE y \in O
    BY <1>14, <2>1
  <2>2. CASE y \in s.queue /\ y # x
    <3>1. y.entry.id \in A /\ y.entry.id # x.entry.id
      BY <1>3, <1>5, <1>13, <2>2
    <3> QED
      BY <3>1 DEF p
  <2> QED
    BY <1>4, <2>1, <2>2
<1>16. ASSUME NEW y \in s.queue, PageItem(t, query, y), NEW z \in O, PageItem(t, query, z), y.entry.id = z.entry.id
       PROVE  FALSE
  <2>1. PICK c \in Es(t, p) : z.entry = c /\ Level(t, p) > 0
    BY <1>14, <1>16
  <2>2. y.entry.id # c.id
    BY <1>6, <1>13, <1>16, <2>1
  <2> QED
    BY <1>16, <2>1, <2>2
<1>17. ASSUME NEW y \in O, PageItem(t, query, y), NEW z \in O, PageItem(t, query, z), y.entry.id = z.entry.id
       PROVE  y = z
  <2>1. PICK c \in Es(t, p) : y = C(c) /\ y.entry = c /\ Level(t, p) > 0
    BY <1>14, <1>17
  <2>2. PICK e \in Es(t, p) : z = C(e) /\ z.entry = e
    BY <1>14, <1>17
  <2>3. c = e
    BY <1>6, <1>12, <1>17, <2>1, <2>2
  <2> QED
    BY <2>1, <2>2, <2>3
<1>18. \A y, z \in u.queue : PageItem(t, query, y) /\ PageItem(t, query, z) /\ y.entry.id = z.entry.id => y = z
  <2> SUFFICES ASSUME NEW y \in u.queue, NEW z \in u.queue, PageItem(t, query, y), PageItem(t, query, z),
                      y.entry.id = z.entry.id
               PROVE  y = z
    OBVIOUS
  <2>1. CASE y \in O /\ z \in O
    BY <1>17, <2>1
  <2>2. CASE y \notin O /\ z \in O
    <3>1. y \in s.queue
      BY <1>4, <2>2
    <3> QED
      BY <1>16, <2>2, <3>1
  <2>3. CASE y \in O /\ z \notin O
    <3>1. z \in s.queue
      BY <1>4, <2>3
    <3> QED
      BY <1>16, <2>3, <3>1
  <2>4. CASE y \notin O /\ z \notin O
    <3>1. y \in s.queue /\ z \in s.queue
      BY <1>4, <2>4
    <3> QED
      BY <1>13, <3>1
  <2> QED
    BY <2>1, <2>2, <2>3, <2>4
<1>19. ASSUME NEW q \in B, NEW e \in Es(t, q), Level(t, q) > 0
       PROVE  e.id \in B /\ \A y \in u.queue : PageItem(t, query, y) => y.entry.id # e.id
  <2>1. q \in A /\ q \in DOMAIN t.page /\ q # p
    BY <1>13
  <2>2. e.id \in A /\ \A y \in s.queue : PageItem(t, query, y) => y.entry.id # e.id
    BY <1>13, <1>19, <2>1
  <2>3. e.id # p
    BY <1>3, <1>5, <2>2 DEF p
  <2>4. ASSUME NEW y \in O, PageItem(t, query, y) PROVE y.entry.id # e.id
    <3>1. PICK c \in Es(t, p) : y.entry = c /\ Level(t, p) > 0
      BY <1>14, <2>4
    <3>2. c.id # e.id
      BY <1>6, <1>12, <1>19, <2>1, <3>1
    <3> QED
      BY <3>1, <3>2
  <2> QED
    BY <1>4, <2>2, <2>3, <2>4
<1>20. ASSUME NEW q \in B, NEW e \in Es(t, q), Level(t, q) = 0
       PROVE  Item(query, e) \notin u.queue /\ Item(query, e) \notin u.found
  <2>1. q \in A /\ q \in DOMAIN t.page /\ q # p
    BY <1>13
  <2>2. Item(query, e) \notin s.queue /\ Item(query, e) \notin s.found
    BY <1>13, <1>20, <2>1
  <2>3. CASE Item(query, e) \in O
    <3>1. PICK c \in Es(t, p) : Item(query, e) = C(c)
      BY <1>7, <2>3
    <3>2. c = e /\ Level(t, p) - 1 = -1
      BY <1>7, <3>1, ItemIs
    <3>3. Level(t, p) = 0
      BY <1>7, <3>2
    <3> QED
      BY <1>6, <1>12, <1>20, <2>1, <3>2, <3>3
  <2> QED
    BY <1>4, <2>2, <2>3
<1>21. ASSUME NEW y \in u.queue PROVE y \notin u.found
  <2>1. CASE y \in s.queue
    BY <1>4, <1>13, <2>1
  <2>2. ASSUME NEW c \in Es(t, p), y = C(c) PROVE y \notin s.found
    <3>1. CASE Level(t, p) = 0
      <4>1. y = Item(query, c)
        BY <1>7, <2>2, <3>1
      <4> QED
        BY <1>6, <1>13, <3>1, <4>1
    <3>2. CASE Level(t, p) > 0
      <4>1. y.level # -1
        BY <1>7, <2>2, <3>2 DEF PageItem
      <4>2. \A f \in s.found : f.level = -1
        BY <1>1, ItemIs DEF Founds
      <4> QED
        BY <4>1, <4>2
    <3> QED
      BY <1>7, <3>1, <3>2
  <2> QED
    BY <1>4, <1>7, <2>1, <2>2
<1>22. B \subseteq DOMAIN t.page
  BY <1>13
<1> HIDE DEF B
<1>23. Unopened(t, query, u, B)
  BY <1>15, <1>18, <1>19, <1>20, <1>21, <1>22 DEF Unopened
<1>24. Searching(t, k, query, u, B)
  BY <1>4, <1>8, <1>9, <1>10, <1>11, <1>23 DEF Searching
<1>25. Unfound(t, query, u) = Unfound(t, query, s)
  BY <1>4 DEF Unfound
<1> QED
  BY <1>6, <1>24, <1>25 DEF B, p


\* The queue and what was found, step by step.
NearStepsFun(t, most, query, n) == CHOOSE g : g = [k \in 0 .. n |-> IF k = 0 THEN Begun(t) ELSE Nearer(t, most, query, g[k - 1])]

\* The search, as a recursion.
LEMMA NearSteps ==
    ASSUME NEW t, NEW most, NEW query, NEW n \in Nat, NEW f, f = NearStepsFun(t, most, query, n)
    PROVE  /\ f[0] = Begun(t)
           /\ \A k \in 1 .. n : f[k] = Nearer(t, most, query, f[k - 1])
<1> DEFINE S(k, x) == Nearer(t, most, query, x)
<1> DEFINE B == Begun(t)
<1> DEFINE Solves(m, g) == g = [k \in 0 .. m |-> IF k = 0 THEN B ELSE S(k, g[k - 1])]
<1> DEFINE Wrong == {m \in Nat : ~ \E g : Solves(m, g)}
<1> HIDE DEF S, B
<1>1. ASSUME Wrong # {} PROVE FALSE
  <2>1. PICK m \in Wrong : \A j \in Wrong : m <= j
    BY <1>1, LeastExists
  <2>2. CASE m = 0
    <3> DEFINE g == [k \in 0 .. 0 |-> B]
    <3>1. Solves(0, g)
      OBVIOUS
    <3> QED
      BY <2>1, <2>2, <3>1
  <2>3. CASE m # 0
    <3>1. m - 1 \in Nat /\ m - 1 \notin Wrong
      <4>1. m \in Nat /\ m - 1 \in Nat
        BY <2>1, <2>3
      <4> HIDE DEF Wrong
      <4> QED
        BY <2>1, <4>1
    <3>2. PICK g : Solves(m - 1, g)
      BY <3>1
    <3> DEFINE h == [k \in 0 .. m |-> IF k < m THEN g[k] ELSE S(m, g[m - 1])]
    <3>3. ASSUME NEW k \in 0 .. m PROVE h[k] = IF k = 0 THEN B ELSE S(k, h[k - 1])
      <4>1. CASE k = 0
        <5>1. g[0] = B
          BY <3>1, <3>2
        <5> QED
          BY <2>3, <4>1, <5>1
      <4>2. CASE k # 0 /\ k < m
        <5>1. k \in 0 .. m - 1 /\ k - 1 \in 0 .. m
          BY <4>2
        <5>2. g[k] = S(k, g[k - 1])
          BY <3>2, <4>2, <5>1
        <5>3. h[k] = g[k] /\ h[k - 1] = g[k - 1]
          BY <4>2, <5>1
        <5> HIDE DEF h
        <5> QED
          BY <4>2, <5>2, <5>3
      <4>3. CASE k = m
        <5>1. m - 1 \in 0 .. m /\ m - 1 < m
          BY <3>1
        <5>2. h[m] = S(m, g[m - 1]) /\ h[m - 1] = g[m - 1]
          BY <2>3, <5>1
        <5> HIDE DEF h
        <5> QED
          BY <2>3, <4>3, <5>2
      <4> QED
        BY <4>1, <4>2, <4>3
    <3>4. h = [k \in 0 .. m |-> h[k]]
      OBVIOUS
    <3> HIDE DEF h
    <3>5. Solves(m, h)
      BY <3>3, <3>4
    <3> QED
      BY <2>1, <3>5
  <2> QED
    BY <2>2, <2>3
<1>2. \E g : Solves(n, g)
  BY <1>1
<1>3. \E g : g = [k \in 0 .. n |-> IF k = 0 THEN B ELSE S(k, g[k - 1])]
  BY <1>2
<1>4. f = CHOOSE g : g = [k \in 0 .. n |-> IF k = 0 THEN B ELSE S(k, g[k - 1])]
  BY DEF S, B, NearStepsFun
<1>5. f = [k \in 0 .. n |-> IF k = 0 THEN B ELSE S(k, f[k - 1])]
  BY <1>3, <1>4
<1>6. \A k \in 0 .. n : f[k] = IF k = 0 THEN B ELSE S(k, f[k - 1])
  BY <1>5, Zenon
<1>7. f[0] = B
  BY <1>6
<1>8. ASSUME NEW k \in 1 .. n PROVE f[k] = S(k, f[k - 1])
  <2>1. k \in 0 .. n /\ k # 0
    OBVIOUS
  <2> QED
    BY <1>6, <2>1
<1> QED
  BY <1>7, <1>8 DEF S, B

\* nearestNeighborQuery is the last step's result.
LEMMA NearestIs ==
    ASSUME NEW t, NEW most, NEW query, NEW N, N = Cardinality(DOMAIN t.page) + Cardinality(DataOf(t))
    PROVE  nearestNeighborQuery(t, most, query) =
              {x.entry : x \in NearStepsFun(t, most, query, N)[N].found}
  BY DEF nearestNeighborQuery, NearStepsFun, Begun

\* The search goes on, and leaves less to do, or is over.
Sought(t, k, query, s, j, N) ==
    \E A : /\ Searching(t, k, query, s, A)
           /\ Enough(k, s) \/ Cardinality(A) + Cardinality(Unfound(t, query, s)) + j <= N

\* A step finds a neighbor, opens a page that has not been opened, or does nothing because enough was found.
LEMMA SoughtNext ==
    ASSUME NEW t, Searchable(t), NEW query, NonEmpty(query), NEW k \in Nat, 1 <= k, NEW s, NEW j \in Nat,
           NEW N \in Nat, Sought(t, k, query, s, j, N)
    PROVE  Sought(t, k, query, Nearer(t, k, query, s), j + 1, N)
<1> DEFINE u == Nearer(t, k, query, s)
<1> DEFINE x == Closest(s)
<1> DEFINE F == Unfound(t, query, s)
<1>1. PICK A : /\ Searching(t, k, query, s, A)
               /\ Enough(k, s) \/ Cardinality(A) + Cardinality(F) + j <= N
  BY DEF Sought
<1>2. /\ Enough(k, s) => u = s
      /\ ~Enough(k, s) /\ x.level = -1 => u = [queue |-> s.queue \ {x}, found |-> s.found \cup {x}]
      /\ ~Enough(k, s) /\ x.level # -1 =>
            u = [s EXCEPT !.queue = (s.queue \ {x}) \cup Opened(t, query, t.page[x.entry.id])]
  BY NearerIs
<1>3. IsFiniteSet(A) /\ Cardinality(A) \in Nat
  <2>1. A \subseteq DOMAIN t.page
    BY <1>1 DEF Searching, Unopened
  <2> QED
    BY <2>1, FS_Subset, FS_CardinalityType DEF Searchable
<1>4. IsFiniteSet(F) /\ Cardinality(F) \in Nat
  <2>1. F \subseteq DataOf(t)
    BY DEF Unfound
  <2> QED
    BY <2>1, FS_Subset, FS_CardinalityType DEF Searchable
<1> HIDE DEF u, x, F
<1>5. CASE Enough(k, s)
  <2>1. u = s
    BY <1>2, <1>5
  <2> QED
    BY <1>1, <1>5, <2>1 DEF Sought, u
<1>6. CASE ~Enough(k, s) /\ x.level = -1
  <2>1. u = [queue |-> s.queue \ {x}, found |-> s.found \cup {x}]
    BY <1>2, <1>6
  <2>2. Popped(t, k, query, s, u, A)
    BY <1>1, <1>6, <2>1, SearchPops DEF x
  <2>3. Searching(t, k, query, u, A)
    BY <2>2 DEF Popped
  <2>4. PICK e \in F : Unfound(t, query, u) = F \ {e}
    BY <2>2 DEF Popped, F
  <2>5. Cardinality(F \ {e}) = Cardinality(F) - 1
    BY <1>4, <2>4, FS_RemoveElement
  <2>6. Cardinality(A) + Cardinality(Unfound(t, query, u)) + (j + 1) <= N
    BY <1>1, <1>3, <1>4, <1>6, <2>4, <2>5
  <2> QED
    BY <2>3, <2>6 DEF Sought, u
<1>7. CASE ~Enough(k, s) /\ x.level # -1
  <2>1. u = [s EXCEPT !.queue = (s.queue \ {x}) \cup Opened(t, query, t.page[x.entry.id])]
    BY <1>2, <1>7
  <2> DEFINE B == A \ {x.entry.id}
  <2>2. Searching(t, k, query, u, B) /\ x.entry.id \in A /\ Unfound(t, query, u) = F
    BY <1>1, <1>7, <2>1, SearchOpens DEF x, F
  <2>3. Cardinality(B) = Cardinality(A) - 1
    BY <1>3, <2>2, FS_RemoveElement
  <2> HIDE DEF B
  <2>4. Cardinality(B) + Cardinality(Unfound(t, query, u)) + (j + 1) <= N
    BY <1>1, <1>3, <1>4, <1>7, <2>2, <2>3
  <2> QED
    BY <2>2, <2>4 DEF Sought, u
<1> QED
  BY <1>5, <1>6, <1>7

\* After that many steps it is over.
LEMMA SoughtOut ==
    ASSUME NEW t, Searchable(t), NEW query, NonEmpty(query), NEW k \in Nat, 1 <= k, NEW s, NEW N \in Nat,
           Sought(t, k, query, s, N, N)
    PROVE  Enough(k, s) /\ \E A : Searching(t, k, query, s, A)
<1> DEFINE F == Unfound(t, query, s)
<1>1. PICK A : /\ Searching(t, k, query, s, A)
               /\ Enough(k, s) \/ Cardinality(A) + Cardinality(F) + N <= N
  BY DEF Sought
<1>2. CASE ~Enough(k, s)
  <2>1. A \subseteq DOMAIN t.page /\ F \subseteq DataOf(t)
    BY <1>1 DEF Searching, Unopened, Unfound
  <2>2. IsFiniteSet(A) /\ IsFiniteSet(F) /\ Cardinality(A) \in Nat /\ Cardinality(F) \in Nat
    BY <2>1, FS_Subset, FS_CardinalityType DEF Searchable
  <2> HIDE DEF F
  <2>3. Cardinality(A) = 0 /\ Cardinality(F) = 0
    BY <1>1, <1>2, <2>2
  <2>4. A = {} /\ F = {}
    BY <2>2, <2>3, FS_EmptySet
  <2>5. \A y \in s.queue : FALSE
    <3> TAKE y \in s.queue
    <3>1. CASE PageItem(t, query, y)
      BY <1>1, <2>4, <3>1 DEF Searching, Unopened
    <3>2. CASE y.entry \in DataOf(t) /\ y = Item(query, y.entry)
      <4>1. y \notin s.found
        BY <1>1 DEF Searching, Unopened
      <4>2. y.entry \in F
        BY <3>2, <4>1 DEF F, Unfound
      <4> QED
        BY <2>4, <4>2
    <3> QED
      BY <1>1, <3>1, <3>2 DEF Searching, InQueue
  <2> QED
    BY <1>2, <2>5 DEF Enough
<1> QED
  BY <1>1, <1>2

\* When it is over just the k nearest were found, with all that are equally near.
LEMMA FoundNearest ==
    ASSUME NEW t, Searchable(t), NEW query, NonEmpty(query), NEW k \in Nat, 1 <= k, NEW A, NEW s,
           Searching(t, k, query, s, A), Enough(k, s)
    PROVE  {x.entry : x \in s.found} = {e \in DataOf(t) : Cardinality(Before(t, query, e)) < k}
<1> DEFINE d(e) == getMinimumDistance(query, e.mbr)
<1>1. /\ IsFiniteSet(s.found) /\ IsFiniteSet(DataOf(t))
      /\ \A x \in s.found : /\ x.entry \in DataOf(t) /\ x = Item(query, x.entry)
                            /\ Cardinality(Before(t, query, x.entry)) < k
      /\ \A y \in s.queue : InQueue(t, query, y)
  BY DEF Searching, Founds, Searchable
<1>2. ASSUME NEW e \in DataOf(t), Cardinality(Before(t, query, e)) < k
      PROVE  Item(query, e) \in s.found
  <2> SUFFICES ASSUME Item(query, e) \notin s.found PROVE FALSE
    OBVIOUS
  <2>1. s.queue # {} /\ Closest(s).dist <= d(e)
    BY RestFarther
  <2> DEFINE N == {0} \cup {x.dist : x \in s.found}
  <2> DEFINE c == Cardinality(s.found)
  <2> DEFINE m == Closest(s).dist
  <2>2. c >= k /\ m > Max(N)
    BY <2>1 DEF Enough, Farthest
  <2>3. N \in SUBSET Nat /\ N # {}
    <3>1. \A x \in s.found : x.dist \in Nat
      BY <1>1, ItemIs, DataShaped
    <3> QED
      BY <3>1
  <2>4. IsFiniteSet(N)
    <3> DEFINE G == [f \in s.found |-> f.dist]
    <3> DEFINE T == {G[f] : f \in s.found}
    <3>1. IsFiniteSet(T)
      <4> HIDE DEF G
      <4> QED
        BY <1>1, FiniteImage
    <3>2. N = {0} \cup T
      OBVIOUS
    <3> HIDE DEF N, T
    <3> QED
      BY <3>1, <3>2, FS_Singleton, FS_Union
  <2>5. Max(N) \in N /\ \A y \in N : y <= Max(N)
    <3> HIDE DEF N
    <3>1. N \in SUBSET Int
      BY <2>3
    <3> QED
      BY <2>3, <2>4, <3>1, MaxIs
  <2>6. m \in Nat /\ d(e) \in Nat
    BY <1>1, <2>1, ClosestIs, WaitingDist, DataShaped
  <2> DEFINE B == Before(t, query, e)
  <2>7. ASSUME NEW x \in s.found PROVE x.entry \in B
    <3>1. x.dist \in N
      OBVIOUS
    <3> DEFINE y == x.dist
    <3>2. y \in Nat /\ y <= Max(N) /\ Max(N) \in Nat
      BY <2>3, <2>5, <3>1
    <3>3. y = d(x.entry) /\ x.entry \in DataOf(t)
      BY <1>1, ItemIs
    <3>4. y < d(e)
      <4> HIDE DEF y, d, m, N
      <4> QED
        BY <2>1, <2>2, <2>6, <3>2 DEF m
    <3>5. d(x.entry) < d(e)
      <4> HIDE DEF y, d
      <4> QED
        BY <3>3, <3>4
    <3> QED
      BY <3>3, <3>5 DEF Before
  <2> DEFINE G == [x \in s.found |-> x.entry]
  <2> DEFINE T == {G[x] : x \in s.found}
  <2> DEFINE S == s.found
  <2>8. \A x, y \in S : G[x] = G[y] => x = y
    BY <1>1
  <2>9. IsFiniteSet(T) /\ Cardinality(T) = Cardinality(S)
    <3> HIDE DEF G
    <3> QED
      BY <1>1, <2>8, ImageCount
  <2>10. T \subseteq B
    <3>1. \A x \in S : G[x] \in B
      BY <2>7
    <3> HIDE DEF G, B
    <3> QED
      BY <3>1
  <2>11. IsFiniteSet(B) /\ Cardinality(B) \in Nat
    <3>1. B \subseteq DataOf(t)
      BY DEF Before
    <3> QED
      BY <1>1, <3>1, FS_Subset, FS_CardinalityType
  <2> HIDE DEF B, T
  <2>12. Cardinality(T) <= Cardinality(B)
    BY <2>10, <2>11, FS_Subset
  <2>13. Cardinality(T) \in Nat
    BY <2>9, FS_CardinalityType
  <2>14. Cardinality(T) >= k /\ Cardinality(B) < k
    BY <1>2, <2>2, <2>9 DEF B
  <2> QED
    BY <2>11, <2>12, <2>13, <2>14
<1>3. \A e : e \in {x.entry : x \in s.found} => e \in DataOf(t) /\ Cardinality(Before(t, query, e)) < k
  BY <1>1
<1>4. \A e \in DataOf(t) : Item(query, e) \in s.found => e \in {x.entry : x \in s.found}
  BY ItemIs
<1> QED
  BY <1>2, <1>3, <1>4

\* The query for the k nearest neighbors gives all the data that fewer than k are nearer
\* than, whatever the order in which pages of equal distance come out of the queue
\* (RTree::nearestNeighborQuery).
THEOREM NearestExact ==
    ASSUME NEW t, Searchable(t), NEW query, NonEmpty(query), NEW k \in Nat, 1 <= k
    PROVE  nearestNeighborQuery(t, k, query) =
              {e \in DataOf(t) : Cardinality(Before(t, query, e)) < k}
<1> DEFINE N == Cardinality(DOMAIN t.page) + Cardinality(DataOf(t))
<1> DEFINE f == NearStepsFun(t, k, query, N)
<1>1. IsFiniteSet(DOMAIN t.page) /\ IsFiniteSet(DataOf(t))
  BY DEF Searchable
<1>2. Cardinality(DOMAIN t.page) \in Nat /\ Cardinality(DataOf(t)) \in Nat
  BY <1>1, FS_CardinalityType
<1>3. N \in Nat
  BY <1>2
<1>4. nearestNeighborQuery(t, k, query) = {x.entry : x \in f[N].found}
  BY NearestIs
<1>5. /\ f[0] = Begun(t)
      /\ \A j \in 1 .. N : f[j] = Nearer(t, k, query, f[j - 1])
  <2> HIDE DEF N
  <2> QED
    BY <1>3, NearSteps
<1> HIDE DEF f
<1> DEFINE Good(j) == Sought(t, k, query, f[j], j, N)
<1>6. Good(0)
  <2> DEFINE A == DOMAIN t.page
  <2>1. Searching(t, k, query, f[0], A)
    BY <1>5, SearchStarts
  <2>2. Unfound(t, query, f[0]) = DataOf(t)
    BY <1>5 DEF Begun, Unfound
  <2>3. Cardinality(A) + Cardinality(Unfound(t, query, f[0])) + 0 <= N
    BY <1>2, <2>2
  <2> QED
    BY <2>1, <2>3 DEF Sought
<1> HIDE DEF N
<1>7. ASSUME NEW j \in 1 .. N, Good(j - 1) PROVE Good(j)
  <2>1. j - 1 \in Nat /\ (j - 1) + 1 = j /\ f[j] = Nearer(t, k, query, f[j - 1])
    BY <1>3, <1>5
  <2> DEFINE i == j - 1
  <2> DEFINE s == f[i]
  <2>2. Sought(t, k, query, s, i, N) /\ i \in Nat
    BY <1>7, <2>1
  <2> HIDE DEF i, s
  <2>3. Sought(t, k, query, Nearer(t, k, query, s), i + 1, N)
    BY <1>3, <2>2, SoughtNext
  <2> QED
    BY <2>1, <2>3 DEF i, s
<1> HIDE DEF Good
<1>8. \A j \in 0 .. N : Good(j)
  <2> DEFINE Wrong == {j \in 0 .. N : ~Good(j)}
  <2> SUFFICES ASSUME Wrong # {} PROVE FALSE
    OBVIOUS
  <2>1. Wrong \in SUBSET Nat
    OBVIOUS
  <2>2. PICK j \in Wrong : \A i \in Wrong : j <= i
    BY <2>1, LeastExists
  <2>3. j # 0 /\ j \in 0 .. N /\ ~Good(j)
    BY <1>6, <2>2
  <2>4. j \in 1 .. N /\ j - 1 \in 0 .. N /\ ~(j <= j - 1)
    BY <1>3, <2>3
  <2>5. Good(j - 1)
    BY <2>2, <2>4
  <2> QED
    BY <1>7, <2>3, <2>4, <2>5
<1>9. Good(N)
  BY <1>3, <1>8
<1> DEFINE s == f[N]
<1>10. Sought(t, k, query, s, N, N)
  BY <1>9 DEF Good
<1>11. Enough(k, s) /\ \E A : Searching(t, k, query, s, A)
  <2> HIDE DEF s
  <2> QED
    BY <1>3, <1>10, SoughtOut
<1>12. {x.entry : x \in s.found} = {e \in DataOf(t) : Cardinality(Before(t, query, e)) < k}
  <2>1. PICK A : Searching(t, k, query, s, A)
    BY <1>11
  <2> HIDE DEF s
  <2> QED
    BY <1>11, <2>1, FoundNearest
<1> QED
  BY <1>4, <1>12 DEF N


\* Regions that may be asked for.
Askable == Window \subseteq AnyRegion /\ \A r \in Place : NonEmpty(r)

\* The tree's entries have different identifiers.
LEMMA IdsDiffer ==
    ASSUME Suits, NEW t, NEW n, GrownTo(t, n), NEW d \in DataOf(t), NEW e \in DataOf(t), d.id = e.id
    PROVE  d = e
<1> DEFINE L == Len(Input)
<1>1. L \in Nat /\ n \in 1 .. L + 1
  BY InputIs DEF GrownTo
<1>2. PICK j \in 1 .. n - 1 : Input[j] = d
  BY DEF GrownTo
<1>3. PICK k \in 1 .. n - 1 : Input[k] = e
  BY DEF GrownTo
<1> HIDE DEF L
<1>4. j \in 1 .. L /\ k \in 1 .. L
  BY <1>1, <1>2, <1>3
<1>5. j = k
  BY <1>2, <1>3, <1>4, InputIs DEF L
<1> QED
  BY <1>2, <1>3, <1>5

\* Every tree grown by insertions and deletions answers exactly.
LEMMA GrownAnswers ==
    ASSUME Suits, Askable, GrownNow
    PROVE  QueriesExact
<1>1. GrownTo(rtree, next)
  BY DEF GrownNow
<1>2. Works(rtree, {}, {}, {}) /\ IsFiniteSet(DataOf(rtree))
  BY <1>1 DEF GrownTo
<1>3. Searchable(rtree)
  BY <1>2, WorksSearchable
<1>4. Linked(rtree) /\ Bounded(rtree)
  BY <1>3 DEF Searchable
<1>5. ASSUME NEW r \in Window
      PROVE  /\ rangeQuery(rtree, "IntersectionQuery", r) = {e \in Entries : intersectsRegion(r, e.mbr)}
             /\ rangeQuery(rtree, "ContainmentQuery", r) = {e \in Entries : containsRegion(r, e.mbr)}
             /\ selfJoinQuery(rtree, r) =
                   {p \in Entries \X Entries : /\ p[1] # p[2] /\ intersectsRegion(p[1].mbr, p[2].mbr)
                                               /\ intersectsRegion(r, p[1].mbr)
                                               /\ intersectsRegion(r, p[2].mbr)}
  <2>1. r \in AnyRegion
    BY DEF Askable
  <2>2. \A type : rangeQuery(rtree, type, r) = {e \in Entries : Answers(type, r, e.mbr)}
    BY <1>4, <2>1, RangeQueryExact DEF Entries
  <2>3. rangeQuery(rtree, "IntersectionQuery", r) = {e \in Entries : intersectsRegion(r, e.mbr)}
    <3>1. \A e : Answers("IntersectionQuery", r, e.mbr) = intersectsRegion(r, e.mbr)
      BY DEF Answers
    <3> QED
      BY <2>2, <3>1
  <2>4. rangeQuery(rtree, "ContainmentQuery", r) = {e \in Entries : containsRegion(r, e.mbr)}
    <3>1. \A e : Answers("ContainmentQuery", r, e.mbr) = containsRegion(r, e.mbr)
      BY DEF Answers
    <3> QED
      BY <2>2, <3>1
  <2>5. selfJoinQuery(rtree, r) =
           {p \in Entries \X Entries : /\ p[1].id # p[2].id /\ intersectsRegion(p[1].mbr, p[2].mbr)
                                       /\ intersectsRegion(r, p[1].mbr)
                                       /\ intersectsRegion(r, p[2].mbr)}
    BY <1>4, <2>1, SelfJoinExact DEF Entries
  <2>6. \A p \in Entries \X Entries : p[1].id # p[2].id <=> p[1] # p[2]
    <3> TAKE p \in Entries \X Entries
    <3>1. p[1] \in DataOf(rtree) /\ p[2] \in DataOf(rtree)
      BY DEF Entries
    <3> QED
      BY <1>1, <3>1, IdsDiffer
  <2>7. {p \in Entries \X Entries : /\ p[1].id # p[2].id /\ intersectsRegion(p[1].mbr, p[2].mbr)
                                    /\ intersectsRegion(r, p[1].mbr)
                                    /\ intersectsRegion(r, p[2].mbr)} =
        {p \in Entries \X Entries : /\ p[1] # p[2] /\ intersectsRegion(p[1].mbr, p[2].mbr)
                                    /\ intersectsRegion(r, p[1].mbr)
                                    /\ intersectsRegion(r, p[2].mbr)}
    BY <2>6
  <2> QED
    BY <2>3, <2>4, <2>5, <2>7
<1>6. ASSUME NEW k \in 1 .. 2, NEW r \in Place
      PROVE  nearestNeighborQuery(rtree, k, r) =
                {e \in Entries : Cardinality({f \in Entries :
                    getMinimumDistance(r, f.mbr) < getMinimumDistance(r, e.mbr)}) < k}
  <2>1. NonEmpty(r) /\ k \in Nat /\ 1 <= k
    BY DEF Askable
  <2>2. nearestNeighborQuery(rtree, k, r) = {e \in DataOf(rtree) : Cardinality(Before(rtree, r, e)) < k}
    BY <1>3, <2>1, NearestExact
  <2> QED
    BY <2>2 DEF Before, Entries
<1> QED
  BY <1>5, <1>6 DEF QueriesExact

\* In every state of every behaviour each query gives exactly what looking at all the data
\* would: range queries of both types, the self-join and the nearest neighbors.
THEOREM TreeQueriesExact ==
    ASSUME Suits, Askable
    PROVE  TreeSpec => []QueriesExact
<1>1. TreeSpec => []GrownNow
  BY GrownInvariant
<1>2. GrownNow => QueriesExact
  BY GrownAnswers
<1> QED
  BY <1>1, <1>2, PTL
=============================================================================
