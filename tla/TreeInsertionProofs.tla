------------------------ MODULE TreeInsertionProofs -------------------------
(***************************************************************************)
(* Proofs about the R-tree's operators (RTree), for any pages and any      *)
(* settings that Sized describes.  In order:                               *)
(*   - the queries: a search of the tree returns exactly the entries that  *)
(*     the query asks for, and a self-join exactly the pairs that meet;    *)
(*   - the split of a node: linear, quadratic and R* each divide the       *)
(*     entries in two parts of at least the minimum load;                  *)
(*   - a forest: pages on their levels, each but the root with one entry   *)
(*     that names it, and the entries that wait to enter; what writing a   *)
(*     page, joining a new one and taking one away do to it;               *)
(*   - adjustTree, the split of a node on its way up, forced reinsertion,  *)
(*     and with them the whole insertion.                                  *)
(***************************************************************************)
EXTENDS TreeIndex, FiniteSetTheorems, FunctionTheorems, SequenceTheorems, WellFoundedInduction, NaturalsInduction, TLAPS

\* A set of numbers has a least one.
LEMMA LeastExists ==
    ASSUME NEW S \in SUBSET Nat, S # {}
    PROVE  \E x \in S : \A y \in S : x <= y
<1>1. IsWellFoundedOn(OpToRel(<, Nat), Nat)
  BY NatLessThanWellFounded
<1>2. \E x \in S : \A y \in S : ~ (<<y, x>> \in OpToRel(<, Nat))
  BY <1>1, WFMin
<1>3. PICK x \in S : \A y \in S : ~ (<<y, x>> \in OpToRel(<, Nat))
  BY <1>2
<1>4. \A y \in S : ~ (y < x)
  BY <1>3 DEF OpToRel
<1> QED
  BY <1>4

-----------------------------------------------------------------------------
(* Regions                                                                 *)

\* Containment of regions is transitive.
LEMMA ContainsTransitive ==
    ASSUME NEW a \in AnyRegion, NEW b \in AnyRegion, NEW c \in AnyRegion,
           containsRegion(a, b), containsRegion(b, c)
    PROVE  containsRegion(a, c)
<1> SUFFICES ASSUME NEW i \in Dim PROVE a.low[i] <= c.low[i] /\ c.high[i] <= a.high[i]
  BY DEF containsRegion
<1>1. /\ a.low[i] \in Int /\ b.low[i] \in Int /\ c.low[i] \in Int
      /\ a.high[i] \in Int /\ b.high[i] \in Int /\ c.high[i] \in Int
  BY DEF AnyRegion
<1>2. a.low[i] <= b.low[i] /\ b.high[i] <= a.high[i] /\ b.low[i] <= c.low[i] /\ c.high[i] <= b.high[i]
  BY DEF containsRegion
<1> QED
  BY <1>1, <1>2

\* Who meets a part meets the whole.
LEMMA IntersectsWider ==
    ASSUME NEW q \in AnyRegion, NEW a \in AnyRegion, NEW b \in AnyRegion,
           containsRegion(a, b), intersectsRegion(q, b)
    PROVE  intersectsRegion(q, a)
<1> SUFFICES ASSUME NEW i \in Dim PROVE q.low[i] <= a.high[i] /\ a.low[i] <= q.high[i]
  BY DEF intersectsRegion
<1>1. /\ a.low[i] \in Int /\ b.low[i] \in Int /\ q.low[i] \in Int
      /\ a.high[i] \in Int /\ b.high[i] \in Int /\ q.high[i] \in Int
  BY DEF AnyRegion
<1>2. /\ a.low[i] <= b.low[i] /\ b.high[i] <= a.high[i]
      /\ q.low[i] <= b.high[i] /\ b.low[i] <= q.high[i]
  BY DEF containsRegion, intersectsRegion
<1> QED
  BY <1>1, <1>2

\* Meeting is symmetric.
LEMMA IntersectsSymmetric ==
    ASSUME NEW a, NEW b, intersectsRegion(a, b)
    PROVE  intersectsRegion(b, a)
  BY DEF intersectsRegion

\* Who contains a region that is not empty meets it.
LEMMA ContainedMeets ==
    ASSUME NEW q \in AnyRegion, NEW b, NonEmpty(b), containsRegion(q, b)
    PROVE  intersectsRegion(q, b)
<1> SUFFICES ASSUME NEW i \in Dim PROVE q.low[i] <= b.high[i] /\ b.low[i] <= q.high[i]
  BY DEF intersectsRegion
<1>1. /\ q.low[i] \in Int /\ q.high[i] \in Int /\ b.low[i] \in Int /\ b.high[i] \in Int
      /\ b.low[i] <= b.high[i]
  BY DEF AnyRegion, NonEmpty
<1>2. q.low[i] <= b.low[i] /\ b.high[i] <= q.high[i]
  BY DEF containsRegion
<1> QED
  BY <1>1, <1>2

\* The part of two regions that they have in common.
LEMMA IntersectionIs ==
    ASSUME NEW a \in AnyRegion, NEW b \in AnyRegion
    PROVE  /\ getIntersectingRegion(a, b) \in AnyRegion
           /\ intersectsRegion(a, b) => \A i \in Dim :
                 /\ getIntersectingRegion(a, b).low[i] = Upper(a.low[i], b.low[i])
                 /\ getIntersectingRegion(a, b).high[i] = Lower(a.high[i], b.high[i])
<1>1. Dim = 1 .. 2
  BY DEF Dim, m_dimension
<1>2. CASE ~ intersectsRegion(a, b)
  <2>1. <<Big, Big>> \in [Dim -> Int] /\ <<-Big, -Big>> \in [Dim -> Int]
    BY <1>1 DEF Big
  <2> QED
    BY <1>2, <2>1 DEF getIntersectingRegion, makeInfinite, Region, AnyRegion
<1>3. CASE intersectsRegion(a, b)
  <2>1. \A i \in Dim : /\ a.low[i] \in Int /\ b.low[i] \in Int
                       /\ a.high[i] \in Int /\ b.high[i] \in Int
    BY DEF AnyRegion
  <2>2. \A i \in Dim : Upper(a.low[i], b.low[i]) \in Int /\ Lower(a.high[i], b.high[i]) \in Int
    BY <2>1 DEF Upper, Lower
  <2> QED
    BY <1>3, <2>2 DEF getIntersectingRegion, AnyRegion
<1> QED
  BY <1>2, <1>3

\* Three regions, each two of which meet, have a point in common: so two regions meet
\* within r just if both meet the part of r that regions around them have in common.
LEMMA MeetWithin ==
    ASSUME NEW r \in AnyRegion, NEW a \in AnyRegion, NEW b \in AnyRegion,
           NEW c, NEW d, NonEmpty(c), NonEmpty(d),
           containsRegion(a, c), containsRegion(b, d), intersectsRegion(c, d),
           intersectsRegion(r, a), intersectsRegion(r, b), intersectsRegion(a, b)
    PROVE  LET s == getIntersectingRegion(r, getIntersectingRegion(a, b))
           IN  (intersectsRegion(r, c) /\ intersectsRegion(r, d)) <=>
               (intersectsRegion(s, c) /\ intersectsRegion(s, d))
<1> DEFINE m == getIntersectingRegion(a, b)
<1> DEFINE s == getIntersectingRegion(r, m)
<1>1. m \in AnyRegion /\ \A i \in Dim : m.low[i] = Upper(a.low[i], b.low[i]) /\ m.high[i] = Lower(a.high[i], b.high[i])
  BY IntersectionIs
<1>2. \A i \in Dim : /\ r.low[i] \in Int /\ r.high[i] \in Int /\ a.low[i] \in Int /\ a.high[i] \in Int
                     /\ b.low[i] \in Int /\ b.high[i] \in Int /\ c.low[i] \in Int /\ c.high[i] \in Int
                     /\ d.low[i] \in Int /\ d.high[i] \in Int
                     /\ c.low[i] <= c.high[i] /\ d.low[i] <= d.high[i]
  BY DEF AnyRegion, NonEmpty
<1>3. \A i \in Dim : /\ a.low[i] <= c.low[i] /\ c.high[i] <= a.high[i]
                     /\ b.low[i] <= d.low[i] /\ d.high[i] <= b.high[i]
                     /\ c.low[i] <= d.high[i] /\ d.low[i] <= c.high[i]
  BY DEF containsRegion, intersectsRegion
<1>4. ASSUME intersectsRegion(r, m)
      PROVE  s \in AnyRegion /\ \A i \in Dim : s.low[i] = Upper(r.low[i], m.low[i]) /\ s.high[i] = Lower(r.high[i], m.high[i])
  BY <1>1, <1>4, IntersectionIs
<1> HIDE DEF s, m
<1>5. ASSUME intersectsRegion(r, c), intersectsRegion(r, d)
      PROVE  intersectsRegion(s, c) /\ intersectsRegion(s, d)
  <2>1. \A i \in Dim : r.low[i] <= c.high[i] /\ c.low[i] <= r.high[i] /\ r.low[i] <= d.high[i] /\ d.low[i] <= r.high[i]
    BY <1>5 DEF intersectsRegion
  <2>2. ASSUME NEW i \in Dim
        PROVE  r.low[i] <= m.high[i] /\ m.low[i] <= r.high[i]
    BY <1>1, <1>2, <1>3, <2>1 DEF Upper, Lower
  <2>3. intersectsRegion(r, m)
    BY <2>2 DEF intersectsRegion
  <2>4. ASSUME NEW i \in Dim
        PROVE  s.low[i] <= c.high[i] /\ c.low[i] <= s.high[i] /\ s.low[i] <= d.high[i] /\ d.low[i] <= s.high[i]
    BY <1>1, <1>2, <1>3, <1>4, <2>1, <2>3 DEF Upper, Lower
  <2> QED
    BY <2>4 DEF intersectsRegion
<1>6. ASSUME intersectsRegion(s, c), intersectsRegion(s, d)
      PROVE  intersectsRegion(r, c) /\ intersectsRegion(r, d)
  <2>1. CASE intersectsRegion(r, m)
    <3>1. \A i \in Dim : s.low[i] <= c.high[i] /\ c.low[i] <= s.high[i] /\ s.low[i] <= d.high[i] /\ d.low[i] <= s.high[i]
      BY <1>6 DEF intersectsRegion
    <3>2. ASSUME NEW i \in Dim
          PROVE  r.low[i] <= c.high[i] /\ c.low[i] <= r.high[i] /\ r.low[i] <= d.high[i] /\ d.low[i] <= r.high[i]
      BY <1>1, <1>2, <1>4, <2>1, <3>1 DEF Upper, Lower
    <3> QED
      BY <3>2 DEF intersectsRegion
  <2>2. CASE ~ intersectsRegion(r, m)
    <3>1. s = makeInfinite /\ 1 \in Dim
      BY <2>2 DEF s, getIntersectingRegion, Dim, m_dimension
    <3>2. s.low[1] = Big
      BY <3>1 DEF makeInfinite, Region
    <3>3. Big <= c.high[1]
      BY <1>6, <3>1, <3>2 DEF intersectsRegion
    <3>4. c.high[1] < Big
      BY <3>1 DEF NonEmpty
    <3>5. Big \in Int
      BY DEF Big
    <3> QED
      BY <1>2, <3>1, <3>3, <3>4, <3>5
  <2> QED
    BY <2>1, <2>2
<1> QED
  BY <1>5, <1>6 DEF s, m

-----------------------------------------------------------------------------
(* What is below a page                                                    *)

Level(t, p) == t.page[p].m_level
Es(t, p)    == ToSet(t.page[p].entries)

\* Pairs of a page and a datum, with the entries of every leaf, and of every index node
\* what is below its entries.
Closed(t, S) ==
    \A p \in DOMAIN t.page :
        IF Level(t, p) = 0 THEN \A d \in Es(t, p) : <<p, d>> \in S
        ELSE \A e \in Es(t, p), d \in DataOf(t) : <<e.id, d>> \in S => <<p, d>> \in S

\* The data below p: those that every such set has there.
Under(t, p) ==
    {d \in DataOf(t) :
        \A S \in SUBSET ((DOMAIN t.page) \X DataOf(t)) : Closed(t, S) => <<p, d>> \in S}

\* What Linked says, page by page.
LEMMA LinkedIs ==
    ASSUME NEW t, Linked(t)
    PROVE  /\ t.m_rootID \in DOMAIN t.page
           /\ \A p \in DOMAIN t.page :
                 /\ Level(t, p) \in 0 .. Level(t, t.m_rootID)
                 /\ Level(t, p) > 0 => \A e \in Es(t, p) :
                       /\ e.id \in DOMAIN t.page
                       /\ Level(t, e.id) = Level(t, p) - 1
                       /\ t.page[e.id].m_nodeMBR = e.mbr
                 /\ p # t.m_rootID => \E q \in DOMAIN t.page :
                       Level(t, q) > 0 /\ \E e \in Es(t, q) : e.id = p
           /\ Level(t, t.m_rootID) \in Nat
<1>1. /\ t.m_rootID \in DOMAIN t.page
      /\ \A p \in DOMAIN t.page :
            /\ Level(t, p) \in 0 .. Level(t, t.m_rootID)
            /\ Level(t, p) > 0 => \A e \in Es(t, p) :
                  /\ e.id \in DOMAIN t.page
                  /\ Level(t, e.id) = Level(t, p) - 1
                  /\ t.page[e.id].m_nodeMBR = e.mbr
            /\ p # t.m_rootID => \E q \in DOMAIN t.page :
                  Level(t, q) > 0 /\ \E e \in Es(t, q) : e.id = p
  BY DEF Linked, Level, Es, root
<1>2. Level(t, t.m_rootID) \in 0 .. Level(t, t.m_rootID)
  BY <1>1
<1> QED
  BY <1>1, <1>2

\* Of some pages one lies lowest,
LEMMA LowestPage ==
    ASSUME NEW t, Linked(t), NEW S \in SUBSET DOMAIN t.page, S # {}
    PROVE  \E p \in S : \A q \in S : Level(t, p) <= Level(t, q)
<1> DEFINE N == {Level(t, p) : p \in S}
<1>1. N \in SUBSET Nat /\ N # {}
  BY LinkedIs
<1>2. PICK l \in N : \A m \in N : l <= m
  BY <1>1, LeastExists
<1> QED
  BY <1>2

\* and one highest.
LEMMA HighestPage ==
    ASSUME NEW t, Linked(t), NEW S \in SUBSET DOMAIN t.page, S # {}
    PROVE  \E p \in S : \A q \in S : Level(t, q) <= Level(t, p)
<1> DEFINE H == Level(t, t.m_rootID)
<1> DEFINE N == {H - Level(t, p) : p \in S}
<1>1. \A p \in S : Level(t, p) \in Nat /\ H \in Nat /\ H - Level(t, p) \in Nat
  BY LinkedIs
<1>2. N \in SUBSET Nat /\ N # {}
  BY <1>1
<1>3. PICK l \in N : \A m \in N : l <= m
  BY <1>2, LeastExists
<1>4. PICK p \in S : l = H - Level(t, p)
  BY <1>3
<1>5. ASSUME NEW q \in S PROVE Level(t, q) <= Level(t, p)
  <2>1. H - Level(t, p) <= H - Level(t, q)
    BY <1>3, <1>4
  <2> QED
    BY <1>1, <2>1
<1> QED
  BY <1>5

\* In a leaf its entries, in an index node what is below its entries.
LEMMA UnderIs ==
    ASSUME NEW t, Linked(t), NEW p \in DOMAIN t.page
    PROVE  Under(t, p) = IF Level(t, p) = 0 THEN Es(t, p) ELSE UNION {Under(t, e.id) : e \in Es(t, p)}
<1> DEFINE U == (DOMAIN t.page) \X DataOf(t)
<1>1. \A q \in DOMAIN t.page : Level(t, q) = 0 => Es(t, q) \subseteq DataOf(t) /\ Es(t, q) \subseteq Under(t, q)
  <2>1. \A q \in DOMAIN t.page : Level(t, q) = 0 => Es(t, q) \subseteq DataOf(t)
    BY DEF DataOf, Level, Es
  <2> QED
    BY <2>1 DEF Under, Closed
<1>2. ASSUME NEW q \in DOMAIN t.page, Level(t, q) # 0, NEW e \in Es(t, q), NEW d \in Under(t, e.id)
      PROVE  d \in Under(t, q)
  <2> SUFFICES ASSUME NEW S \in SUBSET U, Closed(t, S) PROVE <<q, d>> \in S
    BY DEF Under
  <2>1. d \in DataOf(t) /\ <<e.id, d>> \in S
    BY DEF Under
  <2> QED
    BY <1>2, <2>1 DEF Closed
<1>3. CASE Level(t, p) = 0
  <2>1. ASSUME NEW d \in Under(t, p) PROVE d \in Es(t, p)
    <3> DEFINE S == {x \in U : x[1] = p => x[2] \in Es(t, p)}
    <3>1. \A q \in DOMAIN t.page, c \in DataOf(t) : <<q, c>> \in S <=> (q = p => c \in Es(t, p))
      OBVIOUS
    <3>2. S \in SUBSET U
      OBVIOUS
    <3> HIDE DEF S
    <3>3. Closed(t, S)
      BY <1>1, <1>3, <3>1 DEF Closed
    <3>4. <<p, d>> \in S /\ d \in DataOf(t)
      BY <3>2, <3>3 DEF Under
    <3> QED
      BY <3>1, <3>4
  <2> QED
    BY <1>1, <1>3, <2>1
<1>4. CASE Level(t, p) # 0
  <2>1. ASSUME NEW d \in Under(t, p) PROVE \E e \in Es(t, p) : d \in Under(t, e.id)
    <3> DEFINE S == {x \in U : x[2] \in Under(t, x[1]) /\ (x[1] = p => \E e \in Es(t, p) : x[2] \in Under(t, e.id))}
    <3>1. \A q \in DOMAIN t.page, c \in DataOf(t) :
             <<q, c>> \in S <=> c \in Under(t, q) /\ (q = p => \E e \in Es(t, p) : c \in Under(t, e.id))
      OBVIOUS
    <3>2. S \in SUBSET U /\ \A q, c : <<q, c>> \in S => q \in DOMAIN t.page /\ c \in DataOf(t)
      OBVIOUS
    <3> HIDE DEF S
    <3>3. Closed(t, S)
      <4>1. ASSUME NEW q \in DOMAIN t.page, Level(t, q) = 0, NEW c \in Es(t, q) PROVE <<q, c>> \in S
        BY <1>1, <1>4, <3>1, <4>1
      <4>2. ASSUME NEW q \in DOMAIN t.page, Level(t, q) # 0, NEW e \in Es(t, q), NEW c \in DataOf(t),
                   <<e.id, c>> \in S
            PROVE  <<q, c>> \in S
        <5>1. c \in Under(t, e.id)
          BY <3>1, <3>2, <4>2
        <5>2. c \in Under(t, q)
          BY <1>2, <4>2, <5>1
        <5> QED
          BY <3>1, <5>1, <5>2
      <4> QED
        BY <4>1, <4>2 DEF Closed
    <3>4. <<p, d>> \in S /\ d \in DataOf(t)
      BY <3>2, <3>3 DEF Under
    <3> QED
      BY <3>1, <3>4
  <2>2. \A e \in Es(t, p) : Under(t, e.id) \subseteq Under(t, p)
    BY <1>2, <1>4
  <2> QED
    BY <1>4, <2>1, <2>2
<1> QED
  BY <1>3, <1>4

\* What Bounded says of one page and its entries.
LEMMA BoundedIs ==
    ASSUME NEW t, Bounded(t), NEW p \in DOMAIN t.page
    PROVE  /\ t.page[p].m_nodeMBR \in AnyRegion
           /\ \A e \in Es(t, p) : /\ NonEmpty(e.mbr) /\ e.mbr \in AnyRegion
                                   /\ containsRegion(t.page[p].m_nodeMBR, e.mbr)
  BY DEF Bounded, Es, NonEmpty

\* All data below a page are within its bounds.
LEMMA UnderWithin ==
    ASSUME NEW t, Linked(t), Bounded(t), NEW p \in DOMAIN t.page, NEW d \in Under(t, p)
    PROVE  /\ NonEmpty(d.mbr) /\ d.mbr \in AnyRegion
           /\ containsRegion(t.page[p].m_nodeMBR, d.mbr)
<1> DEFINE Good(q, x) == NonEmpty(x.mbr) /\ x.mbr \in AnyRegion /\ containsRegion(t.page[q].m_nodeMBR, x.mbr)
<1> DEFINE Wrong == {q \in DOMAIN t.page : \E x \in Under(t, q) : ~ Good(q, x)}
<1> SUFFICES ASSUME Wrong # {} PROVE FALSE
  OBVIOUS
<1>1. PICK q \in Wrong : \A o \in Wrong : Level(t, q) <= Level(t, o)
  BY LowestPage
<1>2. PICK x \in Under(t, q) : ~ Good(q, x)
  BY <1>1
<1>3. q \in DOMAIN t.page /\ Level(t, q) \in Nat
  BY <1>1, LinkedIs
<1>4. CASE Level(t, q) = 0
  BY <1>2, <1>3, <1>4, UnderIs, BoundedIs
<1>5. CASE Level(t, q) > 0
  <2>1. PICK e \in Es(t, q) : x \in Under(t, e.id)
    BY <1>2, <1>3, <1>5, UnderIs
  <2>2. e.id \in DOMAIN t.page /\ Level(t, e.id) = Level(t, q) - 1 /\ t.page[e.id].m_nodeMBR = e.mbr
    BY <1>3, <1>5, LinkedIs
  <2>3. e.id \notin Wrong
    BY <1>1, <1>3, <2>2
  <2>4. Good(e.id, x)
    BY <2>1, <2>2, <2>3
  <2>5. t.page[q].m_nodeMBR \in AnyRegion /\ e.mbr \in AnyRegion /\ containsRegion(t.page[q].m_nodeMBR, e.mbr)
    BY <1>3, BoundedIs
  <2>6. containsRegion(t.page[q].m_nodeMBR, x.mbr)
    BY <2>2, <2>4, <2>5, ContainsTransitive
  <2> QED
    BY <1>2, <2>4, <2>6
<1> QED
  BY <1>3, <1>4, <1>5

\* Everything is below the root.
LEMMA AllUnderRoot ==
    ASSUME NEW t, Linked(t)
    PROVE  Under(t, t.m_rootID) = DataOf(t)
<1>1. Under(t, t.m_rootID) \subseteq DataOf(t)
  BY DEF Under
<1>2. ASSUME NEW d \in DataOf(t) PROVE d \in Under(t, t.m_rootID)
  <2> DEFINE Has == {p \in DOMAIN t.page : d \in Under(t, p)}
  <2>1. PICK l \in DOMAIN t.page : Level(t, l) = 0 /\ d \in Es(t, l)
    BY DEF DataOf, Level, Es
  <2>2. l \in Has
    BY <2>1, UnderIs
  <2>3. PICK p \in Has : \A q \in Has : Level(t, q) <= Level(t, p)
    BY <2>2, HighestPage
  <2>4. CASE p = t.m_rootID
    BY <2>3, <2>4
  <2>5. CASE p # t.m_rootID
    <3>1. PICK q \in DOMAIN t.page : Level(t, q) > 0 /\ \E e \in Es(t, q) : e.id = p
      BY <2>3, <2>5, LinkedIs
    <3>2. PICK e \in Es(t, q) : e.id = p
      BY <3>1
    <3>3. Level(t, q) \in Nat /\ Level(t, p) = Level(t, q) - 1
      BY <3>1, <3>2, LinkedIs
    <3>4. d \in Under(t, q)
      BY <2>3, <3>1, <3>2, <3>3, UnderIs
    <3>5. Level(t, q) <= Level(t, p)
      BY <2>3, <3>4
    <3> QED
      BY <3>3, <3>5
  <2> QED
    BY <2>4, <2>5
<1> QED
  BY <1>1, <1>2

-----------------------------------------------------------------------------
(* The range query                                                         *)

\* A datum that answers is never behind an entry that the query does not go down.
LEMMA AnswersMeet ==
    ASSUME NEW type, NEW query \in AnyRegion, NEW mbr \in AnyRegion, NEW b, NonEmpty(b),
           containsRegion(mbr, b), Answers(type, query, b)
    PROVE  Descends(type, query, mbr)
<1>1. b \in AnyRegion
  BY DEF NonEmpty
<1>2. intersectsRegion(query, b)
  BY ContainedMeets DEF Answers
<1> QED
  BY <1>1, <1>2, IntersectsWider DEF Descends

Answering(t, type, query, S) == {e \in S : Answers(type, query, e.mbr)}

\* What Visited gives for a page.
VisitedStep(t, type, query, f, p) ==
    IF Level(t, p) = 0 THEN Answering(t, type, query, Es(t, p))
    ELSE UNION {f[e.id] : e \in {e \in Es(t, p) : Descends(type, query, e.mbr)}}

\* All that answers is a solution of the equation that defines Visited,
LEMMA AnswersSolve ==
    ASSUME NEW t, Linked(t), Bounded(t), NEW type, NEW query \in AnyRegion,
           NEW f, \A q \in DOMAIN t.page : f[q] = Answering(t, type, query, Under(t, q)),
           NEW p \in DOMAIN t.page
    PROVE  VisitedStep(t, type, query, f, p) = Answering(t, type, query, Under(t, p))
<1>1. Level(t, p) \in Nat
  BY LinkedIs
<1>2. CASE Level(t, p) = 0
  BY <1>2, UnderIs DEF VisitedStep
<1>3. CASE Level(t, p) > 0
  <2>1. VisitedStep(t, type, query, f, p) =
           UNION {f[e.id] : e \in {e \in Es(t, p) : Descends(type, query, e.mbr)}}
    BY <1>3 DEF VisitedStep
  <2>2. \A e \in Es(t, p) : e.id \in DOMAIN t.page /\ t.page[e.id].m_nodeMBR = e.mbr
    BY <1>3, LinkedIs
  <2>3. \A e \in Es(t, p) : f[e.id] = Answering(t, type, query, Under(t, e.id))
    BY <2>2
  <2>4. Under(t, p) = UNION {Under(t, e.id) : e \in Es(t, p)}
    BY <1>1, <1>3, UnderIs
  <2>5. ASSUME NEW e \in Es(t, p), NEW d \in Under(t, e.id), Answers(type, query, d.mbr)
        PROVE  Descends(type, query, e.mbr)
    <3>1. NonEmpty(d.mbr) /\ containsRegion(e.mbr, d.mbr)
      BY <2>2, UnderWithin
    <3>2. e.mbr \in AnyRegion
      BY BoundedIs
    <3> QED
      BY <2>5, <3>1, <3>2, AnswersMeet
  <2> QED
    BY <2>1, <2>3, <2>4, <2>5 DEF Answering
<1> QED
  BY <1>1, <1>2, <1>3

\* so there is one, and Visited is it;
LEMMA VisitedIs ==
    ASSUME NEW t, Linked(t), Bounded(t), NEW type, NEW query \in AnyRegion, NEW p \in DOMAIN t.page
    PROVE  Visited(t, type, query)[p] = VisitedStep(t, type, query, Visited(t, type, query), p)
<1> DEFINE w == [q \in DOMAIN t.page |-> Answering(t, type, query, Under(t, q))]
<1>1. \A q \in DOMAIN t.page : w[q] = VisitedStep(t, type, query, w, q)
  <2>1. \A q \in DOMAIN t.page : w[q] = Answering(t, type, query, Under(t, q))
    OBVIOUS
  <2> HIDE DEF w
  <2> QED
    BY <2>1, AnswersSolve
<1>2. w = [q \in DOMAIN t.page |-> VisitedStep(t, type, query, w, q)]
  BY <1>1
<1>3. \E f : f = [q \in DOMAIN t.page |-> VisitedStep(t, type, query, f, q)]
  BY <1>2
<1>4. Visited(t, type, query) = CHOOSE f : f = [q \in DOMAIN t.page |-> VisitedStep(t, type, query, f, q)]
  BY DEF Visited, VisitedStep, Answering, Level, Es
<1>5. Visited(t, type, query) = [q \in DOMAIN t.page |-> VisitedStep(t, type, query, Visited(t, type, query), q)]
  BY <1>3, <1>4
<1> QED
  BY <1>5

\* and it is the only one.
LEMMA VisitedGives ==
    ASSUME NEW t, Linked(t), Bounded(t), NEW type, NEW query \in AnyRegion, NEW p \in DOMAIN t.page
    PROVE  Visited(t, type, query)[p] = Answering(t, type, query, Under(t, p))
<1> DEFINE V == Visited(t, type, query)
<1> DEFINE W(q) == Answering(t, type, query, Under(t, q))
<1> DEFINE Wrong == {q \in DOMAIN t.page : V[q] # W(q)}
<1> SUFFICES ASSUME Wrong # {} PROVE FALSE
  OBVIOUS
<1>1. PICK q \in Wrong : \A o \in Wrong : Level(t, q) <= Level(t, o)
  BY LowestPage
<1>2. q \in DOMAIN t.page /\ Level(t, q) \in Nat /\ V[q] # W(q)
  BY <1>1, LinkedIs
<1> DEFINE f == [o \in DOMAIN t.page |-> W(o)]
<1>3. VisitedStep(t, type, query, f, q) = W(q)
  <2>1. \A o \in DOMAIN t.page : f[o] = Answering(t, type, query, Under(t, o))
    OBVIOUS
  <2> HIDE DEF f
  <2> QED
    BY <1>2, <2>1, AnswersSolve
<1>4. VisitedStep(t, type, query, V, q) = VisitedStep(t, type, query, f, q)
  <2>1. CASE Level(t, q) = 0
    BY <2>1 DEF VisitedStep
  <2>2. CASE Level(t, q) > 0
    <3>1. \A e \in Es(t, q) : e.id \in DOMAIN t.page /\ Level(t, e.id) = Level(t, q) - 1
      BY <1>2, <2>2, LinkedIs
    <3>2. \A e \in Es(t, q) : e.id \notin Wrong
      BY <1>1, <1>2, <3>1
    <3>3. \A e \in Es(t, q) : V[e.id] = f[e.id]
      BY <3>1, <3>2
    <3> HIDE DEF V, f
    <3> QED
      BY <1>2, <2>2, <3>3 DEF VisitedStep
  <2> QED
    BY <1>2, <2>1, <2>2
<1>5. V[q] = VisitedStep(t, type, query, V, q)
  BY <1>2, VisitedIs
<1> QED
  BY <1>2, <1>3, <1>4, <1>5

\* A range query of either type answers with the data that a look at all of them would
\* give, in every sound tree (RTree::rangeQuery).
THEOREM RangeQueryExact ==
    ASSUME NEW t, Linked(t), Bounded(t), NEW type, NEW query \in AnyRegion
    PROVE  rangeQuery(t, type, query) = {e \in DataOf(t) : Answers(type, query, e.mbr)}
<1> DEFINE A == Answering(t, type, query, Under(t, t.m_rootID))
<1>1. t.m_rootID \in DOMAIN t.page
  BY LinkedIs
<1>2. A = {e \in DataOf(t) : Answers(type, query, e.mbr)}
  BY AllUnderRoot DEF Answering
<1>3. Visited(t, type, query)[t.m_rootID] = A
  BY <1>1, VisitedGives
<1>4. CASE root(t).entries # <<>> /\ Descends(type, query, root(t).m_nodeMBR)
  BY <1>2, <1>3, <1>4 DEF rangeQuery
<1>5. CASE root(t).entries = <<>>
  <2>1. Es(t, t.m_rootID) = {}
    BY <1>5 DEF Es, root, ToSet
  <2>2. Under(t, t.m_rootID) = {}
    BY <1>1, <2>1, UnderIs
  <2> QED
    BY <1>2, <1>5, <2>2 DEF rangeQuery, Answering
<1>6. CASE ~ Descends(type, query, root(t).m_nodeMBR)
  <2>1. ASSUME NEW d \in A PROVE FALSE
    <3>1. d \in Under(t, t.m_rootID) /\ Answers(type, query, d.mbr)
      BY <2>1 DEF Answering
    <3>2. NonEmpty(d.mbr) /\ containsRegion(root(t).m_nodeMBR, d.mbr) /\ root(t).m_nodeMBR \in AnyRegion
      BY <1>1, <3>1, UnderWithin, BoundedIs DEF root
    <3> QED
      BY <1>6, <3>1, <3>2, AnswersMeet
  <2>2. A = {}
    BY <2>1
  <2> QED
    BY <1>2, <1>6, <2>2 DEF rangeQuery
<1> QED
  BY <1>4, <1>5, <1>6

-----------------------------------------------------------------------------
(* The self-join                                                           *)

\* Two data that the self-join is to give within r.
Meet(r, y) ==
    /\ intersectsRegion(r, y[1].mbr) /\ intersectsRegion(r, y[2].mbr)
    /\ intersectsRegion(y[1].mbr, y[2].mbr) /\ y[1].id # y[2].id

MeetingUnder(t, x, r) == {y \in Under(t, x[1]) \X Under(t, x[2]) : Meet(r, y)}

\* What Joined gives for two pages.
JoinedStep(t, f, x, r) ==
    IF Level(t, x[1]) = 0 THEN {y \in Meeting(t, x, r) : y[1].id # y[2].id}
    ELSE UNION {f[<<<<y[1].id, y[2].id>>, Narrowed(r, y)>>] : y \in Meeting(t, x, r)}

\* The children of two peers are peers, one level lower.
LEMMA PeersAre ==
    ASSUME NEW t, Linked(t), NEW x \in Peers(t), Level(t, x[1]) > 0,
           NEW y \in Es(t, x[1]) \X Es(t, x[2])
    PROVE  /\ <<y[1].id, y[2].id>> \in Peers(t)
           /\ Level(t, y[1].id) = Level(t, x[1]) - 1
<1>1. x[1] \in DOMAIN t.page /\ x[2] \in DOMAIN t.page /\ Level(t, x[1]) = Level(t, x[2])
  BY DEF Peers, Level
<1>2. y[1] \in Es(t, x[1]) /\ y[2] \in Es(t, x[2])
  OBVIOUS
<1>3. /\ y[1].id \in DOMAIN t.page /\ Level(t, y[1].id) = Level(t, x[1]) - 1
      /\ y[2].id \in DOMAIN t.page /\ Level(t, y[2].id) = Level(t, x[2]) - 1
  BY <1>1, <1>2, LinkedIs
<1> QED
  BY <1>1, <1>3 DEF Peers, Level

\* The data below two entries that meet within r: the entries meet within r too, and
\* the data meet within what is left of r.
LEMMA MeetBelow ==
    ASSUME NEW t, Linked(t), Bounded(t), NEW x \in Peers(t), NEW r \in AnyRegion, Level(t, x[1]) > 0,
           NEW y \in Es(t, x[1]) \X Es(t, x[2]),
           NEW z \in Under(t, y[1].id) \X Under(t, y[2].id)
    PROVE  /\ Meet(r, z) => y \in Meeting(t, x, r)
           /\ y \in Meeting(t, x, r) => (Meet(r, z) <=> Meet(Narrowed(r, y), z))
           /\ Narrowed(r, y) \in AnyRegion
<1>1. x[1] \in DOMAIN t.page /\ x[2] \in DOMAIN t.page /\ Level(t, x[1]) = Level(t, x[2])
  BY DEF Peers, Level
<1>2. y[1] \in Es(t, x[1]) /\ y[2] \in Es(t, x[2])
  OBVIOUS
<1>3. z[1] \in Under(t, y[1].id) /\ z[2] \in Under(t, y[2].id)
  OBVIOUS
<1>4. /\ y[1].id \in DOMAIN t.page /\ t.page[y[1].id].m_nodeMBR = y[1].mbr
      /\ y[2].id \in DOMAIN t.page /\ t.page[y[2].id].m_nodeMBR = y[2].mbr
  BY <1>1, <1>2, LinkedIs
<1>5. y[1].mbr \in AnyRegion /\ y[2].mbr \in AnyRegion
  BY <1>1, <1>2, BoundedIs
<1>6. /\ NonEmpty(z[1].mbr) /\ z[1].mbr \in AnyRegion /\ containsRegion(y[1].mbr, z[1].mbr)
      /\ NonEmpty(z[2].mbr) /\ z[2].mbr \in AnyRegion /\ containsRegion(y[2].mbr, z[2].mbr)
  BY <1>3, <1>4, UnderWithin
<1>7. Narrowed(r, y) \in AnyRegion
  BY <1>5, IntersectionIs DEF Narrowed
<1>8. ASSUME Meet(r, z) PROVE y \in Meeting(t, x, r)
  <2>1. intersectsRegion(r, z[1].mbr) /\ intersectsRegion(r, z[2].mbr) /\ intersectsRegion(z[1].mbr, z[2].mbr)
    BY <1>8 DEF Meet
  <2>2. intersectsRegion(r, y[1].mbr) /\ intersectsRegion(r, y[2].mbr)
    BY <1>5, <1>6, <2>1, IntersectsWider
  <2>3. intersectsRegion(z[1].mbr, y[2].mbr)
    BY <1>5, <1>6, <2>1, IntersectsWider
  <2>4. intersectsRegion(y[2].mbr, z[1].mbr)
    BY <2>3, IntersectsSymmetric
  <2>5. intersectsRegion(y[2].mbr, y[1].mbr)
    BY <1>5, <1>6, <2>4, IntersectsWider
  <2>6. intersectsRegion(y[1].mbr, y[2].mbr)
    BY <2>5, IntersectsSymmetric
  <2> QED
    BY <2>2, <2>6 DEF Meeting, Es
<1>9. ASSUME y \in Meeting(t, x, r) PROVE Meet(r, z) <=> Meet(Narrowed(r, y), z)
  <2>1. intersectsRegion(r, y[1].mbr) /\ intersectsRegion(r, y[2].mbr) /\ intersectsRegion(y[1].mbr, y[2].mbr)
    BY <1>9 DEF Meeting
  <2>2. ASSUME intersectsRegion(z[1].mbr, z[2].mbr)
        PROVE  (intersectsRegion(r, z[1].mbr) /\ intersectsRegion(r, z[2].mbr)) <=>
               (intersectsRegion(Narrowed(r, y), z[1].mbr) /\ intersectsRegion(Narrowed(r, y), z[2].mbr))
    BY <1>5, <1>6, <2>1, <2>2, MeetWithin DEF Narrowed
  <2> QED
    BY <2>2 DEF Meet
<1> QED
  BY <1>7, <1>8, <1>9

\* As with Visited: the pairs wanted solve the equation of Joined,
LEMMA MeetingSolves ==
    ASSUME NEW t, Linked(t), Bounded(t), NEW f,
           \A x \in Peers(t), r \in AnyRegion : f[<<x, r>>] = MeetingUnder(t, x, r),
           NEW x \in Peers(t), NEW r \in AnyRegion
    PROVE  JoinedStep(t, f, x, r) = MeetingUnder(t, x, r)
<1>1. x[1] \in DOMAIN t.page /\ x[2] \in DOMAIN t.page /\ Level(t, x[1]) = Level(t, x[2])
  BY DEF Peers, Level
<1>2. Level(t, x[1]) \in Nat
  BY <1>1, LinkedIs
<1>3. CASE Level(t, x[1]) = 0
  <2>1. Under(t, x[1]) = Es(t, x[1]) /\ Under(t, x[2]) = Es(t, x[2])
    BY <1>1, <1>3, UnderIs
  <2>2. JoinedStep(t, f, x, r) = {y \in Meeting(t, x, r) : y[1].id # y[2].id}
    BY <1>3 DEF JoinedStep
  <2> QED
    BY <2>1, <2>2 DEF MeetingUnder, Meeting, Meet, Es
<1>4. CASE Level(t, x[1]) > 0
  <2>1. JoinedStep(t, f, x, r) = UNION {f[<<<<y[1].id, y[2].id>>, Narrowed(r, y)>>] : y \in Meeting(t, x, r)}
    <3>1. Level(t, x[1]) # 0
      BY <1>4
    <3> QED
      BY <3>1, Zenon DEF JoinedStep
  <2>2. Meeting(t, x, r) \subseteq Es(t, x[1]) \X Es(t, x[2])
    BY DEF Meeting, Es
  <2>3. Under(t, x[1]) = UNION {Under(t, e.id) : e \in Es(t, x[1])}
    BY <1>1, <1>2, <1>4, UnderIs
  <2>4. Under(t, x[2]) = UNION {Under(t, e.id) : e \in Es(t, x[2])}
    BY <1>1, <1>2, <1>4, UnderIs
  <2>5. ASSUME NEW y \in Meeting(t, x, r), NEW z
        PROVE  z \in f[<<<<y[1].id, y[2].id>>, Narrowed(r, y)>>] <=>
                  z \in Under(t, y[1].id) \X Under(t, y[2].id) /\ Meet(r, z)
    <3>1. y \in Es(t, x[1]) \X Es(t, x[2])
      BY <2>2
    <3>2. <<y[1].id, y[2].id>> \in Peers(t)
      BY <1>4, <3>1, PeersAre
    <3>3. Narrowed(r, y) \in AnyRegion
      <4>1. y[1].mbr \in AnyRegion /\ y[2].mbr \in AnyRegion
        BY <1>1, <3>1, BoundedIs
      <4> QED
        BY <4>1, IntersectionIs DEF Narrowed
    <3>4. f[<<<<y[1].id, y[2].id>>, Narrowed(r, y)>>] = MeetingUnder(t, <<y[1].id, y[2].id>>, Narrowed(r, y))
      BY <3>2, <3>3
    <3>5. z \in f[<<<<y[1].id, y[2].id>>, Narrowed(r, y)>>] <=>
             z \in Under(t, y[1].id) \X Under(t, y[2].id) /\ Meet(Narrowed(r, y), z)
      BY <3>4 DEF MeetingUnder
    <3>6. ASSUME z \in Under(t, y[1].id) \X Under(t, y[2].id)
          PROVE  Meet(r, z) <=> Meet(Narrowed(r, y), z)
      BY <1>4, <3>1, <3>6, MeetBelow
    <3> QED
      BY <3>5, <3>6
  <2>6. ASSUME NEW z \in MeetingUnder(t, x, r)
        PROVE  \E y \in Meeting(t, x, r) : z \in Under(t, y[1].id) \X Under(t, y[2].id)
    <3>1. z \in Under(t, x[1]) \X Under(t, x[2]) /\ Meet(r, z)
      BY DEF MeetingUnder
    <3>2. PICK e1 \in Es(t, x[1]) : z[1] \in Under(t, e1.id)
      BY <2>3, <3>1
    <3>3. PICK e2 \in Es(t, x[2]) : z[2] \in Under(t, e2.id)
      BY <2>4, <3>1
    <3>4. PICK y : y = <<e1, e2>>
      OBVIOUS
    <3>5. y \in Es(t, x[1]) \X Es(t, x[2]) /\ z \in Under(t, y[1].id) \X Under(t, y[2].id)
      BY <3>1, <3>2, <3>3, <3>4
    <3>6. y \in Meeting(t, x, r)
      BY <1>4, <3>1, <3>5, MeetBelow
    <3> QED
      BY <3>5, <3>6
  <2>7. ASSUME NEW y \in Meeting(t, x, r), NEW z \in Under(t, y[1].id) \X Under(t, y[2].id), Meet(r, z)
        PROVE  z \in MeetingUnder(t, x, r)
    <3>1. y[1] \in Es(t, x[1]) /\ y[2] \in Es(t, x[2])
      BY <2>2
    <3>2. z[1] \in Under(t, x[1]) /\ z[2] \in Under(t, x[2])
      BY <2>3, <2>4, <3>1
    <3>3. z \in Under(t, x[1]) \X Under(t, x[2])
      BY <3>2
    <3> QED
      BY <2>7, <3>3 DEF MeetingUnder
  <2>8. \A z : z \in JoinedStep(t, f, x, r) <=>
           \E y \in Meeting(t, x, r) : z \in f[<<<<y[1].id, y[2].id>>, Narrowed(r, y)>>]
    BY <2>1
  <2>9. ASSUME NEW z PROVE z \in JoinedStep(t, f, x, r) <=> z \in MeetingUnder(t, x, r)
    <3>1. z \in MeetingUnder(t, x, r) => Meet(r, z)
      BY DEF MeetingUnder
    <3> QED
      BY <2>5, <2>6, <2>7, <2>8, <3>1
  <2> QED
    BY <2>9
<1> QED
  BY <1>2, <1>3, <1>4

\* which Joined therefore solves too,
LEMMA JoinedIs ==
    ASSUME NEW t, Linked(t), Bounded(t), NEW x \in Peers(t), NEW r \in AnyRegion
    PROVE  Joined(t)[<<x, r>>] = JoinedStep(t, Joined(t), x, r)
<1> DEFINE w == [q \in Peers(t) \X AnyRegion |-> MeetingUnder(t, q[1], q[2])]
<1>1. \A o \in Peers(t), s \in AnyRegion : w[<<o, s>>] = JoinedStep(t, w, o, s)
  <2>1. \A o \in Peers(t), s \in AnyRegion : w[<<o, s>>] = MeetingUnder(t, o, s)
    OBVIOUS
  <2> HIDE DEF w
  <2> QED
    BY <2>1, MeetingSolves
<1>2. w = [q \in Peers(t) \X AnyRegion |-> JoinedStep(t, w, q[1], q[2])]
  BY <1>1
<1>3. \E f : f = [q \in Peers(t) \X AnyRegion |-> JoinedStep(t, f, q[1], q[2])]
  BY <1>2
<1>4. Joined(t) = CHOOSE f : f = [q \in Peers(t) \X AnyRegion |-> JoinedStep(t, f, q[1], q[2])]
  BY DEF Joined, JoinedStep, Narrowed, Level
<1>5. Joined(t) = [q \in Peers(t) \X AnyRegion |-> JoinedStep(t, Joined(t), q[1], q[2])]
  BY <1>3, <1>4
<1> QED
  BY <1>5

\* and no other function does.
LEMMA JoinedGives ==
    ASSUME NEW t, Linked(t), Bounded(t), NEW x \in Peers(t), NEW r \in AnyRegion
    PROVE  Joined(t)[<<x, r>>] = MeetingUnder(t, x, r)
<1> DEFINE J == Joined(t)
<1> DEFINE Wrong == {q \in DOMAIN t.page : \E o \in Peers(t), s \in AnyRegion :
                       o[1] = q /\ J[<<o, s>>] # MeetingUnder(t, o, s)}
<1> SUFFICES ASSUME Wrong # {} PROVE FALSE
  <2>1. x[1] \in DOMAIN t.page
    BY DEF Peers
  <2> QED
    BY <2>1
<1>1. PICK q \in Wrong : \A p \in Wrong : Level(t, q) <= Level(t, p)
  BY LowestPage
<1>2. PICK o \in Peers(t) : \E s \in AnyRegion : o[1] = q /\ J[<<o, s>>] # MeetingUnder(t, o, s)
  BY <1>1
<1>3. PICK s \in AnyRegion : o[1] = q /\ J[<<o, s>>] # MeetingUnder(t, o, s)
  BY <1>2
<1>4. q \in DOMAIN t.page /\ Level(t, q) \in Nat
  BY <1>1, LinkedIs
<1> DEFINE f == [u \in Peers(t) \X AnyRegion |-> MeetingUnder(t, u[1], u[2])]
<1>5. JoinedStep(t, f, o, s) = MeetingUnder(t, o, s)
  <2>1. \A a \in Peers(t), b \in AnyRegion : f[<<a, b>>] = MeetingUnder(t, a, b)
    OBVIOUS
  <2> HIDE DEF f
  <2> QED
    BY <2>1, MeetingSolves
<1>6. JoinedStep(t, J, o, s) = JoinedStep(t, f, o, s)
  <2>1. CASE Level(t, q) = 0
    BY <1>3, <2>1 DEF JoinedStep
  <2>2. CASE Level(t, q) > 0
    <3>1. ASSUME NEW y \in Meeting(t, o, s)
          PROVE  J[<<<<y[1].id, y[2].id>>, Narrowed(s, y)>>] = f[<<<<y[1].id, y[2].id>>, Narrowed(s, y)>>]
      <4>1. y \in Es(t, o[1]) \X Es(t, o[2])
        BY DEF Meeting, Es
      <4>2. /\ <<y[1].id, y[2].id>> \in Peers(t)
            /\ Level(t, y[1].id) = Level(t, q) - 1
        BY <1>3, <2>2, <4>1, PeersAre
      <4>3. y[1].id \in DOMAIN t.page
        BY <4>2 DEF Peers
      <4>4. y[1].id \notin Wrong
        <5>1. ~ (Level(t, q) <= Level(t, y[1].id))
          BY <1>4, <4>2
        <5> HIDE DEF Wrong
        <5> QED
          BY <1>1, <5>1
      <4>5. Narrowed(s, y) \in AnyRegion
        <5>1. o[1] \in DOMAIN t.page /\ o[2] \in DOMAIN t.page
          BY DEF Peers
        <5>2. y[1].mbr \in AnyRegion /\ y[2].mbr \in AnyRegion
          BY <4>1, <5>1, BoundedIs
        <5> QED
          BY <5>2, IntersectionIs DEF Narrowed
      <4>6. <<y[1].id, y[2].id>>[1] = y[1].id
        OBVIOUS
      <4>7. J[<<<<y[1].id, y[2].id>>, Narrowed(s, y)>>] = MeetingUnder(t, <<y[1].id, y[2].id>>, Narrowed(s, y))
        BY <4>2, <4>3, <4>4, <4>5, <4>6
      <4> QED
        BY <4>2, <4>5, <4>7
    <3> HIDE DEF J, f
    <3> QED
      BY <1>3, <2>2, <3>1 DEF JoinedStep
  <2> QED
    BY <1>4, <2>1, <2>2
<1>7. J[<<o, s>>] = JoinedStep(t, J, o, s)
  BY JoinedIs
<1> QED
  BY <1>3, <1>5, <1>6, <1>7

\* The self-join within r gives the pairs of different data that meet, each reaching into
\* r, although it narrows r on its way down to what both entries have in common: of
\* three regions that meet two by two all three meet (RTree::selfJoinQuery).
THEOREM SelfJoinExact ==
    ASSUME NEW t, Linked(t), Bounded(t), NEW r \in AnyRegion
    PROVE  selfJoinQuery(t, r) =
              {p \in DataOf(t) \X DataOf(t) : /\ p[1].id # p[2].id /\ intersectsRegion(p[1].mbr, p[2].mbr)
                                              /\ intersectsRegion(r, p[1].mbr)
                                              /\ intersectsRegion(r, p[2].mbr)}
<1> DEFINE x == <<t.m_rootID, t.m_rootID>>
<1>1. x \in Peers(t) /\ x[1] = t.m_rootID /\ x[2] = t.m_rootID
  BY LinkedIs DEF Peers
<1>2. selfJoinQuery(t, r) = Joined(t)[<<x, r>>]
  BY DEF selfJoinQuery
<1>3. MeetingUnder(t, x, r) = {y \in DataOf(t) \X DataOf(t) : Meet(r, y)}
  BY <1>1, AllUnderRoot DEF MeetingUnder
<1> HIDE DEF x
<1> QED
  BY <1>1, <1>2, <1>3, JoinedGives DEF Meet

-----------------------------------------------------------------------------
(* The search for the leaf of a datum                                      *)

\* The entries of an index node behind which the search f finds e.
Hits(t, e, f, p) ==
    {k \in DOMAIN t.page[p].entries :
        containsRegion(t.page[p].entries[k].mbr, e.mbr) /\ f[t.page[p].entries[k].id] # <<>>}

\* What Search gives for a page.
SearchStep(t, e, f, p) ==
    IF Level(t, p) = 0 THEN IF e \in Es(t, p) THEN <<p>> ELSE <<>>
    ELSE IF Hits(t, e, f, p) = {} THEN <<>>
    ELSE Append(f[t.page[p].entries[Min(Hits(t, e, f, p))].id], p)

\* Es holds exactly the entries of the page's sequence.
LEMMA EntriesAre ==
    ASSUME NEW t, NEW p
    PROVE  /\ \A k \in DOMAIN t.page[p].entries : t.page[p].entries[k] \in Es(t, p)
           /\ \A x \in Es(t, p) : \E k \in DOMAIN t.page[p].entries : t.page[p].entries[k] = x
  BY DEF Es, ToSet

\* The first entry that leads on is an entry of the page that leads on.
LEMMA FirstHit ==
    ASSUME NEW t, Linked(t), NEW e, NEW p \in DOMAIN t.page, NEW f, Hits(t, e, f, p) # {}
    PROVE  Min(Hits(t, e, f, p)) \in Hits(t, e, f, p) /\ Min(Hits(t, e, f, p)) \in DOMAIN t.page[p].entries
<1>1. Hits(t, e, f, p) \in SUBSET Nat
  BY DEF Hits, Linked
<1> QED
  BY <1>1, LeastExists DEF Min, Hits

\* It looks at the level below only.
LEMMA SearchLooksBelow ==
    ASSUME NEW t, Linked(t), NEW e, NEW p \in DOMAIN t.page, NEW f, NEW g,
           Level(t, p) # 0 => \A x \in Es(t, p) : f[x.id] = g[x.id]
    PROVE  SearchStep(t, e, f, p) = SearchStep(t, e, g, p)
<1>1. CASE Level(t, p) = 0
  BY <1>1 DEF SearchStep
<1>2. CASE Level(t, p) # 0
  <2>1. \A k \in DOMAIN t.page[p].entries : f[t.page[p].entries[k].id] = g[t.page[p].entries[k].id]
    BY <1>2, EntriesAre
  <2>2. Hits(t, e, f, p) = Hits(t, e, g, p)
    BY <2>1 DEF Hits
  <2>3. CASE Hits(t, e, f, p) = {}
    BY <1>2, <2>2, <2>3 DEF SearchStep
  <2>4. CASE Hits(t, e, f, p) # {}
    <3>1. Min(Hits(t, e, f, p)) \in DOMAIN t.page[p].entries
      BY <2>4, FirstHit
    <3> QED
      BY <1>2, <2>1, <2>2, <2>4, <3>1 DEF SearchStep
  <2> QED
    BY <2>3, <2>4
<1> QED
  BY <1>1, <1>2

\* So the equation that defines it has a solution on the levels up to n, whatever n is,
LEMMA SearchUpTo ==
    ASSUME NEW t, Linked(t), NEW e, NEW n \in Nat
    PROVE  \E f : \A p \in DOMAIN t.page : Level(t, p) <= n => f[p] = SearchStep(t, e, f, p)
<1> DEFINE Solves(f, m) == \A p \in DOMAIN t.page : Level(t, p) <= m => f[p] = SearchStep(t, e, f, p)
<1> DEFINE Bad == {m \in Nat : \A f : ~ Solves(f, m)}
<1> SUFFICES ASSUME Bad # {} PROVE FALSE
  OBVIOUS
<1>1. PICK m \in Bad : \A l \in Bad : m <= l
  BY LeastExists
<1>2. PICK f : m > 0 => Solves(f, m - 1)
  <2>1. CASE m = 0
    BY <2>1
  <2>2. CASE m > 0
    <3>1. m - 1 \in Nat /\ ~ (m <= m - 1)
      BY <2>2
    <3>2. m - 1 \notin Bad
      BY <1>1, <3>1
    <3> QED
      BY <3>1, <3>2
  <2> QED
    BY <2>1, <2>2
<1> DEFINE g == [p \in DOMAIN t.page |-> SearchStep(t, e, f, p)]
<1>3. ASSUME NEW p \in DOMAIN t.page, Level(t, p) <= m PROVE g[p] = SearchStep(t, e, g, p)
  <2>1. ASSUME Level(t, p) # 0, NEW x \in Es(t, p) PROVE f[x.id] = g[x.id]
    <3>1. Level(t, p) \in Nat /\ Level(t, p) > 0
      BY <2>1, LinkedIs
    <3>2. x.id \in DOMAIN t.page /\ Level(t, x.id) = Level(t, p) - 1
      BY <2>1, <3>1, LinkedIs
    <3>3. m > 0 /\ Level(t, x.id) <= m - 1
      BY <1>3, <3>1, <3>2
    <3>4. f[x.id] = SearchStep(t, e, f, x.id)
      BY <1>2, <3>2, <3>3
    <3> QED
      BY <3>2, <3>4
  <2>2. g[p] = SearchStep(t, e, f, p)
    OBVIOUS
  <2> HIDE DEF g
  <2>3. SearchStep(t, e, f, p) = SearchStep(t, e, g, p)
    BY <2>1, SearchLooksBelow
  <2> QED
    BY <2>2, <2>3
<1>4. Solves(g, m)
  BY <1>3
<1> HIDE DEF g, Solves
<1> QED
  BY <1>1, <1>4

\* and Search is one.
LEMMA SearchIs ==
    ASSUME NEW t, Linked(t), NEW e, NEW p \in DOMAIN t.page
    PROVE  Search(t, e)[p] = SearchStep(t, e, Search(t, e), p)
<1> DEFINE H == Level(t, t.m_rootID)
<1>1. H \in Nat /\ \A q \in DOMAIN t.page : Level(t, q) <= H
  BY LinkedIs
<1>2. PICK f : \A q \in DOMAIN t.page : Level(t, q) <= H => f[q] = SearchStep(t, e, f, q)
  BY <1>1, SearchUpTo
<1> DEFINE w == [q \in DOMAIN t.page |-> f[q]]
<1>3. ASSUME NEW q \in DOMAIN t.page PROVE w[q] = SearchStep(t, e, w, q)
  <2>1. w[q] = SearchStep(t, e, f, q) /\ \A o \in DOMAIN t.page : w[o] = f[o]
    BY <1>1, <1>2
  <2> HIDE DEF w
  <2>2. Level(t, q) # 0 => \A x \in Es(t, q) : f[x.id] = w[x.id]
    BY <2>1, LinkedIs
  <2>3. SearchStep(t, e, f, q) = SearchStep(t, e, w, q)
    BY <2>2, SearchLooksBelow
  <2> QED
    BY <2>1, <2>3
<1>4. w = [q \in DOMAIN t.page |-> SearchStep(t, e, w, q)]
  BY <1>3
<1>5. \E h : h = [q \in DOMAIN t.page |-> SearchStep(t, e, h, q)]
  BY <1>4
<1>6. Search(t, e) = CHOOSE h : h = [q \in DOMAIN t.page |-> SearchStep(t, e, h, q)]
  BY DEF Search, SearchStep, Hits, Level, Es
<1>7. Search(t, e) = [q \in DOMAIN t.page |-> SearchStep(t, e, Search(t, e), q)]
  BY <1>5, <1>6
<1> QED
  BY <1>7

\* A way from a leaf with the entry e up to p: each page is an entry of the next one, which
\* is a level higher.
WayUp(t, e, way, p) ==
    /\ way \in Seq(DOMAIN t.page) /\ Len(way) > 0 /\ way[Len(way)] = p
    /\ e \in Es(t, way[1]) /\ \A i \in 1 .. Len(way) : Level(t, way[i]) = i - 1
    /\ \A i \in 1 .. Len(way) - 1 : \E x \in Es(t, way[i + 1]) : x.id = way[i]

\* A way up grows by the parent of its last page.
LEMMA WayLonger ==
    ASSUME NEW t, NEW e, NEW way, NEW q, NEW p \in DOMAIN t.page, WayUp(t, e, way, q),
           NEW x \in Es(t, p), x.id = q, Level(t, p) \in Nat, Level(t, q) = Level(t, p) - 1
    PROVE  WayUp(t, e, Append(way, p), p)
<1> DEFINE L == Len(way)
<1> DEFINE up == Append(way, p)
<1>1. way \in Seq(DOMAIN t.page) /\ L \in Nat /\ L > 0 /\ way[L] = q
  BY DEF WayUp
<1>2. up \in Seq(DOMAIN t.page) /\ Len(up) = L + 1 /\ up[L + 1] = p /\ \A i \in 1 .. L : up[i] = way[i]
  BY <1>1
<1>3. e \in Es(t, way[1]) /\ \A i \in 1 .. L : Level(t, way[i]) = i - 1
  BY DEF WayUp
<1>4. up[1] = way[1]
  BY <1>1, <1>2
<1>5. ASSUME NEW i \in 1 .. L PROVE \E y \in Es(t, up[i + 1]) : y.id = up[i]
  <2>1. CASE i = L
    BY <1>1, <1>2, <2>1
  <2>2. CASE i < L
    <3>1. i \in 1 .. L - 1 /\ i + 1 \in 1 .. L
      BY <1>1, <2>2
    <3>2. \E y \in Es(t, way[i + 1]) : y.id = way[i]
      BY <3>1 DEF WayUp
    <3> QED
      BY <1>2, <3>1, <3>2
  <2> QED
    BY <1>1, <2>1, <2>2
<1> HIDE DEF up
<1>6. \A i \in 1 .. L + 1 : Level(t, up[i]) = i - 1
  <2>1. Level(t, p) = L
    BY <1>1, <1>3
  <2>2. \A i \in 1 .. L + 1 : i = L + 1 \/ i \in 1 .. L
    BY <1>1
  <2> QED
    BY <1>1, <1>2, <1>3, <2>1, <2>2
<1>7. WayUp(t, e, up, p)
  BY <1>1, <1>2, <1>3, <1>4, <1>5, <1>6 DEF WayUp
<1> QED
  BY <1>7 DEF up

\* A sequence of one element.
LEMMA SingleIs ==
    ASSUME NEW S, NEW x \in S
    PROVE  <<x>> \in Seq(S) /\ Len(<<x>>) = 1 /\ <<x>>[1] = x
  OBVIOUS

\* FindLeaf returns a way up to the entry where one exists under the page, and none otherwise.
LEMMA SearchGives ==
    ASSUME NEW t, Linked(t), Bounded(t), NEW e, NEW p \in DOMAIN t.page
    PROVE  IF e \in Under(t, p) THEN WayUp(t, e, Search(t, e)[p], p) ELSE Search(t, e)[p] = <<>>
<1> DEFINE F == Search(t, e)
<1> DEFINE Good(q) == IF e \in Under(t, q) THEN WayUp(t, e, F[q], q) ELSE F[q] = <<>>
<1> DEFINE Wrong == {q \in DOMAIN t.page : ~ Good(q)}
<1> SUFFICES ASSUME Wrong # {} PROVE FALSE
  OBVIOUS
<1>1. PICK q \in Wrong : \A o \in Wrong : Level(t, q) <= Level(t, o)
  BY LowestPage
<1>2. q \in DOMAIN t.page /\ Level(t, q) \in Nat /\ ~ Good(q)
  BY <1>1, LinkedIs
<1>3. F[q] = SearchStep(t, e, F, q)
  BY <1>2, SearchIs
<1>4. \A o : WayUp(t, e, <<>>, o) => FALSE
  BY DEF WayUp
<1> HIDE DEF F
<1>5. CASE Level(t, q) = 0
  <2>1. Under(t, q) = Es(t, q)
    BY <1>2, <1>5, UnderIs
  <2>2. F[q] = IF e \in Es(t, q) THEN <<q>> ELSE <<>>
    BY <1>3, <1>5 DEF SearchStep
  <2>3. ASSUME e \in Es(t, q) PROVE WayUp(t, e, <<q>>, q)
    <3>1. PICK way : way = <<q>>
      OBVIOUS
    <3>2. way \in Seq(DOMAIN t.page) /\ Len(way) = 1 /\ way[1] = q
      <4>1. q \in DOMAIN t.page
        BY <1>2
      <4> QED
        BY <3>1, <4>1, SingleIs
    <3>3. WayUp(t, e, way, q)
      BY <1>5, <2>3, <3>2 DEF WayUp
    <3> QED
      BY <3>1, <3>3
  <2> QED
    BY <1>2, <2>1, <2>2, <2>3
<1>6. CASE Level(t, q) > 0
  <2> DEFINE es == t.page[q].entries
  <2>1. ASSUME NEW k \in DOMAIN es
        PROVE  /\ es[k] \in Es(t, q) /\ es[k].id \in DOMAIN t.page /\ Level(t, es[k].id) = Level(t, q) - 1
               /\ Good(es[k].id) /\ t.page[es[k].id].m_nodeMBR = es[k].mbr
    <3>1. es[k] \in Es(t, q)
      BY EntriesAre
    <3>2. es[k].id \in DOMAIN t.page /\ Level(t, es[k].id) = Level(t, q) - 1 /\ t.page[es[k].id].m_nodeMBR = es[k].mbr
      BY <1>2, <1>6, <3>1, LinkedIs
    <3>3. ~ (Level(t, q) <= Level(t, es[k].id))
      BY <1>2, <3>2
    <3>4. es[k].id \notin Wrong
      <4> HIDE DEF Wrong
      <4> QED
        BY <1>1, <3>3
    <3> QED
      BY <3>1, <3>2, <3>4
  <2>2. Under(t, q) = UNION {Under(t, x.id) : x \in Es(t, q)}
    BY <1>2, <1>6, UnderIs
  <2>3. CASE Hits(t, e, F, q) = {}
    <3>1. F[q] = <<>>
      BY <1>3, <1>6, <2>3 DEF SearchStep
    <3>2. ASSUME e \in Under(t, q) PROVE FALSE
      <4>1. PICK x \in Es(t, q) : e \in Under(t, x.id)
        BY <2>2, <3>2
      <4>2. PICK k \in DOMAIN es : es[k] = x
        BY EntriesAre
      <4>3. F[x.id] # <<>>
        BY <1>4, <2>1, <4>1, <4>2
      <4>4. containsRegion(x.mbr, e.mbr)
        BY <2>1, <4>1, <4>2, UnderWithin
      <4>5. k \in Hits(t, e, F, q)
        BY <4>2, <4>3, <4>4 DEF Hits
      <4> QED
        BY <2>3, <4>5
    <3> QED
      BY <1>2, <3>1, <3>2
  <2>4. CASE Hits(t, e, F, q) # {}
    <3> DEFINE k == Min(Hits(t, e, F, q))
    <3>1. k \in DOMAIN es /\ k \in Hits(t, e, F, q)
      BY <1>2, <2>4, FirstHit
    <3>2. F[q] = Append(F[es[k].id], q)
      <4>1. Level(t, q) # 0
        BY <1>6
      <4> QED
        BY <1>3, <2>4, <4>1, Zenon DEF SearchStep
    <3> HIDE DEF k
    <3>3. F[es[k].id] # <<>>
      BY <3>1 DEF Hits
    <3>4. e \in Under(t, es[k].id) /\ WayUp(t, e, F[es[k].id], es[k].id)
      BY <2>1, <3>1, <3>3
    <3>5. e \in Under(t, q)
      BY <2>1, <2>2, <3>1, <3>4
    <3>6. WayUp(t, e, F[q], q)
      <4>1. es[k] \in Es(t, q) /\ WayUp(t, e, F[es[k].id], es[k].id) /\ Level(t, es[k].id) = Level(t, q) - 1
        BY <2>1, <3>1, <3>4
      <4>2. WayUp(t, e, Append(F[es[k].id], q), q)
        BY <1>2, <4>1, WayLonger
      <4> QED
        BY <3>2, <4>2
    <3> QED
      BY <1>2, <3>5, <3>6
  <2> QED
    BY <2>3, <2>4
<1> QED
  BY <1>2, <1>5, <1>6

\* The search finds a leaf just for a datum of the tree, and with it the way from that
\* leaf up to the root: deleteData tells truly whether there was something to delete
\* (RTree::deleteData_impl, Index::findLeaf).
THEOREM SearchExact ==
    ASSUME NEW t, Linked(t), Bounded(t), NEW e
    PROVE  /\ findLeaf(t, e) # <<>> <=> e \in DataOf(t)
           /\ findLeaf(t, e) # <<>> => WayUp(t, e, findLeaf(t, e), t.m_rootID)
<1>1. t.m_rootID \in DOMAIN t.page
  BY LinkedIs
<1>2. IF e \in DataOf(t) THEN WayUp(t, e, findLeaf(t, e), t.m_rootID) ELSE findLeaf(t, e) = <<>>
  BY <1>1, AllUnderRoot, SearchGives DEF findLeaf
<1>3. ~ WayUp(t, e, <<>>, t.m_rootID)
  BY DEF WayUp
<1> QED
  BY <1>2, <1>3


-----------------------------------------------------------------------------
(* Least elements and ranks                                                *)

\* A finite set that a relation orders has a least element: else there would be a smallest
\* set without one.
LEMMA LeastOf ==
    ASSUME NEW S, IsFiniteSet(S), S # {}, NEW R,
           \A a, b \in S : <<a, b>> \in R \/ <<b, a>> \in R,
           \A a, b, c \in S : <<a, b>> \in R /\ <<b, c>> \in R => <<a, c>> \in R
    PROVE  \E a \in S : \A b \in S : <<a, b>> \in R
<1> DEFINE Has(T) == \E a \in T : \A b \in T : <<a, b>> \in R
<1> DEFINE Sizes == {k \in Nat : \E T \in SUBSET S : T # {} /\ ~ Has(T) /\ Cardinality(T) = k}
<1> SUFFICES ASSUME ~ Has(S) PROVE FALSE
  OBVIOUS
<1>1. \A T \in SUBSET S : IsFiniteSet(T) /\ Cardinality(T) \in Nat
  BY FS_Subset, FS_CardinalityType
<1>2. Cardinality(S) \in Sizes
  BY <1>1
<1>3. PICK k \in Sizes : \A j \in Sizes : k <= j
  BY <1>2, LeastExists
<1>4. PICK T \in SUBSET S : T # {} /\ ~ Has(T) /\ Cardinality(T) = k
  BY <1>3
<1>5. PICK x \in T : TRUE
  BY <1>4
<1>6. IsFiniteSet(T \ {x}) /\ Cardinality(T \ {x}) = k - 1 /\ k \in Nat /\ k - 1 \in Nat
  <2>1. IsFiniteSet(T \ {x}) /\ Cardinality(T \ {x}) = Cardinality(T) - 1
    BY <1>1, <1>5, FS_RemoveElement
  <2>2. Cardinality(T \ {x}) \in Nat
    BY <2>1, FS_CardinalityType
  <2> QED
    BY <1>3, <1>4, <2>1, <2>2
<1>7. CASE T \ {x} = {}
  BY <1>4, <1>5, <1>7
<1>8. CASE T \ {x} # {}
  <2>1. Has(T \ {x})
    <3> SUFFICES ASSUME ~ Has(T \ {x}) PROVE FALSE
      OBVIOUS
    <3>1. k - 1 \in Sizes
      BY <1>6, <1>8
    <3>2. k <= k - 1
      BY <1>3, <3>1
    <3> QED
      BY <1>6, <3>2
  <2>2. PICK a \in T \ {x} : \A b \in T \ {x} : <<a, b>> \in R
    BY <2>1
  <2>3. CASE <<a, x>> \in R
    BY <1>4, <1>5, <2>2, <2>3
  <2>4. CASE <<x, a>> \in R
    <3>1. <<x, x>> \in R
      BY <1>5
    <3>2. \A b \in T : <<x, b>> \in R
      BY <1>5, <2>2, <2>4, <3>1
    <3> QED
      BY <1>4, <1>5, <3>2
  <2> QED
    BY <1>5, <2>2, <2>3, <2>4
<1> QED
  BY <1>7, <1>8

\* Min is the least of a finite set of integers,
LEMMA MinIs ==
    ASSUME NEW S \in SUBSET Int, IsFiniteSet(S), S # {}
    PROVE  Min(S) \in S /\ \A x \in S : Min(S) <= x
<1> DEFINE R == {x \in S \X S : x[1] <= x[2]}
<1>1. \A a, b \in S : <<a, b>> \in R <=> a <= b
  OBVIOUS
<1>2. \A a, b, c \in S : a <= b /\ b <= c => a <= c
  OBVIOUS
<1>3. \A a, b \in S : a <= b \/ b <= a
  OBVIOUS
<1> HIDE DEF R
<1>4. \E a \in S : \A b \in S : <<a, b>> \in R
  BY <1>1, <1>2, <1>3, LeastOf
<1> QED
  BY <1>1, <1>4 DEF Min

\* and Max the greatest.
LEMMA MaxIs ==
    ASSUME NEW S \in SUBSET Int, IsFiniteSet(S), S # {}
    PROVE  Max(S) \in S /\ \A x \in S : x <= Max(S)
<1> DEFINE R == {x \in S \X S : x[1] >= x[2]}
<1>1. \A a, b \in S : <<a, b>> \in R <=> a >= b
  OBVIOUS
<1>2. \A a, b, c \in S : a >= b /\ b >= c => a >= c
  OBVIOUS
<1>3. \A a, b \in S : a >= b \/ b >= a
  OBVIOUS
<1> HIDE DEF R
<1>4. \E a \in S : \A b \in S : <<a, b>> \in R
  BY <1>1, <1>2, <1>3, LeastOf
<1>5. \E a \in S : \A b \in S : a >= b
  BY <1>1, <1>4
<1>6. Max(S) \in S /\ \A y \in S : Max(S) >= y
  BY <1>5 DEF Max
<1> QED
  BY <1>6

\* LexLeq orders tuples of the same length.
LEMMA LexOrders ==
    ASSUME NEW m \in Nat, NEW a \in [1 .. m -> Int], NEW b \in [1 .. m -> Int], NEW c \in [1 .. m -> Int]
    PROVE  /\ LexLeq(a, b) \/ LexLeq(b, a)
           /\ LexLeq(a, b) /\ LexLeq(b, c) => LexLeq(a, c)
           /\ LexLeq(a, b) /\ LexLeq(b, a) => a = b
<1>1. ASSUME a # b PROVE LexLeq(a, b) \/ LexLeq(b, a)
  <2> DEFINE D == {k \in 1 .. m : a[k] # b[k]}
  <2>1. D \in SUBSET Nat /\ D # {}
    <3>1. PICK k \in 1 .. m : a[k] # b[k]
      <4> HIDE DEF D
      <4> QED
        BY <1>1
    <3>2. k \in D
      BY <3>1
    <3>3. D \in SUBSET Nat
      OBVIOUS
    <3> HIDE DEF D
    <3> QED
      BY <3>2, <3>3
  <2>2. PICK k \in D : \A j \in D : k <= j
    BY <2>1, LeastExists
  <2>3. \A j \in 1 .. k - 1 : a[j] = b[j] /\ b[j] = a[j]
    BY <2>2
  <2>4. a[k] < b[k] \/ b[k] < a[k]
    BY <2>2
  <2> QED
    BY <2>2, <2>3, <2>4 DEF LexLeq
<1>2. ASSUME LexLeq(a, b), LexLeq(b, c), a # b, b # c PROVE LexLeq(a, c)
  <2>1. PICK k \in 1 .. m : a[k] < b[k] /\ \A j \in 1 .. k - 1 : a[j] = b[j]
    BY <1>2 DEF LexLeq
  <2>2. PICK l \in 1 .. m : b[l] < c[l] /\ \A j \in 1 .. l - 1 : b[j] = c[j]
    BY <1>2 DEF LexLeq
  <2>3. CASE k <= l
    <3>1. a[k] \in Int /\ b[k] \in Int /\ c[k] \in Int
      OBVIOUS
    <3>2. b[k] <= c[k]
      <4>1. CASE k = l
        BY <2>2, <3>1, <4>1
      <4>2. CASE k # l
        BY <2>2, <2>3, <3>1, <4>2
      <4> QED
        BY <4>1, <4>2
    <3>3. a[k] < c[k]
      BY <2>1, <3>1, <3>2
    <3>4. \A j \in 1 .. k - 1 : a[j] = c[j]
      BY <2>1, <2>2, <2>3
    <3> QED
      BY <3>3, <3>4 DEF LexLeq
  <2>4. CASE l < k
    <3>1. a[l] < c[l] /\ \A j \in 1 .. l - 1 : a[j] = c[j]
      BY <2>1, <2>2, <2>4
    <3> QED
      BY <3>1 DEF LexLeq
  <2> QED
    BY <2>3, <2>4
<1>3. ASSUME LexLeq(a, b), LexLeq(b, a), a # b PROVE FALSE
  <2>1. PICK k \in 1 .. m : a[k] < b[k] /\ \A j \in 1 .. k - 1 : a[j] = b[j]
    BY <1>3 DEF LexLeq
  <2>2. PICK l \in 1 .. m : b[l] < a[l] /\ \A j \in 1 .. l - 1 : b[j] = a[j]
    BY <1>3 DEF LexLeq
  <2>3. k < l \/ l < k \/ k = l
    OBVIOUS
  <2> QED
    BY <2>1, <2>2, <2>3
<1> QED
  BY <1>1, <1>2, <1>3 DEF LexLeq

\* The lexicographic first of a set of tuples belongs to it.
LEMMA FirstIn ==
    ASSUME NEW m \in Nat, NEW S \in SUBSET [1 .. m -> Int], IsFiniteSet(S), S # {}
    PROVE  First(S) \in S
<1> DEFINE R == {x \in S \X S : LexLeq(x[1], x[2])}
<1>1. \A a, b \in S : <<a, b>> \in R <=> LexLeq(a, b)
  OBVIOUS
<1>2. \A a, b, c \in S : /\ LexLeq(a, b) \/ LexLeq(b, a)
                         /\ LexLeq(a, b) /\ LexLeq(b, c) => LexLeq(a, c)
  BY LexOrders
<1> HIDE DEF R
<1>3. \E a \in S : \A b \in S : <<a, b>> \in R
  BY <1>1, <1>2, LeastOf
<1> QED
  BY <1>1, <1>3 DEF First

\* In a finite set that a relation orders, as many elements are before one as its rank says,
\* and there is one of every rank.
Totally(R, S) ==
    /\ \A a, b \in S : <<a, b>> \in R \/ <<b, a>> \in R
    /\ \A a, b \in S : <<a, b>> \in R /\ <<b, a>> \in R => a = b
    /\ \A a, b, c \in S : <<a, b>> \in R /\ <<b, c>> \in R => <<a, c>> \in R

Ranks(R, S) == [a \in S |-> Cardinality({b \in S : b # a /\ <<b, a>> \in R}) + 1]

\* Counting those before it ranks the elements of a total order.
LEMMA RankIs ==
    ASSUME NEW S, IsFiniteSet(S), NEW R, Totally(R, S)
    PROVE  Ranks(R, S) \in Bijection(S, 1 .. Cardinality(S))
<1> DEFINE f == [a \in S |-> Cardinality({b \in S : b # a /\ <<b, a>> \in R}) + 1]
<1>0. /\ \A a, b \in S : <<a, b>> \in R \/ <<b, a>> \in R
      /\ \A a, b \in S : <<a, b>> \in R /\ <<b, a>> \in R => a = b
  BY DEF Totally
<1> DEFINE B(a) == {b \in S : b # a /\ <<b, a>> \in R}
<1>1. Cardinality(S) \in Nat
  BY FS_CardinalityType
<1>2. ASSUME NEW a \in S
      PROVE  IsFiniteSet(B(a)) /\ Cardinality(B(a)) \in Nat /\ Cardinality(B(a)) < Cardinality(S)
  <2>1. B(a) \in SUBSET (S \ {a}) /\ IsFiniteSet(S \ {a}) /\ Cardinality(S \ {a}) = Cardinality(S) - 1
    BY FS_RemoveElement
  <2> HIDE DEF B
  <2>2. IsFiniteSet(B(a)) /\ Cardinality(B(a)) <= Cardinality(S \ {a})
    BY <2>1, FS_Subset
  <2> QED
    BY <1>1, <2>1, <2>2, FS_CardinalityType
<1>3. ASSUME NEW a \in S, NEW b \in S, a # b, <<a, b>> \in R
      PROVE  Cardinality(B(a)) < Cardinality(B(b))
  <2>1. B(a) \subseteq B(b) \ {a} /\ a \in B(b)
    BY <1>3 DEF Totally
  <2> HIDE DEF B
  <2>2. IsFiniteSet(B(b) \ {a}) /\ Cardinality(B(b) \ {a}) = Cardinality(B(b)) - 1
    BY <1>2, <2>1, FS_RemoveElement
  <2>3. Cardinality(B(a)) <= Cardinality(B(b) \ {a})
    BY <2>1, <2>2, FS_Subset
  <2> QED
    BY <1>2, <2>2, <2>3
<1>4. \A a \in S : f[a] = Cardinality(B(a)) + 1
  OBVIOUS
<1>5. DOMAIN f = S /\ f = [a \in S |-> f[a]]
  OBVIOUS
<1> HIDE DEF B, f
<1>6. f \in [S -> 1 .. Cardinality(S)]
  BY <1>1, <1>2, <1>4, <1>5
<1>7. ASSUME NEW a \in S, NEW b \in S, f[a] = f[b] PROVE a = b
  <2>1. Cardinality(B(a)) = Cardinality(B(b)) /\ Cardinality(B(a)) \in Nat
    <3>1. Cardinality(B(a)) \in Nat /\ Cardinality(B(b)) \in Nat
      BY <1>2
    <3>2. Cardinality(B(a)) + 1 = Cardinality(B(b)) + 1
      BY <1>4, <1>7
    <3> QED
      BY <3>1, <3>2
  <2>2. ~ (Cardinality(B(a)) < Cardinality(B(b))) /\ ~ (Cardinality(B(b)) < Cardinality(B(a)))
    BY <2>1
  <2>3. <<a, b>> \in R \/ <<b, a>> \in R
    BY <1>0
  <2> QED
    BY <1>3, <2>2, <2>3
<1>8. f \in Injection(S, 1 .. Cardinality(S))
  BY <1>6, <1>7 DEF Injection, IsInjective
<1>9. IsFiniteSet(1 .. Cardinality(S)) /\ Cardinality(1 .. Cardinality(S)) = Cardinality(S)
  BY <1>1, FS_Interval
<1>10. f \in Surjection(S, 1 .. Cardinality(S))
  BY <1>8, <1>9, FS_Injection
<1>11. f \in Bijection(S, 1 .. Cardinality(S))
  BY <1>8, <1>10 DEF Bijection
<1> QED
  BY <1>11 DEF f, Ranks


-----------------------------------------------------------------------------
(* Sequences of entries                                                    *)

EntryT == [mbr : AnyRegion, id : Int]

\* A sequence in another order.
Shuffled(s, r) ==
    \E f \in Bijection(DOMAIN s, DOMAIN s) : r = [k \in DOMAIN s |-> s[f[k]]]

\* Sorting by a key, with ties in their order, is a permutation.
LEMMA SortedShuffles ==
    ASSUME NEW s, NEW n \in Nat, DOMAIN s = 1 .. n, NEW keys \in [1 .. n -> Int]
    PROVE  Shuffled(s, Sorted(s, keys))
<1> DEFINE at == {<<keys[i], i>> : i \in DOMAIN s}
<1> DEFINE R == {x \in at \X at : LexLeq(x[1], x[2])}
<1> DEFINE rank == [a \in at |-> Cardinality({b \in at : b # a /\ <<b, a>> \in R}) + 1]
<1> DEFINE g == [i \in 1 .. n |-> <<keys[i], i>>]
<1>1. at \in SUBSET (Int \X Nat) /\ at \in SUBSET [1 .. 2 -> Int]
  OBVIOUS
<1>2. g \in Bijection(1 .. n, at)
  <2>1. g \in [1 .. n -> at]
    OBVIOUS
  <2>2. \A i, j \in 1 .. n : g[i] = g[j] => i = j
    OBVIOUS
  <2>3. \A p \in at : \E i \in 1 .. n : g[i] = p
    OBVIOUS
  <2> HIDE DEF g, at
  <2>4. g \in Injection(1 .. n, at)
    BY <2>1, <2>2 DEF Injection, IsInjective
  <2>5. g \in Surjection(1 .. n, at)
    BY <2>1, <2>3 DEF Surjection
  <2> QED
    BY <2>4, <2>5 DEF Bijection
<1>3. IsFiniteSet(at) /\ Cardinality(at) = n
  <2>1. IsFiniteSet(1 .. n) /\ Cardinality(1 .. n) = n
    BY FS_Interval
  <2> HIDE DEF at, g
  <2>2. ExistsBijection(1 .. n, at)
    BY <1>2 DEF ExistsBijection
  <2> QED
    BY <2>1, <2>2, FS_Bijection
<1>4. \A a, b \in at : <<a, b>> \in R <=> LexLeq(a, b)
  OBVIOUS
<1>5. \A a, b, c \in at : /\ LexLeq(a, b) \/ LexLeq(b, a)
                          /\ LexLeq(a, b) /\ LexLeq(b, c) => LexLeq(a, c)
                          /\ LexLeq(a, b) /\ LexLeq(b, a) => a = b
  <2> HIDE DEF at
  <2>1. 2 \in Nat
    OBVIOUS
  <2> QED
    BY <1>1, <2>1, LexOrders
<1>6. rank \in Bijection(at, 1 .. n)
  <2> HIDE DEF at, R
  <2>1. Totally(R, at)
    BY <1>4, <1>5 DEF Totally
  <2>2. rank \in Bijection(at, 1 .. Cardinality(at))
    <3> DEFINE r == rank
    <3>1. r = Ranks(R, at)
      BY DEF Ranks
    <3> HIDE DEF r
    <3>2. IsFiniteSet(at)
      BY <1>3
    <3>3. Ranks(R, at) \in Bijection(at, 1 .. Cardinality(at))
      BY <2>1, <3>2, RankIs
    <3> QED
      BY <3>1, <3>3 DEF r
  <2> QED
    BY <1>3, <2>2
<1> DEFINE before(p) == {q \in at : q # p /\ LexLeq(q, p)}
<1>7. \A p \in at : rank[p] = Cardinality(before(p)) + 1
  <2> SUFFICES ASSUME NEW p \in at PROVE rank[p] = Cardinality(before(p)) + 1
    OBVIOUS
  <2> HIDE DEF at, R
  <2>1. before(p) = {b \in at : b # p /\ <<b, p>> \in R}
    BY <1>4
  <2> QED
    BY <2>1
<1> DEFINE place == [r \in 1 .. n |-> CHOOSE p \in at : Cardinality(before(p)) + 1 = r]
<1>8. \A r \in 1 .. n : place[r] \in at /\ rank[place[r]] = r
  <2> SUFFICES ASSUME NEW r \in 1 .. n PROVE place[r] \in at /\ rank[place[r]] = r
    OBVIOUS
  <2> HIDE DEF at, rank, before
  <2>1. \E p \in at : rank[p] = r
    BY <1>6 DEF Bijection, Surjection
  <2> QED
    BY <1>7, <2>1
<1> DEFINE f == [r \in 1 .. n |-> place[r][2]]
<1>9. \A p \in at : p[2] \in 1 .. n /\ p = <<keys[p[2]], p[2]>>
  OBVIOUS
<1>10. f \in Bijection(1 .. n, 1 .. n)
  <2>1. f \in [1 .. n -> 1 .. n]
    <3> HIDE DEF at, place
    <3> QED
      BY <1>8, <1>9
  <2>2. ASSUME NEW i \in 1 .. n, NEW j \in 1 .. n, f[i] = f[j] PROVE i = j
    <3> HIDE DEF at, place, rank
    <3>1. place[i][2] = place[j][2]
      BY <2>2
    <3>2. place[i] = place[j]
      <4>1. place[i] \in at /\ place[j] \in at
        BY <1>8
      <4>2. place[i] = <<keys[place[i][2]], place[i][2]>>
        BY <1>9, <4>1
      <4>3. place[j] = <<keys[place[j][2]], place[j][2]>>
        BY <1>9, <4>1
      <4> QED
        BY <3>1, <4>2, <4>3
    <3> QED
      BY <1>8, <3>2
  <2>3. ASSUME NEW i \in 1 .. n PROVE \E r \in 1 .. n : f[r] = i
    <3>1. g[i] \in at /\ g[i][2] = i
      OBVIOUS
    <3> HIDE DEF at, place, rank, g
    <3>2. rank[g[i]] \in 1 .. n
      BY <1>6, <3>1 DEF Bijection, Injection
    <3>3. rank[place[rank[g[i]]]] = rank[g[i]] /\ place[rank[g[i]]] \in at
      BY <1>8, <3>2
    <3>4. place[rank[g[i]]] = g[i]
      BY <1>6, <3>1, <3>3 DEF Bijection, Injection, IsInjective
    <3> QED
      BY <3>1, <3>2, <3>4
  <2> HIDE DEF f
  <2>4. f \in Injection(1 .. n, 1 .. n)
    BY <2>1, <2>2 DEF Injection, IsInjective
  <2>5. f \in Surjection(1 .. n, 1 .. n)
    BY <2>1, <2>3 DEF Surjection
  <2> QED
    BY <2>4, <2>5 DEF Bijection
<1>11. Sorted(s, keys) = [r \in DOMAIN s |-> s[f[r]]]
  <2>1. Sorted(s, keys) = [r \in DOMAIN s |-> s[(CHOOSE p \in at : Cardinality(before(p)) + 1 = r)[2]]]
    BY DEF Sorted
  <2> HIDE DEF at, before
  <2> QED
    BY <2>1
<1> HIDE DEF f
<1> QED
  BY <1>10, <1>11 DEF Shuffled


\* The values of a function on a finite set are finitely many.
LEMMA FiniteImage ==
    ASSUME NEW S, IsFiniteSet(S), NEW f
    PROVE  IsFiniteSet({f[x] : x \in S}) /\ Cardinality({f[x] : x \in S}) <= Cardinality(S)
<1> DEFINE T == {f[x] : x \in S}
<1> DEFINE g == [x \in S |-> f[x]]
<1>1. g \in Surjection(S, T)
  <2>1. g \in [S -> T] /\ \A y \in T : \E x \in S : g[x] = y
    OBVIOUS
  <2> QED
    BY <2>1 DEF Surjection
<1> HIDE DEF g, T
<1>2. IsFiniteSet(T) /\ Cardinality(T) <= Cardinality(S)
  BY <1>1, FS_Surjection
<1> QED
  BY <1>2 DEF T

\* There are two dimensions.
LEMMA DimIs == Dim = 1 .. 2 /\ 1 \in Dim /\ 2 \in Dim /\ Dim = {1, 2}
  BY DEF Dim, m_dimension

\* The region that every combination starts from.
LEMMA InfiniteIs ==
    /\ makeInfinite \in AnyRegion
    /\ \A i \in Dim : makeInfinite.low[i] = Big /\ makeInfinite.high[i] = -Big
<1>1. <<Big, Big>> \in [Dim -> Int] /\ <<-Big, -Big>> \in [Dim -> Int]
  BY DimIs DEF Big
<1> QED
  BY <1>1, DimIs DEF makeInfinite, Region, AnyRegion

\* Regions are equal when their bounds are.
LEMMA RegionsEqual ==
    ASSUME NEW a \in AnyRegion, NEW b \in AnyRegion,
           \A i \in Dim : a.low[i] = b.low[i] /\ a.high[i] = b.high[i]
    PROVE  a = b
<1>1. a.low = b.low /\ a.high = b.high
  BY DEF AnyRegion
<1> QED
  BY <1>1 DEF AnyRegion

\* The combination of two regions contains both.
LEMMA CombinedIs ==
    ASSUME NEW a \in AnyRegion, NEW b \in AnyRegion
    PROVE  /\ getCombinedRegion(a, b) \in AnyRegion
           /\ containsRegion(getCombinedRegion(a, b), a)
           /\ containsRegion(getCombinedRegion(a, b), b)
           /\ NonEmpty(a) /\ NonEmpty(b) => NonEmpty(getCombinedRegion(a, b))
           /\ NonEmpty(b) => NonEmpty(getCombinedRegion(makeInfinite, b))
           /\ containsRegion(a, b) => getCombinedRegion(a, b) = a
<1> DEFINE c == getCombinedRegion(a, b)
<1>1. \A i \in Dim : /\ a.low[i] \in Int /\ a.high[i] \in Int /\ b.low[i] \in Int /\ b.high[i] \in Int
                     /\ c.low[i] = Lower(a.low[i], b.low[i]) /\ c.high[i] = Upper(a.high[i], b.high[i])
  BY DEF getCombinedRegion, AnyRegion
<1>2. c \in AnyRegion
  BY <1>1 DEF getCombinedRegion, AnyRegion, Lower, Upper
<1>3. containsRegion(c, a) /\ containsRegion(c, b)
  <2> HIDE DEF c
  <2> QED
    BY <1>1 DEF containsRegion, Lower, Upper
<1>4. NonEmpty(a) /\ NonEmpty(b) => NonEmpty(c)
  <2> HIDE DEF c
  <2> QED
    BY <1>1, <1>2 DEF NonEmpty, Lower, Upper, Big
<1>5. ASSUME NonEmpty(b) PROVE NonEmpty(getCombinedRegion(makeInfinite, b))
  <2> DEFINE d == getCombinedRegion(makeInfinite, b)
  <2>1. \A i \in Dim : /\ d.low[i] = Lower(makeInfinite.low[i], b.low[i])
                       /\ d.high[i] = Upper(makeInfinite.high[i], b.high[i])
    BY DEF getCombinedRegion
  <2>2. \A i \in Dim : d.low[i] = b.low[i] /\ d.high[i] = b.high[i]
    <3> HIDE DEF d
    <3> QED
      BY <1>1, <1>5, <2>1, InfiniteIs DEF NonEmpty, Lower, Upper, Big
  <2>3. d \in AnyRegion
    <3>1. DOMAIN d.low = Dim
      BY DEF getCombinedRegion
    <3>2. \A i \in Dim : d.low[i] \in Int /\ d.high[i] \in Int
      <4> HIDE DEF d
      <4> QED
        BY <1>1, <2>2
    <3> QED
      BY <3>2 DEF AnyRegion, getCombinedRegion
  <2> HIDE DEF d
  <2>4. NonEmpty(d)
    BY <1>5, <2>2, <2>3 DEF NonEmpty
  <2> QED
    BY <2>4 DEF d
<1>6. ASSUME containsRegion(a, b) PROVE c = a
  <2>1. \A i \in Dim : c.low[i] = a.low[i] /\ c.high[i] = a.high[i]
    <3> HIDE DEF c
    <3> QED
      BY <1>1, <1>6 DEF containsRegion, Lower, Upper
  <2> HIDE DEF c
  <2> QED
    BY <1>2, <2>1, RegionsEqual
<1> QED
  BY <1>2, <1>3, <1>4, <1>5, <1>6

\* Entries as nodes have them.
Shapely(es) == es \in Seq(EntryT) /\ \A k \in DOMAIN es : NonEmpty(es[k].mbr)

\* Bounds of entries, coordinate by coordinate.
LEMMA AroundIs ==
    ASSUME NEW es \in Seq(EntryT), es # <<>>
    PROVE  /\ Around(es) \in AnyRegion
           /\ \A i \in Dim :
                 /\ \E k \in DOMAIN es : Around(es).low[i] = es[k].mbr.low[i]
                 /\ \E k \in DOMAIN es : Around(es).high[i] = es[k].mbr.high[i]
                 /\ \A k \in DOMAIN es : /\ Around(es).low[i] <= es[k].mbr.low[i]
                                         /\ es[k].mbr.high[i] <= Around(es).high[i]
<1> DEFINE S == {es[k].mbr : k \in DOMAIN es}
<1>1. DOMAIN es = 1 .. Len(es) /\ Len(es) \in Nat /\ 1 \in DOMAIN es
  OBVIOUS
<1>2. \A k \in DOMAIN es : es[k] \in EntryT /\ es[k].mbr \in AnyRegion
  <2>1. \A k \in DOMAIN es : es[k] \in EntryT
    BY <1>1
  <2> QED
    BY <2>1 DEF EntryT
<1>3. S # {} /\ S \in SUBSET AnyRegion
  BY <1>1, <1>2
<1>4. Around(es) = [low  |-> [i \in Dim |-> Min({r.low[i] : r \in S})],
                    high |-> [i \in Dim |-> Max({r.high[i] : r \in S})]]
  BY <1>3 DEF Around, Bounding
<1>5. ASSUME NEW i \in Dim
      PROVE  /\ \E k \in DOMAIN es : Around(es).low[i] = es[k].mbr.low[i]
             /\ \E k \in DOMAIN es : Around(es).high[i] = es[k].mbr.high[i]
             /\ \A k \in DOMAIN es : /\ Around(es).low[i] <= es[k].mbr.low[i]
                                     /\ es[k].mbr.high[i] <= Around(es).high[i]
             /\ Around(es).low[i] \in Int /\ Around(es).high[i] \in Int
  <2> DEFINE L == {r.low[i] : r \in S}
  <2> DEFINE H == {r.high[i] : r \in S}
  <2> DEFINE f == [k \in DOMAIN es |-> es[k].mbr.low[i]]
  <2> DEFINE g == [k \in DOMAIN es |-> es[k].mbr.high[i]]
  <2>1. L = {f[k] : k \in DOMAIN es} /\ H = {g[k] : k \in DOMAIN es}
    OBVIOUS
  <2>2. \A k \in DOMAIN es : es[k].mbr.low[i] \in Int /\ es[k].mbr.high[i] \in Int
    BY <1>2 DEF AnyRegion
  <2>3. L \in SUBSET Int /\ H \in SUBSET Int /\ L # {} /\ H # {}
    <3>1. f[1] \in L /\ g[1] \in H
      BY <1>1, <2>1
    <3>2. \A k \in DOMAIN es : f[k] \in Int /\ g[k] \in Int
      BY <2>2
    <3> HIDE DEF f, g, L, H
    <3>3. L \in SUBSET Int
      BY <2>1, <3>2
    <3>4. H \in SUBSET Int
      BY <2>1, <3>2
    <3> QED
      BY <3>1, <3>3, <3>4
  <2>4. IsFiniteSet(DOMAIN es)
    BY <1>1, FS_Interval
  <2>5. Around(es).low[i] = Min(L) /\ Around(es).high[i] = Max(H)
    BY <1>4
  <2>6. \A k \in DOMAIN es : f[k] = es[k].mbr.low[i] /\ g[k] = es[k].mbr.high[i]
    OBVIOUS
  <2> HIDE DEF L, H, f, g
  <2>7. IsFiniteSet(L) /\ IsFiniteSet(H)
    BY <2>1, <2>4, FiniteImage
  <2>8. /\ Min(L) \in L /\ \A x \in L : Min(L) <= x
        /\ Max(H) \in H /\ \A x \in H : x <= Max(H)
    BY <2>3, <2>7, MinIs, MaxIs
  <2> QED
    BY <2>1, <2>3, <2>5, <2>6, <2>8
<1>6. Around(es) \in AnyRegion
  <2>1. \A i \in Dim : Min({r.low[i] : r \in S}) \in Int /\ Max({r.high[i] : r \in S}) \in Int
    <3> HIDE DEF S
    <3>1. \A i \in Dim : Around(es).low[i] = Min({r.low[i] : r \in S}) /\ Around(es).high[i] = Max({r.high[i] : r \in S})
      BY <1>4
    <3> QED
      BY <1>5, <3>1
  <2> HIDE DEF S
  <2>2. [i \in Dim |-> Min({r.low[i] : r \in S})] \in [Dim -> Int]
    BY <2>1
  <2>3. [i \in Dim |-> Max({r.high[i] : r \in S})] \in [Dim -> Int]
    BY <2>1
  <2> QED
    BY <1>4, <2>2, <2>3 DEF AnyRegion
<1> QED
  BY <1>5, <1>6

\* The region of no entries is the one a combination starts from.
LEMMA AroundEmpty == Around(<<>>) = makeInfinite
  BY DEF Around, Bounding

\* The region around entries contains each of them.
LEMMA AroundShapely ==
    ASSUME NEW es, Shapely(es)
    PROVE  /\ Around(es) \in AnyRegion
           /\ \A k \in DOMAIN es : containsRegion(Around(es), es[k].mbr)
           /\ es # <<>> => NonEmpty(Around(es))
<1>1. CASE es = <<>>
  BY <1>1, AroundEmpty, InfiniteIs
<1>2. CASE es # <<>>
  <2>1. es \in Seq(EntryT) /\ \A k \in DOMAIN es : NonEmpty(es[k].mbr)
    BY DEF Shapely
  <2>2. /\ Around(es) \in AnyRegion
        /\ \A i \in Dim :
              /\ \E k \in DOMAIN es : Around(es).low[i] = es[k].mbr.low[i]
              /\ \E k \in DOMAIN es : Around(es).high[i] = es[k].mbr.high[i]
              /\ \A k \in DOMAIN es : /\ Around(es).low[i] <= es[k].mbr.low[i]
                                      /\ es[k].mbr.high[i] <= Around(es).high[i]
    BY <1>2, <2>1, AroundIs
  <2>3. \A k \in DOMAIN es : containsRegion(Around(es), es[k].mbr)
    BY <2>2 DEF containsRegion
  <2>4. ASSUME NEW i \in Dim
        PROVE  /\ -Big < Around(es).low[i] /\ Around(es).low[i] <= Around(es).high[i]
               /\ Around(es).high[i] < Big
    <3>1. PICK k \in DOMAIN es : Around(es).low[i] = es[k].mbr.low[i]
      BY <2>2
    <3>2. PICK j \in DOMAIN es : Around(es).high[i] = es[j].mbr.high[i]
      BY <2>2
    <3>3. /\ es[k].mbr.low[i] \in Int /\ es[k].mbr.high[i] \in Int /\ es[j].mbr.high[i] \in Int
          /\ -Big < es[k].mbr.low[i] /\ es[k].mbr.low[i] <= es[k].mbr.high[i]
          /\ es[j].mbr.high[i] < Big
      BY <2>1 DEF NonEmpty, AnyRegion
    <3>4. es[k].mbr.high[i] <= Around(es).high[i]
      BY <2>2
    <3> QED
      BY <3>1, <3>2, <3>3, <3>4
  <2> QED
    BY <2>2, <2>3, <2>4 DEF NonEmpty
<1> QED
  BY <1>1, <1>2

\* Appending an entry.
LEMMA AppendShapely ==
    ASSUME NEW es, Shapely(es), NEW e \in EntryT, NonEmpty(e.mbr)
    PROVE  /\ Shapely(Append(es, e))
           /\ Len(Append(es, e)) = Len(es) + 1
           /\ DOMAIN Append(es, e) = 1 .. Len(es) + 1
           /\ \A k \in 1 .. Len(es) : Append(es, e)[k] = es[k]
           /\ Append(es, e)[Len(es) + 1] = e
           /\ ToSet(Append(es, e)) = ToSet(es) \cup {e}
<1>1. es \in Seq(EntryT) /\ \A k \in DOMAIN es : NonEmpty(es[k].mbr)
  BY DEF Shapely
<1>2. /\ Append(es, e) \in Seq(EntryT) /\ Len(Append(es, e)) = Len(es) + 1 /\ Len(es) \in Nat
      /\ DOMAIN Append(es, e) = 1 .. Len(es) + 1 /\ DOMAIN es = 1 .. Len(es)
      /\ \A k \in 1 .. Len(es) : Append(es, e)[k] = es[k]
      /\ Append(es, e)[Len(es) + 1] = e
  BY <1>1
<1>3. \A k \in DOMAIN Append(es, e) : NonEmpty(Append(es, e)[k].mbr)
  BY <1>1, <1>2
<1>4. ToSet(Append(es, e)) = ToSet(es) \cup {e}
  <2>1. \A x \in ToSet(Append(es, e)) : x \in ToSet(es) \cup {e}
    BY <1>2 DEF ToSet
  <2>2. \A x \in ToSet(es) : x \in ToSet(Append(es, e))
    BY <1>2 DEF ToSet
  <2>3. e \in ToSet(Append(es, e))
    BY <1>2 DEF ToSet
  <2> QED
    BY <2>1, <2>2, <2>3
<1> QED
  BY <1>2, <1>3, <1>4 DEF Shapely

\* Bounds that are kept by combining are those computed anew.
LEMMA AroundAppend ==
    ASSUME NEW es, Shapely(es), NEW e \in EntryT, NonEmpty(e.mbr)
    PROVE  Around(Append(es, e)) = getCombinedRegion(Around(es), e.mbr)
<1> DEFINE es2 == Append(es, e)
<1> DEFINE a == Around(es2)
<1> DEFINE b == getCombinedRegion(Around(es), e.mbr)
<1>1. es \in Seq(EntryT) /\ es2 \in Seq(EntryT) /\ es2 # <<>>
  BY AppendShapely DEF Shapely
<1>2. e.mbr \in AnyRegion /\ Around(es) \in AnyRegion
  BY AroundShapely DEF EntryT
<1>3. a \in AnyRegion /\ b \in AnyRegion
  BY <1>1, <1>2, AroundIs, CombinedIs
<1>4. ASSUME NEW i \in Dim PROVE a.low[i] = b.low[i] /\ a.high[i] = b.high[i]
  <2>1. b.low[i] = Lower(Around(es).low[i], e.mbr.low[i]) /\ b.high[i] = Upper(Around(es).high[i], e.mbr.high[i])
    BY DEF getCombinedRegion
  <2>2. /\ \E k \in DOMAIN es2 : a.low[i] = es2[k].mbr.low[i]
        /\ \E k \in DOMAIN es2 : a.high[i] = es2[k].mbr.high[i]
        /\ \A k \in DOMAIN es2 : a.low[i] <= es2[k].mbr.low[i] /\ es2[k].mbr.high[i] <= a.high[i]
    BY <1>1, AroundIs
  <2>3. /\ DOMAIN es2 = 1 .. Len(es) + 1 /\ Len(es) \in Nat /\ DOMAIN es = 1 .. Len(es)
        /\ \A k \in DOMAIN es : es2[k] = es[k]
        /\ es2[Len(es) + 1] = e
    BY <1>1, AppendShapely DEF Shapely
  <2>4. /\ Around(es).low[i] \in Int /\ Around(es).high[i] \in Int /\ e.mbr.low[i] \in Int /\ e.mbr.high[i] \in Int
        /\ a.low[i] \in Int /\ a.high[i] \in Int
    BY <1>2, <1>3 DEF AnyRegion
  <2> HIDE DEF es2, a, b
  <2>5. a.low[i] <= e.mbr.low[i] /\ e.mbr.high[i] <= a.high[i]
    <3>1. Len(es) + 1 \in DOMAIN es2
      BY <2>3
    <3> QED
      BY <2>2, <2>3, <3>1
  <2>6. CASE es = <<>>
    <3>1. Around(es).low[i] = Big /\ Around(es).high[i] = -Big
      BY <2>6, AroundEmpty, InfiniteIs
    <3>2. e.mbr.low[i] < Big /\ -Big < e.mbr.high[i]
      BY <2>4 DEF NonEmpty, Big
    <3>3. b.low[i] = e.mbr.low[i] /\ b.high[i] = e.mbr.high[i]
      BY <2>1, <2>4, <3>1, <3>2 DEF Lower, Upper
    <3>4. \A k \in DOMAIN es2 : es2[k] = e
      BY <2>3, <2>6
    <3> QED
      BY <2>2, <3>3, <3>4
  <2>7. CASE es # <<>>
    <3>1. /\ \E k \in DOMAIN es : Around(es).low[i] = es[k].mbr.low[i]
          /\ \E k \in DOMAIN es : Around(es).high[i] = es[k].mbr.high[i]
          /\ \A k \in DOMAIN es : /\ Around(es).low[i] <= es[k].mbr.low[i]
                                  /\ es[k].mbr.high[i] <= Around(es).high[i]
      BY <1>1, <2>7, AroundIs
    <3>2. \A k \in DOMAIN es2 : k \in DOMAIN es \/ es2[k] = e
      BY <2>3
    <3>3. a.low[i] <= Around(es).low[i] /\ Around(es).high[i] <= a.high[i]
      BY <2>2, <2>3, <3>1
    <3>4. a.low[i] >= Around(es).low[i] \/ a.low[i] = e.mbr.low[i]
      BY <2>2, <2>3, <3>1, <3>2
    <3>5. a.high[i] <= Around(es).high[i] \/ a.high[i] = e.mbr.high[i]
      BY <2>2, <2>3, <3>1, <3>2
    <3> QED
      BY <2>1, <2>4, <2>5, <3>3, <3>4, <3>5 DEF Lower, Upper
  <2> QED
    BY <2>6, <2>7
<1> HIDE DEF a, b
<1>5. a = b
  BY <1>3, <1>4, RegionsEqual
<1> QED
  BY <1>5 DEF a, b


\* No id twice, and none in both.
Distinct(es) == \A j, k \in DOMAIN es : es[j].id = es[k].id => j = k
Apart(a, b)  == \A x \in ToSet(a), y \in ToSet(b) : x.id # y.id

\* The entries es go to a and b.
SplitsTo(es, a, b) ==
    /\ Shapely(a) /\ Shapely(b)
    /\ Distinct(a) /\ Distinct(b) /\ Apart(a, b)
    /\ ToSet(a) \cup ToSet(b) = ToSet(es)
    /\ Len(a) + Len(b) = Len(es)

\* What Shapely says of a sequence of entries.
LEMMA ShapelyIs ==
    ASSUME NEW es, Shapely(es)
    PROVE  /\ es \in Seq(EntryT) /\ Len(es) \in Nat /\ DOMAIN es = 1 .. Len(es)
           /\ \A k \in DOMAIN es : /\ es[k] \in EntryT /\ NonEmpty(es[k].mbr)
                                   /\ es[k].mbr \in AnyRegion /\ es[k].id \in Int
           /\ \A e \in ToSet(es) : e \in EntryT /\ NonEmpty(e.mbr) /\ e.mbr \in AnyRegion /\ e.id \in Int
<1>1. es \in Seq(EntryT) /\ Len(es) \in Nat /\ DOMAIN es = 1 .. Len(es) /\ \A k \in DOMAIN es : NonEmpty(es[k].mbr)
  BY DEF Shapely
<1>2. \A k \in DOMAIN es : es[k] \in EntryT
  BY <1>1
<1>3. \A e \in EntryT : e.mbr \in AnyRegion /\ e.id \in Int
  BY DEF EntryT
<1> QED
  BY <1>1, <1>2, <1>3 DEF ToSet

\* A permutation keeps the entries and that they differ.
LEMMA ShuffledKeeps ==
    ASSUME NEW s, Shapely(s), Distinct(s), NEW r, Shuffled(s, r)
    PROVE  Shapely(r) /\ Distinct(r) /\ ToSet(r) = ToSet(s) /\ Len(r) = Len(s)
<1>1. PICK f \in Bijection(DOMAIN s, DOMAIN s) : r = [k \in DOMAIN s |-> s[f[k]]]
  BY DEF Shuffled
<1>2. /\ f \in [DOMAIN s -> DOMAIN s]
      /\ \A j, k \in DOMAIN s : f[j] = f[k] => j = k
      /\ \A k \in DOMAIN s : \E j \in DOMAIN s : f[j] = k
  BY DEF Bijection, Injection, IsInjective, Surjection
<1>3. DOMAIN s = 1 .. Len(s) /\ Len(s) \in Nat /\ \A k \in DOMAIN s : s[k] \in EntryT /\ NonEmpty(s[k].mbr)
  BY ShapelyIs
<1>4. DOMAIN r = DOMAIN s /\ \A k \in DOMAIN s : r[k] = s[f[k]] /\ f[k] \in DOMAIN s
  BY <1>1, <1>2
<1>5. r \in Seq(EntryT) /\ Len(r) = Len(s)
  BY <1>1, <1>3, <1>4
<1>6. Shapely(r)
  BY <1>3, <1>4, <1>5 DEF Shapely
<1>7. Distinct(r)
  BY <1>2, <1>4 DEF Distinct
<1>8. ToSet(r) = ToSet(s)
  <2>1. \A x \in ToSet(r) : x \in ToSet(s)
    BY <1>4 DEF ToSet
  <2>2. ASSUME NEW k \in DOMAIN s PROVE s[k] \in ToSet(r)
    <3>1. PICK j \in DOMAIN s : f[j] = k
      BY <1>2
    <3> QED
      BY <1>4, <3>1 DEF ToSet
  <2>3. \A x \in ToSet(s) : x \in ToSet(r)
    BY <2>2 DEF ToSet
  <2> QED
    BY <2>1, <2>3
<1> QED
  BY <1>5, <1>6, <1>7, <1>8

\* Sorting by numbers keeps the entries.
LEMMA SortedKeeps ==
    ASSUME NEW s, Shapely(s), Distinct(s), NEW keys \in [DOMAIN s -> Int]
    PROVE  LET r == Sorted(s, keys)
           IN  Shapely(r) /\ Distinct(r) /\ ToSet(r) = ToSet(s) /\ Len(r) = Len(s)
<1>1. DOMAIN s = 1 .. Len(s) /\ Len(s) \in Nat
  BY ShapelyIs
<1>2. Shuffled(s, Sorted(s, keys))
  BY <1>1, SortedShuffles
<1> QED
  BY <1>2, ShuffledKeeps

\* The first l entries, and the others.
LEMMA CutSplits ==
    ASSUME NEW s, Shapely(s), Distinct(s), NEW l \in 0 .. Len(s)
    PROVE  /\ SplitsTo(s, SubSeq(s, 1, l), SubSeq(s, l + 1, Len(s)))
           /\ Len(SubSeq(s, 1, l)) = l
           /\ Len(SubSeq(s, l + 1, Len(s))) = Len(s) - l
<1> DEFINE a == SubSeq(s, 1, l)
<1> DEFINE b == SubSeq(s, l + 1, Len(s))
<1>1. /\ s \in Seq(EntryT) /\ DOMAIN s = 1 .. Len(s) /\ Len(s) \in Nat
      /\ \A k \in DOMAIN s : s[k] \in EntryT /\ NonEmpty(s[k].mbr)
  BY ShapelyIs
<1>2. /\ a \in Seq(EntryT) /\ Len(a) = l /\ DOMAIN a = 1 .. l
      /\ \A i \in 1 .. l : a[i] = s[i]
  BY <1>1
<1>3. /\ b \in Seq(EntryT) /\ Len(b) = Len(s) - l /\ DOMAIN b = 1 .. Len(s) - l
      /\ \A i \in 1 .. Len(s) - l : b[i] = s[l + i]
  <2>1. \A i \in l + 1 .. Len(s) : s[i] \in EntryT
    BY <1>1
  <2>2. /\ b \in Seq(EntryT)
        /\ Len(b) = IF l + 1 <= Len(s) THEN Len(s) - (l + 1) + 1 ELSE 0
        /\ \A i \in 1 .. Len(s) - (l + 1) + 1 : b[i] = s[l + 1 + i - 1]
    BY <1>1, <2>1, SubSeqProperties
  <2> HIDE DEF b
  <2>3. Len(b) = Len(s) - l /\ DOMAIN b = 1 .. Len(b)
    <3>1. DOMAIN b = 1 .. Len(b)
      BY <2>2
    <3>2. CASE l = Len(s)
      BY <1>1, <2>2, <3>1, <3>2
    <3>3. CASE l < Len(s)
      <4>1. l + 1 <= Len(s)
        BY <1>1, <3>3
      <4> QED
        BY <1>1, <2>2, <3>1, <4>1
    <3>4. l = Len(s) \/ l < Len(s)
      <4>1. Len(s) \in Nat
        BY <1>1
      <4> HIDE <1>1
      <4> QED
        BY <4>1
    <3> QED
      BY <3>1, <3>2, <3>3, <3>4
  <2>4. Len(s) - (l + 1) + 1 = Len(s) - l /\ \A i \in Int : l + 1 + i - 1 = l + i
    BY <1>1
  <2> QED
    BY <2>2, <2>3, <2>4
<1> HIDE DEF a, b
<1>4. Shapely(a) /\ Shapely(b)
  <2>1. \A i \in DOMAIN b : b[i] = s[l + i] /\ l + i \in DOMAIN s
    BY <1>1, <1>3
  <2>2. \A i \in DOMAIN a : a[i] = s[i] /\ i \in DOMAIN s
    BY <1>1, <1>2
  <2> QED
    BY <1>1, <1>2, <1>3, <2>1, <2>2 DEF Shapely
<1>5. Distinct(a)
  BY <1>1, <1>2 DEF Distinct
<1>6. Distinct(b)
  <2> SUFFICES ASSUME NEW j \in DOMAIN b, NEW k \in DOMAIN b, b[j].id = b[k].id PROVE j = k
    BY DEF Distinct
  <2>1. l + j \in DOMAIN s /\ l + k \in DOMAIN s /\ s[l + j].id = s[l + k].id
    BY <1>1, <1>3
  <2>2. l + j = l + k
    BY <2>1 DEF Distinct
  <2> QED
    BY <1>3, <2>2
<1>7. Apart(a, b)
  <2> SUFFICES ASSUME NEW i \in 1 .. l, NEW j \in 1 .. Len(s) - l, a[i].id = b[j].id PROVE FALSE
    BY <1>2, <1>3 DEF Apart, ToSet
  <2>1. i \in DOMAIN s /\ l + j \in DOMAIN s /\ s[i].id = s[l + j].id
    BY <1>1, <1>2, <1>3
  <2>2. i = l + j
    BY <2>1 DEF Distinct
  <2> QED
    BY <2>2
<1>8. ToSet(a) \cup ToSet(b) = ToSet(s)
  <2>1. \A x \in ToSet(a) \cup ToSet(b) : x \in ToSet(s)
    <3>1. \A i \in 1 .. l : a[i] = s[i] /\ i \in DOMAIN s
      BY <1>1, <1>2
    <3>2. \A i \in 1 .. Len(s) - l : b[i] = s[l + i] /\ l + i \in DOMAIN s
      BY <1>1, <1>3
    <3>3. \A x \in ToSet(a) : x \in ToSet(s)
      BY <1>2, <3>1 DEF ToSet
    <3>4. \A x \in ToSet(b) : x \in ToSet(s)
      BY <1>3, <3>2 DEF ToSet
    <3> QED
      BY <3>3, <3>4
  <2>2. ASSUME NEW k \in DOMAIN s PROVE s[k] \in ToSet(a) \cup ToSet(b)
    <3>1. CASE k <= l
      <4>1. k \in DOMAIN a /\ a[k] = s[k]
        BY <1>1, <1>2, <3>1
      <4> QED
        BY <4>1 DEF ToSet
    <3>2. CASE k > l
      <4>1. k - l \in DOMAIN b /\ b[k - l] = s[k]
        BY <1>1, <1>3, <3>2
      <4> QED
        BY <4>1 DEF ToSet
    <3> QED
      BY <1>1, <3>1, <3>2
  <2>3. \A x \in ToSet(s) : x \in ToSet(a) \cup ToSet(b)
    BY <2>2 DEF ToSet
  <2> QED
    BY <2>1, <2>3
<1>9. Len(a) + Len(b) = Len(s)
  BY <1>1, <1>2, <1>3
<1>10. SplitsTo(s, a, b) /\ Len(a) = l /\ Len(b) = Len(s) - l
  BY <1>2, <1>3, <1>4, <1>5, <1>6, <1>7, <1>8, <1>9 DEF SplitsTo
<1> QED
  BY <1>10 DEF a, b

\* Areas, enlargements and margins are integers.
LEMMA AreasAre ==
    ASSUME NEW a \in AnyRegion, NEW b \in AnyRegion
    PROVE  /\ getArea(a) \in Int
           /\ Enlargement(a, b) \in Int
           /\ getIntersectingArea(a, b) \in Int
           /\ getMargin(a) \in Int
<1>1. \A r \in AnyRegion : Width(r, 1) \in Int /\ Width(r, 2) \in Int
  BY DimIs DEF Width, AnyRegion
<1>2. \A r \in AnyRegion : getArea(r) \in Int /\ getMargin(r) \in Int
  BY <1>1 DEF getArea, getMargin
<1>3. getCombinedRegion(a, b) \in AnyRegion /\ getIntersectingRegion(a, b) \in AnyRegion
  BY CombinedIs, IntersectionIs
<1> QED
  BY <1>2, <1>3 DEF Enlargement, getIntersectingArea

\* The last component of the first tuple is one of the numbers it was made for.
LEMMA FirstOfPairs ==
    ASSUME NEW S, IsFiniteSet(S), S # {}, NEW f \in [S -> Int], S \in SUBSET Int
    PROVE  First({<<f[k], k>> : k \in S})[2] \in S
<1> DEFINE T == {<<f[k], k>> : k \in S}
<1> DEFINE g == [k \in S |-> <<f[k], k>>]
<1>1. T = {g[k] : k \in S} /\ T # {} /\ T \in SUBSET [1 .. 2 -> Int]
  <2>1. \A k \in S : <<f[k], k>> \in [1 .. 2 -> Int] /\ g[k] = <<f[k], k>>
    OBVIOUS
  <2>2. T = {g[k] : k \in S}
    OBVIOUS
  <2> HIDE DEF g
  <2>3. T # {}
    OBVIOUS
  <2>4. T \in SUBSET [1 .. 2 -> Int]
    BY <2>1
  <2> QED
    BY <2>2, <2>3, <2>4
<1>2. \A x \in T : x[2] \in S
  OBVIOUS
<1> HIDE DEF T, g
<1>3. IsFiniteSet(T)
  BY <1>1, FiniteImage
<1>4. First(T) \in T
  <2>1. 2 \in Nat
    OBVIOUS
  <2> QED
    BY <1>1, <1>3, <2>1, FirstIn
<1>5. First(T)[2] \in S
  BY <1>2, <1>4
<1> QED
  BY <1>5 DEF T

\* The best by two keys is one of the candidates,
LEMMA FirstOfTriples ==
    ASSUME NEW S, IsFiniteSet(S), S # {}, NEW f \in [S -> Int], NEW h \in [S -> Int], S \in SUBSET Int
    PROVE  First({<<f[k], h[k], k>> : k \in S})[3] \in S
<1> DEFINE T == {<<f[k], h[k], k>> : k \in S}
<1> DEFINE g == [k \in S |-> <<f[k], h[k], k>>]
<1>1. T = {g[k] : k \in S} /\ T # {} /\ T \in SUBSET [1 .. 3 -> Int]
  <2>1. \A k \in S : <<f[k], h[k], k>> \in [1 .. 3 -> Int] /\ g[k] = <<f[k], h[k], k>>
    OBVIOUS
  <2>2. T = {g[k] : k \in S}
    OBVIOUS
  <2> HIDE DEF g
  <2>3. T # {}
    OBVIOUS
  <2>4. T \in SUBSET [1 .. 3 -> Int]
    BY <2>1
  <2> QED
    BY <2>2, <2>3, <2>4
<1>2. \A x \in T : x[3] \in S
  OBVIOUS
<1> HIDE DEF T, g
<1>3. IsFiniteSet(T)
  BY <1>1, FiniteImage
<1>4. First(T) \in T
  <2>1. 3 \in Nat
    OBVIOUS
  <2> QED
    BY <1>1, <1>3, <2>1, FirstIn
<1>5. First(T)[3] \in S
  BY <1>2, <1>4
<1> QED
  BY <1>5 DEF T

FourKeys(S, f, h, i) == {<<f[k], h[k], i[k], k>> : k \in S}

\* and so is the best by three.
LEMMA FirstOfFour ==
    ASSUME NEW S, IsFiniteSet(S), S # {}, NEW f \in [S -> Int], NEW h \in [S -> Int], NEW i \in [S -> Int],
           S \in SUBSET Int
    PROVE  First(FourKeys(S, f, h, i))[4] \in S
<1> DEFINE T == {<<f[k], h[k], i[k], k>> : k \in S}
<1> DEFINE g == [k \in S |-> <<f[k], h[k], i[k], k>>]
<1>1. T = {g[k] : k \in S} /\ T # {} /\ T \in SUBSET [1 .. 4 -> Int]
  <2>1. \A k \in S : <<f[k], h[k], i[k], k>> \in [1 .. 4 -> Int] /\ g[k] = <<f[k], h[k], i[k], k>>
    OBVIOUS
  <2>2. T = {g[k] : k \in S}
    OBVIOUS
  <2> HIDE DEF g
  <2>3. T # {}
    OBVIOUS
  <2>4. T \in SUBSET [1 .. 4 -> Int]
    BY <2>1
  <2> QED
    BY <2>2, <2>3, <2>4
<1>2. \A x \in T : x[4] \in S
  OBVIOUS
<1> HIDE DEF T, g
<1>3. IsFiniteSet(T)
  BY <1>1, FiniteImage
<1>4. First(T) \in T
  <2>1. 4 \in Nat
    OBVIOUS
  <2> QED
    BY <1>1, <1>3, <2>1, FirstIn
<1>5. First(T)[4] \in S
  BY <1>2, <1>4
<1> QED
  BY <1>5 DEF T, FourKeys


-----------------------------------------------------------------------------
(* The split of an R*-tree                                                 *)

\* The two orders the R* split sorts by keep the entries.
LEMMA ByKeeps ==
    ASSUME NEW s, Shapely(s), Distinct(s), NEW i \in Dim
    PROVE  /\ Shapely(ByLow(s, i)) /\ Distinct(ByLow(s, i))
           /\ ToSet(ByLow(s, i)) = ToSet(s) /\ Len(ByLow(s, i)) = Len(s)
           /\ Shapely(ByHigh(s, i)) /\ Distinct(ByHigh(s, i))
           /\ ToSet(ByHigh(s, i)) = ToSet(s) /\ Len(ByHigh(s, i)) = Len(s)
<1>1. \A k \in DOMAIN s : s[k].mbr.low[i] \in Int /\ s[k].mbr.high[i] \in Int
  BY ShapelyIs DEF AnyRegion
<1> DEFINE lows == [k \in DOMAIN s |-> s[k].mbr.low[i]]
<1> DEFINE highs == [k \in DOMAIN s |-> s[k].mbr.high[i]]
<1>2. lows \in [DOMAIN s -> Int] /\ highs \in [DOMAIN s -> Int]
  BY <1>1
<1>3. ByLow(s, i) = Sorted(s, lows) /\ ByHigh(s, i) = Sorted(s, highs)
  BY DEF ByLow, ByHigh
<1> HIDE DEF lows, highs
<1>4. /\ Shapely(Sorted(s, lows)) /\ Distinct(Sorted(s, lows))
      /\ ToSet(Sorted(s, lows)) = ToSet(s) /\ Len(Sorted(s, lows)) = Len(s)
  BY <1>2, SortedKeeps
<1>5. /\ Shapely(Sorted(s, highs)) /\ Distinct(Sorted(s, highs))
      /\ ToSet(Sorted(s, highs)) = ToSet(s) /\ Len(Sorted(s, highs)) = Len(s)
  BY <1>2, SortedKeeps
<1> QED
  BY <1>3, <1>4, <1>5

\* A split at l of the same entries in another order is a split of them.
LEMMA SplitsOther ==
    ASSUME NEW es, NEW s, ToSet(s) = ToSet(es), Len(s) = Len(es), NEW a, NEW b, SplitsTo(s, a, b)
    PROVE  SplitsTo(es, a, b)
  BY DEF SplitsTo

\* The distribution with the least overlap is one of the distributions.
LEMMA LeastOverlapIn ==
    ASSUME NEW s, Shapely(s), NEW ls \in SUBSET (0 .. Len(s)), ls # {}
    PROVE  LeastOverlap(s, ls) \in ls
<1> DEFINE f == [l \in ls |-> getIntersectingArea(Part1(s, l), Part2(s, l))]
<1> DEFINE h == [l \in ls |-> getArea(Part1(s, l)) + getArea(Part2(s, l))]
<1>1. ASSUME NEW l \in ls PROVE Part1(s, l) \in AnyRegion /\ Part2(s, l) \in AnyRegion
  <2>1. /\ s \in Seq(EntryT) /\ DOMAIN s = 1 .. Len(s) /\ Len(s) \in Nat
        /\ \A k \in DOMAIN s : s[k] \in EntryT /\ NonEmpty(s[k].mbr)
    BY ShapelyIs
  <2>2. l \in 0 .. Len(s) /\ l \in Nat
    OBVIOUS
  <2> DEFINE a == SubSeq(s, 1, l)
  <2> DEFINE b == SubSeq(s, l + 1, Len(s))
  <2>3. Shapely(a)
    <3>1. a \in Seq(EntryT) /\ DOMAIN a = 1 .. l /\ \A i \in 1 .. l : a[i] = s[i]
      BY <2>1, <2>2
    <3> HIDE DEF a
    <3>2. \A i \in DOMAIN a : i \in DOMAIN s
      BY <2>1, <2>2, <3>1
    <3> QED
      BY <2>1, <3>1, <3>2 DEF Shapely
  <2>4. Shapely(b)
    <3>1. \A i \in l + 1 .. Len(s) : s[i] \in EntryT
      BY <2>1, <2>2
    <3>2. /\ b \in Seq(EntryT)
          /\ Len(b) = IF l + 1 <= Len(s) THEN Len(s) - (l + 1) + 1 ELSE 0
          /\ \A i \in 1 .. Len(s) - (l + 1) + 1 : b[i] = s[l + 1 + i - 1]
      BY <2>1, <2>2, <3>1, SubSeqProperties
    <3> HIDE DEF b
    <3>3. DOMAIN b = 1 .. Len(b)
      BY <3>2
    <3>4. Len(s) \in Nat
      BY <2>1
    <3>5. \A i \in DOMAIN b : i \in 1 .. Len(s) - (l + 1) + 1 /\ l + 1 + i - 1 \in 1 .. Len(s)
      BY <2>2, <3>2, <3>3, <3>4
    <3>6. \A i \in DOMAIN b : NonEmpty(b[i].mbr)
      BY <2>1, <3>2, <3>5
    <3> QED
      BY <3>2, <3>6 DEF Shapely
  <2> QED
    BY <2>3, <2>4, AroundShapely DEF Part1, Part2
<1>2. f \in [ls -> Int] /\ h \in [ls -> Int]
  BY <1>1, AreasAre
<1>3. ls \in SUBSET Int /\ IsFiniteSet(ls)
  <2>1. Len(s) \in Nat
    BY ShapelyIs
  <2>2. IsFiniteSet(0 .. Len(s))
    BY <2>1, FS_Interval
  <2>3. IsFiniteSet(ls)
    BY <2>2, FS_Subset
  <2> QED
    BY <2>1, <2>3
<1>4. LeastOverlap(s, ls) = First({<<f[l], h[l], l>> : l \in ls})[3]
  BY DEF LeastOverlap
<1> HIDE DEF f, h
<1> QED
  BY <1>2, <1>3, <1>4, FirstOfTriples

\* rstarSplit divides the entries; each part has at least its share.
LEMMA RStarSplits ==
    ASSUME NEW t, NEW level, NEW es, Shapely(es), Distinct(es),
           NEW spf \in Nat, Of(t.nodeSPF, level) = spf, 1 <= spf, 2 * spf <= Len(es) + 1
    PROVE  LET h == rstarSplit(t, level, es)
           IN  /\ SplitsTo(es, h[1], h[2])
               /\ spf <= Len(h[1]) /\ spf - 1 <= Len(h[2])
<1> DEFINE ls == Distributions(t, level, es)
<1> DEFINE low == <<ByLow(es, 1), ByLow(ByLow(es, 1), 2)>>
<1> DEFINE high == <<ByHigh(es, 1), ByHigh(ByHigh(es, 1), 2)>>
<1>1. Len(es) \in Nat
  BY ShapelyIs
<1>2. ls = spf .. Len(es) - spf + 1
  BY DEF Distributions
<1>3. spf \in ls /\ ls \in SUBSET (0 .. Len(es)) /\ ls # {}
  <2> HIDE DEF ls
  <2>1. spf \in ls
    BY <1>1, <1>2
  <2>2. ls \in SUBSET (0 .. Len(es))
    BY <1>1, <1>2
  <2> QED
    BY <2>1, <2>2
<1>4. 1 \in Dim /\ 2 \in Dim /\ Dim = {1, 2}
  BY DimIs
<1> DEFINE Same(s) == Shapely(s) /\ Distinct(s) /\ ToSet(s) = ToSet(es) /\ Len(s) = Len(es)
<1>5. Same(ByLow(es, 1)) /\ Same(ByHigh(es, 1))
  BY <1>4, ByKeeps
<1>6. \A s : Same(s) => \A i \in Dim : Same(ByLow(s, i)) /\ Same(ByHigh(s, i))
  BY ByKeeps
<1> DEFINE lm == [i \in Dim |-> Margins(low[i], ls)]
<1> DEFINE hm == [i \in Dim |-> Margins(high[i], ls)]
<1> DEFINE s == Ordered(low[2], lm, hm)
<1>7. Same(s)
  <2>1. Same(low[2])
    BY <1>4, <1>5, <1>6
  <2> DEFINE axis == IF Lower(lm[2], hm[2]) < Lower(lm[1], hm[1]) THEN 2 ELSE 1
  <2>2. axis \in Dim
    BY <1>4
  <2>3. s = IF lm[axis] < hm[axis] THEN ByLow(low[2], axis) ELSE ByHigh(low[2], axis)
    BY DEF Ordered
  <2> HIDE DEF Same, axis, lm, hm, s, low
  <2>4. s = ByLow(low[2], axis) \/ s = ByHigh(low[2], axis)
    BY <2>3
  <2> QED
    BY <1>6, <2>1, <2>2, <2>4
<1> DEFINE l == LeastOverlap(s, ls)
<1>8. rstarSplit(t, level, es) = <<SubSeq(s, 1, l), SubSeq(s, l + 1, Len(s))>>
  BY DEF rstarSplit, SortedSplit, HalvesOf, Halves
<1> HIDE DEF s, ls
<1>9. l \in ls
  BY <1>3, <1>7, LeastOverlapIn
<1> HIDE DEF l
<1>10. l \in 0 .. Len(s) /\ Len(s) = Len(es) /\ spf <= l /\ l <= Len(es) - spf + 1
  BY <1>1, <1>2, <1>3, <1>7, <1>9
<1>11. /\ SplitsTo(s, SubSeq(s, 1, l), SubSeq(s, l + 1, Len(s)))
       /\ Len(SubSeq(s, 1, l)) = l
       /\ Len(SubSeq(s, l + 1, Len(s))) = Len(s) - l
  BY <1>7, <1>10, CutSplits
<1>12. SplitsTo(es, SubSeq(s, 1, l), SubSeq(s, l + 1, Len(s)))
  BY <1>7, <1>11, SplitsOther
<1>13. spf <= Len(SubSeq(s, 1, l)) /\ spf - 1 <= Len(SubSeq(s, l + 1, Len(s)))
  BY <1>1, <1>10, <1>11
<1> DEFINE h == rstarSplit(t, level, es)
<1>14. h[1] = SubSeq(s, 1, l) /\ h[2] = SubSeq(s, l + 1, Len(s))
  <2>1. \A x, y : <<x, y>>[1] = x /\ <<x, y>>[2] = y
    OBVIOUS
  <2>2. h = <<SubSeq(s, 1, l), SubSeq(s, l + 1, Len(s))>>
    BY <1>8
  <2> HIDE DEF h
  <2> QED
    BY <2>1, <2>2, Zenon
<1> HIDE DEF h
<1>15. SplitsTo(es, h[1], h[2]) /\ spf <= Len(h[1]) /\ spf - 1 <= Len(h[2])
  BY <1>12, <1>13, <1>14
<1> QED
  BY <1>15 DEF h

-----------------------------------------------------------------------------
(* The splits of the other variants                                        *)

\* pickSeeds picks two different entries.
LEMMA SeedsAre ==
    ASSUME NEW t, NEW es, Shapely(es), 2 <= Len(es)
    PROVE  /\ pickSeeds(t, es)[1] \in DOMAIN es /\ pickSeeds(t, es)[2] \in DOMAIN es
           /\ pickSeeds(t, es)[1] # pickSeeds(t, es)[2]
<1>1. /\ Len(es) \in Nat /\ DOMAIN es = 1 .. Len(es) /\ 1 \in DOMAIN es /\ 2 \in DOMAIN es
      /\ \A k \in DOMAIN es : es[k].mbr \in AnyRegion
  BY ShapelyIs
<1>2. IsFiniteSet(DOMAIN es) /\ DOMAIN es \in SUBSET Int /\ DOMAIN es # {}
  <2>1. IsFiniteSet(1 .. Len(es))
    BY <1>1, FS_Interval
  <2> QED
    BY <1>1, <2>1
<1>3. ASSUME NEW r, r = SeedsLinear(es)
      PROVE  r[1] \in DOMAIN es /\ r[2] \in DOMAIN es /\ r[1] # r[2]
  <2> DEFINE lowest(i)  == First({<<es[k].mbr.high[i], k>> : k \in DOMAIN es})[2]
  <2> DEFINE highest(i) == First({<<-es[k].mbr.low[i], k>> : k \in DOMAIN es})[2]
  <2> DEFINE width(i)   == Upper(1, Width(Around(es), i))
  <2> DEFINE gap(i)     == es[highest(i)].mbr.low[i] - es[lowest(i)].mbr.high[i]
  <2> DEFINE dim == IF gap(2) * width(1) > gap(1) * width(2) THEN 2 ELSE 1
  <2>1. ASSUME NEW i \in Dim PROVE lowest(i) \in DOMAIN es /\ highest(i) \in DOMAIN es
    <3>1. \A k \in DOMAIN es : es[k].mbr.high[i] \in Int /\ -es[k].mbr.low[i] \in Int
      BY <1>1 DEF AnyRegion
    <3> DEFINE f == [k \in DOMAIN es |-> es[k].mbr.high[i]]
    <3> DEFINE g == [k \in DOMAIN es |-> -es[k].mbr.low[i]]
    <3>2. f \in [DOMAIN es -> Int] /\ g \in [DOMAIN es -> Int]
      BY <3>1
    <3>3. lowest(i) = First({<<f[k], k>> : k \in DOMAIN es})[2] /\ highest(i) = First({<<g[k], k>> : k \in DOMAIN es})[2]
      OBVIOUS
    <3> HIDE DEF f, g, lowest, highest
    <3> QED
      BY <1>2, <3>2, <3>3, FirstOfPairs
  <2>2. dim \in Dim
    BY DimIs
  <2>3. r = IF lowest(dim) # highest(dim) THEN <<lowest(dim), highest(dim)>>
            ELSE IF highest(dim) = 1 THEN <<1, 2>> ELSE <<lowest(dim), highest(dim) - 1>>
    BY <1>3 DEF SeedsLinear
  <2> HIDE DEF lowest, highest, dim
  <2>4. lowest(dim) \in 1 .. Len(es) /\ highest(dim) \in 1 .. Len(es)
    BY <1>1, <2>1, <2>2
  <2>5. CASE lowest(dim) # highest(dim)
    BY <1>1, <2>3, <2>4, <2>5
  <2>6. CASE lowest(dim) = highest(dim) /\ highest(dim) = 1
    BY <1>1, <2>3, <2>6
  <2>7. CASE lowest(dim) = highest(dim) /\ highest(dim) # 1
    <3>1. r = <<highest(dim), highest(dim) - 1>>
      BY <2>3, <2>7
    <3>2. highest(dim) - 1 \in 1 .. Len(es) /\ highest(dim) # highest(dim) - 1
      BY <1>1, <2>4, <2>7
    <3> QED
      BY <1>1, <2>4, <3>1, <3>2
  <2> QED
    BY <2>5, <2>6, <2>7
<1>4. ASSUME NEW r, r = SeedsQuadratic(es)
      PROVE  r[1] \in DOMAIN es /\ r[2] \in DOMAIN es /\ r[1] # r[2]
  <2> DEFINE waste(j, k) == getArea(getCombinedRegion(es[j].mbr, es[k].mbr))
                               - getArea(es[j].mbr) - getArea(es[k].mbr)
  <2> DEFINE pairs == {p \in (DOMAIN es) \X (DOMAIN es) : p[1] < p[2]}
  <2> DEFINE T == {<<-waste(p[1], p[2]), p[1], p[2]>> : p \in pairs}
  <2> DEFINE g == [p \in pairs |-> <<-waste(p[1], p[2]), p[1], p[2]>>]
  <2>1. IsFiniteSet(pairs)
    <3>1. IsFiniteSet((DOMAIN es) \X (DOMAIN es))
      BY <1>2, FS_Product
    <3>2. pairs \in SUBSET ((DOMAIN es) \X (DOMAIN es))
      OBVIOUS
    <3> HIDE DEF pairs
    <3> QED
      BY <3>1, <3>2, FS_Subset
  <2>2. \A j, k \in DOMAIN es : -waste(j, k) \in Int
    <3> SUFFICES ASSUME NEW j \in DOMAIN es, NEW k \in DOMAIN es PROVE -waste(j, k) \in Int
      OBVIOUS
    <3>1. /\ getArea(getCombinedRegion(es[j].mbr, es[k].mbr)) \in Int
          /\ getArea(es[j].mbr) \in Int /\ getArea(es[k].mbr) \in Int
      BY <1>1, CombinedIs, AreasAre
    <3> QED
      BY <3>1
  <2>3. \A p \in pairs : p[1] \in DOMAIN es /\ p[2] \in DOMAIN es /\ p[1] < p[2] /\ p[1] \in Int /\ p[2] \in Int
    BY <1>2
  <2>4. <<1, 2>> \in pairs
    BY <1>1
  <2> HIDE DEF waste, pairs
  <2>5. T = {g[p] : p \in pairs}
    OBVIOUS
  <2>6. T # {}
    BY <2>4
  <2>7. \A p \in pairs : <<-waste(p[1], p[2]), p[1], p[2]>> \in [1 .. 3 -> Int]
    BY <2>2, <2>3
  <2>8. T \in SUBSET [1 .. 3 -> Int]
    BY <2>7
  <2>9. \A x \in T : x[2] \in DOMAIN es /\ x[3] \in DOMAIN es /\ x[2] # x[3]
    BY <1>2, <2>3
  <2>10. SeedsQuadratic(es) = <<First(T)[2], First(T)[3]>>
    BY DEF SeedsQuadratic, waste, pairs
  <2> HIDE DEF T, g
  <2>11. IsFiniteSet(T)
    BY <2>1, <2>5, FiniteImage
  <2>12. First(T) \in T
    <3>1. 3 \in Nat
      OBVIOUS
    <3> QED
      BY <2>6, <2>8, <2>11, <3>1, FirstIn
  <2> QED
    BY <1>4, <2>9, <2>10, <2>12
<1>5. pickSeeds(t, es) = SeedsLinear(es) \/ pickSeeds(t, es) = SeedsQuadratic(es)
  BY DEF pickSeeds
<1> QED
  BY <1>3, <1>4, <1>5


\* The groups are taken step by step.
GroupsAreFun(t, es, minimumLoad, b, n) == CHOOSE g : g = [k \in 0 .. n |-> IF k = 0 THEN b ELSE Grouped(t, es, minimumLoad, g[k - 1])]

\* Groups, as the recursion the induction below needs.
LEMMA GroupsAre ==
    ASSUME NEW t, NEW es, NEW minimumLoad, NEW b, NEW n \in Nat, NEW f, f = GroupsAreFun(t, es, minimumLoad, b, n)
    PROVE  /\ f[0] = b
           /\ \A k \in 1 .. n : f[k] = Grouped(t, es, minimumLoad, f[k - 1])
<1> DEFINE S(k, x) == Grouped(t, es, minimumLoad, x)
<1> DEFINE B == b
<1> DEFINE Solves(m, g) == g = [k \in 0 .. m |-> IF k = 0 THEN B ELSE S(k, g[k - 1])]
<1> DEFINE Wrong == {m \in Nat : ~ \E g : Solves(m, g)}
<1> HIDE DEF S, B
<1>1. ASSUME Wrong # {} PROVE FALSE
  <2>1. PICK m \in Wrong : \A j \in Wrong : m <= j
    BY <1>1, LeastExists
  <2>2. CASE m = 0
    <3> DEFINE g == [k \in 0 .. 0 |-> B]
    <3>1. Solves(0, g)
      OBVIOUS
    <3> QED
      BY <2>1, <2>2, <3>1
  <2>3. CASE m # 0
    <3>1. m - 1 \in Nat /\ m - 1 \notin Wrong
      <4>1. m \in Nat /\ m - 1 \in Nat
        BY <2>1, <2>3
      <4> HIDE DEF Wrong
      <4> QED
        BY <2>1, <4>1
    <3>2. PICK g : Solves(m - 1, g)
      BY <3>1
    <3> DEFINE h == [k \in 0 .. m |-> IF k < m THEN g[k] ELSE S(m, g[m - 1])]
    <3>3. ASSUME NEW k \in 0 .. m PROVE h[k] = IF k = 0 THEN B ELSE S(k, h[k - 1])
      <4>1. CASE k = 0
        <5>1. g[0] = B
          BY <3>1, <3>2
        <5> QED
          BY <2>3, <4>1, <5>1
      <4>2. CASE k # 0 /\ k < m
        <5>1. k \in 0 .. m - 1 /\ k - 1 \in 0 .. m
          BY <4>2
        <5>2. g[k] = S(k, g[k - 1])
          BY <3>2, <4>2, <5>1
        <5>3. h[k] = g[k] /\ h[k - 1] = g[k - 1]
          BY <4>2, <5>1
        <5> HIDE DEF h
        <5> QED
          BY <4>2, <5>2, <5>3
      <4>3. CASE k = m
        <5>1. m - 1 \in 0 .. m /\ m - 1 < m
          BY <3>1
        <5>2. h[m] = S(m, g[m - 1]) /\ h[m - 1] = g[m - 1]
          BY <2>3, <5>1
        <5> HIDE DEF h
        <5> QED
          BY <2>3, <4>3, <5>2
      <4> QED
        BY <4>1, <4>2, <4>3
    <3>4. h = [k \in 0 .. m |-> h[k]]
      OBVIOUS
    <3> HIDE DEF h
    <3>5. Solves(m, h)
      BY <3>3, <3>4
    <3> QED
      BY <2>1, <3>5
  <2> QED
    BY <2>2, <2>3
<1>2. \E g : Solves(n, g)
  BY <1>1
<1>3. \E g : g = [k \in 0 .. n |-> IF k = 0 THEN B ELSE S(k, g[k - 1])]
  BY <1>2
<1>4. f = CHOOSE g : g = [k \in 0 .. n |-> IF k = 0 THEN B ELSE S(k, g[k - 1])]
  BY DEF S, B, GroupsAreFun
<1>5. f = [k \in 0 .. n |-> IF k = 0 THEN B ELSE S(k, f[k - 1])]
  BY <1>3, <1>4
<1>6. \A k \in 0 .. n : f[k] = IF k = 0 THEN B ELSE S(k, f[k - 1])
  BY <1>5, Zenon
<1>7. f[0] = B
  BY <1>6
<1>8. ASSUME NEW k \in 1 .. n PROVE f[k] = S(k, f[k - 1])
  <2>1. k \in 0 .. n /\ k # 0
    OBVIOUS
  <2> QED
    BY <1>6, <2>1
<1> QED
  BY <1>7, <1>8 DEF S, B


Injects(s) == \A i, j \in DOMAIN s : s[i] = s[j] => i = j

\* The numbers of a set in their order are all of them.
LEMMA AscendingIs ==
    ASSUME NEW n \in Nat, NEW S \in SUBSET (1 .. n)
    PROVE  /\ Ascending(S) \in Seq(1 .. n) /\ Injects(Ascending(S)) /\ ToSet(Ascending(S)) = S
           /\ Len(Ascending(S)) = Cardinality(S)
<1>1. IsFiniteSet(S) /\ Cardinality(S) \in Nat
  <2>1. IsFiniteSet(1 .. n)
    BY FS_Interval
  <2>2. IsFiniteSet(S)
    BY <2>1, FS_Subset
  <2> QED
    BY <2>2, FS_CardinalityType
<1> DEFINE R == {x \in S \X S : x[1] <= x[2]}
<1> DEFINE rank == [a \in S |-> Cardinality({b \in S : b # a /\ <<b, a>> \in R}) + 1]
<1>2. \A a, b \in S : <<a, b>> \in R <=> a <= b
  OBVIOUS
<1>3. \A a, b, c \in S : /\ a <= b \/ b <= a
                         /\ a <= b /\ b <= a => a = b
                         /\ a <= b /\ b <= c => a <= c
  OBVIOUS
<1>4. rank \in Bijection(S, 1 .. Cardinality(S))
  <2> HIDE DEF R
  <2>1. Totally(R, S)
    BY <1>2, <1>3 DEF Totally
  <2>2. rank = Ranks(R, S)
    BY DEF Ranks
  <2> HIDE DEF rank
  <2> QED
    <3>1. IsFiniteSet(S)
      BY <1>1
    <3>2. rank \in Bijection(S, 1 .. Cardinality(S))
      <4> DEFINE T == S
      <4>1. IsFiniteSet(T) /\ Totally(R, T)
        BY <2>1, <3>1
      <4> HIDE DEF T, R
      <4>2. Ranks(R, T) \in Bijection(T, 1 .. Cardinality(T))
        BY <4>1, RankIs
      <4> QED
        BY <2>2, <4>2 DEF T
    <3> QED
      BY <3>2
<1>5. \A k \in S : rank[k] = Cardinality({j \in S : j < k}) + 1
  <2> SUFFICES ASSUME NEW k \in S PROVE rank[k] = Cardinality({j \in S : j < k}) + 1
    OBVIOUS
  <2> HIDE DEF R
  <2>1. \A j \in S : (j # k /\ <<j, k>> \in R) <=> j < k
    <3>1. \A j \in S : <<j, k>> \in R <=> j <= k
      BY <1>2
    <3>2. k \in Int /\ \A j \in S : j \in Int
      OBVIOUS
    <3> QED
      BY <3>1, <3>2
  <2>2. {b \in S : b # k /\ <<b, k>> \in R} = {j \in S : j < k}
    BY <2>1
  <2> QED
    BY <2>2
<1> HIDE DEF rank
<1> DEFINE s == Ascending(S)
<1>6. s = [r \in 1 .. Cardinality(S) |-> CHOOSE k \in S : Cardinality({j \in S : j < k}) + 1 = r]
  BY DEF Ascending
<1>7. \A r \in 1 .. Cardinality(S) : s[r] \in S /\ rank[s[r]] = r
  <2> SUFFICES ASSUME NEW r \in 1 .. Cardinality(S) PROVE s[r] \in S /\ rank[s[r]] = r
    OBVIOUS
  <2>1. \E k \in S : rank[k] = r
    BY <1>4 DEF Bijection, Surjection
  <2>2. \E k \in S : Cardinality({j \in S : j < k}) + 1 = r
    BY <1>5, <2>1
  <2>3. s[r] = CHOOSE k \in S : Cardinality({j \in S : j < k}) + 1 = r
    BY <1>6
  <2>4. s[r] \in S /\ Cardinality({j \in S : j < s[r]}) + 1 = r
    BY <2>2, <2>3
  <2> QED
    BY <1>5, <2>4
<1>8. DOMAIN s = 1 .. Cardinality(S)
  BY <1>6
<1>9. s = [r \in 1 .. Cardinality(S) |-> s[r]]
  BY <1>6
<1> HIDE DEF s
<1>10. s \in Seq(1 .. n) /\ Len(s) = Cardinality(S)
  <2>1. s \in [1 .. Cardinality(S) -> 1 .. n]
    BY <1>7, <1>9
  <2> QED
    BY <1>1, <1>8, <2>1
<1>11. Injects(s)
  <2> SUFFICES ASSUME NEW i \in 1 .. Cardinality(S), NEW j \in 1 .. Cardinality(S), s[i] = s[j] PROVE i = j
    BY <1>8 DEF Injects
  <2>1. rank[s[i]] = i /\ rank[s[j]] = j
    BY <1>7
  <2> QED
    BY <2>1
<1>12. ToSet(s) = S
  <2>1. \A x \in ToSet(s) : x \in S
    BY <1>7, <1>8 DEF ToSet
  <2>2. ASSUME NEW x \in S PROVE x \in ToSet(s)
    <3>1. rank[x] \in 1 .. Cardinality(S)
      BY <1>4 DEF Bijection, Injection
    <3>2. s[rank[x]] \in S /\ rank[s[rank[x]]] = rank[x]
      BY <1>7, <3>1
    <3>3. s[rank[x]] = x
      BY <1>4, <3>2 DEF Bijection, Injection, IsInjective
    <3> QED
      BY <1>8, <3>1, <3>3 DEF ToSet
  <2> QED
    BY <2>1, <2>2
<1> QED
  BY <1>10, <1>11, <1>12 DEF s

\* c is a sequence of the values of two others that share none.
JoinOf(T, a, b, c) ==
    /\ c \in Seq(T) /\ Injects(c)
    /\ ToSet(c) = ToSet(a) \cup ToSet(b) /\ Len(c) = Len(a) + Len(b)

\* Two sequences without repetition and without a common element, one after the other.
LEMMA ConcatInjects ==
    ASSUME NEW T, NEW a \in Seq(T), NEW b \in Seq(T), Injects(a), Injects(b), ToSet(a) \cap ToSet(b) = {}
    PROVE  JoinOf(T, a, b, a \o b)
<1> DEFINE c == a \o b
<1>1. /\ c \in Seq(T) /\ Len(c) = Len(a) + Len(b)
      /\ \A i \in 1 .. Len(a) + Len(b) : c[i] = IF i <= Len(a) THEN a[i] ELSE b[i - Len(a)]
  BY ConcatProperties
<1>2. /\ Len(a) \in Nat /\ Len(b) \in Nat /\ DOMAIN a = 1 .. Len(a) /\ DOMAIN b = 1 .. Len(b)
  OBVIOUS
<1> HIDE DEF c
<1>3. DOMAIN c = 1 .. Len(a) + Len(b)
  BY <1>1
<1>4. \A i \in DOMAIN a : i \in DOMAIN c /\ c[i] = a[i]
  BY <1>1, <1>2, <1>3
<1>5. \A i \in DOMAIN b : Len(a) + i \in DOMAIN c /\ c[Len(a) + i] = b[i]
  <2> SUFFICES ASSUME NEW i \in 1 .. Len(b) PROVE Len(a) + i \in DOMAIN c /\ c[Len(a) + i] = b[i]
    BY <1>2
  <2>1. Len(a) + i \in 1 .. Len(a) + Len(b) /\ ~ (Len(a) + i <= Len(a)) /\ Len(a) + i - Len(a) = i
    BY <1>2
  <2> QED
    BY <1>1, <1>3, <2>1
<1>6. \A k \in DOMAIN c : \/ k \in DOMAIN a /\ c[k] = a[k]
                          \/ k - Len(a) \in DOMAIN b /\ c[k] = b[k - Len(a)] /\ k > Len(a)
  <2> SUFFICES ASSUME NEW k \in 1 .. Len(a) + Len(b)
               PROVE  \/ k \in DOMAIN a /\ c[k] = a[k]
                      \/ k - Len(a) \in DOMAIN b /\ c[k] = b[k - Len(a)] /\ k > Len(a)
    BY <1>3
  <2>1. CASE k <= Len(a)
    BY <1>1, <1>2, <2>1
  <2>2. CASE ~ (k <= Len(a))
    BY <1>1, <1>2, <2>2
  <2> QED
    BY <2>1, <2>2
<1>7. ToSet(c) = ToSet(a) \cup ToSet(b)
  <2>1. \A x \in ToSet(c) : x \in ToSet(a) \cup ToSet(b)
    BY <1>6 DEF ToSet
  <2>2. \A x \in ToSet(a) : x \in ToSet(c)
    BY <1>4 DEF ToSet
  <2>3. \A x \in ToSet(b) : x \in ToSet(c)
    BY <1>5 DEF ToSet
  <2> QED
    BY <2>1, <2>2, <2>3
<1>8. Injects(c)
  <2> SUFFICES ASSUME NEW i \in DOMAIN c, NEW j \in DOMAIN c, c[i] = c[j] PROVE i = j
    BY DEF Injects
  <2>1. i \in Nat /\ j \in Nat
    BY <1>2, <1>3
  <2>2. CASE i \in DOMAIN a /\ c[i] = a[i]
    <3>1. CASE j \in DOMAIN a /\ c[j] = a[j]
      BY <2>2, <3>1 DEF Injects
    <3>2. CASE j - Len(a) \in DOMAIN b /\ c[j] = b[j - Len(a)]
      BY <2>2, <3>2 DEF ToSet
    <3> QED
      BY <1>6, <3>1, <3>2
  <2>3. CASE i - Len(a) \in DOMAIN b /\ c[i] = b[i - Len(a)]
    <3>1. CASE j \in DOMAIN a /\ c[j] = a[j]
      BY <2>3, <3>1 DEF ToSet
    <3>2. CASE j - Len(a) \in DOMAIN b /\ c[j] = b[j - Len(a)]
      <4>1. i - Len(a) = j - Len(a)
        BY <2>3, <3>2 DEF Injects
      <4> QED
        BY <1>2, <2>1, <4>1
    <3> QED
      BY <1>6, <3>1, <3>2
  <2> QED
    BY <1>6, <2>2, <2>3
<1> QED
  BY <1>1, <1>7, <1>8 DEF c, JoinOf

\* The groups after k steps, with numbers up to n; m is the least that each must get.
GroupsOk(n, m, k, g) ==
    /\ g \in [one : Seq(1 .. n), two : Seq(1 .. n), rest : SUBSET (1 .. n)]
    /\ Injects(g.one) /\ Injects(g.two)
    /\ ToSet(g.one) \cap ToSet(g.two) = {} /\ ToSet(g.one) \cap g.rest = {} /\ ToSet(g.two) \cap g.rest = {}
    /\ ToSet(g.one) \cup ToSet(g.two) \cup g.rest = 1 .. n
    /\ 1 <= Len(g.one) /\ 1 <= Len(g.two)
    /\ Len(g.one) + Len(g.two) + Cardinality(g.rest) = n
    /\ m <= Len(g.one) + Cardinality(g.rest) /\ m <= Len(g.two) + Cardinality(g.rest)
    /\ g.rest = {} \/ Cardinality(g.rest) + k <= n - 2

\* Numbers go from the rest to one group.
LEMMA GroupGrows ==
    ASSUME NEW n \in Nat, NEW m \in Nat, NEW k \in Nat, NEW g, GroupsOk(n, m, k, g), g.rest # {},
           NEW c \in Seq(1 .. n), Injects(c), ToSet(c) \in SUBSET g.rest, Len(c) = Cardinality(ToSet(c)),
           c # <<>>, NEW S, S = g.rest \ ToSet(c),
           NEW h, \/ h = [g EXCEPT !.one = @ \o c, !.rest = S] /\ m <= Len(g.two) + Cardinality(g.rest) - Len(c)
                  \/ h = [g EXCEPT !.two = @ \o c, !.rest = S] /\ m <= Len(g.one) + Cardinality(g.rest) - Len(c)
    PROVE  GroupsOk(n, m, k + 1, h)
<1>1. /\ g.one \in Seq(1 .. n) /\ g.two \in Seq(1 .. n) /\ g.rest \in SUBSET (1 .. n)
      /\ Injects(g.one) /\ Injects(g.two)
      /\ ToSet(g.one) \cap ToSet(g.two) = {} /\ ToSet(g.one) \cap g.rest = {} /\ ToSet(g.two) \cap g.rest = {}
      /\ ToSet(g.one) \cup ToSet(g.two) \cup g.rest = 1 .. n
      /\ 1 <= Len(g.one) /\ 1 <= Len(g.two)
      /\ Len(g.one) + Len(g.two) + Cardinality(g.rest) = n
      /\ m <= Len(g.one) + Cardinality(g.rest) /\ m <= Len(g.two) + Cardinality(g.rest)
      /\ Cardinality(g.rest) + k <= n - 2
  BY DEF GroupsOk
<1>0. /\ 1 <= Len(g.one) /\ 1 <= Len(g.two) /\ Len(g.one) + Len(g.two) + Cardinality(g.rest) = n
      /\ m <= Len(g.one) + Cardinality(g.rest) /\ m <= Len(g.two) + Cardinality(g.rest)
      /\ Cardinality(g.rest) + k <= n - 2
  BY <1>1
<1>2. Len(g.one) \in Nat /\ Len(g.two) \in Nat /\ Len(c) \in Nat
  BY <1>1
<1>3. IsFiniteSet(g.rest) /\ Cardinality(g.rest) \in Nat
  <2>1. IsFiniteSet(1 .. n)
    BY SMTT(30), FS_Interval
  <2>2. IsFiniteSet(g.rest)
    BY <1>1, <2>1, FS_Subset
  <2> QED
    BY <2>2, FS_CardinalityType
<1>4. Cardinality(S) = Cardinality(g.rest) - Len(c) /\ Cardinality(S) \in Nat /\ 1 <= Len(c)
  <2>1. Cardinality(g.rest \ ToSet(c)) = Cardinality(g.rest) - Cardinality(g.rest \cap ToSet(c))
    BY <1>3, FS_Difference
  <2>2. g.rest \cap ToSet(c) = ToSet(c)
    OBVIOUS
  <2>3. IsFiniteSet(S)
    BY <1>3, FS_Subset
  <2>4. Cardinality(S) \in Nat
    BY <2>3, FS_CardinalityType
  <2>5. 1 <= Len(c)
    BY <1>2
  <2> QED
    BY <2>1, <2>2, <2>4, <2>5
<1>5. S \in SUBSET (1 .. n) /\ ToSet(c) \cap S = {} /\ ToSet(c) \cup S = g.rest
  BY <1>1
<1>6. g \in [one : Seq(1 .. n), two : Seq(1 .. n), rest : SUBSET (1 .. n)]
  BY DEF GroupsOk
<1>7. CASE h = [g EXCEPT !.one = @ \o c, !.rest = S] /\ m <= Len(g.two) + Cardinality(g.rest) - Len(c)
  <2>1. ToSet(g.one) \cap ToSet(c) = {}
    BY <1>1
  <2>2. /\ g.one \o c \in Seq(1 .. n) /\ Injects(g.one \o c)
        /\ ToSet(g.one \o c) = ToSet(g.one) \cup ToSet(c) /\ Len(g.one \o c) = Len(g.one) + Len(c)
    <3>1. JoinOf(1 .. n, g.one, c, g.one \o c)
      BY <1>1, <2>1, ConcatInjects
    <3> QED
      BY <3>1 DEF JoinOf
  <2>3. h.one = g.one \o c /\ h.two = g.two /\ h.rest = S
    BY <1>6, <1>7
  <2>4. h \in [one : Seq(1 .. n), two : Seq(1 .. n), rest : SUBSET (1 .. n)]
    <3> DEFINE d == g.one \o c
    <3>1. d \in Seq(1 .. n) /\ h = [g EXCEPT !.one = d, !.rest = S]
      BY <1>7, <2>2
    <3> HIDE DEF d
    <3> QED
      BY <1>5, <1>6, <3>1
  <2>5. /\ ToSet(h.one) \cap ToSet(h.two) = {} /\ ToSet(h.one) \cap h.rest = {} /\ ToSet(h.two) \cap h.rest = {}
        /\ ToSet(h.one) \cup ToSet(h.two) \cup h.rest = 1 .. n
    BY <1>1, <1>5, <2>2, <2>3
  <2>6. /\ 1 <= Len(h.one) /\ 1 <= Len(h.two)
        /\ Len(h.one) + Len(h.two) + Cardinality(h.rest) = n
        /\ m <= Len(h.one) + Cardinality(h.rest) /\ m <= Len(h.two) + Cardinality(h.rest)
        /\ Cardinality(h.rest) + (k + 1) <= n - 2
    <3>1. /\ Len(g.one) \in Nat /\ Len(g.two) \in Nat /\ Len(c) \in Nat /\ Cardinality(g.rest) \in Nat
          /\ Cardinality(h.rest) = Cardinality(g.rest) - Len(c) /\ 1 <= Len(c)
      BY <1>2, <1>3, <1>4, <2>3
    <3>2. Len(h.one) = Len(g.one) + Len(c) /\ Len(h.two) = Len(g.two)
      BY <2>2, <2>3
    <3>3. m <= Len(g.two) + Cardinality(g.rest) - Len(c)
      BY <1>7
    <3> DEFINE a == Len(g.one)
    <3> DEFINE b == Len(g.two)
    <3> DEFINE r == Cardinality(g.rest)
    <3> DEFINE l == Len(c)
    <3> DEFINE a2 == Len(h.one)
    <3> DEFINE b2 == Len(h.two)
    <3> DEFINE r2 == Cardinality(h.rest)
    <3>4. /\ a \in Nat /\ b \in Nat /\ r \in Nat /\ l \in Nat /\ 1 <= a /\ 1 <= b /\ 1 <= l
          /\ a2 = a + l /\ b2 = b /\ r2 = r - l
      BY <1>0, <3>1, <3>2
    <3>5. /\ a + b + r = n /\ m <= a + r /\ m <= b + r /\ r + k <= n - 2 /\ m <= b + r - l
      BY <1>0, <3>3
    <3> HIDE DEF a, b, r, l, a2, b2, r2
    <3>6. r2 + (k + 1) <= n - 2
      BY SMTT(30), <3>4, <3>5
    <3>7. a2 + b2 + r2 = n
      BY <3>4, <3>5
    <3>8. 1 <= a2 /\ 1 <= b2 /\ m <= b2 + r2
      BY <3>4, <3>5
    <3>9. m <= a2 + r2
      BY <3>4, <3>5
    <3> QED
      BY <3>6, <3>7, <3>8, <3>9 DEF a, b, r, l, a2, b2, r2
  <2> QED
    BY <1>1, <2>2, <2>3, <2>4, <2>5, <2>6 DEF GroupsOk
<1>8. CASE h = [g EXCEPT !.two = @ \o c, !.rest = S] /\ m <= Len(g.one) + Cardinality(g.rest) - Len(c)
  <2>1. ToSet(g.two) \cap ToSet(c) = {}
    BY <1>1
  <2>2. /\ g.two \o c \in Seq(1 .. n) /\ Injects(g.two \o c)
        /\ ToSet(g.two \o c) = ToSet(g.two) \cup ToSet(c) /\ Len(g.two \o c) = Len(g.two) + Len(c)
    <3>1. JoinOf(1 .. n, g.two, c, g.two \o c)
      BY <1>1, <2>1, ConcatInjects
    <3> QED
      BY <3>1 DEF JoinOf
  <2>3. h.two = g.two \o c /\ h.one = g.one /\ h.rest = S
    BY <1>6, <1>8
  <2>4. h \in [one : Seq(1 .. n), two : Seq(1 .. n), rest : SUBSET (1 .. n)]
    <3> DEFINE d == g.two \o c
    <3>1. d \in Seq(1 .. n) /\ h = [g EXCEPT !.two = d, !.rest = S]
      BY <1>8, <2>2
    <3> HIDE DEF d
    <3> QED
      BY <1>5, <1>6, <3>1
  <2>5. /\ ToSet(h.one) \cap ToSet(h.two) = {} /\ ToSet(h.one) \cap h.rest = {} /\ ToSet(h.two) \cap h.rest = {}
        /\ ToSet(h.one) \cup ToSet(h.two) \cup h.rest = 1 .. n
    BY <1>1, <1>5, <2>2, <2>3
  <2>6. /\ 1 <= Len(h.one) /\ 1 <= Len(h.two)
        /\ Len(h.one) + Len(h.two) + Cardinality(h.rest) = n
        /\ m <= Len(h.one) + Cardinality(h.rest) /\ m <= Len(h.two) + Cardinality(h.rest)
        /\ Cardinality(h.rest) + (k + 1) <= n - 2
    <3>1. /\ Len(g.one) \in Nat /\ Len(g.two) \in Nat /\ Len(c) \in Nat /\ Cardinality(g.rest) \in Nat
          /\ Cardinality(h.rest) = Cardinality(g.rest) - Len(c) /\ 1 <= Len(c)
      BY <1>2, <1>3, <1>4, <2>3
    <3>2. Len(h.two) = Len(g.two) + Len(c) /\ Len(h.one) = Len(g.one)
      BY <2>2, <2>3
    <3>3. m <= Len(g.one) + Cardinality(g.rest) - Len(c)
      BY <1>8
    <3> DEFINE a == Len(g.two)
    <3> DEFINE b == Len(g.one)
    <3> DEFINE r == Cardinality(g.rest)
    <3> DEFINE l == Len(c)
    <3> DEFINE a2 == Len(h.two)
    <3> DEFINE b2 == Len(h.one)
    <3> DEFINE r2 == Cardinality(h.rest)
    <3>4. /\ a \in Nat /\ b \in Nat /\ r \in Nat /\ l \in Nat /\ 1 <= a /\ 1 <= b /\ 1 <= l
          /\ a2 = a + l /\ b2 = b /\ r2 = r - l
      BY <1>0, <3>1, <3>2
    <3>5. /\ b + a + r = n /\ m <= a + r /\ m <= b + r /\ r + k <= n - 2 /\ m <= b + r - l
      BY <1>0, <3>3
    <3> HIDE DEF a, b, r, l, a2, b2, r2
    <3>6. r2 + (k + 1) <= n - 2
      BY SMTT(30), <3>4, <3>5
    <3>7. b2 + a2 + r2 = n
      BY <3>4, <3>5
    <3>8. 1 <= a2 /\ 1 <= b2 /\ m <= b2 + r2
      BY <3>4, <3>5
    <3>9. m <= a2 + r2
      BY <3>4, <3>5
    <3> QED
      BY <3>6, <3>7, <3>8, <3>9 DEF a, b, r, l, a2, b2, r2
  <2> QED
    BY <1>1, <2>2, <2>3, <2>4, <2>5, <2>6 DEF GroupsOk
<1> QED
  BY <1>7, <1>8


\* A sequence of one position.
LEMMA OneInjects ==
    ASSUME NEW n \in Nat, NEW x \in 1 .. n
    PROVE  /\ <<x>> \in Seq(1 .. n) /\ Injects(<<x>>) /\ ToSet(<<x>>) = {x} /\ Len(<<x>>) = 1
           /\ Cardinality({x}) = 1 /\ <<x>> # <<>>
<1>1. <<x>> \in Seq(1 .. n) /\ Len(<<x>>) = 1 /\ DOMAIN <<x>> = 1 .. 1 /\ <<x>>[1] = x /\ <<x>> # <<>>
  OBVIOUS
<1>2. Injects(<<x>>)
  BY <1>1 DEF Injects
<1>3. ToSet(<<x>>) = {x}
  BY <1>1 DEF ToSet
<1> QED
  BY <1>1, <1>2, <1>3, FS_Singleton

\* The next entry is one of the rest.
SelIn(t, es, g, sel) ==
    LET mbr1 == Around(Pick(es, g.one))
        mbr2 == Around(Pick(es, g.two))
        d(k) == Enlargement(mbr1, es[k].mbr) - Enlargement(mbr2, es[k].mbr)
    IN  sel = IF t.m_treeVariant = "RV_QUADRATIC"
              THEN First({<<-Upper(d(k), -d(k)), k>> : k \in g.rest})[2] ELSE Min(g.rest)

\* The entries at different positions are different.
LEMMA PickIs ==
    ASSUME NEW es, Shapely(es), NEW ks \in Seq(DOMAIN es), Injects(ks), Distinct(es)
    PROVE  /\ Shapely(Pick(es, ks)) /\ Distinct(Pick(es, ks)) /\ Len(Pick(es, ks)) = Len(ks)
           /\ ToSet(Pick(es, ks)) = {es[k] : k \in ToSet(ks)}
<1> DEFINE r == Pick(es, ks)
<1>1. /\ Len(ks) \in Nat /\ DOMAIN ks = 1 .. Len(ks) /\ \A j \in DOMAIN ks : ks[j] \in DOMAIN es
  OBVIOUS
<1>2. \A k \in DOMAIN es : es[k] \in EntryT /\ NonEmpty(es[k].mbr)
  BY ShapelyIs
<1>3. r = [j \in 1 .. Len(ks) |-> es[ks[j]]]
  BY <1>1 DEF Pick
<1>4. r \in Seq(EntryT) /\ Len(r) = Len(ks) /\ DOMAIN r = 1 .. Len(ks)
  <2>1. r \in [1 .. Len(ks) -> EntryT]
    BY <1>1, <1>2, <1>3
  <2> HIDE DEF r
  <2>2. DOMAIN r = 1 .. Len(ks)
    BY <2>1
  <2>3. r \in Seq(EntryT)
    BY <1>1, <2>1
  <2> QED
    BY <1>1, <2>2, <2>3
<1>5. \A j \in 1 .. Len(ks) : r[j] = es[ks[j]]
  BY <1>3
<1> HIDE DEF r
<1>6. Shapely(r)
  BY <1>1, <1>2, <1>4, <1>5 DEF Shapely
<1>7. Distinct(r)
  <2> SUFFICES ASSUME NEW j \in 1 .. Len(ks), NEW k \in 1 .. Len(ks), r[j].id = r[k].id PROVE j = k
    BY <1>4 DEF Distinct
  <2>1. es[ks[j]].id = es[ks[k]].id
    BY <1>5
  <2>2. ks[j] = ks[k]
    BY <1>1, <2>1 DEF Distinct
  <2> QED
    BY <1>1, <2>2 DEF Injects
<1>8. ToSet(r) = {es[k] : k \in ToSet(ks)}
  <2>1. \A x \in ToSet(r) : x \in {es[k] : k \in ToSet(ks)}
    BY <1>1, <1>4, <1>5 DEF ToSet
  <2>2. \A k \in ToSet(ks) : es[k] \in ToSet(r)
    BY <1>1, <1>4, <1>5 DEF ToSet
  <2> QED
    BY <2>1, <2>2
<1> QED
  BY <1>4, <1>6, <1>7, <1>8 DEF r

\* The next entry to assign is one that no group has.
LEMMA SelectsRest ==
    ASSUME NEW t, NEW es, Shapely(es), Distinct(es), NEW m \in Nat, NEW k \in Nat,
           NEW g, GroupsOk(Len(es), m, k, g), g.rest # {}, NEW sel, SelIn(t, es, g, sel)
    PROVE  sel \in g.rest
<1> DEFINE n == Len(es)
<1>1. n \in Nat /\ DOMAIN es = 1 .. n /\ \A i \in 1 .. n : es[i].mbr \in AnyRegion
  BY ShapelyIs
<1>2. g.rest \in SUBSET (1 .. n) /\ g.one \in Seq(1 .. n) /\ g.two \in Seq(1 .. n)
  BY DEF GroupsOk
<1>3. IsFiniteSet(g.rest) /\ g.rest \in SUBSET Int
  <2>1. IsFiniteSet(1 .. n)
    BY <1>1, FS_Interval
  <2> QED
    BY <1>2, <2>1, FS_Subset
<1>4. Around(Pick(es, g.one)) \in AnyRegion /\ Around(Pick(es, g.two)) \in AnyRegion
  <2>1. Injects(g.one) /\ Injects(g.two)
    BY DEF GroupsOk
  <2>2. Shapely(Pick(es, g.one)) /\ Shapely(Pick(es, g.two))
    BY <1>1, <1>2, <2>1, PickIs
  <2> QED
    BY <2>2, AroundShapely
<1> DEFINE d(i) == Enlargement(Around(Pick(es, g.one)), es[i].mbr) - Enlargement(Around(Pick(es, g.two)), es[i].mbr)
<1> DEFINE f == [i \in g.rest |-> -Upper(d(i), -d(i))]
<1>5. \A i \in g.rest : d(i) \in Int
  <2> SUFFICES ASSUME NEW i \in g.rest PROVE d(i) \in Int
    OBVIOUS
  <2>1. es[i].mbr \in AnyRegion
    BY <1>1, <1>2
  <2>2. /\ Enlargement(Around(Pick(es, g.one)), es[i].mbr) \in Int
        /\ Enlargement(Around(Pick(es, g.two)), es[i].mbr) \in Int
    BY <1>4, <2>1, AreasAre
  <2> QED
    BY <2>2
<1>6. f \in [g.rest -> Int]
  <2> HIDE DEF d
  <2> QED
    BY <1>5 DEF Upper
<1>7. {<<-Upper(d(i), -d(i)), i>> : i \in g.rest} = {<<f[i], i>> : i \in g.rest}
  <2> HIDE DEF d
  <2> QED
    OBVIOUS
<1>8. First({<<f[i], i>> : i \in g.rest})[2] \in g.rest
  <2> HIDE DEF f
  <2> QED
    BY <1>3, <1>6, FirstOfPairs
<1>9. Min(g.rest) \in g.rest
  BY <1>3, MinIs
<1>10. sel = IF t.m_treeVariant = "RV_QUADRATIC"
             THEN First({<<-Upper(d(i), -d(i)), i>> : i \in g.rest})[2] ELSE Min(g.rest)
  BY DEF SelIn
<1> HIDE DEF f, d
<1> QED
  BY <1>7, <1>8, <1>9, <1>10

\* The cases of a step.
GroupedCases(t, es, m, g, h) ==
    LET c == Ascending(g.rest)
    IN  \/ g.rest = {} /\ h = g
        \/ g.rest # {} /\ m - Len(g.one) = Cardinality(g.rest) /\ h = [g EXCEPT !.one = @ \o c, !.rest = {}]
        \/ g.rest # {} /\ m - Len(g.two) = Cardinality(g.rest) /\ h = [g EXCEPT !.two = @ \o c, !.rest = {}]
        \/ /\ g.rest # {} /\ m - Len(g.one) # Cardinality(g.rest) /\ m - Len(g.two) # Cardinality(g.rest)
           /\ \E sel : /\ SelIn(t, es, g, sel)
                       /\ \/ h = [g EXCEPT !.one = Append(@, sel), !.rest = @ \ {sel}]
                          \/ h = [g EXCEPT !.two = Append(@, sel), !.rest = @ \ {sel}]

\* The three cases of one round of the assignment.
LEMMA GroupedIs ==
    ASSUME NEW t, NEW es, NEW m, NEW g
    PROVE  GroupedCases(t, es, m, g, Grouped(t, es, m, g))
<1> DEFINE mbr1 == Around(Pick(es, g.one))
<1> DEFINE mbr2 == Around(Pick(es, g.two))
<1> DEFINE d(k) == Enlargement(mbr1, es[k].mbr) - Enlargement(mbr2, es[k].mbr)
<1> DEFINE sel  == IF t.m_treeVariant = "RV_QUADRATIC"
                   THEN First({<<-Upper(d(k), -d(k)), k>> : k \in g.rest})[2] ELSE Min(g.rest)
<1> DEFINE toFirst == LexLeq(<<d(sel), getArea(mbr1), Len(g.one)>>, <<0, getArea(mbr2), Len(g.two)>>)
<1>1. SelIn(t, es, g, sel)
  BY Zenon DEF SelIn
<1>2. Grouped(t, es, m, g) =
        IF g.rest = {} THEN g
        ELSE IF m - Len(g.one) = Cardinality(g.rest) THEN [g EXCEPT !.one = @ \o Ascending(g.rest), !.rest = {}]
        ELSE IF m - Len(g.two) = Cardinality(g.rest) THEN [g EXCEPT !.two = @ \o Ascending(g.rest), !.rest = {}]
        ELSE IF toFirst THEN [g EXCEPT !.one = Append(@, sel), !.rest = @ \ {sel}]
        ELSE [g EXCEPT !.two = Append(@, sel), !.rest = @ \ {sel}]
  BY DEF Grouped
<1> HIDE DEF sel, toFirst
<1> QED
  BY <1>1, <1>2, Zenon DEF GroupedCases

\* One round keeps the groups apart, complete and able to reach the minimum load.
LEMMA GroupedOk ==
    ASSUME NEW t, NEW es, Shapely(es), Distinct(es), NEW m \in Nat, 2 * m <= Len(es), NEW k \in Nat,
           NEW g, GroupsOk(Len(es), m, k, g)
    PROVE  GroupsOk(Len(es), m, k + 1, Grouped(t, es, m, g))
<1> DEFINE n == Len(es)
<1> DEFINE h == Grouped(t, es, m, g)
<1>1. n \in Nat
  BY ShapelyIs
<1>2. /\ g.one \in Seq(1 .. n) /\ g.two \in Seq(1 .. n) /\ g.rest \in SUBSET (1 .. n)
      /\ g \in [one : Seq(1 .. n), two : Seq(1 .. n), rest : SUBSET (1 .. n)]
  BY DEF GroupsOk
<1>3. /\ Len(g.one) \in Nat /\ Len(g.two) \in Nat /\ Len(g.one) + Len(g.two) + Cardinality(g.rest) = n
      /\ m <= Len(g.one) + Cardinality(g.rest) /\ m <= Len(g.two) + Cardinality(g.rest)
  BY DEF GroupsOk
<1>4. Cardinality(g.rest) \in Nat /\ (g.rest # {} => Cardinality(g.rest) # 0)
  <2>1. IsFiniteSet(1 .. n)
    BY <1>1, FS_Interval
  <2>2. IsFiniteSet(g.rest)
    BY <1>2, <2>1, FS_Subset
  <2> QED
    BY <2>2, FS_CardinalityType, FS_EmptySet
<1> DEFINE c == Ascending(g.rest)
<1>5. /\ c \in Seq(1 .. n) /\ Injects(c) /\ ToSet(c) = g.rest /\ Len(c) = Cardinality(g.rest)
  BY <1>1, <1>2, AscendingIs
<1>6. g.rest # {} => c # <<>>
  <2> HIDE DEF c
  <2>1. c = <<>> => Len(c) = 0
    OBVIOUS
  <2> QED
    BY <1>4, <1>5, <2>1
<1>7. g.rest \ ToSet(c) = {}
  BY <1>5
<1> HIDE DEF n, h, c
<1>8. GroupsOk(n, m, k, g)
  BY DEF n
<1>9. 2 * m <= n
  BY DEF n
<1> SUFFICES GroupsOk(n, m, k + 1, h)
  BY DEF n, h
<1>10. CASE g.rest = {} /\ h = g
  <2>1. g.rest = {}
    BY <1>10
  <2> QED
    BY <1>8, <1>10, <2>1 DEF GroupsOk
<1>11. CASE g.rest # {} /\ m - Len(g.one) = Cardinality(g.rest) /\ h = [g EXCEPT !.one = @ \o c, !.rest = {}]
  <2>1. m <= Len(g.two) + Cardinality(g.rest) - Len(c)
    <3> DEFINE a == Len(g.one)
    <3> DEFINE b == Len(g.two)
    <3> DEFINE r == Cardinality(g.rest)
    <3>1. a \in Nat /\ b \in Nat /\ r \in Nat /\ a + b + r = n
      BY <1>3, <1>4
    <3>2. m - a = r /\ Len(c) = r
      BY <1>5, <1>11
    <3> HIDE DEF a, b, r
    <3>3. m <= b
      BY <1>1, <1>9, <3>1, <3>2
    <3>4. b + r - r = b
      BY <3>1
    <3>5. m <= b + r - Len(c)
      BY <3>2, <3>3, <3>4
    <3> QED
      BY <3>5 DEF b, r
  <2>2. ToSet(c) \in SUBSET g.rest /\ Len(c) = Cardinality(ToSet(c)) /\ c # <<>> /\ {} = g.rest \ ToSet(c)
    BY <1>5, <1>6, <1>7, <1>11
  <2> QED
    BY <1>1, <1>5, <1>8, <1>11, <2>1, <2>2, GroupGrows
<1>12. CASE g.rest # {} /\ m - Len(g.two) = Cardinality(g.rest) /\ h = [g EXCEPT !.two = @ \o c, !.rest = {}]
  <2>1. m <= Len(g.one) + Cardinality(g.rest) - Len(c)
    <3> DEFINE a == Len(g.two)
    <3> DEFINE b == Len(g.one)
    <3> DEFINE r == Cardinality(g.rest)
    <3>1. a \in Nat /\ b \in Nat /\ r \in Nat /\ b + a + r = n
      BY <1>3, <1>4
    <3>2. m - a = r /\ Len(c) = r
      BY <1>5, <1>12
    <3> HIDE DEF a, b, r
    <3>3. m <= b
      BY <1>1, <1>9, <3>1, <3>2
    <3>4. b + r - r = b
      BY <3>1
    <3>5. m <= b + r - Len(c)
      BY <3>2, <3>3, <3>4
    <3> QED
      BY <3>5 DEF b, r
  <2>2. ToSet(c) \in SUBSET g.rest /\ Len(c) = Cardinality(ToSet(c)) /\ c # <<>> /\ {} = g.rest \ ToSet(c)
    BY <1>5, <1>6, <1>7, <1>12
  <2> QED
    BY <1>1, <1>5, <1>8, <1>12, <2>1, <2>2, GroupGrows
<1>13. ASSUME g.rest # {}, m - Len(g.one) # Cardinality(g.rest), m - Len(g.two) # Cardinality(g.rest),
              NEW sel, SelIn(t, es, g, sel),
              \/ h = [g EXCEPT !.one = Append(@, sel), !.rest = @ \ {sel}]
              \/ h = [g EXCEPT !.two = Append(@, sel), !.rest = @ \ {sel}]
       PROVE  GroupsOk(n, m, k + 1, h)
  <2>1. sel \in g.rest /\ sel \in 1 .. n
    <3>1. sel \in g.rest
      BY <1>13, SelectsRest
    <3> QED
      BY <1>2, <3>1
  <2> DEFINE x == <<sel>>
  <2>2. x \in Seq(1 .. n) /\ Injects(x) /\ ToSet(x) = {sel} /\ Len(x) = 1 /\ Cardinality({sel}) = 1 /\ x # <<>>
    BY <1>1, <2>1, OneInjects
  <2>3. Append(g.one, sel) = g.one \o x /\ Append(g.two, sel) = g.two \o x
    BY <1>2, <2>1
  <2> HIDE DEF x
  <2>4. ToSet(x) \in SUBSET g.rest /\ Len(x) = Cardinality(ToSet(x)) /\ g.rest \ {sel} = g.rest \ ToSet(x)
    BY <2>1, <2>2
  <2>5. m <= Len(g.two) + Cardinality(g.rest) - Len(x) /\ m <= Len(g.one) + Cardinality(g.rest) - Len(x)
    <3> DEFINE a == Len(g.one)
    <3> DEFINE b == Len(g.two)
    <3> DEFINE r == Cardinality(g.rest)
    <3>1. a \in Nat /\ b \in Nat /\ r \in Nat /\ m <= a + r /\ m <= b + r
      BY <1>3, <1>4
    <3>2. m - a # r /\ m - b # r /\ Len(x) = 1
      BY <1>13, <2>2
    <3> HIDE DEF a, b, r
    <3>3. m <= a + r - 1 /\ m <= b + r - 1
      BY <3>1, <3>2
    <3> QED
      BY <3>2, <3>3 DEF a, b, r
  <2>6. \/ h = [g EXCEPT !.one = @ \o x, !.rest = g.rest \ {sel}]
        \/ h = [g EXCEPT !.two = @ \o x, !.rest = g.rest \ {sel}]
    BY <1>13, <2>3
  <2> QED
    BY <1>1, <1>8, <1>13, <2>2, <2>4, <2>5, <2>6, GroupGrows
<1>14. \/ g.rest = {} /\ h = g
       \/ g.rest # {} /\ m - Len(g.one) = Cardinality(g.rest) /\ h = [g EXCEPT !.one = @ \o c, !.rest = {}]
       \/ g.rest # {} /\ m - Len(g.two) = Cardinality(g.rest) /\ h = [g EXCEPT !.two = @ \o c, !.rest = {}]
       \/ /\ g.rest # {} /\ m - Len(g.one) # Cardinality(g.rest) /\ m - Len(g.two) # Cardinality(g.rest)
          /\ \E sel : /\ SelIn(t, es, g, sel)
                      /\ \/ h = [g EXCEPT !.one = Append(@, sel), !.rest = @ \ {sel}]
                         \/ h = [g EXCEPT !.two = Append(@, sel), !.rest = @ \ {sel}]
  <2>1. GroupedCases(t, es, m, g, h)
    BY GroupedIs DEF h
  <2> QED
    BY <2>1, Zenon DEF GroupedCases, c
<1>15. ASSUME g.rest # {}, m - Len(g.one) # Cardinality(g.rest), m - Len(g.two) # Cardinality(g.rest),
              \E sel : /\ SelIn(t, es, g, sel)
                       /\ \/ h = [g EXCEPT !.one = Append(@, sel), !.rest = @ \ {sel}]
                          \/ h = [g EXCEPT !.two = Append(@, sel), !.rest = @ \ {sel}]
       PROVE  GroupsOk(n, m, k + 1, h)
  <2>1. PICK sel : /\ SelIn(t, es, g, sel)
                   /\ \/ h = [g EXCEPT !.one = Append(@, sel), !.rest = @ \ {sel}]
                      \/ h = [g EXCEPT !.two = Append(@, sel), !.rest = @ \ {sel}]
    BY <1>15
  <2> QED
    BY <1>13, <1>15, <2>1
<1> QED
  BY <1>10, <1>11, <1>12, <1>14, <1>15


\* The two seeds are such groups.
LEMMA FirstGroups ==
    ASSUME NEW n \in Nat, NEW m \in Nat, 2 <= n, 2 * m <= n,
           NEW i \in 1 .. n, NEW j \in 1 .. n, i # j
    PROVE  GroupsOk(n, m, 0, [one |-> <<i>>, two |-> <<j>>, rest |-> (1 .. n) \ {i, j}])
<1> DEFINE g == [one |-> <<i>>, two |-> <<j>>, rest |-> (1 .. n) \ {i, j}]
<1>1. /\ g.one = <<i>> /\ g.two = <<j>> /\ g.rest = (1 .. n) \ {i, j}
      /\ g = [one |-> g.one, two |-> g.two, rest |-> g.rest]
  OBVIOUS
<1>2. /\ <<i>> \in Seq(1 .. n) /\ Injects(<<i>>) /\ ToSet(<<i>>) = {i} /\ Len(<<i>>) = 1
      /\ <<j>> \in Seq(1 .. n) /\ Injects(<<j>>) /\ ToSet(<<j>>) = {j} /\ Len(<<j>>) = 1
  BY OneInjects
<1>3. Cardinality(g.rest) = n - 2
  <2>1. IsFiniteSet(1 .. n) /\ Cardinality(1 .. n) = n
    BY FS_Interval
  <2>2. IsFiniteSet((1 .. n) \ {i}) /\ Cardinality((1 .. n) \ {i}) = n - 1
    BY <2>1, FS_RemoveElement
  <2>3. Cardinality(((1 .. n) \ {i}) \ {j}) = n - 1 - 1
    <3> DEFINE T == (1 .. n) \ {i}
    <3>1. j \in T /\ IsFiniteSet(T) /\ Cardinality(T) = n - 1
      BY <2>2
    <3> HIDE DEF T
    <3>2. Cardinality(T \ {j}) = Cardinality(T) - 1
      BY <3>1, FS_RemoveElement
    <3>3. Cardinality(T \ {j}) = n - 1 - 1
      BY <3>1, <3>2
    <3> QED
      BY <3>3 DEF T
  <2>4. ((1 .. n) \ {i}) \ {j} = (1 .. n) \ {i, j}
    OBVIOUS
  <2> QED
    BY <1>1, <2>3, <2>4
<1> HIDE DEF g
<1>4. g \in [one : Seq(1 .. n), two : Seq(1 .. n), rest : SUBSET (1 .. n)]
  <2>1. g.one \in Seq(1 .. n) /\ g.two \in Seq(1 .. n)
    BY <1>1, <1>2
  <2>2. g.rest \in SUBSET (1 .. n)
    BY <1>1
  <2> QED
    BY <1>1, <2>1, <2>2
<1>5. /\ ToSet(g.one) \cap ToSet(g.two) = {} /\ ToSet(g.one) \cap g.rest = {} /\ ToSet(g.two) \cap g.rest = {}
      /\ ToSet(g.one) \cup ToSet(g.two) \cup g.rest = 1 .. n
  <2>1. ToSet(g.one) = {i} /\ ToSet(g.two) = {j}
    BY <1>1, <1>2
  <2>2. g.rest = (1 .. n) \ {i, j}
    BY <1>1
  <2> DEFINE I == 1 .. n
  <2>3. i \in I /\ j \in I
    OBVIOUS
  <2> HIDE DEF I
  <2>4. {i} \cap {j} = {} /\ {i} \cap (I \ {i, j}) = {} /\ {j} \cap (I \ {i, j}) = {}
        /\ {i} \cup {j} \cup (I \ {i, j}) = I
    BY <2>3
  <2> QED
    BY <2>1, <2>2, <2>4 DEF I
<1>6. /\ 1 <= Len(g.one) /\ 1 <= Len(g.two)
      /\ Len(g.one) + Len(g.two) + Cardinality(g.rest) = n
      /\ m <= Len(g.one) + Cardinality(g.rest) /\ m <= Len(g.two) + Cardinality(g.rest)
      /\ Cardinality(g.rest) + 0 <= n - 2
  <2>1. m <= n - 1
    OBVIOUS
  <2>2. Len(g.one) = 1 /\ Len(g.two) = 1
    BY <1>1, <1>2
  <2> QED
    BY <1>3, <2>1, <2>2
<1> QED
  BY <1>1, <1>2, <1>4, <1>5, <1>6 DEF GroupsOk, g

\* The linear and the quadratic split.
LEMMA RTreeSplits ==
    ASSUME NEW t, NEW level, NEW es, Shapely(es), Distinct(es), 2 <= Len(es),
           NEW m \in Nat, Of(t.m_minimumLoad, level) = m, 2 * m <= Len(es)
    PROVE  LET h == rtreeSplit(t, level, es)
           IN  /\ SplitsTo(es, h[1], h[2])
               /\ 1 <= Len(h[1]) /\ 1 <= Len(h[2]) /\ m <= Len(h[1]) /\ m <= Len(h[2])
<1> DEFINE n == Len(es)
<1> DEFINE seeds == pickSeeds(t, es)
<1> DEFINE g0 == [one |-> <<seeds[1]>>, two |-> <<seeds[2]>>, rest |-> DOMAIN es \ {seeds[1], seeds[2]}]
<1> DEFINE groups == CHOOSE g : g = [k \in 0 .. Len(es) |->
                        IF k = 0 THEN g0 ELSE Grouped(t, es, Of(t.m_minimumLoad, level), g[k - 1])]
<1>1. n \in Nat /\ DOMAIN es = 1 .. n
  BY ShapelyIs
<1>2. rtreeSplit(t, level, es) = <<Pick(es, groups[n].one), Pick(es, groups[n].two)>>
  BY DEF rtreeSplit, Seeded, Picked
<1>3. groups = CHOOSE g : g = [k \in 0 .. n |-> IF k = 0 THEN g0 ELSE Grouped(t, es, m, g[k - 1])]
  OBVIOUS
<1>4. GroupsOk(n, m, 0, g0)
  <2>1. seeds[1] \in 1 .. n /\ seeds[2] \in 1 .. n /\ seeds[1] # seeds[2]
    BY <1>1, SeedsAre
  <2>2. g0 = [one |-> <<seeds[1]>>, two |-> <<seeds[2]>>, rest |-> (1 .. n) \ {seeds[1], seeds[2]}]
    BY <1>1
  <2>3. 2 <= n /\ 2 * m <= n
    OBVIOUS
  <2> HIDE DEF n, seeds, g0
  <2> QED
    BY <1>1, <2>1, <2>2, <2>3, FirstGroups
<1> HIDE DEF n, g0, groups
<1>5. groups[0] = g0 /\ \A k \in 1 .. n : groups[k] = Grouped(t, es, m, groups[k - 1])
  <2>1. groups = GroupsAreFun(t, es, m, g0, n)
    BY <1>3 DEF GroupsAreFun
  <2> QED
    BY <1>1, <2>1, GroupsAre
<1> DEFINE Wrong == {k \in 0 .. n : ~ GroupsOk(n, m, k, groups[k])}
<1>6. Wrong = {}
  <2> SUFFICES ASSUME Wrong # {} PROVE FALSE
    OBVIOUS
  <2>1. PICK k \in Wrong : \A j \in Wrong : k <= j
    <3>1. Wrong \in SUBSET Nat
      BY <1>1
    <3> HIDE DEF Wrong
    <3> QED
      BY <3>1, LeastExists
  <2>2. k \in 0 .. n /\ ~ GroupsOk(n, m, k, groups[k]) /\ k \in Nat
    BY <1>1, <2>1
  <2>3. k # 0
    BY <1>4, <1>5, <2>2
  <2>4. k \in 1 .. n /\ k - 1 \in 0 .. n /\ k - 1 \in Nat /\ ~ (k <= k - 1)
    BY <1>1, <2>2, <2>3
  <2>5. GroupsOk(n, m, k - 1, groups[k - 1])
    BY <2>1, <2>4
  <2>6. GroupsOk(n, m, (k - 1) + 1, Grouped(t, es, m, groups[k - 1]))
    BY <2>4, <2>5, GroupedOk DEF n
  <2>7. (k - 1) + 1 = k /\ groups[k] = Grouped(t, es, m, groups[k - 1])
    BY <1>5, <2>2, <2>4
  <2> QED
    BY <2>2, <2>6, <2>7
<1> DEFINE g == groups[n]
<1>7. GroupsOk(n, m, n, g)
  BY <1>1, <1>6
<1>8. g.one \in Seq(1 .. n) /\ g.two \in Seq(1 .. n) /\ g.rest \in SUBSET (1 .. n) /\ Injects(g.one) /\ Injects(g.two)
  BY <1>7 DEF GroupsOk
<1>9. g.rest = {}
  <2>1. IsFiniteSet(1 .. n)
    BY <1>1, FS_Interval
  <2>2. IsFiniteSet(g.rest)
    BY <1>8, <2>1, FS_Subset
  <2>3. Cardinality(g.rest) \in Nat
    BY <2>2, FS_CardinalityType
  <2>4. g.rest = {} \/ Cardinality(g.rest) + n <= n - 2
    BY <1>7 DEF GroupsOk
  <2> QED
    BY <1>1, <2>3, <2>4
<1>10. /\ ToSet(g.one) \cap ToSet(g.two) = {} /\ ToSet(g.one) \cup ToSet(g.two) = 1 .. n
       /\ Len(g.one) + Len(g.two) = n /\ 1 <= Len(g.one) /\ 1 <= Len(g.two) /\ m <= Len(g.one) /\ m <= Len(g.two)
  <2>1. Cardinality(g.rest) = 0
    BY <1>9, FS_EmptySet
  <2>2. Len(g.one) \in Nat /\ Len(g.two) \in Nat
    BY <1>8
  <2>3. /\ ToSet(g.one) \cap ToSet(g.two) = {} /\ ToSet(g.one) \cup ToSet(g.two) \cup g.rest = 1 .. n
        /\ Len(g.one) + Len(g.two) + Cardinality(g.rest) = n
        /\ 1 <= Len(g.one) /\ 1 <= Len(g.two)
        /\ m <= Len(g.one) + Cardinality(g.rest) /\ m <= Len(g.two) + Cardinality(g.rest)
    BY <1>7 DEF GroupsOk
  <2> QED
    <3> DEFINE p == Len(g.one)
    <3> DEFINE q == Len(g.two)
    <3>1. /\ p \in Nat /\ q \in Nat /\ p + q + 0 = n /\ 1 <= p /\ 1 <= q /\ m <= p + 0 /\ m <= q + 0
      BY <2>1, <2>2, <2>3
    <3> HIDE DEF p, q
    <3>2. p + q = n /\ m <= p /\ m <= q
      BY <3>1
    <3> QED
      BY <1>9, <2>3, <3>1, <3>2 DEF p, q
<1> DEFINE a == Pick(es, g.one)
<1> DEFINE b == Pick(es, g.two)
<1>11. /\ Shapely(a) /\ Distinct(a) /\ Len(a) = Len(g.one) /\ ToSet(a) = {es[k] : k \in ToSet(g.one)}
       /\ Shapely(b) /\ Distinct(b) /\ Len(b) = Len(g.two) /\ ToSet(b) = {es[k] : k \in ToSet(g.two)}
  BY <1>1, <1>8, PickIs
<1>12. rtreeSplit(t, level, es) = <<a, b>>
  BY <1>2
<1> HIDE DEF a, b, g
<1>13. Apart(a, b)
  <2> SUFFICES ASSUME NEW i \in ToSet(g.one), NEW j \in ToSet(g.two), es[i].id = es[j].id PROVE FALSE
    BY <1>11 DEF Apart
  <2>1. i \in DOMAIN es /\ j \in DOMAIN es /\ i # j
    BY <1>1, <1>10
  <2> QED
    BY <2>1 DEF Distinct
<1>14. ToSet(a) \cup ToSet(b) = ToSet(es)
  <2>1. ToSet(a) \cup ToSet(b) = {es[k] : k \in ToSet(g.one) \cup ToSet(g.two)}
    BY <1>11
  <2>2. ToSet(es) = {es[k] : k \in 1 .. n}
    BY <1>1 DEF ToSet
  <2> QED
    BY <1>10, <2>1, <2>2
<1>15. SplitsTo(es, a, b)
  BY <1>10, <1>11, <1>13, <1>14 DEF SplitsTo, n
<1>16. <<a, b>>[1] = a /\ <<a, b>>[2] = b
  OBVIOUS
<1> QED
  BY <1>10, <1>11, <1>12, <1>15, <1>16


\* The entries that a node other than the root keeps at least.
Least(t, level) ==
    IF t.m_treeVariant # "RV_RSTAR" THEN Of(t.m_minimumLoad, level) ELSE IF level = 0 THEN 1 ELSE 2

\* Configurations with room for two nodes in the entries of a full one and one more.
Sized(t) ==
    /\ t.m_nearMinimumOverlapFactor \in Nat /\ 1 <= t.m_nearMinimumOverlapFactor
    /\ \A level \in Nat :
          /\ Of(t.m_capacity, level) \in Nat /\ Of(t.m_minimumLoad, level) \in Nat
          /\ (IF level = 0 THEN 1 ELSE 2) <= Of(t.m_minimumLoad, level)
          /\ 2 <= Of(t.m_capacity, level)
          /\ t.m_treeVariant # "RV_RSTAR" => 2 * Of(t.m_minimumLoad, level) <= Of(t.m_capacity, level) + 1
          /\ t.m_treeVariant = "RV_RSTAR" =>
                /\ Of(t.nodeSPF, level) \in Nat /\ Of(t.cReinsert, level) \in Nat
                /\ (IF level = 0 THEN 1 ELSE 2) + 1 <= Of(t.nodeSPF, level)
                /\ 2 * Of(t.nodeSPF, level) <= Of(t.m_capacity, level) + 2
                /\ 1 <= Of(t.cReinsert, level)
                /\ Of(t.cReinsert, level) + 2 <= Of(t.m_capacity, level) + 1

\* The least size of a node that is not the root: at least 1, and at least 2 above the leaves.
LEMMA LeastIs ==
    ASSUME NEW t, Sized(t), NEW level \in Nat
    PROVE  /\ Least(t, level) \in Nat /\ 1 <= Least(t, level) /\ (level # 0 => 2 <= Least(t, level))
           /\ Least(t, level) <= Of(t.m_minimumLoad, level)
<1>1. /\ Of(t.m_minimumLoad, level) \in Nat
      /\ (IF level = 0 THEN 1 ELSE 2) <= Of(t.m_minimumLoad, level)
  BY DEF Sized
<1> QED
  BY <1>1 DEF Least

\* A split keeps every entry, none of them twice, and leaves both nodes their least.
THEOREM SplitKeeps ==
    ASSUME NEW t, Sized(t), NEW level \in Nat, NEW es, Shapely(es), Distinct(es),
           Len(es) = Of(t.m_capacity, level) + 1
    PROVE  LET h == split(t, level, es)
           IN  /\ SplitsTo(es, h[1], h[2])
               /\ Least(t, level) <= Len(h[1]) /\ Least(t, level) <= Len(h[2])
               /\ Len(h[1]) <= Of(t.m_capacity, level) /\ Len(h[2]) <= Of(t.m_capacity, level)
<1> DEFINE cap == Of(t.m_capacity, level)
<1> DEFINE least == Least(t, level)
<1> DEFINE h == split(t, level, es)
<1>1. cap \in Nat /\ 2 <= cap /\ least \in Nat /\ 1 <= least
  BY LeastIs DEF Sized
<1>2. SplitsTo(es, h[1], h[2]) /\ least <= Len(h[1]) /\ least <= Len(h[2])
  <2>1. CASE t.m_treeVariant # "RV_RSTAR"
    <3> DEFINE m == Of(t.m_minimumLoad, level)
    <3>1. m \in Nat /\ 2 * m <= cap + 1 /\ least = m
      BY <2>1 DEF Sized, Least
    <3>2. 2 <= Len(es) /\ 2 * m <= Len(es)
      BY <1>1, <3>1
    <3>3. h = rtreeSplit(t, level, es)
      BY <2>1 DEF split
    <3> HIDE DEF m, h, least, cap
    <3>4. SplitsTo(es, h[1], h[2]) /\ m <= Len(h[1]) /\ m <= Len(h[2])
      BY <3>1, <3>2, <3>3, RTreeSplits DEF m
    <3> QED
      BY <3>1, <3>4
  <2>2. CASE t.m_treeVariant = "RV_RSTAR"
    <3> DEFINE spf == Of(t.nodeSPF, level)
    <3>1. spf \in Nat /\ least + 1 <= spf /\ 2 * spf <= cap + 2
      BY <2>2 DEF Sized, Least
    <3>2. 1 <= spf /\ 2 * spf <= Len(es) + 1
      BY <1>1, <3>1
    <3>3. h = rstarSplit(t, level, es)
      BY <2>2 DEF split
    <3> HIDE DEF spf, h, least, cap
    <3>4. SplitsTo(es, h[1], h[2]) /\ spf <= Len(h[1]) /\ spf - 1 <= Len(h[2])
      BY <3>1, <3>2, <3>3, RStarSplits DEF spf
    <3>5. Len(h[1]) \in Nat /\ Len(h[2]) \in Nat
      BY <3>4, ShapelyIs DEF SplitsTo
    <3> QED
      BY <1>1, <3>1, <3>4, <3>5
  <2> QED
    BY <2>1, <2>2
<1>3. Len(h[1]) \in Nat /\ Len(h[2]) \in Nat /\ Len(h[1]) + Len(h[2]) = cap + 1
  BY <1>2, ShapelyIs DEF SplitsTo
<1> HIDE DEF h, cap, least
<1>4. Len(h[1]) <= cap /\ Len(h[2]) <= cap
  <2> DEFINE a == Len(h[1])
  <2> DEFINE b == Len(h[2])
  <2>1. a \in Nat /\ b \in Nat /\ a + b = cap + 1 /\ least <= a /\ least <= b
    BY <1>2, <1>3
  <2> HIDE DEF a, b
  <2>2. a <= cap /\ b <= cap
    BY <1>1, <2>1
  <2> QED
    BY <2>2 DEF a, b
<1> QED
  BY <1>2, <1>4 DEF h, cap, least

\* So does a forced reinsertion.
LEMMA ReinsertionKeeps ==
    ASSUME NEW t, Sized(t), t.m_treeVariant = "RV_RSTAR", NEW n, n.m_level \in Nat, n.m_nodeMBR \in AnyRegion,
           NEW e, Shapely(Append(n.entries, e)), Distinct(Append(n.entries, e)),
           Len(Append(n.entries, e)) = Of(t.m_capacity, n.m_level) + 1
    PROVE  LET r == reinsertData(t, n, e)
           IN  /\ SplitsTo(Append(n.entries, e), r.keep, r.out)
               /\ Least(t, n.m_level) <= Len(r.keep) /\ Len(r.keep) <= Of(t.m_capacity, n.m_level)
               /\ Len(r.out) = Of(t.cReinsert, n.m_level)
<1> DEFINE es == Append(n.entries, e)
<1> DEFINE keys == [k \in DOMAIN es |-> Square(getCenter(n.m_nodeMBR), getCenter(es[k].mbr))]
<1> DEFINE s == Sorted(es, keys)
<1> DEFINE c == Of(t.cReinsert, n.m_level)
<1> DEFINE r == reinsertData(t, n, e)
<1> DEFINE cap == Of(t.m_capacity, n.m_level)
<1>1. r = [out |-> SubSeq(s, 1, c), keep |-> SubSeq(s, c + 1, Len(s))]
  BY DEF reinsertData
<1>2. Shapely(es) /\ Distinct(es) /\ Len(es) = cap + 1
  OBVIOUS
<1>3. c \in Nat /\ cap \in Nat /\ 1 <= c /\ c + 2 <= cap + 1
  BY DEF Sized
<1>4. keys \in [DOMAIN es -> Int]
  <2> HIDE DEF es
  <2> SUFFICES ASSUME NEW k \in DOMAIN es PROVE Square(getCenter(n.m_nodeMBR), getCenter(es[k].mbr)) \in Int
    OBVIOUS
  <2>1. es[k].mbr \in AnyRegion
    BY <1>2, ShapelyIs
  <2>2. \A a \in AnyRegion : getCenter(a)[1] \in Int /\ getCenter(a)[2] \in Int
    BY DimIs DEF getCenter, AnyRegion
  <2> QED
    BY <2>1, <2>2 DEF Square
<1> HIDE DEF es, keys
<1>5. Shapely(s) /\ Distinct(s) /\ ToSet(s) = ToSet(es) /\ Len(s) = Len(es)
  BY <1>2, <1>4, SortedKeeps
<1> HIDE DEF s, c, cap
<1>6. c \in 0 .. Len(s)
  BY <1>2, <1>3, <1>5
<1>7. /\ SplitsTo(s, SubSeq(s, 1, c), SubSeq(s, c + 1, Len(s)))
      /\ Len(SubSeq(s, 1, c)) = c /\ Len(SubSeq(s, c + 1, Len(s))) = Len(s) - c
  BY <1>5, <1>6, CutSplits
<1> DEFINE o == SubSeq(s, 1, c)
<1> DEFINE kept == SubSeq(s, c + 1, Len(s))
<1> HIDE DEF r
<1>8. r.out = SubSeq(s, 1, c) /\ r.keep = SubSeq(s, c + 1, Len(s))
  <2>1. r = [out |-> o, keep |-> kept]
    BY <1>1
  <2> HIDE DEF o, kept
  <2>2. r.out = o /\ r.keep = kept
    BY <2>1
  <2> QED
    BY <2>2 DEF o, kept
<1>9. SplitsTo(s, r.out, r.keep)
  BY <1>7, <1>8
<1>10. SplitsTo(es, r.keep, r.out)
  <2>1. Len(r.out) \in Nat /\ Len(r.keep) \in Nat
    BY <1>9, ShapelyIs DEF SplitsTo
  <2>2. Len(r.keep) + Len(r.out) = Len(es)
    <3> DEFINE a == Len(r.keep)
    <3> DEFINE b == Len(r.out)
    <3> DEFINE n1 == Len(es)
    <3>1. a \in Nat /\ b \in Nat /\ b + a = n1
      BY <1>5, <1>9, <2>1 DEF SplitsTo
    <3> HIDE DEF a, b, n1
    <3>2. a + b = n1
      BY <3>1
    <3> QED
      BY <3>2 DEF a, b, n1
  <2>3. Apart(r.keep, r.out)
    BY <1>9 DEF SplitsTo, Apart
  <2> QED
    BY <1>5, <1>9, <2>2, <2>3 DEF SplitsTo
<1>11. Len(r.keep) = cap + 1 - c /\ Len(r.out) = c
  <2>1. Len(r.out) = c /\ Len(r.keep) = Len(s) - c
    BY <1>7, <1>8
  <2>2. Len(s) = cap + 1
    BY <1>2, <1>5
  <2>3. cap + 1 - c = (cap + 1) - c
    BY <1>3
  <2> QED
    BY <2>1, <2>2, <2>3
<1>12. Least(t, n.m_level) <= 2 /\ Least(t, n.m_level) \in Nat
  BY DEF Least
<1>13. Least(t, n.m_level) <= Len(r.keep) /\ Len(r.keep) <= cap
  BY <1>3, <1>11, <1>12
<1> QED
  BY <1>10, <1>11, <1>13 DEF es, r, c, cap


\* A tree in the middle of an operation: pages P with the root r, in which entries may
\* wait, W, to be put into a node of their level, and in which the entries of the pages X
\* may have bounds that are out of date.  Entries stand with their levels.
NodeT == [m_identifier : Int, m_level : Nat, m_nodeMBR : AnyRegion, entries : Seq(EntryT)]

Pairs(n) == {<<n.m_level, e>> : e \in ToSet(n.entries)}

Kept(P, W) == (UNION {Pairs(P[p]) : p \in DOMAIN P}) \cup W

NodeOk(n, p, tight) ==
    /\ n \in NodeT /\ n.m_identifier = p
    /\ Shapely(n.entries) /\ Distinct(n.entries)
    /\ \A e \in ToSet(n.entries) : containsRegion(n.m_nodeMBR, e.mbr)
    /\ IF n.entries = <<>> THEN n.m_nodeMBR = makeInfinite ELSE NonEmpty(n.m_nodeMBR)
    /\ tight => n.m_nodeMBR = Around(n.entries)

Paged(P, r) == r \in DOMAIN P /\ DOMAIN P \in SUBSET Nat /\ IsFiniteSet(DOMAIN P)

Sound(P, r, tight) == \A p \in DOMAIN P : NodeOk(P[p], p, tight) /\ P[p].m_level <= P[r].m_level

\* What there is at a level.
PairT == Nat \X {e \in EntryT : NonEmpty(e.mbr)}

\* No id twice at a level,
OneId(K) == \A x, y \in K : x[1] = y[1] /\ x[2].id = y[2].id => x = y

\* nothing in two nodes, nor in a node and waiting.
OneHolder(P, W) ==
    /\ \A p, q \in DOMAIN P : \A x \in Pairs(P[p]) : x \in Pairs(P[q]) => p = q
    /\ \A p \in DOMAIN P : \A x \in Pairs(P[p]) : x \notin W

\* Above the leaves an entry is for a page of the level below,
Down(P, r, K, X) ==
    \A x \in K : x[1] # 0 =>
        /\ x[2].id \in DOMAIN P /\ x[2].id # r /\ P[x[2].id].m_level = x[1] - 1
        /\ x[2].id \notin X => P[x[2].id].m_nodeMBR = x[2].mbr

\* and every page but the root has one.
Held(P, r, K) == \A p \in DOMAIN P : p # r => \E x \in K : x[1] = P[p].m_level + 1 /\ x[2].id = p

Forest(P, r, W, X, tight) ==
    /\ Paged(P, r) /\ Sound(P, r, tight) /\ W \in SUBSET PairT
    /\ OneId(Kept(P, W)) /\ OneHolder(P, W)
    /\ Down(P, r, Kept(P, W), X) /\ Held(P, r, Kept(P, W))

\* Writing a page sets it
LEMMA StoredIs ==
    ASSUME NEW P, NEW q
    PROVE  /\ DOMAIN Stored(P, q) = DOMAIN P \cup {q.m_identifier}
           /\ Stored(P, q)[q.m_identifier] = q
  BY DEF Stored

\* and no other.
LEMMA StoredOther ==
    ASSUME NEW P, NEW q, NEW p \in DOMAIN P, p # q.m_identifier
    PROVE  Stored(P, q)[p] = P[p]
  BY DEF Stored

\* Storing a page sets that page and leaves the others.
StoresOnly(P, q) ==
    /\ DOMAIN Stored(P, q) = DOMAIN P \cup {q.m_identifier}
    /\ Stored(P, q)[q.m_identifier] = q
    /\ \A o \in DOMAIN P : o # q.m_identifier => Stored(P, q)[o] = P[o]

\* Both at once.
LEMMA StoredOnly ==
    ASSUME NEW P, NEW q
    PROVE  StoresOnly(P, q)
<1>1. /\ DOMAIN Stored(P, q) = DOMAIN P \cup {q.m_identifier}
      /\ Stored(P, q)[q.m_identifier] = q
  BY StoredIs
<1>2. \A o \in DOMAIN P : o # q.m_identifier => Stored(P, q)[o] = P[o]
  BY StoredOther
<1> QED
  BY <1>1, <1>2 DEF StoresOnly

\* The entries of a page, with its level.
LEMMA PairsAre ==
    ASSUME NEW n, NEW p, NEW tight, NodeOk(n, p, tight)
    PROVE  /\ Pairs(n) \in SUBSET PairT
           /\ \A x \in Pairs(n) : x[1] = n.m_level /\ x[2] \in ToSet(n.entries) /\ x = <<n.m_level, x[2]>>
           /\ \A e \in ToSet(n.entries) : <<n.m_level, e>> \in Pairs(n)
           /\ n.m_level \in Nat /\ n.m_nodeMBR \in AnyRegion
<1>1. n.m_level \in Nat /\ n.m_nodeMBR \in AnyRegion /\ Shapely(n.entries)
  BY DEF NodeOk, NodeT
<1>2. \A e \in ToSet(n.entries) : e \in EntryT /\ NonEmpty(e.mbr)
  BY <1>1, ShapelyIs
<1> QED
  BY <1>1, <1>2 DEF Pairs, PairT

\* What the pages keep and what waits, together.
LEMMA KeptIs ==
    ASSUME NEW P, NEW W, NEW x
    PROVE  x \in Kept(P, W) <=> x \in W \/ \E p \in DOMAIN P : x \in Pairs(P[p])
<1> DEFINE U == UNION {Pairs(P[p]) : p \in DOMAIN P}
<1>1. x \in U <=> \E p \in DOMAIN P : x \in Pairs(P[p])
  OBVIOUS
<1>2. x \in Kept(P, W) <=> x \in U \/ x \in W
  BY DEF Kept
<1> HIDE DEF U
<1> QED
  BY <1>1, <1>2

\* In a forest all of them are pairs of a level and an entry.
LEMMA KeptAre ==
    ASSUME NEW P, NEW r, NEW W, NEW X, NEW tight, Forest(P, r, W, X, tight)
    PROVE  /\ Kept(P, W) \in SUBSET PairT
           /\ \A p \in DOMAIN P : Pairs(P[p]) \in SUBSET Kept(P, W)
           /\ W \in SUBSET Kept(P, W)
           /\ \A x \in Kept(P, W) : x \in W \/ \E p \in DOMAIN P : x \in Pairs(P[p])
<1>1. \A p \in DOMAIN P : Pairs(P[p]) \in SUBSET PairT
  BY PairsAre DEF Forest, Sound
<1>2. W \in SUBSET PairT
  BY DEF Forest
<1> QED
  <2>1. \A x : x \in Kept(P, W) <=> x \in W \/ \E p \in DOMAIN P : x \in Pairs(P[p])
    BY KeptIs
  <2> QED
    BY <1>1, <1>2, <2>1

\* What is kept when a page is written.
LEMMA KeptStored ==
    ASSUME NEW P, NEW q, NEW W
    PROVE  \A x : x \in Kept(Stored(P, q), W) <=>
              \/ x \in W \/ x \in Pairs(q) \/ \E p \in DOMAIN P : p # q.m_identifier /\ x \in Pairs(P[p])
<1> SUFFICES ASSUME NEW x
             PROVE x \in Kept(Stored(P, q), W) <=>
                      \/ x \in W \/ x \in Pairs(q) \/ \E p \in DOMAIN P : p # q.m_identifier /\ x \in Pairs(P[p])
  OBVIOUS
<1>1. x \in Kept(Stored(P, q), W) <=> x \in W \/ \E p \in DOMAIN Stored(P, q) : x \in Pairs(Stored(P, q)[p])
  BY KeptIs
<1>2. /\ DOMAIN Stored(P, q) = DOMAIN P \cup {q.m_identifier}
      /\ Stored(P, q)[q.m_identifier] = q
      /\ \A p \in DOMAIN P : p # q.m_identifier => Stored(P, q)[p] = P[p]
  <2>1. StoresOnly(P, q)
    BY StoredOnly
  <2> QED
    BY <2>1 DEF StoresOnly
<1> QED
  BY <1>1, <1>2

Exchanged(P, r, q, W, W2, X2, tight) ==
    Forest(Stored(P, q), r, W2, X2, tight) /\ Kept(Stored(P, q), W2) = Kept(P, W)

\* A node is written with other entries: what it had or waited is there or waits now.
LEMMA Exchange ==
    ASSUME NEW P, NEW r, NEW W, NEW X, NEW tight, Forest(P, r, W, X, tight),
           NEW q, NEW p \in DOMAIN P, NodeOk(q, p, tight),
           p # r => q.m_level = P[p].m_level,
           p = r => \A o \in DOMAIN P : o # r => P[o].m_level <= q.m_level,
           NEW W2, Pairs(q) \cup W2 = Pairs(P[p]) \cup W, Pairs(q) \cap W2 = {},
           NEW X2, X \in SUBSET X2, q.m_nodeMBR = P[p].m_nodeMBR \/ p \in X2 \/ p = r
    PROVE  Exchanged(P, r, q, W, W2, X2, tight)
<1> DEFINE P2 == Stored(P, q)
<1> DEFINE K == Kept(P, W)
<1>1. /\ Paged(P, r) /\ Sound(P, r, tight) /\ W \in SUBSET PairT
      /\ OneId(K) /\ OneHolder(P, W) /\ Down(P, r, K, X) /\ Held(P, r, K)
  BY DEF Forest
<1>2. q.m_identifier = p
  BY DEF NodeOk
<1>3. DOMAIN P2 = DOMAIN P /\ P2[p] = q /\ \A o \in DOMAIN P : o # p => P2[o] = P[o]
  <2>1. /\ DOMAIN Stored(P, q) = DOMAIN P \cup {q.m_identifier}
        /\ Stored(P, q)[q.m_identifier] = q
        /\ \A o \in DOMAIN P : o # q.m_identifier => Stored(P, q)[o] = P[o]
    <3>1. StoresOnly(P, q)
      BY StoredOnly
    <3> QED
      BY <3>1 DEF StoresOnly
  <2> QED
    BY <1>2, <2>1
<1>4. Kept(P2, W2) = K
  <2>1. \A x : x \in Kept(P2, W2) <=> x \in W2 \/ x \in Pairs(q) \/ \E o \in DOMAIN P : o # p /\ x \in Pairs(P[o])
    BY <1>2, KeptStored
  <2>2. \A x : x \in K <=> x \in W \/ x \in Pairs(P[p]) \/ \E o \in DOMAIN P : o # p /\ x \in Pairs(P[o])
    BY KeptIs
  <2>3. \A x : x \in W2 \/ x \in Pairs(q) <=> x \in W \/ x \in Pairs(P[p])
    OBVIOUS
  <2> QED
    BY <2>1, <2>2, <2>3
<1> HIDE DEF P2, K
<1>5. Paged(P2, r)
  BY <1>1, <1>3 DEF Paged
<1>6. Sound(P2, r, tight)
  <2> SUFFICES ASSUME NEW o \in DOMAIN P PROVE NodeOk(P2[o], o, tight) /\ P2[o].m_level <= P2[r].m_level
    BY <1>3 DEF Sound
  <2>1. NodeOk(P[o], o, tight) /\ P[o].m_level <= P[r].m_level /\ r \in DOMAIN P /\ P[p].m_level <= P[r].m_level
    BY <1>1 DEF Sound, Paged
  <2>2. P[o].m_level \in Nat /\ q.m_level \in Nat
    BY <2>1, PairsAre
  <2> QED
    BY <1>3, <2>1, <2>2
<1>7. W2 \in SUBSET PairT
  <2>1. Pairs(P[p]) \in SUBSET PairT
    BY <1>1, PairsAre DEF Sound
  <2> QED
    BY <1>1, <2>1
<1>8. OneHolder(P2, W2)
  <2>1. ASSUME NEW o \in DOMAIN P, o # p, NEW x \in Pairs(P[o]) PROVE x \notin Pairs(P[p]) /\ x \notin W
    BY <1>1, <2>1 DEF OneHolder
  <2>2. ASSUME NEW o \in DOMAIN P, o # p, NEW x \in Pairs(P[o]) PROVE x \notin Pairs(q) /\ x \notin W2
    BY <2>1, <2>2
  <2>3. ASSUME NEW a \in DOMAIN P, NEW b \in DOMAIN P, NEW x \in Pairs(P2[a]), x \in Pairs(P2[b]) PROVE a = b
    <3>1. CASE a = p /\ b # p
      BY <1>3, <2>2, <2>3, <3>1
    <3>2. CASE b = p /\ a # p
      BY <1>3, <2>2, <2>3, <3>2
    <3>3. CASE b # p /\ a # p
      <4>1. P2[a] = P[a] /\ P2[b] = P[b]
        BY <1>3, <3>3
      <4>2. x \in Pairs(P[a]) /\ x \in Pairs(P[b])
        BY <2>3, <4>1
      <4> QED
        BY <1>1, <4>2 DEF OneHolder
    <3> QED
      BY <3>1, <3>2, <3>3
  <2>4. ASSUME NEW a \in DOMAIN P, NEW x \in Pairs(P2[a]) PROVE x \notin W2
    <3>1. CASE a = p
      BY <1>3, <2>4, <3>1
    <3>2. CASE a # p
      BY <1>3, <2>2, <2>4, <3>2
    <3> QED
      BY <3>1, <3>2
  <2> QED
    BY <1>3, <2>3, <2>4 DEF OneHolder
<1>9. Down(P2, r, K, X2)
  <2> SUFFICES ASSUME NEW x \in K, x[1] # 0
               PROVE  /\ x[2].id \in DOMAIN P2 /\ x[2].id # r /\ P2[x[2].id].m_level = x[1] - 1
                      /\ x[2].id \notin X2 => P2[x[2].id].m_nodeMBR = x[2].mbr
    BY DEF Down
  <2>1. /\ x[2].id \in DOMAIN P /\ x[2].id # r /\ P[x[2].id].m_level = x[1] - 1
        /\ x[2].id \notin X => P[x[2].id].m_nodeMBR = x[2].mbr
    BY <1>1 DEF Down
  <2>2. CASE x[2].id = p
    BY <1>3, <2>1, <2>2
  <2>3. CASE x[2].id # p
    BY <1>3, <2>1, <2>3
  <2> QED
    BY <2>2, <2>3
<1>10. Held(P2, r, K)
  <2> SUFFICES ASSUME NEW o \in DOMAIN P, o # r PROVE \E x \in K : x[1] = P2[o].m_level + 1 /\ x[2].id = o
    BY <1>3 DEF Held
  <2>1. PICK x \in K : x[1] = P[o].m_level + 1 /\ x[2].id = o
    BY <1>1 DEF Held
  <2>2. P2[o].m_level = P[o].m_level
    BY <1>3
  <2> QED
    BY <2>1, <2>2
<1>11. Forest(P2, r, W2, X2, tight)
  BY <1>1, <1>4, <1>5, <1>6, <1>7, <1>8, <1>9, <1>10 DEF Forest
<1> QED
  BY <1>4, <1>11 DEF P2, K, Exchanged


\* A node is written in which one entry has the bounds that its page has now.
LEMMA Rebind ==
    ASSUME NEW P, NEW r, NEW W, NEW X, NEW tight, Forest(P, r, W, X, tight),
           NEW q, NEW p \in DOMAIN P, NodeOk(q, p, tight),
           q.m_level = P[p].m_level, q.m_level # 0,
           NEW e \in ToSet(P[p].entries), NEW f, f = Entry(P[e.id].m_nodeMBR, e.id),
           ToSet(q.entries) = (ToSet(P[p].entries) \ {e}) \cup {f},
           NEW X2, X \ {e.id} \in SUBSET X2, q.m_nodeMBR = P[p].m_nodeMBR \/ p \in X2 \/ p = r
    PROVE  /\ Forest(Stored(P, q), r, W, X2, tight)
           /\ \A x : x[1] = 0 => (x \in Kept(Stored(P, q), W) <=> x \in Kept(P, W))
<1> DEFINE P2 == Stored(P, q)
<1> DEFINE K == Kept(P, W)
<1> DEFINE K2 == Kept(P2, W)
<1> DEFINE l == q.m_level
<1> DEFINE old == <<l, e>>
<1> DEFINE new == <<l, f>>
<1>1. /\ Paged(P, r) /\ Sound(P, r, tight) /\ W \in SUBSET PairT
      /\ OneId(K) /\ OneHolder(P, W) /\ Down(P, r, K, X) /\ Held(P, r, K)
  BY DEF Forest
<1>2. q.m_identifier = p
  BY DEF NodeOk
<1>3. DOMAIN P2 = DOMAIN P /\ P2[p] = q /\ \A o \in DOMAIN P : o # p => P2[o] = P[o]
  <2>1. /\ DOMAIN Stored(P, q) = DOMAIN P \cup {q.m_identifier}
        /\ Stored(P, q)[q.m_identifier] = q
        /\ \A o \in DOMAIN P : o # q.m_identifier => Stored(P, q)[o] = P[o]
    <3>1. StoresOnly(P, q)
      BY StoredOnly
    <3> QED
      BY <3>1 DEF StoresOnly
  <2> QED
    BY <1>2, <2>1
<1>4. /\ old \in Pairs(P[p]) /\ new \in Pairs(q)
      /\ \A x : x \in Pairs(q) <=> (x \in Pairs(P[p]) /\ x # old) \/ x = new
  <2>1. /\ \A x \in Pairs(P[p]) : x[2] \in ToSet(P[p].entries) /\ x = <<l, x[2]>>
        /\ \A a \in ToSet(P[p].entries) : <<l, a>> \in Pairs(P[p])
    BY <1>1, PairsAre DEF Sound
  <2>2. /\ \A x \in Pairs(q) : x[2] \in ToSet(q.entries) /\ x = <<l, x[2]>>
        /\ \A a \in ToSet(q.entries) : <<l, a>> \in Pairs(q)
    BY PairsAre
  <2>3. \A a : a # e => <<l, a>> # old
    OBVIOUS
  <2>4. ASSUME NEW x \in Pairs(q) PROVE (x \in Pairs(P[p]) /\ x # old) \/ x = new
    <3>1. x[2] \in ToSet(q.entries) /\ x = <<l, x[2]>>
      BY <2>2
    <3>2. CASE x[2] = f
      BY <3>1, <3>2
    <3>3. CASE x[2] # f
      <4>1. x[2] \in ToSet(P[p].entries) /\ x[2] # e
        BY <3>1, <3>3
      <4> QED
        BY <2>1, <2>3, <3>1, <4>1
    <3> QED
      BY <3>2, <3>3
  <2>5. ASSUME NEW x \in Pairs(P[p]), x # old PROVE x \in Pairs(q)
    <3>1. x[2] \in ToSet(P[p].entries) /\ x = <<l, x[2]>>
      BY <2>1
    <3>2. x[2] # e
      BY <2>5, <3>1
    <3>3. x[2] \in ToSet(q.entries)
      BY <3>1, <3>2
    <3> QED
      BY <2>2, <3>1, <3>3
  <2>6. old \in Pairs(P[p]) /\ new \in Pairs(q)
    BY <2>1, <2>2
  <2> HIDE DEF old, new
  <2> QED
    BY <2>4, <2>5, <2>6
<1>5. old \in K /\ old \notin W
  <2>1. old \in K
    BY <1>4, KeptIs
  <2>2. old \notin W
    BY <1>1, <1>4 DEF OneHolder
  <2> QED
    BY <2>1, <2>2
<1>6. old[1] = l /\ old[2] = e /\ new[1] = l /\ new[2] = f /\ f.id = e.id /\ f.mbr = P[e.id].m_nodeMBR
  BY DEF Entry
<1>7. /\ e.id \in DOMAIN P /\ e.id # r /\ P[e.id].m_level = l - 1 /\ l \in Nat
  <2>1. l \in Nat
    BY PairsAre
  <2> QED
    BY <1>1, <1>5, <1>6, <2>1 DEF Down
<1>8. e.id # p
  BY <1>7
<1> HIDE DEF P2, K, K2, old, new
<1>9. ASSUME NEW o \in DOMAIN P, o # p PROVE old \notin Pairs(P[o])
  BY <1>1, <1>4, <1>9 DEF OneHolder
<1>10. ASSUME NEW x \in K, x # old PROVE x # new
  <2>1. x = new => x[1] = old[1] /\ x[2].id = old[2].id
    BY <1>6
  <2> QED
    BY <1>1, <1>5, <1>10, <2>1 DEF OneId
<1>11. \A x : x \in K2 <=> (x \in K /\ x # old) \/ x = new
  <2>1. \A x : x \in K2 <=> x \in W \/ x \in Pairs(q) \/ \E o \in DOMAIN P : o # p /\ x \in Pairs(P[o])
    BY <1>2, KeptStored DEF K2, P2
  <2>2. \A x : x \in K <=> x \in W \/ x \in Pairs(P[p]) \/ \E o \in DOMAIN P : o # p /\ x \in Pairs(P[o])
    BY KeptIs DEF K
  <2> QED
    BY <1>4, <1>5, <1>9, <2>1, <2>2
<1>12. OneId(K2)
  <2> SUFFICES ASSUME NEW x \in K2, NEW y \in K2, x[1] = y[1], x[2].id = y[2].id PROVE x = y
    BY DEF OneId
  <2>1. ASSUME NEW z \in K, z # old, z[1] = l, z[2].id = f.id PROVE FALSE
    BY <1>1, <1>5, <1>6, <2>1 DEF OneId
  <2>2. CASE x = new /\ y # new
    <3>1. y \in K /\ y # old
      BY <1>11, <2>2
    <3> QED
      BY <1>6, <2>1, <2>2, <3>1
  <2>3. CASE y = new /\ x # new
    <3>1. x \in K /\ x # old
      BY <1>11, <2>3
    <3> QED
      BY <1>6, <2>1, <2>3, <3>1
  <2>4. CASE x # new /\ y # new
    BY <1>1, <1>11, <2>4 DEF OneId
  <2> QED
    BY <2>2, <2>3, <2>4
<1>13. Paged(P2, r)
  BY <1>1, <1>3 DEF Paged
<1>14. Sound(P2, r, tight)
  <2> SUFFICES ASSUME NEW o \in DOMAIN P PROVE NodeOk(P2[o], o, tight) /\ P2[o].m_level <= P2[r].m_level
    BY <1>3 DEF Sound
  <2>1. NodeOk(P[o], o, tight) /\ P[o].m_level <= P[r].m_level /\ r \in DOMAIN P
    BY <1>1 DEF Sound, Paged
  <2>2. P2[o].m_level = P[o].m_level /\ P2[r].m_level = P[r].m_level
    BY <1>3, <2>1
  <2> QED
    BY <1>3, <2>1, <2>2
<1>15. OneHolder(P2, W)
  <2>1. ASSUME NEW o \in DOMAIN P, o # p, NEW x \in Pairs(P[o]) PROVE x \notin Pairs(q) /\ x \notin W
    <3>1. x \notin Pairs(P[p]) /\ x \notin W
      BY <1>1, <2>1 DEF OneHolder
    <3>2. x # old /\ x \in K
      BY <1>9, <2>1, KeptIs DEF K
    <3>3. x # new
      BY <1>10, <3>2
    <3> QED
      BY <1>4, <3>1, <3>3
  <2>2. ASSUME NEW x \in Pairs(q) PROVE x \notin W
    <3>1. CASE x = new
      <4>1. x \in W => x \in K /\ x # old
        BY <1>5, KeptIs DEF K
      <4> QED
        BY <1>10, <3>1, <4>1
    <3>2. CASE x # new
      BY <1>1, <1>4, <2>2, <3>2 DEF OneHolder
    <3> QED
      BY <3>1, <3>2
  <2>3. ASSUME NEW a \in DOMAIN P, NEW b \in DOMAIN P, NEW x \in Pairs(P2[a]), x \in Pairs(P2[b]) PROVE a = b
    <3>1. CASE a = p /\ b # p
      BY <1>3, <2>1, <2>3, <3>1
    <3>2. CASE b = p /\ a # p
      BY <1>3, <2>1, <2>3, <3>2
    <3>3. CASE b # p /\ a # p
      <4>1. P2[a] = P[a] /\ P2[b] = P[b]
        BY <1>3, <3>3
      <4>2. x \in Pairs(P[a]) /\ x \in Pairs(P[b])
        BY <2>3, <4>1
      <4> QED
        BY <1>1, <4>2 DEF OneHolder
    <3> QED
      BY <3>1, <3>2, <3>3
  <2>4. ASSUME NEW a \in DOMAIN P, NEW x \in Pairs(P2[a]) PROVE x \notin W
    <3>1. CASE a = p
      BY <1>3, <2>2, <2>4, <3>1
    <3>2. CASE a # p
      BY <1>3, <2>1, <2>4, <3>2
    <3> QED
      BY <3>1, <3>2
  <2> QED
    BY <1>3, <2>3, <2>4 DEF OneHolder
<1>16. Down(P2, r, K2, X2)
  <2> SUFFICES ASSUME NEW x \in K2, x[1] # 0
               PROVE  /\ x[2].id \in DOMAIN P2 /\ x[2].id # r /\ P2[x[2].id].m_level = x[1] - 1
                      /\ x[2].id \notin X2 => P2[x[2].id].m_nodeMBR = x[2].mbr
    BY DEF Down
  <2>1. CASE x = new
    BY <1>3, <1>6, <1>7, <1>8, <2>1
  <2>2. CASE x # new
    <3>1. x \in K /\ x # old
      BY <1>11, <2>2
    <3>2. /\ x[2].id \in DOMAIN P /\ x[2].id # r /\ P[x[2].id].m_level = x[1] - 1
          /\ x[2].id \notin X => P[x[2].id].m_nodeMBR = x[2].mbr
      BY <1>1, <3>1 DEF Down
    <3>3. x[2].id # e.id
      <4>1. x[1] \in Nat /\ l \in Nat
        <5>1. x \in PairT
          BY <3>1, KeptAre DEF K
        <5> QED
          BY <1>7, <5>1 DEF PairT
      <4>2. x[2].id = e.id => x[1] = l
        BY <1>7, <3>2, <4>1
      <4> QED
        BY <1>1, <1>5, <1>6, <3>1, <4>2 DEF OneId
    <3>4. x[2].id \notin X2 => x[2].id \notin X
      BY <3>3
    <3>5. CASE x[2].id = p
      BY <1>3, <3>2, <3>4, <3>5
    <3>6. CASE x[2].id # p
      BY <1>3, <3>2, <3>4, <3>6
    <3> QED
      BY <3>5, <3>6
  <2> QED
    BY <2>1, <2>2
<1>17. Held(P2, r, K2)
  <2> SUFFICES ASSUME NEW o \in DOMAIN P, o # r PROVE \E x \in K2 : x[1] = P2[o].m_level + 1 /\ x[2].id = o
    BY <1>3 DEF Held
  <2>1. PICK x \in K : x[1] = P[o].m_level + 1 /\ x[2].id = o
    BY <1>1 DEF Held
  <2>2. P2[o].m_level = P[o].m_level
    BY <1>3
  <2>3. CASE x = old
    <3>1. new \in K2 /\ new[1] = old[1] /\ new[2].id = old[2].id
      BY <1>6, <1>11
    <3> QED
      BY <2>1, <2>2, <2>3, <3>1
  <2>4. CASE x # old
    BY <1>11, <2>1, <2>2, <2>4
  <2> QED
    BY <2>3, <2>4
<1>18. Forest(P2, r, W, X2, tight)
  BY <1>1, <1>12, <1>13, <1>14, <1>15, <1>16, <1>17 DEF Forest, K2
<1>19. \A x : x[1] = 0 => (x \in K2 <=> x \in K)
  BY <1>6, <1>11
<1> QED
  BY <1>18, <1>19 DEF P2, K, K2


NodeJoins(P, r, q, w, W, W2, X, tight) ==
    /\ Forest(Stored(P, q), r, W2, X, tight)
    /\ Kept(Stored(P, q), W2) = Kept(P, W) \cup {w} /\ w \notin Kept(P, W)

\* A new node gets entries that waited; an entry for it waits now.
LEMMA NewNode ==
    ASSUME NEW P, NEW r, NEW W, NEW X, NEW tight, Forest(P, r, W, X, tight),
           NEW q, NEW p \in Nat, p \notin DOMAIN P, NodeOk(q, p, tight), q.m_level <= P[r].m_level,
           Pairs(q) \in SUBSET W, NonEmpty(q.m_nodeMBR),
           NEW w, w = <<q.m_level + 1, Entry(q.m_nodeMBR, p)>>,
           NEW W2, W2 = (W \ Pairs(q)) \cup {w}
    PROVE  NodeJoins(P, r, q, w, W, W2, X, tight)
<1> DEFINE P2 == Stored(P, q)
<1> DEFINE K == Kept(P, W)
<1> DEFINE K2 == Kept(P2, W2)
<1>1. /\ Paged(P, r) /\ Sound(P, r, tight) /\ W \in SUBSET PairT
      /\ OneId(K) /\ OneHolder(P, W) /\ Down(P, r, K, X) /\ Held(P, r, K)
  BY DEF Forest
<1>2. q.m_identifier = p
  BY DEF NodeOk
<1>3. DOMAIN P2 = DOMAIN P \cup {p} /\ P2[p] = q /\ \A o \in DOMAIN P : P2[o] = P[o] /\ o # p
  <2>1. /\ DOMAIN Stored(P, q) = DOMAIN P \cup {q.m_identifier}
        /\ Stored(P, q)[q.m_identifier] = q
        /\ \A o \in DOMAIN P : o # q.m_identifier => Stored(P, q)[o] = P[o]
    <3>1. StoresOnly(P, q)
      BY StoredOnly
    <3> QED
      BY <3>1 DEF StoresOnly
  <2> QED
    BY <1>2, <2>1
<1>4. /\ q.m_level \in Nat /\ Pairs(q) \in SUBSET PairT
  BY PairsAre
<1>5. w[1] = q.m_level + 1 /\ w[2].id = p /\ w[2].mbr = q.m_nodeMBR /\ w[1] # 0 /\ w[1] - 1 = q.m_level
  <2>1. w[1] = q.m_level + 1 /\ w[2] = Entry(q.m_nodeMBR, p)
    OBVIOUS
  <2> QED
    BY <1>4, <2>1 DEF Entry
<1>6. w \in PairT
  <2>1. Entry(q.m_nodeMBR, p) \in EntryT /\ NonEmpty(Entry(q.m_nodeMBR, p).mbr)
    BY PairsAre DEF Entry, EntryT
  <2>2. q.m_level + 1 \in Nat
    BY <1>4
  <2> QED
    BY <2>1, <2>2 DEF PairT
<1>7. \A x \in K : x[1] # 0 => x[2].id \in DOMAIN P
  BY <1>1 DEF Down
<1> HIDE DEF P2, K, K2
<1>8. \A x \in K : x[1] = w[1] => x[2].id # p
  BY <1>5, <1>7
<1>9. w \notin K
  BY <1>5, <1>8
<1>10. \A x : x \in K2 <=> x \in K \/ x = w
  <2>1. \A x : x \in K2 <=> x \in W2 \/ x \in Pairs(q) \/ \E o \in DOMAIN P : o # p /\ x \in Pairs(P[o])
    BY <1>2, KeptStored DEF K2, P2
  <2>2. \A x : x \in K <=> x \in W \/ \E o \in DOMAIN P : x \in Pairs(P[o])
    BY KeptIs DEF K
  <2>3. \A x : x \in W2 \/ x \in Pairs(q) <=> x \in W \/ x = w
    OBVIOUS
  <2> QED
    BY <1>3, <2>1, <2>2, <2>3
<1>11. K2 = K \cup {w}
  BY <1>10
<1>12. Paged(P2, r)
  <2>1. IsFiniteSet(DOMAIN P \cup {p})
    BY <1>1, FS_AddElement DEF Paged
  <2> QED
    BY <1>1, <1>3, <2>1 DEF Paged
<1>13. Sound(P2, r, tight)
  <2> SUFFICES ASSUME NEW o \in DOMAIN P2 PROVE NodeOk(P2[o], o, tight) /\ P2[o].m_level <= P2[r].m_level
    BY DEF Sound
  <2>1. r \in DOMAIN P /\ P2[r] = P[r]
    BY <1>1, <1>3 DEF Paged
  <2>2. CASE o = p
    BY <1>3, <2>1, <2>2
  <2>3. CASE o # p
    BY <1>1, <1>3, <2>1, <2>3 DEF Sound
  <2> QED
    BY <2>2, <2>3
<1>14. W2 \in SUBSET PairT
  BY <1>1, <1>6
<1>15. OneId(K2)
  <2> SUFFICES ASSUME NEW x \in K2, NEW y \in K2, x[1] = y[1], x[2].id = y[2].id PROVE x = y
    BY DEF OneId
  <2>1. CASE x = w /\ y # w
    BY <1>5, <1>8, <1>10, <2>1
  <2>2. CASE y = w /\ x # w
    BY <1>5, <1>8, <1>10, <2>2
  <2>3. CASE x # w /\ y # w
    BY <1>1, <1>10, <2>3 DEF OneId
  <2> QED
    BY <2>1, <2>2, <2>3
<1>16. OneHolder(P2, W2)
  <2>1. ASSUME NEW o \in DOMAIN P, NEW x \in Pairs(P[o]) PROVE x \notin Pairs(q) /\ x \notin W2
    <3>1. x \notin W
      BY <1>1, <2>1 DEF OneHolder
    <3>2. x # w
      BY <1>9, <2>1, KeptIs DEF K
    <3> QED
      BY <3>1, <3>2
  <2>2. ASSUME NEW x \in Pairs(q) PROVE x \notin W2
    <3>1. x # w
      BY <1>9, <2>2, KeptIs DEF K
    <3> QED
      BY <2>2, <3>1
  <2>3. ASSUME NEW a \in DOMAIN P2, NEW b \in DOMAIN P2, NEW x \in Pairs(P2[a]), x \in Pairs(P2[b]) PROVE a = b
    <3>1. CASE a = p /\ b # p
      <4>1. b \in DOMAIN P /\ P2[a] = q /\ P2[b] = P[b]
        BY <1>3, <3>1
      <4> QED
        BY <2>1, <2>3, <4>1
    <3>2. CASE b = p /\ a # p
      <4>1. a \in DOMAIN P /\ P2[b] = q /\ P2[a] = P[a]
        BY <1>3, <3>2
      <4> QED
        BY <2>1, <2>3, <4>1
    <3>3. CASE b # p /\ a # p
      <4>1. a \in DOMAIN P /\ b \in DOMAIN P /\ P2[a] = P[a] /\ P2[b] = P[b]
        BY <1>3, <3>3
      <4>2. x \in Pairs(P[a]) /\ x \in Pairs(P[b])
        BY <2>3, <4>1
      <4> QED
        BY <1>1, <4>1, <4>2 DEF OneHolder
    <3> QED
      BY <3>1, <3>2, <3>3
  <2>4. ASSUME NEW a \in DOMAIN P2, NEW x \in Pairs(P2[a]) PROVE x \notin W2
    <3>1. CASE a = p
      BY <1>3, <2>2, <2>4, <3>1
    <3>2. CASE a # p
      BY <1>3, <2>1, <2>4, <3>2
    <3> QED
      BY <3>1, <3>2
  <2> QED
    BY <2>3, <2>4 DEF OneHolder
<1>17. Down(P2, r, K2, X)
  <2> SUFFICES ASSUME NEW x \in K2, x[1] # 0
               PROVE  /\ x[2].id \in DOMAIN P2 /\ x[2].id # r /\ P2[x[2].id].m_level = x[1] - 1
                      /\ x[2].id \notin X => P2[x[2].id].m_nodeMBR = x[2].mbr
    BY DEF Down
  <2>1. CASE x = w
    <3>1. p # r
      BY <1>1 DEF Paged
    <3> QED
      BY <1>3, <1>5, <2>1, <3>1
  <2>2. CASE x # w
    <3>1. x \in K
      BY <1>10, <2>2
    <3>2. /\ x[2].id \in DOMAIN P /\ x[2].id # r /\ P[x[2].id].m_level = x[1] - 1
          /\ x[2].id \notin X => P[x[2].id].m_nodeMBR = x[2].mbr
      BY <1>1, <3>1 DEF Down
    <3> QED
      BY <1>3, <3>2
  <2> QED
    BY <2>1, <2>2
<1>18. Held(P2, r, K2)
  <2> SUFFICES ASSUME NEW o \in DOMAIN P2, o # r PROVE \E x \in K2 : x[1] = P2[o].m_level + 1 /\ x[2].id = o
    BY DEF Held
  <2>1. CASE o = p
    <3>1. w \in K2
      BY <1>10
    <3> QED
      BY <1>3, <1>5, <2>1, <3>1
  <2>2. CASE o # p
    <3>1. o \in DOMAIN P /\ P2[o] = P[o]
      BY <1>3, <2>2
    <3>2. PICK x \in K : x[1] = P[o].m_level + 1 /\ x[2].id = o
      BY <1>1, <3>1 DEF Held
    <3> QED
      BY <1>10, <3>1, <3>2
  <2> QED
    BY <2>1, <2>2
<1>19. Forest(P2, r, W2, X, tight)
  BY <1>12, <1>13, <1>14, <1>15, <1>16, <1>17, <1>18 DEF Forest, K2
<1> QED
  BY <1>9, <1>11, <1>19 DEF P2, K, K2, NodeJoins

\* A page for which an entry waits goes; what it had waits instead.
LEMMA PageGoes ==
    ASSUME NEW P, NEW r, NEW W, NEW X, NEW tight, Forest(P, r, W, X, tight),
           NEW p \in DOMAIN P, p # r, NEW w \in W, w[1] = P[p].m_level + 1, w[2].id = p,
           NEW P2, P2 = [o \in DOMAIN P \ {p} |-> P[o]],
           NEW W2, W2 = (W \ {w}) \cup Pairs(P[p])
    PROVE  Forest(P2, r, W2, X, tight) /\ Kept(P2, W2) = Kept(P, W) \ {w}
<1> DEFINE K == Kept(P, W)
<1> DEFINE K2 == Kept(P2, W2)
<1>1. /\ Paged(P, r) /\ Sound(P, r, tight) /\ W \in SUBSET PairT
      /\ OneId(K) /\ OneHolder(P, W) /\ Down(P, r, K, X) /\ Held(P, r, K)
  BY DEF Forest
<1>2. DOMAIN P2 = DOMAIN P \ {p} /\ \A o \in DOMAIN P : o # p => o \in DOMAIN P2 /\ P2[o] = P[o]
  OBVIOUS
<1>3. w \in K /\ \A o \in DOMAIN P : w \notin Pairs(P[o])
  <2>1. w \in K
    BY KeptIs
  <2> QED
    BY <1>1, <2>1 DEF OneHolder
<1>4. P[p].m_level \in Nat /\ Pairs(P[p]) \in SUBSET PairT
  BY <1>1, PairsAre DEF Sound
<1> HIDE DEF K, K2
<1>5. \A x : x \in K2 <=> x \in K /\ x # w
  <2>1. \A x : x \in K2 <=> x \in W2 \/ \E o \in DOMAIN P2 : x \in Pairs(P2[o])
    BY KeptIs DEF K2
  <2>2. \A x : x \in K <=> x \in W \/ \E o \in DOMAIN P : x \in Pairs(P[o])
    BY KeptIs DEF K
  <2>3. ASSUME NEW x \in K2 PROVE x \in K /\ x # w
    <3>1. CASE x \in W2
      BY <1>3, <2>2, <3>1
    <3>2. CASE \E o \in DOMAIN P2 : x \in Pairs(P2[o])
      BY <1>2, <1>3, <2>2, <3>2
    <3> QED
      BY <2>1, <2>3, <3>1, <3>2
  <2>4. ASSUME NEW x \in K, x # w PROVE x \in K2
    <3>1. CASE x \in W
      BY <2>1, <2>4, <3>1
    <3>2. CASE \E o \in DOMAIN P : x \in Pairs(P[o])
      <4>1. PICK o \in DOMAIN P : x \in Pairs(P[o])
        BY <3>2
      <4>2. CASE o = p
        BY <2>1, <4>1, <4>2
      <4>3. CASE o # p
        BY <1>2, <2>1, <4>1, <4>3
      <4> QED
        BY <4>2, <4>3
    <3> QED
      BY <2>2, <2>4, <3>1, <3>2
  <2> QED
    BY <2>3, <2>4
<1>6. K2 = K \ {w}
  BY <1>5
<1>7. Paged(P2, r)
  <2>1. IsFiniteSet(DOMAIN P \ {p})
    BY <1>1, FS_RemoveElement DEF Paged
  <2> QED
    BY <1>1, <1>2, <2>1 DEF Paged
<1>8. Sound(P2, r, tight)
  <2>1. r \in DOMAIN P /\ P2[r] = P[r]
    BY <1>1, <1>2 DEF Paged
  <2> QED
    BY <1>1, <1>2, <2>1 DEF Sound
<1>9. W2 \in SUBSET PairT
  BY <1>1, <1>4
<1>10. OneId(K2)
  BY <1>1, <1>5 DEF OneId
<1>11. OneHolder(P2, W2)
  <2>1. ASSUME NEW o \in DOMAIN P, o # p, NEW x \in Pairs(P[o]) PROVE x \notin W2
    BY <1>1, <2>1 DEF OneHolder
  <2>2. ASSUME NEW a \in DOMAIN P2, NEW b \in DOMAIN P2, NEW x \in Pairs(P2[a]), x \in Pairs(P2[b]) PROVE a = b
    <3>1. a \in DOMAIN P /\ b \in DOMAIN P /\ P2[a] = P[a] /\ P2[b] = P[b]
      BY <1>2
    <3>2. x \in Pairs(P[a]) /\ x \in Pairs(P[b])
      BY <2>2, <3>1
    <3> QED
      BY <1>1, <3>1, <3>2 DEF OneHolder
  <2>3. ASSUME NEW a \in DOMAIN P2, NEW x \in Pairs(P2[a]) PROVE x \notin W2
    <3>1. a \in DOMAIN P /\ a # p /\ P2[a] = P[a]
      BY <1>2
    <3> QED
      BY <2>1, <2>3, <3>1
  <2> QED
    BY <2>2, <2>3 DEF OneHolder
<1>12. Down(P2, r, K2, X)
  <2> SUFFICES ASSUME NEW x \in K2, x[1] # 0
               PROVE  /\ x[2].id \in DOMAIN P2 /\ x[2].id # r /\ P2[x[2].id].m_level = x[1] - 1
                      /\ x[2].id \notin X => P2[x[2].id].m_nodeMBR = x[2].mbr
    BY DEF Down
  <2>1. x \in K /\ x # w
    BY <1>5
  <2>2. /\ x[2].id \in DOMAIN P /\ x[2].id # r /\ P[x[2].id].m_level = x[1] - 1
        /\ x[2].id \notin X => P[x[2].id].m_nodeMBR = x[2].mbr
    BY <1>1, <2>1 DEF Down
  <2>3. x[2].id # p
    <3>1. x[1] \in Nat
      BY <2>1, KeptAre DEF K, PairT
    <3>2. x[2].id = p => x[1] = w[1] /\ x[2].id = w[2].id
      BY <1>4, <2>2, <3>1
    <3> QED
      BY <1>1, <1>3, <2>1, <3>2 DEF OneId
  <2> QED
    BY <1>2, <2>2, <2>3
<1>13. Held(P2, r, K2)
  <2> SUFFICES ASSUME NEW o \in DOMAIN P2, o # r PROVE \E x \in K2 : x[1] = P2[o].m_level + 1 /\ x[2].id = o
    BY DEF Held
  <2>1. o \in DOMAIN P /\ o # p /\ P2[o] = P[o]
    BY <1>2
  <2>2. PICK x \in K : x[1] = P[o].m_level + 1 /\ x[2].id = o
    BY <1>1, <2>1 DEF Held
  <2>3. x # w
    BY <2>1, <2>2
  <2> QED
    BY <1>5, <2>1, <2>2, <2>3
<1>14. Forest(P2, r, W2, X, tight)
  BY <1>7, <1>8, <1>9, <1>10, <1>11, <1>12, <1>13 DEF Forest, K2
<1> QED
  BY <1>6, <1>14 DEF K, K2


\* A node built of different entries.
LEMMA NodeIs ==
    ASSUME NEW id \in Int, NEW level \in Nat, NEW es, Shapely(es), Distinct(es), NEW tight
    PROVE  /\ NodeOk(Node(id, level, es), id, tight)
           /\ Node(id, level, es).m_level = level /\ Node(id, level, es).entries = es
           /\ Node(id, level, es).m_identifier = id /\ Node(id, level, es).m_nodeMBR = Around(es)
           /\ es # <<>> => NonEmpty(Around(es))
<1> DEFINE n == Node(id, level, es)
<1> DEFINE a == Around(es)
<1>1. n = [m_identifier |-> id, m_level |-> level, m_nodeMBR |-> a, entries |-> es]
  BY DEF Node
<1>2. a \in AnyRegion /\ (\A k \in DOMAIN es : containsRegion(a, es[k].mbr)) /\ (es # <<>> => NonEmpty(a))
  BY AroundShapely
<1>3. es \in Seq(EntryT)
  BY DEF Shapely
<1>4. es = <<>> => a = makeInfinite
  BY AroundEmpty
<1> HIDE DEF n, a
<1>5. n.m_level = level /\ n.entries = es /\ n.m_identifier = id /\ n.m_nodeMBR = a
  BY <1>1
<1>6. n \in NodeT
  BY <1>1, <1>2, <1>3 DEF NodeT
<1>7. \A e \in ToSet(es) : containsRegion(a, e.mbr)
  BY <1>2 DEF ToSet
<1>8. NodeOk(n, id, tight)
  BY <1>2, <1>4, <1>5, <1>6, <1>7 DEF NodeOk, a
<1> QED
  BY <1>2, <1>5, <1>8 DEF n, a

\* insertEntry appends the entry and widens the region.
LEMMA InsertEntryIs ==
    ASSUME NEW n, NEW p, NEW tight, NodeOk(n, p, tight),
           NEW e \in EntryT, NonEmpty(e.mbr), \A x \in ToSet(n.entries) : x.id # e.id
    PROVE  LET q == insertEntry(n, e)
           IN  /\ NodeOk(q, p, tight) /\ q.m_level = n.m_level /\ q.entries = Append(n.entries, e)
               /\ Pairs(q) = Pairs(n) \cup {<<n.m_level, e>>}
               /\ Len(q.entries) = Len(n.entries) + 1
               /\ NonEmpty(q.m_nodeMBR)
               /\ containsRegion(n.m_nodeMBR, e.mbr) => q.m_nodeMBR = n.m_nodeMBR
<1> DEFINE q == insertEntry(n, e)
<1> DEFINE es == Append(n.entries, e)
<1> DEFINE b == getCombinedRegion(n.m_nodeMBR, e.mbr)
<1>1. q = [n EXCEPT !.entries = es, !.m_nodeMBR = b]
  BY DEF insertEntry
<1>2. /\ n \in NodeT /\ n.m_identifier = p /\ Shapely(n.entries) /\ Distinct(n.entries)
      /\ \A x \in ToSet(n.entries) : containsRegion(n.m_nodeMBR, x.mbr)
      /\ IF n.entries = <<>> THEN n.m_nodeMBR = makeInfinite ELSE NonEmpty(n.m_nodeMBR)
      /\ tight => n.m_nodeMBR = Around(n.entries)
  BY DEF NodeOk
<1>3. /\ n.m_nodeMBR \in AnyRegion /\ e.mbr \in AnyRegion
  BY <1>2 DEF NodeT, EntryT
<1>4. /\ Shapely(es) /\ Len(es) = Len(n.entries) + 1 /\ ToSet(es) = ToSet(n.entries) \cup {e}
      /\ DOMAIN es = 1 .. Len(n.entries) + 1 /\ \A k \in 1 .. Len(n.entries) : es[k] = n.entries[k]
      /\ es[Len(n.entries) + 1] = e
  BY <1>2, AppendShapely
<1>5. /\ b \in AnyRegion /\ containsRegion(b, n.m_nodeMBR) /\ containsRegion(b, e.mbr)
      /\ NonEmpty(n.m_nodeMBR) => NonEmpty(b)
      /\ NonEmpty(getCombinedRegion(makeInfinite, e.mbr))
      /\ containsRegion(n.m_nodeMBR, e.mbr) => b = n.m_nodeMBR
  BY <1>3, CombinedIs
<1>6. NonEmpty(b)
  BY <1>2, <1>5
<1>7. tight => b = Around(es)
  BY <1>2, AroundAppend
<1> HIDE DEF q, es, b
<1>8. /\ q.entries = es /\ q.m_nodeMBR = b /\ q.m_level = n.m_level /\ q.m_identifier = n.m_identifier
  BY <1>1, <1>2 DEF NodeT
<1>9. q \in NodeT
  BY <1>1, <1>2, <1>4, <1>5 DEF NodeT, Shapely
<1>10. Distinct(es)
  <2>1. /\ DOMAIN n.entries = 1 .. Len(n.entries) /\ Len(n.entries) \in Nat
    BY <1>2, ShapelyIs
  <2>2. \A k \in 1 .. Len(n.entries) : n.entries[k].id # e.id
    BY <2>1 DEF ToSet
  <2> SUFFICES ASSUME NEW j \in DOMAIN es, NEW k \in DOMAIN es, es[j].id = es[k].id PROVE j = k
    BY DEF Distinct
  <2>3. CASE j \in 1 .. Len(n.entries) /\ k \in 1 .. Len(n.entries)
    BY <1>2, <1>4, <2>1, <2>3 DEF Distinct
  <2>4. CASE j = Len(n.entries) + 1 /\ k \in 1 .. Len(n.entries)
    BY <1>4, <2>2, <2>4
  <2>5. CASE k = Len(n.entries) + 1 /\ j \in 1 .. Len(n.entries)
    BY <1>4, <2>2, <2>5
  <2>6. \A i \in DOMAIN es : i \in 1 .. Len(n.entries) \/ i = Len(n.entries) + 1
    BY <1>4, <2>1
  <2> QED
    BY <2>3, <2>4, <2>5, <2>6
<1>11. \A x \in ToSet(es) : containsRegion(b, x.mbr)
  <2>1. \A x \in ToSet(n.entries) : x.mbr \in AnyRegion
    BY <1>2, ShapelyIs
  <2>2. \A x \in ToSet(n.entries) : containsRegion(b, x.mbr)
    BY <1>2, <1>3, <1>5, <2>1, ContainsTransitive
  <2> QED
    BY <1>4, <1>5, <2>2
<1>12. es # <<>>
  <2>1. Len(n.entries) \in Nat
    BY <1>2, ShapelyIs
  <2>2. Len(es) # 0
    BY <1>4, <2>1
  <2> QED
    BY <2>2
<1>13. NodeOk(q, p, tight)
  BY <1>2, <1>4, <1>6, <1>7, <1>8, <1>9, <1>10, <1>11, <1>12 DEF NodeOk
<1>14. Pairs(q) = Pairs(n) \cup {<<n.m_level, e>>}
  <2>1. \A x \in ToSet(es) : x \in ToSet(n.entries) \/ x = e
    BY <1>4
  <2>2. ToSet(q.entries) = ToSet(n.entries) \cup {e} /\ q.m_level = n.m_level
    BY <1>4, <1>8
  <2> QED
    BY <2>2 DEF Pairs
<1> QED
  BY <1>4, <1>5, <1>6, <1>8, <1>13, <1>14 DEF q, es, b


Tight(t) == t.m_bTightMBRs /\ ~t.Far

\* The search for the child's entry in its parent finds the only one there is.
LEMMA EntryOfIs ==
    ASSUME NEW p, NEW c, Distinct(p.entries), NEW e \in ToSet(p.entries), e.id = c.m_identifier
    PROVE  /\ EntryOf(p, c) \in DOMAIN p.entries /\ p.entries[EntryOf(p, c)] = e
           /\ \A k \in DOMAIN p.entries : k # EntryOf(p, c) => p.entries[k].id # c.m_identifier
<1>1. PICK j \in DOMAIN p.entries : p.entries[j] = e
  BY DEF ToSet
<1>2. EntryOf(p, c) \in DOMAIN p.entries /\ p.entries[EntryOf(p, c)].id = c.m_identifier
  BY <1>1 DEF EntryOf
<1>3. \A k \in DOMAIN p.entries : p.entries[k].id = c.m_identifier => k = EntryOf(p, c)
  BY <1>2 DEF Distinct
<1> QED
  BY <1>1, <1>2, <1>3

\* The entries of a node with the bounds of its child c.
LEMMA WithBoundsIs ==
    ASSUME NEW p, Shapely(p.entries), Distinct(p.entries), NEW c, c.m_nodeMBR \in AnyRegion, NonEmpty(c.m_nodeMBR),
           NEW e \in ToSet(p.entries), e.id = c.m_identifier
    PROVE  LET es == WithBounds(p, c)
               f  == Entry(c.m_nodeMBR, e.id)
           IN  /\ Shapely(es) /\ Distinct(es) /\ Len(es) = Len(p.entries)
               /\ ToSet(es) = (ToSet(p.entries) \ {e}) \cup {f} /\ f \in ToSet(es)
<1> DEFINE es == WithBounds(p, c)
<1> DEFINE f == Entry(c.m_nodeMBR, e.id)
<1> DEFINE j == EntryOf(p, c)
<1>1. /\ j \in DOMAIN p.entries /\ p.entries[j] = e
      /\ \A k \in DOMAIN p.entries : k # j => p.entries[k].id # e.id
  BY EntryOfIs
<1>2. /\ p.entries \in Seq(EntryT) /\ Len(p.entries) \in Nat /\ DOMAIN p.entries = 1 .. Len(p.entries)
      /\ \A k \in DOMAIN p.entries : p.entries[k] \in EntryT /\ NonEmpty(p.entries[k].mbr)
  BY ShapelyIs
<1>3. f \in EntryT /\ NonEmpty(f.mbr) /\ f.id = e.id
  <2>1. e.id \in Int
    BY <1>1, <1>2 DEF EntryT
  <2> QED
    BY <2>1 DEF Entry, EntryT
<1>4. es = [k \in 1 .. Len(p.entries) |-> IF k = j THEN f ELSE p.entries[k]]
  BY <1>2 DEF WithBounds
<1> HIDE DEF es, f, j
<1>5. /\ DOMAIN es = 1 .. Len(p.entries) /\ es[j] = f
      /\ \A k \in DOMAIN p.entries : k # j => es[k] = p.entries[k]
  BY <1>1, <1>2, <1>4
<1>6. \A k \in 1 .. Len(p.entries) : es[k] \in EntryT /\ NonEmpty(es[k].mbr)
  BY <1>2, <1>3, <1>5
<1>7. es \in Seq(EntryT) /\ Len(es) = Len(p.entries)
  <2>1. es \in [1 .. Len(p.entries) -> EntryT]
    BY <1>4, <1>6
  <2> QED
    BY <1>2, <1>5, <2>1
<1>8. Shapely(es)
  BY <1>5, <1>6, <1>7 DEF Shapely
<1>9. \A k \in 1 .. Len(p.entries) : es[k].id = p.entries[k].id
  BY <1>1, <1>2, <1>3, <1>5
<1>10. Distinct(es)
  BY <1>2, <1>5, <1>9 DEF Distinct
<1>11. ToSet(es) = (ToSet(p.entries) \ {e}) \cup {f}
  <2>1. ASSUME NEW k \in DOMAIN es PROVE es[k] \in (ToSet(p.entries) \ {e}) \cup {f}
    <3>1. CASE k = j
      BY <1>5, <3>1
    <3>2. CASE k # j
      <4>1. es[k] = p.entries[k] /\ k \in DOMAIN p.entries /\ p.entries[k] # e
        BY <1>1, <1>2, <1>5, <3>2
      <4> QED
        BY <4>1 DEF ToSet
    <3> QED
      BY <3>1, <3>2
  <2>2. ASSUME NEW k \in DOMAIN p.entries, p.entries[k] # e PROVE p.entries[k] \in ToSet(es)
    <3>1. k # j /\ k \in DOMAIN es
      BY <1>1, <1>2, <1>5, <2>2
    <3> QED
      BY <1>5, <3>1 DEF ToSet
  <2>3. f \in ToSet(es)
    BY <1>1, <1>2, <1>5 DEF ToSet
  <2>4. \A x \in ToSet(es) : x \in (ToSet(p.entries) \ {e}) \cup {f}
    BY <2>1 DEF ToSet
  <2>5. \A x \in ToSet(p.entries) : x # e => x \in ToSet(es)
    BY <2>2 DEF ToSet
  <2> QED
    BY <2>3, <2>4, <2>5
<1>12. f \in ToSet(es)
  BY <1>11
<1> QED
  BY <1>7, <1>8, <1>10, <1>11, <1>12 DEF es, f

\* A parent gets the bounds of its child.
LEMMA AdjustedIs ==
    ASSUME NEW t, t.m_bTightMBRs \in BOOLEAN, t.Far \in BOOLEAN,
           NEW n, NEW p, NodeOk(n, p, Tight(t)), NEW c, c.m_nodeMBR \in AnyRegion, NonEmpty(c.m_nodeMBR),
           NEW e \in ToSet(n.entries), e.id = c.m_identifier
    PROVE  LET q == Adjusted(t, n, c)
               f == Entry(c.m_nodeMBR, e.id)
           IN  /\ NodeOk(q, p, Tight(t)) /\ q.m_level = n.m_level /\ Len(q.entries) = Len(n.entries)
               /\ ToSet(q.entries) = (ToSet(n.entries) \ {e}) \cup {f}
               /\ NonEmpty(q.m_nodeMBR)
               /\ Recomputes(t, n, c) \/ q.m_nodeMBR = n.m_nodeMBR
<1> DEFINE q == Adjusted(t, n, c)
<1> DEFINE f == Entry(c.m_nodeMBR, e.id)
<1> DEFINE es == WithBounds(n, c)
<1> DEFINE b == IF Recomputes(t, n, c) THEN Around(es) ELSE n.m_nodeMBR
<1>1. q = [n EXCEPT !.entries = es, !.m_nodeMBR = b]
  BY DEF Adjusted
<1>2. /\ n \in NodeT /\ n.m_identifier = p /\ Shapely(n.entries) /\ Distinct(n.entries)
      /\ \A x \in ToSet(n.entries) : containsRegion(n.m_nodeMBR, x.mbr)
      /\ IF n.entries = <<>> THEN n.m_nodeMBR = makeInfinite ELSE NonEmpty(n.m_nodeMBR)
      /\ Tight(t) => n.m_nodeMBR = Around(n.entries)
  BY DEF NodeOk
<1>3. /\ Shapely(es) /\ Distinct(es) /\ Len(es) = Len(n.entries)
      /\ ToSet(es) = (ToSet(n.entries) \ {e}) \cup {f} /\ f \in ToSet(es)
  BY <1>2, WithBoundsIs
<1>4. n.entries # <<>> /\ es # <<>>
  <2>1. \A s : s = <<>> => DOMAIN s = {}
    OBVIOUS
  <2>2. \A s : s = <<>> => ToSet(s) = {}
    BY <2>1 DEF ToSet
  <2> QED
    BY <1>3, <2>2
<1>5. /\ Around(es) \in AnyRegion /\ NonEmpty(Around(es))
      /\ \A x \in ToSet(es) : containsRegion(Around(es), x.mbr)
  BY <1>3, <1>4, AroundShapely DEF ToSet
<1>6. ~ Recomputes(t, n, c) => containsRegion(n.m_nodeMBR, c.m_nodeMBR)
  BY DEF Recomputes
<1>7. Tight(t) => Recomputes(t, n, c)
  BY DEF Tight, Recomputes, touchesRegion
<1>8. f.mbr = c.m_nodeMBR
  BY DEF Entry
<1>9. /\ b \in AnyRegion /\ NonEmpty(b) /\ \A x \in ToSet(es) : containsRegion(b, x.mbr)
      /\ Tight(t) => b = Around(es)
      /\ Recomputes(t, n, c) \/ b = n.m_nodeMBR
  <2>1. CASE Recomputes(t, n, c)
    <3>1. b = Around(es)
      BY <2>1
    <3> QED
      BY <1>5, <2>1, <3>1
  <2>2. CASE ~ Recomputes(t, n, c)
    <3>1. b = n.m_nodeMBR
      BY <2>2
    <3>2. n.m_nodeMBR \in AnyRegion
      BY <1>2 DEF NodeT
    <3>3. \A x \in ToSet(es) : containsRegion(b, x.mbr)
      <4> HIDE DEF b, es, f
      <4> QED
        BY <1>2, <1>3, <1>6, <1>8, <2>2, <3>1
    <3> QED
      BY <1>2, <1>4, <1>7, <2>2, <3>1, <3>2, <3>3
  <2> QED
    BY <2>1, <2>2
<1> HIDE DEF q, f, es, b
<1>10. /\ q.entries = es /\ q.m_nodeMBR = b /\ q.m_level = n.m_level /\ q.m_identifier = n.m_identifier
  BY <1>1, <1>2 DEF NodeT
<1>11. q \in NodeT
  BY <1>1, <1>2, <1>3, <1>9 DEF NodeT, Shapely
<1>12. NodeOk(q, p, Tight(t))
  BY <1>2, <1>3, <1>4, <1>9, <1>10, <1>11 DEF NodeOk
<1> QED
  BY <1>3, <1>9, <1>10, <1>12 DEF q, f, es


Fields == {"page", "m_rootID", "m_u32TreeHeight", "m_nodesInLevel", "m_u32Nodes", "m_u64Data",
           "overflowTable", "tableSize", "outside", "m_treeVariant", "m_capacity", "m_minimumLoad",
           "m_bTightMBRs", "m_nearMinimumOverlapFactor", "cReinsert", "nodeSPF", "Far"}

IsTree(t) == Fields \subseteq DOMAIN t

\* What an insertion leaves alone.
Same(t, u) ==
    /\ IsTree(u)
    /\ u.m_rootID = t.m_rootID /\ u.m_u64Data = t.m_u64Data /\ u.tableSize = t.tableSize
    /\ u.m_treeVariant = t.m_treeVariant /\ u.m_capacity = t.m_capacity
    /\ u.m_minimumLoad = t.m_minimumLoad /\ u.m_bTightMBRs = t.m_bTightMBRs
    /\ u.m_nearMinimumOverlapFactor = t.m_nearMinimumOverlapFactor
    /\ u.cReinsert = t.cReinsert /\ u.nodeSPF = t.nodeSPF /\ u.Far = t.Far
    /\ t.m_treeVariant # "RV_RSTAR" => u.outside = t.outside

\* Same, Alike, Quiet and Since below are transitive: an operation is a chain of steps.
LEMMA SameTwice ==
    ASSUME NEW t, NEW u, NEW v, Same(t, u), Same(u, v)
    PROVE  Same(t, v)
  BY DEF Same

\* The settings decide the bounds on a node's size.
LEMMA SameSizes ==
    ASSUME NEW t, NEW u, Same(t, u)
    PROVE  /\ Sized(t) => Sized(u)
           /\ \A l : Least(u, l) = Least(t, l)
           /\ \A l : /\ Of(u.m_capacity, l) = Of(t.m_capacity, l)
                     /\ Of(u.m_minimumLoad, l) = Of(t.m_minimumLoad, l)
           /\ Tight(u) = Tight(t)
  BY DEF Same, Sized, Least, Tight

OnLevel(P, l) == {p \in DOMAIN P : P[p].m_level = l}

\* The numbers of nodes.
Counts(t, P) ==
    /\ t.m_u32Nodes = Cardinality(DOMAIN P)
    /\ t.m_nodesInLevel \in Seq(Int)
    /\ Len(t.m_nodesInLevel) = P[t.m_rootID].m_level + 1
    /\ t.m_u32TreeHeight = P[t.m_rootID].m_level + 1
    /\ \A l \in 1 .. P[t.m_rootID].m_level + 1 : t.m_nodesInLevel[l] = Cardinality(OnLevel(P, l - 1))

\* writeNode of a page that has an identifier stores that page,
LEMMA WriteIs ==
    ASSUME NEW t, IsTree(t), NEW q, q.m_identifier # NewPage
    PROVE  LET u == writeNode(t, q)
           IN  /\ Same(t, u) /\ u.page = Stored(t.page, q)
               /\ u.m_u32TreeHeight = t.m_u32TreeHeight /\ u.m_nodesInLevel = t.m_nodesInLevel
               /\ u.m_u32Nodes = t.m_u32Nodes /\ u.overflowTable = t.overflowTable /\ u.outside = t.outside
<1>1. writeNode(t, q) = [t EXCEPT !.page = Stored(t.page, q)]
  BY DEF writeNode
<1> QED
  BY <1>1 DEF IsTree, Fields, Same

\* A new node is written.
Created(t, u, q) ==
    /\ Same(t, u) /\ u.page = Stored(t.page, q)
    /\ u.m_u32TreeHeight = t.m_u32TreeHeight
    /\ u.m_nodesInLevel = [t.m_nodesInLevel EXCEPT ![q.m_level + 1] = @ + 1]
    /\ u.m_u32Nodes = t.m_u32Nodes + 1
    /\ u.overflowTable = t.overflowTable /\ u.outside = t.outside

\* and of a new one takes an identifier that is not in use.
LEMMA WriteNewIs ==
    ASSUME NEW t, IsTree(t), NEW level, NEW es
    PROVE  Created(t, writeNode(t, Node(NewPage, level, es)), Node(Unused(t), level, es))
<1> DEFINE n == Node(NewPage, level, es)
<1> DEFINE m == [n EXCEPT !.m_identifier = Unused(t)]
<1>1. n.m_identifier = NewPage /\ n.m_level = level
  BY DEF Node
<1>2. m = Node(Unused(t), level, es)
  BY DEF Node
<1> HIDE DEF n, m
<1>3. writeNode(t, n) = [t EXCEPT !.page = Stored(t.page, m), !.m_u32Nodes = t.m_u32Nodes + 1,
                            !.m_nodesInLevel = [t.m_nodesInLevel EXCEPT ![level + 1] = @ + 1]]
  BY <1>1 DEF writeNode, m
<1> DEFINE u == writeNode(t, n)
<1>4. /\ Same(t, u) /\ u.page = Stored(t.page, m)
      /\ u.m_u32TreeHeight = t.m_u32TreeHeight
      /\ u.m_nodesInLevel = [t.m_nodesInLevel EXCEPT ![level + 1] = @ + 1]
      /\ u.m_u32Nodes = t.m_u32Nodes + 1
      /\ u.overflowTable = t.overflowTable /\ u.outside = t.outside
  BY <1>3 DEF IsTree, Fields, Same
<1>5. m.m_level = level
  BY <1>2 DEF Node
<1> QED
  BY <1>2, <1>4, <1>5 DEF n, Created

\* Unused is a number that no page has.
LEMMA UnusedIs ==
    ASSUME NEW t, IsFiniteSet(DOMAIN t.page)
    PROVE  Unused(t) \in Nat /\ Unused(t) \notin DOMAIN t.page
<1> DEFINE D == DOMAIN t.page
<1> DEFINE c == Cardinality(D)
<1> DEFINE S == 0 .. c \ D
<1>1. c \in Nat /\ IsFiniteSet(D)
  BY FS_CardinalityType
<1>2. IsFiniteSet(0 .. c) /\ Cardinality(0 .. c) = c + 1
  <2> HIDE DEF c
  <2>1. IsFiniteSet(0 .. c) /\ Cardinality(0 .. c) = IF 0 > c THEN 0 ELSE c - 0 + 1
    BY <1>1, FS_Interval
  <2> QED
    BY <1>1, <2>1
<1>3. S # {}
  <2> SUFFICES ASSUME S = {} PROVE FALSE
    OBVIOUS
  <2>1. 0 .. c \in SUBSET D
    OBVIOUS
  <2>2. Cardinality(0 .. c) <= Cardinality(D)
    BY <1>1, <2>1, FS_Subset
  <2> QED
    BY <1>1, <1>2, <2>2
<1>4. IsFiniteSet(S)
  <2>1. S \in SUBSET (0 .. c)
    OBVIOUS
  <2> QED
    BY <1>2, <2>1, FS_Subset
<1>5. S \in SUBSET Int
  OBVIOUS
<1> HIDE DEF S
<1>6. Min(S) \in S
  BY <1>3, <1>4, <1>5, MinIs
<1>7. Unused(t) = Min(S)
  BY DEF Unused, S
<1> QED
  BY <1>6, <1>7, <1>1 DEF S

\* The counters are right after a page was written again
LEMMA CountsWrite ==
    ASSUME NEW t, NEW u, NEW P, Counts(t, P), NEW q, q.m_identifier \in DOMAIN P,
           q.m_level = P[q.m_identifier].m_level, t.m_rootID \in DOMAIN P, u.m_rootID = t.m_rootID,
           u.m_u32TreeHeight = t.m_u32TreeHeight, u.m_nodesInLevel = t.m_nodesInLevel,
           u.m_u32Nodes = t.m_u32Nodes
    PROVE  Counts(u, Stored(P, q))
<1> DEFINE P2 == Stored(P, q)
<1>1. DOMAIN P2 = DOMAIN P /\ \A p \in DOMAIN P : P2[p].m_level = P[p].m_level
  <2>1. DOMAIN P2 = DOMAIN P \cup {q.m_identifier} /\ P2[q.m_identifier] = q
    BY StoredIs
  <2>2. \A p \in DOMAIN P : p # q.m_identifier => P2[p] = P[p]
    BY StoredOther
  <2> HIDE DEF P2
  <2>3. DOMAIN P2 = DOMAIN P
    BY <2>1
  <2> QED
    BY <2>1, <2>2, <2>3
<1> HIDE DEF P2
<1>2. \A l : OnLevel(P2, l) = OnLevel(P, l)
  BY <1>1 DEF OnLevel
<1>3. P2[u.m_rootID].m_level = P[t.m_rootID].m_level
  BY <1>1
<1>4. Counts(u, P2)
  BY <1>1, <1>2, <1>3 DEF Counts
<1> QED
  BY <1>4 DEF P2

\* and after a page was added, with one more node on its level.
LEMMA CountsNew ==
    ASSUME NEW t, NEW u, NEW P, Counts(t, P), IsFiniteSet(DOMAIN P), NEW q, q.m_identifier \notin DOMAIN P,
           q.m_level \in Nat, P[t.m_rootID].m_level \in Nat,
           q.m_level <= P[t.m_rootID].m_level, t.m_rootID \in DOMAIN P, u.m_rootID = t.m_rootID,
           u.m_u32TreeHeight = t.m_u32TreeHeight,
           u.m_nodesInLevel = [t.m_nodesInLevel EXCEPT ![q.m_level + 1] = @ + 1],
           u.m_u32Nodes = t.m_u32Nodes + 1
    PROVE  Counts(u, Stored(P, q))
<1> DEFINE P2 == Stored(P, q)
<1> DEFINE id == q.m_identifier
<1> DEFINE top == P[t.m_rootID].m_level
<1> DEFINE s == t.m_nodesInLevel
<1> DEFINE s2 == u.m_nodesInLevel
<1>1. DOMAIN P2 = DOMAIN P \cup {id} /\ P2[id] = q /\ \A p \in DOMAIN P : P2[p] = P[p]
  <2>1. DOMAIN P2 = DOMAIN P \cup {q.m_identifier} /\ P2[q.m_identifier] = q
    BY StoredIs
  <2>2. \A p \in DOMAIN P : p # q.m_identifier => P2[p] = P[p]
    BY StoredOther
  <2> HIDE DEF P2
  <2> QED
    BY <2>1, <2>2
<1>2. /\ t.m_u32Nodes = Cardinality(DOMAIN P) /\ s \in Seq(Int) /\ Len(s) = top + 1 /\ t.m_u32TreeHeight = top + 1
      /\ \A l \in 1 .. top + 1 : s[l] = Cardinality(OnLevel(P, l - 1))
  BY DEF Counts
<1>3. P2[u.m_rootID].m_level = top
  BY <1>1
<1>4. top \in Nat
  OBVIOUS
<1> HIDE DEF P2, top, s, s2
<1>5. u.m_u32Nodes = Cardinality(DOMAIN P2)
  <2>1. Cardinality(DOMAIN P \cup {id}) = Cardinality(DOMAIN P) + 1
    BY FS_AddElement
  <2> QED
    BY <1>1, <1>2, <2>1
<1>6. \A l \in 1 .. top + 1 : l - 1 = q.m_level => OnLevel(P2, l - 1) = OnLevel(P, l - 1) \cup {id}
  BY <1>1 DEF OnLevel
<1>7. \A l \in 1 .. top + 1 : l - 1 # q.m_level => OnLevel(P2, l - 1) = OnLevel(P, l - 1)
  BY <1>1 DEF OnLevel
<1>8. \A l : IsFiniteSet(OnLevel(P, l)) /\ id \notin OnLevel(P, l)
  <2> SUFFICES ASSUME NEW l PROVE IsFiniteSet(OnLevel(P, l)) /\ id \notin OnLevel(P, l)
    OBVIOUS
  <2>1. OnLevel(P, l) \in SUBSET DOMAIN P
    BY DEF OnLevel
  <2> QED
    BY <2>1, FS_Subset
<1>9. \A l : Cardinality(OnLevel(P, l) \cup {id}) = Cardinality(OnLevel(P, l)) + 1
  BY <1>8, FS_AddElement
<1>10. s2 = [s EXCEPT ![q.m_level + 1] = @ + 1]
  BY DEF s2, s
<1>11. DOMAIN s = 1 .. top + 1
  BY <1>2
<1>12. s2 \in Seq(Int) /\ Len(s2) = top + 1
  <2>1. s \in [1 .. top + 1 -> Int]
    BY <1>2
  <2> DEFINE i == q.m_level + 1
  <2> HIDE DEF i
  <2>2. s2 \in [1 .. top + 1 -> Int]
    <3>1. s2 = [s EXCEPT ![i] = s[i] + 1]
      BY <1>10 DEF i
    <3>2. i \in 1 .. top + 1
      <4>1. q.m_level \in Nat /\ q.m_level <= top
        BY DEF top
      <4> QED
        BY <1>4, <4>1 DEF i
    <3>3. s[i] + 1 \in Int
      BY <2>1, <3>2
    <3> QED
      BY <2>1, <3>1, <3>3
  <2> QED
    BY <1>4, <2>2
<1>13. \A l \in 1 .. top + 1 : s2[l] = IF l = q.m_level + 1 THEN s[l] + 1 ELSE s[l]
  BY <1>10, <1>11
<1>14. ASSUME NEW l \in 1 .. top + 1 PROVE s2[l] = Cardinality(OnLevel(P2, l - 1))
  <2>1. CASE l = q.m_level + 1
    <3>1. l - 1 = q.m_level
      BY <2>1
    <3>2. s2[l] = s[l] + 1 /\ s[l] = Cardinality(OnLevel(P, l - 1))
      BY <1>2, <1>13, <2>1
    <3>3. Cardinality(OnLevel(P2, l - 1)) = Cardinality(OnLevel(P, l - 1)) + 1
      BY <1>6, <1>9, <3>1
    <3> QED
      BY <3>2, <3>3
  <2>2. CASE l # q.m_level + 1
    <3>1. l - 1 # q.m_level
      BY <1>4, <2>2
    <3> QED
      BY <1>2, <1>7, <1>13, <2>2, <3>1
  <2> QED
    BY <2>1, <2>2
<1>15. Counts(u, P2)
  BY <1>2, <1>3, <1>5, <1>12, <1>14 DEF Counts, s2
<1> QED
  BY <1>15 DEF P2


\* The nodes have room for their entries, and all but the root and those of Y their least.
Sizes(t, P, r, Y) ==
    \A p \in DOMAIN P :
        /\ Len(P[p].entries) <= Of(t.m_capacity, P[p].m_level)
        /\ P[p].m_level # 0 => 1 <= Len(P[p].entries)
        /\ p \notin Y /\ p # r => Least(t, P[p].m_level) <= Len(P[p].entries)
        /\ p \notin Y /\ p = r /\ P[p].m_level # 0 => 2 <= Len(P[p].entries)

\* Nothing waits for a level above the root.
Low(P, r, W) == \A x \in W : x[1] <= P[r].m_level

\* The pages for which entries wait.
Off(P, W) == {p \in DOMAIN P : \E x \in W : x[1] = P[p].m_level + 1 /\ x[2].id = p}

\* They stay.
Rests(P, Q, W) == \A p \in Off(P, W) : p \in DOMAIN Q /\ Q[p] = P[p]

\* The data.
Bottom(P, W) == {x \in Kept(P, W) : x[1] = 0}

\* A path up from the page id of that level.
Up(P, r, id, level, path) ==
    /\ path \in Seq(Nat)
    /\ IF path = <<>> THEN id = r ELSE path[Len(path)] = r
    /\ \A k \in DOMAIN path :
          /\ path[k] \in DOMAIN P /\ P[path[k]].m_level = level + k
          /\ \E e \in ToSet(P[path[k]].entries) : e.id = IF k = 1 THEN id ELSE path[k - 1]

Conf(t) == IsTree(t) /\ Sized(t) /\ t.m_bTightMBRs \in BOOLEAN /\ t.Far \in BOOLEAN

\* A tree in the middle of an operation.
Works(t, W, X, Y) ==
    /\ Conf(t) /\ Forest(t.page, t.m_rootID, W, X, Tight(t)) /\ Sizes(t, t.page, t.m_rootID, Y)
    /\ Counts(t, t.page)

\* The settings stay as they were.
LEMMA SameConf ==
    ASSUME NEW t, Conf(t), NEW u, Same(t, u)
    PROVE  Conf(u) /\ Tight(u) = Tight(t)
  BY SameSizes DEF Conf, Same

\* The bounds on sizes depend on the settings only.
LEMMA SizesSame ==
    ASSUME NEW t, NEW u, Same(t, u), NEW P, NEW r, NEW Y, Sizes(t, P, r, Y)
    PROVE  Sizes(u, P, r, Y)
  BY SameSizes DEF Sizes

\* Of two writes to one page the second counts.
LEMMA StoredTwice ==
    ASSUME NEW P, NEW a, NEW b, a.m_identifier = b.m_identifier
    PROVE  Stored(Stored(P, a), b) = Stored(P, b)
  BY DEF Stored

\* Writing a page as it is changes nothing.
LEMMA StoredSame ==
    ASSUME NEW P, NEW p \in DOMAIN P, P[p].m_identifier = p, P = [o \in DOMAIN P |-> P[o]]
    PROVE  Stored(P, P[p]) = P
  BY DEF Stored

\* A page whose region no longer is its entry's may stop being an exception when it is the root.
LEMMA ForestOther ==
    ASSUME NEW P, NEW r, NEW W, NEW X, NEW tight, Forest(P, r, W, X, tight),
           NEW X2, \A p \in DOMAIN P : p \in X => p \in X2 \/ p = r
    PROVE  Forest(P, r, W, X2, tight)
<1>1. Down(P, r, Kept(P, W), X)
  BY DEF Forest
<1>2. Down(P, r, Kept(P, W), X2)
  BY <1>1 DEF Down
<1> QED
  BY <1>2 DEF Forest

\* Only the root is on its level.
LEMMA RootAlone ==
    ASSUME NEW P, NEW r, NEW W, NEW X, NEW tight, Forest(P, r, W, X, tight), Low(P, r, W),
           NEW p \in DOMAIN P, p # r
    PROVE  P[p].m_level + 1 <= P[r].m_level /\ P[p].m_level \in Nat /\ P[r].m_level \in Nat
<1>1. Paged(P, r) /\ Sound(P, r, tight) /\ Held(P, r, Kept(P, W))
  BY DEF Forest
<1>2. PICK x \in Kept(P, W) : x[1] = P[p].m_level + 1 /\ x[2].id = p
  BY <1>1 DEF Held
<1>3. x \in W \/ \E o \in DOMAIN P : x \in Pairs(P[o])
  BY KeptIs
<1>4. CASE x \in W
  BY <1>1, <1>2, <1>4, PairsAre DEF Low, Sound, Paged
<1>5. ASSUME NEW o \in DOMAIN P, x \in Pairs(P[o]) PROVE P[p].m_level + 1 <= P[r].m_level
  <2>1. NodeOk(P[o], o, tight) /\ P[o].m_level <= P[r].m_level
    BY <1>1 DEF Sound
  <2>2. x[1] = P[o].m_level
    BY <1>5, <2>1, PairsAre
  <2> QED
    BY <1>2, <2>1, <2>2
<1>6. P[p].m_level \in Nat /\ P[r].m_level \in Nat
  BY <1>1, PairsAre DEF Sound, Paged
<1> QED
  BY <1>3, <1>4, <1>5, <1>6

Waited(P, r, W, X, tight, w) ==
    Forest(P, r, W \cup {w}, X, tight) /\ Kept(P, W \cup {w}) = Kept(P, W) \cup {w} /\ w \notin Kept(P, W)

\* A datum waits,
LEMMA Waits ==
    ASSUME NEW P, NEW r, NEW W, NEW X, NEW tight, Forest(P, r, W, X, tight),
           NEW e \in EntryT, NonEmpty(e.mbr), \A x \in Bottom(P, W) : x[2].id # e.id
    PROVE  Waited(P, r, W, X, tight, <<0, e>>)
<1> DEFINE w == <<0, e>>
<1> DEFINE W2 == W \cup {w}
<1> DEFINE K == Kept(P, W)
<1> DEFINE K2 == Kept(P, W2)
<1>1. /\ Paged(P, r) /\ Sound(P, r, tight) /\ W \in SUBSET PairT
      /\ OneId(K) /\ OneHolder(P, W) /\ Down(P, r, K, X) /\ Held(P, r, K)
  BY DEF Forest
<1>2. w[1] = 0 /\ w[2] = e /\ w \in PairT
  BY DEF PairT
<1>3. \A x \in K : x[1] = 0 => x[2].id # e.id
  BY DEF Bottom
<1>4. w \notin K
  BY <1>2, <1>3
<1>5. \A x : x \in K <=> x \in W \/ \E p \in DOMAIN P : x \in Pairs(P[p])
  BY KeptIs
<1>6. \A x : x \in K2 <=> x \in W2 \/ \E p \in DOMAIN P : x \in Pairs(P[p])
  BY KeptIs
<1> HIDE DEF K, K2, w
<1>7. \A x : x \in K2 <=> x \in K \/ x = w
  BY <1>5, <1>6
<1>8. OneId(K2)
  <2> SUFFICES ASSUME NEW x \in K2, NEW y \in K2, x[1] = y[1], x[2].id = y[2].id PROVE x = y
    BY DEF OneId
  <2>1. CASE x = w /\ y # w
    BY <1>2, <1>3, <1>7, <2>1
  <2>2. CASE y = w /\ x # w
    BY <1>2, <1>3, <1>7, <2>2
  <2>3. CASE x # w /\ y # w
    BY <1>1, <1>7, <2>3 DEF OneId
  <2> QED
    BY <2>1, <2>2, <2>3
<1>9. OneHolder(P, W2)
  BY <1>1, <1>4, <1>5 DEF OneHolder
<1>10. Down(P, r, K2, X)
  BY <1>1, <1>2, <1>7 DEF Down
<1>11. Held(P, r, K2)
  BY <1>1, <1>7 DEF Held
<1>12. Forest(P, r, W2, X, tight)
  BY <1>1, <1>2, <1>8, <1>9, <1>10, <1>11 DEF Forest, K2
<1>13. K2 = K \cup {w}
  BY <1>7
<1> QED
  BY <1>4, <1>12, <1>13 DEF K, K2, w, Waited

Dropped(P, r, W, X, tight, w) ==
    Forest(P, r, W \ {w}, X, tight) /\ Kept(P, W \ {w}) = Kept(P, W) \ {w}

\* or is not wanted any more.
LEMMA Leaves ==
    ASSUME NEW P, NEW r, NEW W, NEW X, NEW tight, Forest(P, r, W, X, tight), NEW w \in W, w[1] = 0
    PROVE  Dropped(P, r, W, X, tight, w)
<1> DEFINE W2 == W \ {w}
<1> DEFINE K == Kept(P, W)
<1> DEFINE K2 == Kept(P, W2)
<1>1. /\ Paged(P, r) /\ Sound(P, r, tight) /\ W \in SUBSET PairT
      /\ OneId(K) /\ OneHolder(P, W) /\ Down(P, r, K, X) /\ Held(P, r, K)
  BY DEF Forest
<1>5. \A x : x \in K <=> x \in W \/ \E p \in DOMAIN P : x \in Pairs(P[p])
  BY KeptIs
<1>6. \A x : x \in K2 <=> x \in W2 \/ \E p \in DOMAIN P : x \in Pairs(P[p])
  BY KeptIs
<1>2. \A p \in DOMAIN P : w \notin Pairs(P[p])
  BY <1>1 DEF OneHolder
<1> HIDE DEF K, K2
<1>7. \A x : x \in K2 <=> x \in K /\ x # w
  BY <1>2, <1>5, <1>6
<1>8. OneId(K2)
  BY <1>1, <1>7 DEF OneId
<1>9. OneHolder(P, W2)
  BY <1>1 DEF OneHolder
<1>10. Down(P, r, K2, X)
  BY <1>1, <1>7 DEF Down
<1>11. Held(P, r, K2)
  <2> SUFFICES ASSUME NEW o \in DOMAIN P, o # r PROVE \E x \in K2 : x[1] = P[o].m_level + 1 /\ x[2].id = o
    BY DEF Held
  <2>1. PICK x \in K : x[1] = P[o].m_level + 1 /\ x[2].id = o
    BY <1>1 DEF Held
  <2>2. P[o].m_level \in Nat
    BY <1>1, PairsAre DEF Sound
  <2>3. x # w
    BY <2>1, <2>2
  <2> QED
    BY <1>7, <2>1, <2>3
<1>12. Forest(P, r, W2, X, tight)
  BY <1>1, <1>8, <1>9, <1>10, <1>11 DEF Forest, K2
<1>13. K2 = K \ {w}
  BY <1>7
<1> QED
  BY <1>12, <1>13 DEF K, K2, Dropped


\* Arithmetic of positions on a path.
LEMMA OneIn ==
    ASSUME NEW n \in Nat, n # 0
    PROVE  1 \in 1 .. n /\ n \in 1 .. n
  OBVIOUS

\* The next position on a path.
LEMMA StepIn ==
    ASSUME NEW n \in Nat, NEW k \in 1 .. n, k # n
    PROVE  k + 1 \in 1 .. n /\ k + 1 # 1 /\ (k + 1) - 1 = k /\ k \in Nat
  OBVIOUS

\* What a path up is good for.
Climbs(P, r, id, level, path) ==
    /\ path \in Seq(Nat) /\ Len(path) \in Nat /\ DOMAIN path = 1 .. Len(path)
    /\ P[r].m_level = level + Len(path) /\ r \in DOMAIN P
    /\ (path = <<>> <=> id = r) /\ (path = <<>> <=> Len(path) = 0)
    /\ \A k \in 1 .. Len(path) : path[k] \in DOMAIN P /\ path[k] # id /\ P[path[k]].m_level = level + k
    /\ \A j, k \in 1 .. Len(path) : path[j] = path[k] => j = k
    /\ \A k \in 1 .. Len(path) : path[k] = r <=> k = Len(path)

\* A path climbs from a page to the root, one level at a time.
LEMMA UpIs ==
    ASSUME NEW P, NEW r, NEW id, NEW level \in Nat, NEW path, Up(P, r, id, level, path),
           id \in DOMAIN P, P[id].m_level = level
    PROVE  Climbs(P, r, id, level, path)
<1>1. /\ path \in Seq(Nat)
      /\ IF path = <<>> THEN id = r ELSE path[Len(path)] = r
      /\ \A k \in DOMAIN path : path[k] \in DOMAIN P /\ P[path[k]].m_level = level + k
  BY DEF Up
<1>2. Len(path) \in Nat /\ DOMAIN path = 1 .. Len(path) /\ (path = <<>> <=> Len(path) = 0)
  BY <1>1
<1>3. \A k \in 1 .. Len(path) : path[k] \in DOMAIN P /\ P[path[k]].m_level = level + k
  BY <1>1, <1>2
<1>4. \A k \in 1 .. Len(path) : path[k] # id
  BY <1>2, <1>3
<1>5. \A j, k \in 1 .. Len(path) : path[j] = path[k] => j = k
  <2> SUFFICES ASSUME NEW j \in 1 .. Len(path), NEW k \in 1 .. Len(path), path[j] = path[k] PROVE j = k
    OBVIOUS
  <2>2. P[path[j]].m_level = level + j /\ P[path[k]].m_level = level + k
    BY <1>3
  <2>1. level + j = level + k /\ j \in Int /\ k \in Int
    BY <2>2
  <2> QED
    BY <2>1
<1>6. path # <<>> => Len(path) \in 1 .. Len(path) /\ path[Len(path)] = r
  BY <1>1, <1>2
<1>7. P[r].m_level = level + Len(path) /\ r \in DOMAIN P
  BY <1>1, <1>2, <1>3, <1>6
<1>8. path = <<>> <=> id = r
  BY <1>1, <1>4, <1>6
<1>9. \A k \in 1 .. Len(path) : path[k] = r <=> k = Len(path)
  <2> SUFFICES ASSUME NEW k \in 1 .. Len(path) PROVE path[k] = r <=> k = Len(path)
    OBVIOUS
  <2>1. path # <<>> /\ path[Len(path)] = r /\ Len(path) \in 1 .. Len(path)
    BY <1>2, <1>6
  <2> QED
    BY <1>5, <2>1
<1>10. path = <<>> <=> Len(path) = 0
  BY <1>2
<1> QED
  BY <1>1, <1>2, <1>3, <1>4, <1>5, <1>7, <1>8, <1>9, <1>10 DEF Climbs

\* The rest of a path is one.
LEMMA UpNext ==
    ASSUME NEW P, NEW r, NEW id, NEW level \in Nat, NEW path, Up(P, r, id, level, path), path # <<>>
    PROVE  /\ Up(P, r, Head(path), level + 1, Tail(path))
           /\ Head(path) = path[1] /\ Head(path) \in DOMAIN P /\ P[Head(path)].m_level = level + 1
           /\ \E e \in ToSet(P[Head(path)].entries) : e.id = id
           /\ Len(Tail(path)) = Len(path) - 1 /\ Len(path) \in Nat
<1> DEFINE up == Tail(path)
<1>1. /\ path \in Seq(Nat) /\ path[Len(path)] = r
      /\ \A k \in DOMAIN path :
          /\ path[k] \in DOMAIN P /\ P[path[k]].m_level = level + k
          /\ \E e \in ToSet(P[path[k]].entries) : e.id = IF k = 1 THEN id ELSE path[k - 1]
  BY DEF Up
<1>2. /\ Len(path) \in Nat /\ DOMAIN path = 1 .. Len(path) /\ 1 \in DOMAIN path /\ Head(path) = path[1]
      /\ up \in Seq(Nat) /\ Len(up) = Len(path) - 1 /\ DOMAIN up = 1 .. Len(path) - 1
      /\ \A k \in 1 .. Len(path) - 1 : up[k] = path[k + 1]
      /\ (up = <<>> <=> Len(path) = 1)
  <2>1. Len(path) \in Nat /\ DOMAIN path = 1 .. Len(path) /\ Head(path) = path[1] /\ Len(path) # 0
    BY <1>1
  <2>2. /\ up \in Seq(Nat) /\ Len(up) = Len(path) - 1
        /\ \A k \in 1 .. Len(path) - 1 : up[k] = path[k + 1]
    BY <1>1
  <2> HIDE DEF up
  <2>3. DOMAIN up = 1 .. Len(path) - 1 /\ (up = <<>> <=> Len(up) = 0)
    BY <2>2
  <2> QED
    BY <2>1, <2>2, <2>3
<1> HIDE DEF up
<1>3. IF up = <<>> THEN Head(path) = r ELSE up[Len(up)] = r
  <2>1. CASE up = <<>>
    BY <1>1, <1>2, <2>1
  <2>2. CASE up # <<>>
    <3>1. Len(up) \in 1 .. Len(path) - 1
      BY <1>2, <2>2
    <3>2. up[Len(up)] = path[Len(up) + 1] /\ Len(up) + 1 = Len(path)
      BY <1>2, <3>1
    <3> QED
      BY <1>1, <2>2, <3>2
  <2> QED
    BY <2>1, <2>2
<1>4. ASSUME NEW k \in DOMAIN up
      PROVE  /\ up[k] \in DOMAIN P /\ P[up[k]].m_level = level + 1 + k
             /\ \E e \in ToSet(P[up[k]].entries) : e.id = IF k = 1 THEN Head(path) ELSE up[k - 1]
  <2>1. k + 1 \in DOMAIN path /\ up[k] = path[k + 1] /\ k + 1 # 1 /\ k + 1 - 1 = k
    BY <1>2
  <2>2. level + (k + 1) = level + 1 + k
    BY <1>2
  <2>3. path[k] = IF k = 1 THEN Head(path) ELSE up[k - 1]
    BY <1>2
  <2>4. /\ path[k + 1] \in DOMAIN P /\ P[path[k + 1]].m_level = level + (k + 1)
        /\ \E e \in ToSet(P[path[k + 1]].entries) : e.id = path[k]
    <3> DEFINE j == k + 1
    <3>1. j \in DOMAIN path /\ j # 1 /\ j - 1 = k
      BY <1>2, <2>1
    <3> HIDE DEF j
    <3>2. /\ path[j] \in DOMAIN P /\ P[path[j]].m_level = level + j
          /\ \E e \in ToSet(P[path[j]].entries) : e.id = path[k]
      BY <1>1, <3>1
    <3> QED
      BY <3>2 DEF j
  <2> QED
    BY <2>1, <2>2, <2>3, <2>4
<1>5. Up(P, r, Head(path), level + 1, up)
  BY <1>2, <1>3, <1>4 DEF Up
<1>6. Head(path) \in DOMAIN P /\ P[Head(path)].m_level = level + 1 /\ \E e \in ToSet(P[Head(path)].entries) : e.id = id
  BY <1>1, <1>2
<1> QED
  BY <1>2, <1>5, <1>6 DEF up

\* It stays one while its nodes stay.
LEMMA UpKept ==
    ASSUME NEW P, NEW r, NEW id, NEW level \in Nat, NEW path, Up(P, r, id, level, path),
           NEW Q, \A k \in DOMAIN path : path[k] \in DOMAIN Q /\ Q[path[k]] = P[path[k]]
    PROVE  Up(Q, r, id, level, path)
  BY DEF Up

\* No entry waits for a page that has one in a node,
LEMMA NotOff ==
    ASSUME NEW P, NEW r, NEW W, NEW X, NEW tight, Forest(P, r, W, X, tight),
           NEW p \in DOMAIN P, NEW q \in DOMAIN P, P[q].m_level = P[p].m_level + 1,
           NEW e \in ToSet(P[q].entries), e.id = p
    PROVE  p \notin Off(P, W)
<1> SUFFICES ASSUME NEW x \in W, x[1] = P[p].m_level + 1, x[2].id = p PROVE FALSE
  BY DEF Off
<1>1. /\ Sound(P, r, tight) /\ OneId(Kept(P, W)) /\ OneHolder(P, W)
  BY DEF Forest
<1>2. <<P[q].m_level, e>> \in Pairs(P[q])
  BY <1>1, PairsAre DEF Sound
<1>3. <<P[q].m_level, e>> \in Kept(P, W) /\ x \in Kept(P, W)
  BY <1>2, KeptIs
<1>4. x = <<P[q].m_level, e>>
  BY <1>1, <1>3 DEF OneId
<1> QED
  BY <1>1, <1>2, <1>4 DEF OneHolder

\* The root is never cut off.
LEMMA RootNotOff ==
    ASSUME NEW P, NEW r, NEW W, NEW X, NEW tight, Forest(P, r, W, X, tight)
    PROVE  r \notin Off(P, W)
<1> SUFFICES ASSUME NEW x \in W, x[1] = P[r].m_level + 1, x[2].id = r PROVE FALSE
  BY DEF Off
<1>1. P[r].m_level \in Nat /\ x \in Kept(P, W)
  BY KeptIs, PairsAre DEF Forest, Sound, Paged
<1>2. x[2].id # r
  BY <1>1 DEF Forest, Down
<1> QED
  BY <1>2

\* so none waits for a page on a path up.
LEMMA UpNotOff ==
    ASSUME NEW P, NEW r, NEW W, NEW X, NEW tight, Forest(P, r, W, X, tight),
           NEW id \in DOMAIN P, NEW level \in Nat, P[id].m_level = level, NEW path, Up(P, r, id, level, path)
    PROVE  id \notin Off(P, W) /\ \A k \in DOMAIN path : path[k] \notin Off(P, W)
<1>1. /\ path \in Seq(Nat) /\ Len(path) \in Nat /\ DOMAIN path = 1 .. Len(path)
      /\ (path = <<>> <=> id = r) /\ (path = <<>> <=> Len(path) = 0)
      /\ \A k \in 1 .. Len(path) : path[k] \in DOMAIN P /\ path[k] # id /\ P[path[k]].m_level = level + k
      /\ \A k \in 1 .. Len(path) : path[k] = r <=> k = Len(path)
  <2>1. Climbs(P, r, id, level, path)
    BY UpIs
  <2> QED
    BY <2>1 DEF Climbs
<1>2. \A k \in DOMAIN path : \E e \in ToSet(P[path[k]].entries) : e.id = IF k = 1 THEN id ELSE path[k - 1]
  BY DEF Up
<1>3. id \notin Off(P, W)
  <2>1. CASE path = <<>>
    BY <1>1, <2>1, RootNotOff
  <2>2. CASE path # <<>>
    <3>1. 1 \in DOMAIN path
      <4>1. Len(path) # 0
        BY <1>1, <2>2
      <4> QED
        BY <1>1, <4>1, OneIn
    <3>2. P[path[1]].m_level = P[id].m_level + 1 /\ path[1] \in DOMAIN P
      BY <1>1, <3>1
    <3>3. PICK e \in ToSet(P[path[1]].entries) : e.id = id
      BY <1>2, <3>1
    <3> QED
      BY <3>2, <3>3, NotOff
  <2> QED
    BY <2>1, <2>2
<1>4. ASSUME NEW k \in DOMAIN path PROVE path[k] \notin Off(P, W)
  <2>1. CASE k = Len(path)
    BY <1>1, <2>1, RootNotOff
  <2>2. CASE k # Len(path)
    <3> DEFINE j == k + 1
    <3>1. j \in DOMAIN path /\ j # 1 /\ j - 1 = k /\ k \in Nat /\ k \in 1 .. Len(path) /\ j = k + 1
      <4>1. k \in 1 .. Len(path)
        BY <1>1
      <4> QED
        BY <1>1, <2>2, <4>1, StepIn
    <3> HIDE DEF j
    <3>2. P[path[j]].m_level = P[path[k]].m_level + 1 /\ path[j] \in DOMAIN P /\ path[k] \in DOMAIN P
      <4>1. P[path[j]].m_level = level + j /\ P[path[k]].m_level = level + k /\ path[j] \in DOMAIN P /\ path[k] \in DOMAIN P
        BY <1>1, <3>1
      <4>2. level + j = (level + k) + 1
        BY <3>1
      <4> QED
        BY <4>1, <4>2
    <3>3. PICK e \in ToSet(P[path[j]].entries) : e.id = path[k]
      BY <1>2, <3>1
    <3> QED
      BY <3>2, <3>3, NotOff
  <2> QED
    BY <2>1, <2>2
<1> QED
  BY <1>3, <1>4

\* What waits rests when another page is written, or a new one.
LEMMA RestsStored ==
    ASSUME NEW P, NEW W, NEW q, q.m_identifier \notin Off(P, W)
    PROVE  Rests(P, Stored(P, q), W)
<1> SUFFICES ASSUME NEW p \in Off(P, W) PROVE p \in DOMAIN Stored(P, q) /\ Stored(P, q)[p] = P[p]
  BY DEF Rests
<1>1. p \in DOMAIN P /\ p # q.m_identifier
  BY DEF Off
<1>2. DOMAIN Stored(P, q) = DOMAIN P \cup {q.m_identifier}
  BY StoredIs
<1>3. Stored(P, q)[p] = P[p]
  BY <1>1, StoredOther
<1> QED
  BY <1>1, <1>2, <1>3

\* Pages that are cut off stay as they are through every step.
LEMMA RestsTwice ==
    ASSUME NEW P, NEW Q, NEW R, NEW W, Rests(P, Q, W), Rests(Q, R, W)
    PROVE  Rests(P, R, W)
  BY DEF Rests, Off


\* The growth is summed entry by entry.
GrowthIsFun(nd, i, r, n) == CHOOSE g : g = [k \in 0 .. n |-> IF k = 0 THEN 0 ELSE g[k - 1] + LET e == nd.entries[k] IN IF e = nd.entries[i] THEN 0 ELSE getIntersectingArea(getCombinedRegion(nd.entries[i].mbr, r), e.mbr) - getIntersectingArea(nd.entries[i].mbr, e.mbr)]

\* OverlapGrowth, as the recursion its induction needs.
LEMMA GrowthIs ==
    ASSUME NEW nd, NEW i, NEW r, NEW n \in Nat, NEW f, f = GrowthIsFun(nd, i, r, n)
    PROVE  /\ f[0] = 0
           /\ \A k \in 1 .. n : f[k] = f[k - 1] + LET e == nd.entries[k] IN IF e = nd.entries[i] THEN 0 ELSE getIntersectingArea(getCombinedRegion(nd.entries[i].mbr, r), e.mbr) - getIntersectingArea(nd.entries[i].mbr, e.mbr)
<1> DEFINE S(k, x) == x + LET e == nd.entries[k] IN IF e = nd.entries[i] THEN 0 ELSE getIntersectingArea(getCombinedRegion(nd.entries[i].mbr, r), e.mbr) - getIntersectingArea(nd.entries[i].mbr, e.mbr)
<1> DEFINE B == 0
<1> DEFINE Solves(m, g) == g = [k \in 0 .. m |-> IF k = 0 THEN B ELSE S(k, g[k - 1])]
<1> DEFINE Wrong == {m \in Nat : ~ \E g : Solves(m, g)}
<1> HIDE DEF S, B
<1>1. ASSUME Wrong # {} PROVE FALSE
  <2>1. PICK m \in Wrong : \A j \in Wrong : m <= j
    BY <1>1, LeastExists
  <2>2. CASE m = 0
    <3> DEFINE g == [k \in 0 .. 0 |-> B]
    <3>1. Solves(0, g)
      OBVIOUS
    <3> QED
      BY <2>1, <2>2, <3>1
  <2>3. CASE m # 0
    <3>1. m - 1 \in Nat /\ m - 1 \notin Wrong
      <4>1. m \in Nat /\ m - 1 \in Nat
        BY <2>1, <2>3
      <4> HIDE DEF Wrong
      <4> QED
        BY <2>1, <4>1
    <3>2. PICK g : Solves(m - 1, g)
      BY <3>1
    <3> DEFINE h == [k \in 0 .. m |-> IF k < m THEN g[k] ELSE S(m, g[m - 1])]
    <3>3. ASSUME NEW k \in 0 .. m PROVE h[k] = IF k = 0 THEN B ELSE S(k, h[k - 1])
      <4>1. CASE k = 0
        <5>1. g[0] = B
          BY <3>1, <3>2
        <5> QED
          BY <2>3, <4>1, <5>1
      <4>2. CASE k # 0 /\ k < m
        <5>1. k \in 0 .. m - 1 /\ k - 1 \in 0 .. m
          BY <4>2
        <5>2. g[k] = S(k, g[k - 1])
          BY <3>2, <4>2, <5>1
        <5>3. h[k] = g[k] /\ h[k - 1] = g[k - 1]
          BY <4>2, <5>1
        <5> HIDE DEF h
        <5> QED
          BY <4>2, <5>2, <5>3
      <4>3. CASE k = m
        <5>1. m - 1 \in 0 .. m /\ m - 1 < m
          BY <3>1
        <5>2. h[m] = S(m, g[m - 1]) /\ h[m - 1] = g[m - 1]
          BY <2>3, <5>1
        <5> HIDE DEF h
        <5> QED
          BY <2>3, <4>3, <5>2
      <4> QED
        BY <4>1, <4>2, <4>3
    <3>4. h = [k \in 0 .. m |-> h[k]]
      OBVIOUS
    <3> HIDE DEF h
    <3>5. Solves(m, h)
      BY <3>3, <3>4
    <3> QED
      BY <2>1, <3>5
  <2> QED
    BY <2>2, <2>3
<1>2. \E g : Solves(n, g)
  BY <1>1
<1>3. \E g : g = [k \in 0 .. n |-> IF k = 0 THEN B ELSE S(k, g[k - 1])]
  BY <1>2
<1>4. f = CHOOSE g : g = [k \in 0 .. n |-> IF k = 0 THEN B ELSE S(k, g[k - 1])]
  BY DEF S, B, GrowthIsFun
<1>5. f = [k \in 0 .. n |-> IF k = 0 THEN B ELSE S(k, f[k - 1])]
  BY <1>3, <1>4
<1>6. \A k \in 0 .. n : f[k] = IF k = 0 THEN B ELSE S(k, f[k - 1])
  BY <1>5, Zenon
<1>7. f[0] = B
  BY <1>6
<1>8. ASSUME NEW k \in 1 .. n PROVE f[k] = S(k, f[k - 1])
  <2>1. k \in 0 .. n /\ k # 0
    OBVIOUS
  <2> QED
    BY <1>6, <2>1
<1> QED
  BY <1>7, <1>8 DEF S, B


\* The growth of the overlap is an integer.
LEMMA GrowthInt ==
    ASSUME NEW n, Shapely(n.entries), NEW i \in DOMAIN n.entries, NEW r \in AnyRegion
    PROVE  OverlapGrowth(n, i, r) \in Int
<1> DEFINE m == Len(n.entries)
<1> DEFINE b == n.entries[i].mbr
<1> DEFINE c == getCombinedRegion(b, r)
<1> DEFINE f == GrowthIsFun(n, i, r, m)
<1> DEFINE D(k) == LET e == n.entries[k]
                   IN IF e = n.entries[i] THEN 0 ELSE getIntersectingArea(c, e.mbr) - getIntersectingArea(b, e.mbr)
<1>1. m \in Nat /\ DOMAIN n.entries = 1 .. m /\ \A k \in 1 .. m : n.entries[k].mbr \in AnyRegion
  BY ShapelyIs
<1>2. OverlapGrowth(n, i, r) = f[m]
  BY DEF OverlapGrowth, GrowthIsFun
<1>3. f[0] = 0 /\ \A k \in 1 .. m : f[k] = f[k - 1] + D(k)
  BY <1>1, GrowthIs
<1>4. ASSUME NEW k \in 1 .. m PROVE D(k) \in Int
  <2>1. b \in AnyRegion /\ c \in AnyRegion /\ n.entries[k].mbr \in AnyRegion
    BY <1>1, CombinedIs
  <2> HIDE DEF b, c
  <2>2. getIntersectingArea(c, n.entries[k].mbr) \in Int /\ getIntersectingArea(b, n.entries[k].mbr) \in Int
    BY <2>1, AreasAre
  <2> QED
    BY <2>2
<1> HIDE DEF m, f, D
<1> DEFINE Wrong == {k \in Nat : k <= m /\ f[k] \notin Int}
<1>5. ASSUME Wrong # {} PROVE FALSE
  <2>1. PICK k \in Wrong : \A j \in Wrong : k <= j
    BY <1>5, LeastExists
  <2>2. k # 0
    BY <1>3, <2>1
  <2>3. k \in 1 .. m /\ k - 1 \in Nat /\ k - 1 <= m /\ ~ (k <= k - 1)
    BY <1>1, <2>1, <2>2
  <2>4. f[k - 1] \in Int
    BY <2>1, <2>3
  <2>5. f[k] \in Int
    BY <1>3, <1>4, <2>3, <2>4
  <2> QED
    BY <2>1, <2>5
<1>6. f[m] \in Int
  <2>1. m \notin Wrong
    BY <1>5
  <2> HIDE DEF Wrong
  <2> QED
    BY <1>1, <2>1 DEF Wrong
<1> QED
  BY <1>2, <1>6

\* findLeastEnlargement picks an entry of the node,
LEMMA LeastEnlargementIs ==
    ASSUME NEW n, Shapely(n.entries), n.entries # <<>>, NEW r \in AnyRegion
    PROVE  findLeastEnlargement(n, r) \in DOMAIN n.entries
<1> DEFINE S == DOMAIN n.entries
<1> DEFINE b == [k \in S |-> n.entries[k].mbr]
<1> DEFINE f == [k \in S |-> Enlargement(b[k], r)]
<1> DEFINE h == [k \in S |-> getArea(b[k])]
<1>1. Len(n.entries) \in Nat /\ S = 1 .. Len(n.entries) /\ \A k \in S : n.entries[k].mbr \in AnyRegion
  BY ShapelyIs
<1>2. S # {} /\ IsFiniteSet(S) /\ S \in SUBSET Int
  <2>1. Len(n.entries) # 0 /\ n.entries \in Seq(EntryT)
    <3>1. n.entries \in Seq(EntryT)
      BY ShapelyIs
    <3> QED
      BY <3>1
  <2>2. 1 \in S
    BY <1>1, <2>1
  <2>3. IsFiniteSet(S)
    BY <1>1, FS_Interval
  <2> QED
    BY <1>1, <2>2, <2>3
<1>3. \A k \in S : Enlargement(n.entries[k].mbr, r) \in Int /\ getArea(n.entries[k].mbr) \in Int
  BY <1>1, AreasAre
<1>4. f \in [S -> Int] /\ h \in [S -> Int]
  BY <1>3
<1>5. findLeastEnlargement(n, r) = First({<<Enlargement(b[k], r), getArea(b[k]), k>> : k \in S})[3]
  BY DEF findLeastEnlargement
<1>6. {<<Enlargement(b[k], r), getArea(b[k]), k>> : k \in S} = {<<f[k], h[k], k>> : k \in S}
  <2>1. \A k \in S : f[k] = Enlargement(b[k], r) /\ h[k] = getArea(b[k])
    OBVIOUS
  <2> HIDE DEF f, h, b, S
  <2> QED
    BY <2>1
<1> HIDE DEF f, h, b, S
<1>7. First({<<f[k], h[k], k>> : k \in S})[3] \in S
  BY <1>2, <1>4, FirstOfTriples
<1> QED
  BY <1>5, <1>6, <1>7 DEF S

\* and so does findLeastOverlap.
LEMMA LeastOverlapEntry ==
    ASSUME NEW t, Sized(t), NEW n, Shapely(n.entries), n.entries # <<>>, NEW r \in AnyRegion
    PROVE  findLeastOverlap(t, n, r) \in DOMAIN n.entries
<1> DEFINE S == DOMAIN n.entries
<1> DEFINE b == [k \in S |-> n.entries[k].mbr]
<1> DEFINE m == Len(n.entries)
<1> DEFINE enl == [k \in DOMAIN b |-> Enlargement(b[k], r)]
<1> DEFINE all == [k \in DOMAIN b |-> k]
<1> DEFINE c == t.m_nearMinimumOverlapFactor
<1> DEFINE sorted == Sorted(all, enl)
<1> DEFINE near == IF Len(b) > c THEN SubSeq(sorted, 1, c) ELSE all
<1> DEFINE best == findLeastEnlargement(n, r)
<1> DEFINE last == First({<<OverlapGrowth(n, near[j], r), enl[near[j]], getArea(b[near[j]]), j>> : j \in DOMAIN near})[4]
<1>1. m \in Nat /\ S = 1 .. m /\ m # 0 /\ \A k \in S : n.entries[k].mbr \in AnyRegion
  <2>1. n.entries \in Seq(EntryT) /\ \A k \in S : n.entries[k].mbr \in AnyRegion
    BY ShapelyIs
  <2> QED
    BY <2>1
<1>2. best \in S
  BY LeastEnlargementIs
<1>3. findLeastOverlap(t, n, r) = IF enl[best] = 0 THEN best ELSE near[last]
  BY DEF findLeastOverlap
<1>4. c \in Nat /\ 1 <= c
  BY DEF Sized
<1>5. DOMAIN b = S /\ b \in [S -> AnyRegion] /\ Len(b) = m
  <2>1. DOMAIN b = 1 .. m
    BY <1>1
  <2> QED
    BY <1>1, <2>1
<1> HIDE DEF S, b, m, c, best
<1>6. enl \in [1 .. m -> Int] /\ all = [k \in 1 .. m |-> k]
  <2>1. \A k \in S : Enlargement(b[k], r) \in Int
    BY <1>5, AreasAre
  <2> QED
    BY <1>1, <1>5, <2>1
<1> HIDE DEF enl, all
<1>7. Shuffled(all, sorted)
  BY <1>1, <1>6, SortedShuffles
<1>8. sorted \in [1 .. m -> 1 .. m]
  <2>1. PICK f \in Bijection(1 .. m, 1 .. m) : sorted = [k \in 1 .. m |-> all[f[k]]]
    BY <1>6, <1>7 DEF Shuffled
  <2>2. f \in [1 .. m -> 1 .. m]
    BY <2>1 DEF Bijection, Injection
  <2> HIDE DEF sorted
  <2> QED
    BY <1>6, <2>1, <2>2
<1> HIDE DEF sorted
<1>9. /\ DOMAIN near # {} /\ IsFiniteSet(DOMAIN near) /\ DOMAIN near \in SUBSET Int
      /\ \A j \in DOMAIN near : near[j] \in 1 .. m
  <2>1. CASE m > c
    <3>1. near = SubSeq(sorted, 1, c)
      BY <1>5, <2>1
    <3>2. sorted \in Seq(1 .. m) /\ Len(sorted) = m
      BY <1>1, <1>8
    <3>3. DOMAIN SubSeq(sorted, 1, c) = 1 .. c /\ \A j \in 1 .. c : SubSeq(sorted, 1, c)[j] = sorted[j] /\ j \in 1 .. m
      BY <1>1, <1>4, <2>1, <3>2
    <3>4. IsFiniteSet(1 .. c) /\ 1 \in 1 .. c
      BY <1>4, FS_Interval
    <3> HIDE DEF near
    <3>5. DOMAIN near = 1 .. c
      BY <3>1, <3>3
    <3>6. \A j \in 1 .. c : near[j] \in 1 .. m
      BY <1>8, <3>1, <3>3
    <3>7. 1 .. c \in SUBSET Int
      OBVIOUS
    <3> QED
      BY <3>4, <3>5, <3>6, <3>7
  <2>2. CASE ~ (m > c)
    <3>1. near = all
      BY <1>5, <2>2
    <3>2. IsFiniteSet(1 .. m) /\ 1 \in 1 .. m
      BY <1>1, FS_Interval
    <3> HIDE DEF near
    <3> QED
      BY <1>6, <3>1, <3>2
  <2> QED
    BY <2>1, <2>2
<1> HIDE DEF near
<1> DEFINE N == DOMAIN near
<1> DEFINE f1 == [j \in N |-> OverlapGrowth(n, near[j], r)]
<1> DEFINE f2 == [j \in N |-> enl[near[j]]]
<1> DEFINE f3 == [j \in N |-> getArea(b[near[j]])]
<1>10. f1 \in [N -> Int]
  <2>1. \A j \in N : near[j] \in DOMAIN n.entries
    BY <1>1, <1>9 DEF S
  <2>2. \A j \in N : OverlapGrowth(n, near[j], r) \in Int
    BY <2>1, GrowthInt
  <2> QED
    BY <2>2
<1>11. f2 \in [N -> Int]
  BY <1>6, <1>9
<1>12. f3 \in [N -> Int]
  <2>1. \A k \in 1 .. m : getArea(b[k]) \in Int
    BY <1>1, <1>5, AreasAre
  <2> QED
    BY <1>9, <2>1
<1>13. last = First({<<f1[j], f2[j], f3[j], j>> : j \in N})[4]
  <2>1. \A j \in N : f1[j] = OverlapGrowth(n, near[j], r) /\ f2[j] = enl[near[j]] /\ f3[j] = getArea(b[near[j]])
    OBVIOUS
  <2>2. last = First({<<OverlapGrowth(n, near[j], r), enl[near[j]], getArea(b[near[j]]), j>> : j \in N})[4]
    OBVIOUS
  <2> HIDE DEF f1, f2, f3, last, N
  <2>3. {<<OverlapGrowth(n, near[j], r), enl[near[j]], getArea(b[near[j]]), j>> : j \in N}
           = {<<f1[j], f2[j], f3[j], j>> : j \in N}
    BY <2>1
  <2> QED
    BY <2>2, <2>3
<1> HIDE DEF f1, f2, f3, last
<1>14. last \in N
  <2> HIDE DEF N
  <2>1. N # {} /\ IsFiniteSet(N) /\ N \in SUBSET Int
    BY <1>9 DEF N
  <2>2. last = First(FourKeys(N, f1, f2, f3))[4]
    BY <1>13 DEF FourKeys
  <2>3. First(FourKeys(N, f1, f2, f3))[4] \in N
    BY <1>10, <1>11, <1>12, <2>1, FirstOfFour
  <2> QED
    BY <2>2, <2>3
<1> QED
  BY <1>1, <1>2, <1>3, <1>9, <1>14 DEF S

\* Whichever of them the variant uses, the child is an entry of the node.
LEMMA ChildIs ==
    ASSUME NEW t, Sized(t), NEW n, Shapely(n.entries), n.entries # <<>>, NEW r \in AnyRegion
    PROVE  Child(t, n, r) \in DOMAIN n.entries
  BY LeastEnlargementIs, LeastOverlapEntry DEF Child


\* A position is the last or one before it.
LEMMA LastOrIn ==
    ASSUME NEW n \in Nat, NEW k \in 1 .. n + 1, k # n + 1
    PROVE  k \in 1 .. n
  OBVIOUS

\* The child of p below which something with those bounds goes.
Goes(t, mbr, p) == t.page[p].entries[Child(t, t.page[p], mbr)].id

Leads(t, mbr) ==
    \A p \in DOMAIN t.page :
        /\ p \in Nat /\ Level(t, p) \in Nat
        /\ Level(t, p) # 0 =>
              /\ Goes(t, mbr, p) \in DOMAIN t.page /\ Level(t, Goes(t, mbr, p)) = Level(t, p) - 1
              /\ \E e \in Es(t, p) : e.id = Goes(t, mbr, p)

\* In a forest every page that is not a leaf leads to a child.
LEMMA LeadsDown ==
    ASSUME NEW t, Sized(t), NEW W, NEW X, NEW tight, Forest(t.page, t.m_rootID, W, X, tight),
           \A p \in DOMAIN t.page : t.page[p].m_level # 0 => 1 <= Len(t.page[p].entries),
           NEW mbr \in AnyRegion
    PROVE  Leads(t, mbr)
<1>1. /\ Paged(t.page, t.m_rootID) /\ Sound(t.page, t.m_rootID, tight)
      /\ Down(t.page, t.m_rootID, Kept(t.page, W), X)
  BY DEF Forest
<1> SUFFICES ASSUME NEW p \in DOMAIN t.page
             PROVE  /\ p \in Nat /\ Level(t, p) \in Nat
                    /\ Level(t, p) # 0 =>
                          /\ Goes(t, mbr, p) \in DOMAIN t.page /\ Level(t, Goes(t, mbr, p)) = Level(t, p) - 1
                          /\ \E e \in Es(t, p) : e.id = Goes(t, mbr, p)
  BY DEF Leads
<1>2. NodeOk(t.page[p], p, tight) /\ p \in Nat
  BY <1>1 DEF Sound, Paged
<1>3. Shapely(t.page[p].entries) /\ t.page[p].m_level \in Nat
  BY <1>2, PairsAre DEF NodeOk
<1>4. ASSUME Level(t, p) # 0
      PROVE  /\ Goes(t, mbr, p) \in DOMAIN t.page /\ Level(t, Goes(t, mbr, p)) = Level(t, p) - 1
             /\ \E e \in Es(t, p) : e.id = Goes(t, mbr, p)
  <2> DEFINE es == t.page[p].entries
  <2> DEFINE k == Child(t, t.page[p], mbr)
  <2>1. es # <<>>
    <3>1. 1 <= Len(es)
      BY <1>4 DEF Level
    <3>2. es = <<>> => Len(es) = 0
      OBVIOUS
    <3> QED
      BY <3>1, <3>2
  <2>2. k \in DOMAIN es
    BY <1>3, <2>1, ChildIs
  <2> HIDE DEF k
  <2>3. es[k] \in ToSet(es) /\ es[k] \in Es(t, p)
    BY <2>2 DEF ToSet, Es
  <2> DEFINE x == <<t.page[p].m_level, es[k]>>
  <2>4. x \in Pairs(t.page[p])
    BY <2>3 DEF Pairs
  <2>5. x \in Kept(t.page, W)
    BY <2>4, KeptIs
  <2>6. x[1] = t.page[p].m_level /\ x[2] = es[k]
    OBVIOUS
  <2> HIDE DEF x
  <2>7. es[k].id \in DOMAIN t.page /\ t.page[es[k].id].m_level = t.page[p].m_level - 1
    BY <1>1, <1>4, <2>5, <2>6 DEF Down, Level
  <2>8. Goes(t, mbr, p) = es[k].id
    BY DEF Goes, k
  <2> QED
    BY <2>3, <2>7, <2>8 DEF Level
<1> QED
  BY <1>2, <1>3, <1>4 DEF Level

\* One step of the way up from the node of that level.
WayStep(t, mbr, level, f, p) ==
    IF Level(t, p) \in {0, level} THEN <<p>> ELSE Append(f[Goes(t, mbr, p)], p)

\* The ways down from the pages of the lowest n levels exist.
LEMMA WayUpTo ==
    ASSUME NEW t, NEW mbr, Leads(t, mbr), NEW level, NEW n \in Nat
    PROVE  \E f : \A p \in DOMAIN t.page : Level(t, p) <= n => f[p] = WayStep(t, mbr, level, f, p)
<1> DEFINE Solves(f, m) == \A p \in DOMAIN t.page : Level(t, p) <= m => f[p] = WayStep(t, mbr, level, f, p)
<1> DEFINE Bad == {m \in Nat : \A f : ~ Solves(f, m)}
<1> SUFFICES ASSUME Bad # {} PROVE FALSE
  OBVIOUS
<1>1. PICK m \in Bad : \A l \in Bad : m <= l
  BY LeastExists
<1>2. PICK f : m > 0 => Solves(f, m - 1)
  <2>1. CASE m = 0
    BY <2>1
  <2>2. CASE m > 0
    <3>1. m - 1 \in Nat /\ ~ (m <= m - 1)
      BY <2>2
    <3>2. m - 1 \notin Bad
      BY <1>1, <3>1
    <3> QED
      BY <3>1, <3>2
  <2> QED
    BY <2>1, <2>2
<1> DEFINE g == [p \in DOMAIN t.page |-> WayStep(t, mbr, level, f, p)]
<1>3. ASSUME NEW p \in DOMAIN t.page, Level(t, p) <= m PROVE g[p] = WayStep(t, mbr, level, g, p)
  <2>1. g[p] = WayStep(t, mbr, level, f, p)
    OBVIOUS
  <2>2. ASSUME Level(t, p) # 0 PROVE f[Goes(t, mbr, p)] = g[Goes(t, mbr, p)]
    <3>1. Level(t, p) \in Nat /\ Goes(t, mbr, p) \in DOMAIN t.page /\ Level(t, Goes(t, mbr, p)) = Level(t, p) - 1
      BY <2>2 DEF Leads
    <3>2. m > 0 /\ Level(t, Goes(t, mbr, p)) <= m - 1
      BY <1>3, <2>2, <3>1
    <3>3. f[Goes(t, mbr, p)] = WayStep(t, mbr, level, f, Goes(t, mbr, p))
      BY <1>2, <3>1, <3>2
    <3> QED
      BY <3>1, <3>3
  <2> HIDE DEF g
  <2>3. CASE Level(t, p) \in {0, level}
    BY <2>1, <2>3 DEF WayStep
  <2>4. CASE Level(t, p) \notin {0, level}
    BY <2>1, <2>2, <2>4 DEF WayStep
  <2> QED
    BY <2>3, <2>4
<1>4. Solves(g, m)
  BY <1>3
<1> HIDE DEF g, Solves
<1> QED
  BY <1>1, <1>4

\* The equation of chooseSubtree has a solution.
LEMMA WayIs ==
    ASSUME NEW t, NEW mbr, Leads(t, mbr), NEW level, NEW H \in Nat, \A p \in DOMAIN t.page : Level(t, p) <= H,
           t.m_rootID \in DOMAIN t.page
    PROVE  \E w : /\ \A p \in DOMAIN t.page : w[p] = WayStep(t, mbr, level, w, p)
                  /\ chooseSubtree(t, mbr, level) = w[t.m_rootID]
<1>1. PICK f : \A q \in DOMAIN t.page : Level(t, q) <= H => f[q] = WayStep(t, mbr, level, f, q)
  BY WayUpTo
<1> DEFINE w == [q \in DOMAIN t.page |-> f[q]]
<1>2. ASSUME NEW q \in DOMAIN t.page PROVE w[q] = WayStep(t, mbr, level, w, q)
  <2>1. w[q] = WayStep(t, mbr, level, f, q) /\ \A o \in DOMAIN t.page : w[o] = f[o]
    BY <1>1
  <2> HIDE DEF w
  <2>2. Level(t, q) # 0 => f[Goes(t, mbr, q)] = w[Goes(t, mbr, q)]
    BY <2>1 DEF Leads
  <2> QED
    BY <2>1, <2>2 DEF WayStep
<1>3. w = [q \in DOMAIN t.page |-> WayStep(t, mbr, level, w, q)]
  BY <1>2
<1>4. \E h : h = [q \in DOMAIN t.page |-> WayStep(t, mbr, level, h, q)]
  BY <1>3
<1> DEFINE c == CHOOSE h : h = [q \in DOMAIN t.page |-> WayStep(t, mbr, level, h, q)]
<1>5. c = [q \in DOMAIN t.page |-> WayStep(t, mbr, level, c, q)]
  BY <1>4
<1>6. chooseSubtree(t, mbr, level) = c[t.m_rootID]
  BY DEF chooseSubtree, WayStep, Goes, Level
<1> HIDE DEF c
<1>7. \A p \in DOMAIN t.page : c[p] = WayStep(t, mbr, level, c, p)
  BY <1>5
<1> QED
  BY <1>6, <1>7

\* A way from a node of that level up to p.
WayTo(t, level, way, p) ==
    /\ way \in Seq(Nat) /\ Len(way) # 0 /\ way[Len(way)] = p
    /\ \A k \in 1 .. Len(way) : way[k] \in DOMAIN t.page /\ Level(t, way[k]) = level + (k - 1)
    /\ \A k \in 1 .. Len(way) : k # 1 => \E e \in Es(t, way[k]) : e.id = way[k - 1]

\* A way down from a child is one from its parent.
LEMMA WayToLonger ==
    ASSUME NEW t, NEW level \in Nat, NEW way, NEW q, WayTo(t, level, way, q),
           NEW p \in DOMAIN t.page, p \in Nat, Level(t, p) \in Nat, Level(t, q) = Level(t, p) - 1,
           \E e \in Es(t, p) : e.id = q
    PROVE  WayTo(t, level, Append(way, p), p)
<1> DEFINE L == Len(way)
<1> DEFINE up == Append(way, p)
<1>1. way \in Seq(Nat) /\ L \in Nat /\ L # 0 /\ way[L] = q
  BY DEF WayTo
<1>2. up \in Seq(Nat) /\ Len(up) = L + 1 /\ up[L + 1] = p /\ \A i \in 1 .. L : up[i] = way[i]
  BY <1>1
<1>3. /\ \A k \in 1 .. L : way[k] \in DOMAIN t.page /\ Level(t, way[k]) = level + (k - 1)
      /\ \A k \in 1 .. L : k # 1 => \E e \in Es(t, way[k]) : e.id = way[k - 1]
  BY DEF WayTo
<1> HIDE DEF L, up
<1>4. Level(t, p) = level + ((L + 1) - 1)
  <2>1. L \in 1 .. L
    BY <1>1
  <2>2. Level(t, q) = level + (L - 1)
    BY <1>1, <1>3, <2>1
  <2> DEFINE a == Level(t, p)
  <2> DEFINE b == Level(t, q)
  <2>3. a \in Nat /\ b = a - 1 /\ b = level + (L - 1) /\ L \in Nat
    BY <1>1, <2>2
  <2> HIDE DEF a, b
  <2>4. a = level + ((L + 1) - 1)
    BY <2>3
  <2> QED
    BY <2>4 DEF a
<1>5. ASSUME NEW k \in 1 .. L + 1 PROVE up[k] \in DOMAIN t.page /\ Level(t, up[k]) = level + (k - 1)
  <2>1. CASE k = L + 1
    BY <1>2, <1>4, <2>1
  <2>2. CASE k # L + 1
    <3>1. k \in 1 .. L
      BY <1>1, <2>2, LastOrIn
    <3> QED
      BY <1>2, <1>3, <3>1
  <2> QED
    BY <2>1, <2>2
<1>6. ASSUME NEW k \in 1 .. L + 1, k # 1 PROVE \E e \in Es(t, up[k]) : e.id = up[k - 1]
  <2>1. CASE k = L + 1
    <3>1. k - 1 = L /\ L \in 1 .. L
      BY <1>1, <2>1
    <3> QED
      BY <1>1, <1>2, <2>1, <3>1
  <2>2. CASE k # L + 1
    <3>1. k \in 1 .. L /\ k - 1 \in 1 .. L
      BY <1>1, <1>6, <2>2
    <3> QED
      BY <1>2, <1>3, <1>6, <3>1
  <2> QED
    BY <2>1, <2>2
<1>7. Len(up) # 0
  BY <1>1, <1>2
<1>8. WayTo(t, level, up, p)
  BY <1>2, <1>5, <1>6, <1>7 DEF WayTo
<1> QED
  BY <1>8 DEF up

\* The way down from a page reaches the level asked for.
LEMMA WayGives ==
    ASSUME NEW t, NEW mbr, Leads(t, mbr), NEW level \in Nat,
           NEW w, \A p \in DOMAIN t.page : w[p] = WayStep(t, mbr, level, w, p),
           NEW p \in DOMAIN t.page, level <= Level(t, p)
    PROVE  WayTo(t, level, w[p], p)
<1> DEFINE Wrong == {q \in DOMAIN t.page : level <= Level(t, q) /\ ~ WayTo(t, level, w[q], q)}
<1> DEFINE N == {Level(t, q) : q \in Wrong}
<1> SUFFICES ASSUME Wrong # {} PROVE FALSE
  OBVIOUS
<1>1. N \in SUBSET Nat /\ N # {}
  BY DEF Leads
<1>2. PICK l \in N : \A m \in N : l <= m
  BY <1>1, LeastExists
<1>3. PICK q \in Wrong : l = Level(t, q)
  BY <1>2
<1>4. \A o \in Wrong : Level(t, q) <= Level(t, o)
  BY <1>2, <1>3
<1>5. q \in DOMAIN t.page /\ Level(t, q) \in Nat /\ q \in Nat /\ level <= Level(t, q) /\ w[q] = WayStep(t, mbr, level, w, q)
      /\ ~ WayTo(t, level, w[q], q)
  BY <1>3 DEF Leads
<1>6. CASE Level(t, q) \in {0, level}
  <2>1. Level(t, q) = level
    BY <1>5, <1>6
  <2>2. w[q] = <<q>>
    BY <1>5, <1>6 DEF WayStep
  <2>3. PICK way : way = <<q>>
    OBVIOUS
  <2>4. way \in Seq(Nat) /\ Len(way) = 1 /\ way[1] = q
    BY <1>5, <2>3, SingleIs
  <2>5. Level(t, q) = level + (1 - 1) /\ \A k \in 1 .. 1 : k = 1
    BY <2>1
  <2>6. WayTo(t, level, way, q)
    BY <1>5, <2>4, <2>5 DEF WayTo
  <2> QED
    BY <1>5, <2>2, <2>3, <2>6
<1>7. CASE Level(t, q) \notin {0, level}
  <2> DEFINE c == Goes(t, mbr, q)
  <2>1. c \in DOMAIN t.page /\ Level(t, c) = Level(t, q) - 1 /\ \E e \in Es(t, q) : e.id = c
    BY <1>5, <1>7 DEF Leads
  <2>2. w[q] = Append(w[c], q)
    BY <1>5, <1>7 DEF WayStep
  <2> HIDE DEF c
  <2>3. level <= Level(t, c) /\ ~ (Level(t, q) <= Level(t, c))
    BY <1>5, <1>7, <2>1
  <2>4. c \notin Wrong
    <3> HIDE DEF Wrong
    <3> QED
      BY <1>4, <2>3
  <2>5. WayTo(t, level, w[c], c)
    BY <2>1, <2>3, <2>4
  <2>6. WayTo(t, level, Append(w[c], q), q)
    BY <1>5, <2>1, <2>5, WayToLonger
  <2> QED
    BY <1>5, <2>2, <2>6
<1> QED
  BY <1>6, <1>7

\* A way is a node and a path up from it.
LEMMA WayIsUp ==
    ASSUME NEW t, NEW level \in Nat, NEW way, NEW p, WayTo(t, level, way, p)
    PROVE  /\ way[1] \in DOMAIN t.page /\ t.page[way[1]].m_level = level
           /\ Up(t.page, p, way[1], level, Tail(way))
           /\ Len(way) \in Nat /\ Len(way) # 0 /\ Len(Tail(way)) = Len(way) - 1
<1> DEFINE up == Tail(way)
<1> DEFINE L == Len(way)
<1>1. way \in Seq(Nat) /\ L \in Nat /\ L # 0 /\ way[L] = p /\ 1 \in 1 .. L
  BY DEF WayTo
<1>2. up \in Seq(Nat) /\ Len(up) = L - 1 /\ \A i \in 1 .. L - 1 : up[i] = way[i + 1]
  BY <1>1
<1>3. /\ \A k \in 1 .. L : way[k] \in DOMAIN t.page /\ Level(t, way[k]) = level + (k - 1)
      /\ \A k \in 1 .. L : k # 1 => \E e \in Es(t, way[k]) : e.id = way[k - 1]
  BY DEF WayTo
<1> HIDE DEF L, up
<1>4. DOMAIN up = 1 .. L - 1 /\ (up = <<>> <=> L - 1 = 0)
  <2>0. up \in Seq(Nat)
    BY <1>2
  <2>1. DOMAIN up = 1 .. Len(up) /\ (up = <<>> <=> Len(up) = 0)
    BY <2>0
  <2> QED
    BY <1>2, <2>1
<1>5. IF up = <<>> THEN way[1] = p ELSE up[Len(up)] = p
  <2>1. CASE up = <<>>
    <3>1. L = 1
      BY <1>1, <1>4, <2>1
    <3> QED
      BY <1>1, <2>1, <3>1
  <2>2. CASE up # <<>>
    <3>1. L - 1 \in 1 .. L - 1 /\ (L - 1) + 1 = L
      BY <1>1, <1>4, <2>2
    <3> QED
      BY <1>1, <1>2, <2>2, <3>1
  <2> QED
    BY <2>1, <2>2
<1>6. ASSUME NEW k \in DOMAIN up
      PROVE  /\ up[k] \in DOMAIN t.page /\ t.page[up[k]].m_level = level + k
             /\ \E e \in ToSet(t.page[up[k]].entries) : e.id = IF k = 1 THEN way[1] ELSE up[k - 1]
  <2> DEFINE j == k + 1
  <2>1. k \in 1 .. L - 1 /\ j \in 1 .. L /\ j # 1 /\ j - 1 = k /\ up[k] = way[j]
    BY SMTT(30), <1>1, <1>2, <1>4
  <2>2. k # 1 => k - 1 \in 1 .. L - 1 /\ (k - 1) + 1 = k
    BY <1>1, <2>1
  <2> HIDE DEF j
  <2>3. way[j] \in DOMAIN t.page /\ Level(t, way[j]) = level + k /\ \E e \in Es(t, way[j]) : e.id = way[k]
    BY <1>3, <2>1
  <2>4. way[k] = IF k = 1 THEN way[1] ELSE up[k - 1]
    BY <1>2, <2>2
  <2> QED
    BY <2>1, <2>3, <2>4 DEF Level, Es
<1>7. Up(t.page, p, way[1], level, up)
  BY <1>2, <1>5, <1>6 DEF Up
<1>8. way[1] \in DOMAIN t.page /\ t.page[way[1]].m_level = level
  BY <1>1, <1>3 DEF Level
<1> QED
  BY <1>1, <1>2, <1>7, <1>8 DEF up, L

\* chooseSubtree returns the pages from the chosen one up to the root.
LEMMA ChooseIs ==
    ASSUME NEW t, NEW W, NEW X, NEW Y, Works(t, W, X, Y), NEW mbr \in AnyRegion,
           NEW level \in Nat, level <= t.page[t.m_rootID].m_level
    PROVE  WayTo(t, level, chooseSubtree(t, mbr, level), t.m_rootID)
<1>1. /\ Sized(t) /\ Forest(t.page, t.m_rootID, W, X, Tight(t)) /\ Sizes(t, t.page, t.m_rootID, Y)
  BY DEF Works, Conf
<1>2. Leads(t, mbr)
  BY <1>1, LeadsDown DEF Sizes
<1> DEFINE H == Level(t, t.m_rootID)
<1>3. H \in Nat /\ t.m_rootID \in DOMAIN t.page /\ \A p \in DOMAIN t.page : Level(t, p) <= H
  BY <1>1, PairsAre DEF Forest, Sound, Paged, Level
<1>4. level <= H
  BY DEF Level
<1> HIDE DEF H
<1>5. PICK w : /\ \A p \in DOMAIN t.page : w[p] = WayStep(t, mbr, level, w, p)
               /\ chooseSubtree(t, mbr, level) = w[t.m_rootID]
  BY <1>2, <1>3, WayIs
<1> QED
  BY <1>2, <1>3, <1>4, <1>5, WayGives DEF H


\* Sizes after a page was written.
LEMMA SizesStored ==
    ASSUME NEW t, NEW P, NEW r, NEW Y, Sizes(t, P, r, Y), NEW q, NEW p, q.m_identifier = p,
           Len(q.entries) <= Of(t.m_capacity, q.m_level), q.m_level # 0 => 1 <= Len(q.entries),
           p \notin Y /\ p # r => Least(t, q.m_level) <= Len(q.entries),
           p \notin Y /\ p = r /\ q.m_level # 0 => 2 <= Len(q.entries)
    PROVE  Sizes(t, Stored(P, q), r, Y)
<1> DEFINE P2 == Stored(P, q)
<1>1. DOMAIN P2 = DOMAIN P \cup {p} /\ P2[p] = q
  BY StoredIs
<1>2. \A o \in DOMAIN P : o # p => P2[o] = P[o]
  BY StoredOther
<1> HIDE DEF P2
<1> SUFFICES ASSUME NEW o \in DOMAIN P2
             PROVE  /\ Len(P2[o].entries) <= Of(t.m_capacity, P2[o].m_level)
                    /\ P2[o].m_level # 0 => 1 <= Len(P2[o].entries)
                    /\ o \notin Y /\ o # r => Least(t, P2[o].m_level) <= Len(P2[o].entries)
                    /\ o \notin Y /\ o = r /\ P2[o].m_level # 0 => 2 <= Len(P2[o].entries)
  BY DEF Sizes, P2
<1>3. CASE o = p
  BY <1>1, <1>3
<1>4. CASE o # p
  <2>1. o \in DOMAIN P /\ P2[o] = P[o]
    BY <1>1, <1>2, <1>4
  <2> QED
    BY <2>1 DEF Sizes
<1> QED
  BY <1>3, <1>4

\* What the way up from a changed node leaves alone: the data, the nodes that wait, the table.
Quiet(t, u, W) ==
    /\ DOMAIN u.page = DOMAIN t.page
    /\ \A o \in DOMAIN t.page : u.page[o].m_level = t.page[o].m_level
    /\ Same(t, u) /\ Bottom(u.page, W) = Bottom(t.page, W) /\ Rests(t.page, u.page, W)
    /\ u.overflowTable = t.overflowTable /\ u.outside = t.outside
    /\ u.page[t.m_rootID].m_level = t.page[t.m_rootID].m_level

\* Quiet is transitive.
LEMMA QuietTwice ==
    ASSUME NEW t, NEW u, NEW v, NEW W, Quiet(t, u, W), Quiet(u, v, W)
    PROVE  Quiet(t, v, W)
<1>1. u.m_rootID = t.m_rootID
  BY DEF Quiet, Same
<1> QED
  BY <1>1, SameTwice, RestsTwice DEF Quiet

\* What Works says, in parts.
LEMMA WorksIs ==
    ASSUME NEW t, NEW W, NEW X, NEW Y, Works(t, W, X, Y)
    PROVE  /\ Conf(t) /\ IsTree(t) /\ Sized(t)
           /\ Forest(t.page, t.m_rootID, W, X, Tight(t)) /\ Sizes(t, t.page, t.m_rootID, Y) /\ Counts(t, t.page)
           /\ t.m_rootID \in DOMAIN t.page /\ IsFiniteSet(DOMAIN t.page)
           /\ \A p \in DOMAIN t.page : /\ NodeOk(t.page[p], p, Tight(t)) /\ t.page[p].m_identifier = p
                                       /\ t.page[p].m_level \in Nat /\ p \in Nat /\ Shapely(t.page[p].entries)
                                       /\ t.page[p].m_level <= t.page[t.m_rootID].m_level
<1>1. /\ Conf(t) /\ IsTree(t) /\ Sized(t)
      /\ Forest(t.page, t.m_rootID, W, X, Tight(t)) /\ Sizes(t, t.page, t.m_rootID, Y) /\ Counts(t, t.page)
  BY DEF Works, Conf
<1>2. Paged(t.page, t.m_rootID) /\ Sound(t.page, t.m_rootID, Tight(t))
  BY <1>1 DEF Forest
<1>3. \A p \in DOMAIN t.page : /\ NodeOk(t.page[p], p, Tight(t)) /\ t.page[p].m_level <= t.page[t.m_rootID].m_level
                               /\ p \in Nat
  BY <1>2 DEF Sound, Paged
<1>4. \A p \in DOMAIN t.page : /\ t.page[p].m_identifier = p /\ t.page[p].m_level \in Nat
                               /\ Shapely(t.page[p].entries)
  BY <1>3, PairsAre DEF NodeOk
<1>5. t.m_rootID \in DOMAIN t.page /\ IsFiniteSet(DOMAIN t.page)
  BY <1>2 DEF Paged
<1> QED
  BY <1>1, <1>3, <1>4, <1>5

\* A node is written.
Written(t, u, q, p, W, X, Y) ==
    /\ Works(u, W, X, Y) /\ Same(t, u) /\ u.page = Stored(t.page, q)
    /\ u.overflowTable = t.overflowTable /\ u.outside = t.outside
    /\ u.page[t.m_rootID].m_level = t.page[t.m_rootID].m_level
    /\ DOMAIN u.page = DOMAIN t.page /\ u.page[p] = q
    /\ \A o \in DOMAIN t.page : o # p => u.page[o] = t.page[o]

\* The tree works after a page was written again, if forest and sizes allow it.
LEMMA WorksWrite ==
    ASSUME NEW t, Conf(t), Counts(t, t.page), t.m_rootID \in DOMAIN t.page,
           NEW q, NEW p \in DOMAIN t.page, p \in Nat, q.m_identifier = p, q.m_level = t.page[p].m_level,
           NEW W, NEW X, NEW Y, Forest(Stored(t.page, q), t.m_rootID, W, X, Tight(t)),
           Sizes(t, Stored(t.page, q), t.m_rootID, Y)
    PROVE  Written(t, writeNode(t, q), q, p, W, X, Y)
<1> DEFINE u == writeNode(t, q)
<1>1. IsTree(t) /\ q.m_identifier # NewPage
  BY DEF Conf, NewPage
<1>2. /\ Same(t, u) /\ u.page = Stored(t.page, q)
      /\ u.m_u32TreeHeight = t.m_u32TreeHeight /\ u.m_nodesInLevel = t.m_nodesInLevel
      /\ u.m_u32Nodes = t.m_u32Nodes /\ u.overflowTable = t.overflowTable /\ u.outside = t.outside
  BY <1>1, WriteIs
<1> HIDE DEF u
<1>3. u.m_rootID = t.m_rootID
  BY <1>2 DEF Same
<1>4. Conf(u) /\ Tight(u) = Tight(t)
  BY <1>2, SameConf
<1>5. Sizes(u, u.page, u.m_rootID, Y)
  BY <1>2, <1>3, SizesSame
<1>6. Counts(u, u.page)
  BY <1>2, <1>3, CountsWrite
<1>7. Works(u, W, X, Y)
  BY <1>2, <1>3, <1>4, <1>5, <1>6 DEF Works
<1>8. DOMAIN u.page = DOMAIN t.page /\ u.page[p] = q
  <2>1. /\ DOMAIN Stored(t.page, q) = DOMAIN t.page \cup {q.m_identifier}
        /\ Stored(t.page, q)[q.m_identifier] = q
    BY StoredIs
  <2>2. DOMAIN t.page \cup {p} = DOMAIN t.page
    OBVIOUS
  <2>3. q.m_identifier = p
    OBVIOUS
  <2> QED
    BY <1>2, <2>1, <2>2, <2>3
<1>9. \A o \in DOMAIN t.page : o # p => u.page[o] = t.page[o]
  BY <1>2, StoredOther
<1> QED
  BY <1>2, <1>3, <1>7, <1>8, <1>9 DEF u, Written

\* The page p gets the bounds of its child c.
Gets(t, W, X, Y, c, p) ==
    LET q == Adjusted(t, t.page[p], t.page[c])
        u == writeNode(t, q)
        X2 == IF Recomputes(t, t.page[p], t.page[c]) THEN X \cup {p} ELSE X
    IN  /\ Works(u, W, X2, Y) /\ Quiet(t, u, W)
        /\ DOMAIN u.page = DOMAIN t.page /\ u.page[p] = q /\ NonEmpty(q.m_nodeMBR)
        /\ \A o \in DOMAIN t.page : o # p => u.page[o] = t.page[o]

\* The parent's entry takes the child's region; only the parent may now disagree with its own entry.
LEMMA ParentAdjusted ==
    ASSUME NEW t, NEW W, NEW X, NEW Y, NEW c \in DOMAIN t.page, Works(t, W, X \cup {c}, Y),
           NonEmpty(t.page[c].m_nodeMBR),
           NEW p \in DOMAIN t.page, t.page[p].m_level = t.page[c].m_level + 1, p \notin Off(t.page, W),
           \E e \in ToSet(t.page[p].entries) : e.id = c
    PROVE  Gets(t, W, X, Y, c, p)
<1> DEFINE n == t.page[c]
<1> DEFINE P == t.page
<1> DEFINE r == t.m_rootID
<1> DEFINE q == Adjusted(t, P[p], n)
<1> DEFINE u == writeNode(t, q)
<1> DEFINE ch == Recomputes(t, P[p], n)
<1> DEFINE X2 == IF ch THEN X \cup {p} ELSE X
<1>1. /\ Conf(t) /\ Forest(P, r, W, X \cup {c}, Tight(t)) /\ Sizes(t, P, r, Y) /\ Counts(t, P) /\ r \in DOMAIN P
      /\ NodeOk(P[p], p, Tight(t)) /\ NodeOk(n, c, Tight(t)) /\ n.m_identifier = c /\ p \in Nat
      /\ P[p].m_level \in Nat /\ n.m_level \in Nat
  BY WorksIs
<1>2. n.m_nodeMBR \in AnyRegion /\ t.m_bTightMBRs \in BOOLEAN /\ t.Far \in BOOLEAN
  BY <1>1, PairsAre DEF Conf
<1>3. PICK e \in ToSet(P[p].entries) : e.id = c
  OBVIOUS
<1> DEFINE f == Entry(n.m_nodeMBR, e.id)
<1>4. /\ NodeOk(q, p, Tight(t)) /\ q.m_level = P[p].m_level /\ Len(q.entries) = Len(P[p].entries)
      /\ ToSet(q.entries) = (ToSet(P[p].entries) \ {e}) \cup {f}
      /\ NonEmpty(q.m_nodeMBR)
      /\ ch \/ q.m_nodeMBR = P[p].m_nodeMBR
  <2> DEFINE m == P[p]
  <2>1. NodeOk(m, p, Tight(t)) /\ NonEmpty(n.m_nodeMBR) /\ e \in ToSet(m.entries) /\ e.id = n.m_identifier
    BY <1>1, <1>3
  <2> HIDE DEF n, m
  <2>2. LET a == Adjusted(t, m, n)
            b == Entry(n.m_nodeMBR, e.id)
        IN  /\ NodeOk(a, p, Tight(t)) /\ a.m_level = m.m_level /\ Len(a.entries) = Len(m.entries)
            /\ ToSet(a.entries) = (ToSet(m.entries) \ {e}) \cup {b}
            /\ NonEmpty(a.m_nodeMBR)
            /\ Recomputes(t, m, n) \/ a.m_nodeMBR = m.m_nodeMBR
    BY <1>2, <2>1, AdjustedIs
  <2> QED
    BY <2>2 DEF m
<1>5. q.m_identifier = p /\ q.m_level # 0
  BY <1>1, <1>4 DEF NodeOk
<1>6. f = Entry(P[e.id].m_nodeMBR, e.id)
  BY <1>3
<1>7. (X \cup {c}) \ {e.id} \in SUBSET X2 /\ (q.m_nodeMBR = P[p].m_nodeMBR \/ p \in X2 \/ p = r)
  BY <1>3, <1>4
<1> HIDE DEF n, q, f, X2, ch, u
<1>8. /\ Forest(Stored(P, q), r, W, X2, Tight(t))
      /\ \A x : x[1] = 0 => (x \in Kept(Stored(P, q), W) <=> x \in Kept(P, W))
  BY <1>1, <1>3, <1>4, <1>5, <1>6, <1>7, Rebind
<1>9. Sizes(t, Stored(P, q), r, Y)
  <2>1. /\ Len(P[p].entries) <= Of(t.m_capacity, P[p].m_level)
        /\ P[p].m_level # 0 => 1 <= Len(P[p].entries)
        /\ p \notin Y /\ p # r => Least(t, P[p].m_level) <= Len(P[p].entries)
        /\ p \notin Y /\ p = r /\ P[p].m_level # 0 => 2 <= Len(P[p].entries)
    BY <1>1 DEF Sizes
  <2> QED
    BY <1>1, <1>4, <1>5, <2>1, SizesStored
<1>15. Written(t, u, q, p, W, X2, Y)
  BY <1>1, <1>4, <1>5, <1>8, <1>9, WorksWrite DEF u
<1>10. /\ Works(u, W, X2, Y) /\ Same(t, u) /\ u.page = Stored(P, q)
       /\ u.overflowTable = t.overflowTable /\ u.outside = t.outside
       /\ u.page[r].m_level = P[r].m_level
       /\ DOMAIN u.page = DOMAIN P /\ u.page[p] = q
       /\ \A o \in DOMAIN P : o # p => u.page[o] = P[o]
  BY <1>15 DEF Written
<1>11. Bottom(u.page, W) = Bottom(P, W)
  BY <1>8, <1>10 DEF Bottom
<1>12. Rests(P, u.page, W)
  BY <1>5, <1>10, RestsStored
<1>14. \A o \in DOMAIN P : u.page[o].m_level = P[o].m_level
  BY <1>4, <1>10
<1>13. Quiet(t, u, W)
  BY <1>10, <1>11, <1>12, <1>14 DEF Quiet
<1> QED
  BY <1>4, <1>10, <1>13 DEF u, q, n, X2, ch, Gets


AdjustStep(path, k, s) ==
    LET p  == s.t.page[path[k]]
        p2 == Adjusted(s.t, p, s.n)
    IN  IF ~s.changed THEN s
        ELSE [t |-> writeNode(s.t, p2), n |-> p2, changed |-> Recomputes(s.t, p, s.n)]

\* The nodes of the path are adjusted one after the other.
AdjustingIsFun(t, node, path, n) == CHOOSE g : g = [k \in 0 .. n |-> IF k = 0 THEN [t |-> t, n |-> node, changed |-> TRUE] ELSE AdjustStep(path, k, g[k - 1])]

\* The levels of adjustTree, as a recursion.
LEMMA AdjustingIs ==
    ASSUME NEW t, NEW node, NEW path, NEW n \in Nat, NEW f, f = AdjustingIsFun(t, node, path, n)
    PROVE  /\ f[0] = [t |-> t, n |-> node, changed |-> TRUE]
           /\ \A k \in 1 .. n : f[k] = AdjustStep(path, k, f[k - 1])
<1> DEFINE S(k, x) == AdjustStep(path, k, x)
<1> DEFINE B == [t |-> t, n |-> node, changed |-> TRUE]
<1> DEFINE Solves(m, g) == g = [k \in 0 .. m |-> IF k = 0 THEN B ELSE S(k, g[k - 1])]
<1> DEFINE Wrong == {m \in Nat : ~ \E g : Solves(m, g)}
<1> HIDE DEF S, B
<1>1. ASSUME Wrong # {} PROVE FALSE
  <2>1. PICK m \in Wrong : \A j \in Wrong : m <= j
    BY <1>1, LeastExists
  <2>2. CASE m = 0
    <3> DEFINE g == [k \in 0 .. 0 |-> B]
    <3>1. Solves(0, g)
      OBVIOUS
    <3> QED
      BY <2>1, <2>2, <3>1
  <2>3. CASE m # 0
    <3>1. m - 1 \in Nat /\ m - 1 \notin Wrong
      <4>1. m \in Nat /\ m - 1 \in Nat
        BY <2>1, <2>3
      <4> HIDE DEF Wrong
      <4> QED
        BY <2>1, <4>1
    <3>2. PICK g : Solves(m - 1, g)
      BY <3>1
    <3> DEFINE h == [k \in 0 .. m |-> IF k < m THEN g[k] ELSE S(m, g[m - 1])]
    <3>3. ASSUME NEW k \in 0 .. m PROVE h[k] = IF k = 0 THEN B ELSE S(k, h[k - 1])
      <4>1. CASE k = 0
        <5>1. g[0] = B
          BY <3>1, <3>2
        <5> QED
          BY <2>3, <4>1, <5>1
      <4>2. CASE k # 0 /\ k < m
        <5>1. k \in 0 .. m - 1 /\ k - 1 \in 0 .. m
          BY <4>2
        <5>2. g[k] = S(k, g[k - 1])
          BY <3>2, <4>2, <5>1
        <5>3. h[k] = g[k] /\ h[k - 1] = g[k - 1]
          BY <4>2, <5>1
        <5> HIDE DEF h
        <5> QED
          BY <4>2, <5>2, <5>3
      <4>3. CASE k = m
        <5>1. m - 1 \in 0 .. m /\ m - 1 < m
          BY <3>1
        <5>2. h[m] = S(m, g[m - 1]) /\ h[m - 1] = g[m - 1]
          BY <2>3, <5>1
        <5> HIDE DEF h
        <5> QED
          BY <2>3, <4>3, <5>2
      <4> QED
        BY <4>1, <4>2, <4>3
    <3>4. h = [k \in 0 .. m |-> h[k]]
      OBVIOUS
    <3> HIDE DEF h
    <3>5. Solves(m, h)
      BY <3>3, <3>4
    <3> QED
      BY <2>1, <3>5
  <2> QED
    BY <2>2, <2>3
<1>2. \E g : Solves(n, g)
  BY <1>1
<1>3. \E g : g = [k \in 0 .. n |-> IF k = 0 THEN B ELSE S(k, g[k - 1])]
  BY <1>2
<1>4. f = CHOOSE g : g = [k \in 0 .. n |-> IF k = 0 THEN B ELSE S(k, g[k - 1])]
  BY DEF S, B, AdjustingIsFun
<1>5. f = [k \in 0 .. n |-> IF k = 0 THEN B ELSE S(k, f[k - 1])]
  BY <1>3, <1>4
<1>6. \A k \in 0 .. n : f[k] = IF k = 0 THEN B ELSE S(k, f[k - 1])
  BY <1>5, Zenon
<1>7. f[0] = B
  BY <1>6
<1>8. ASSUME NEW k \in 1 .. n PROVE f[k] = S(k, f[k - 1])
  <2>1. k \in 0 .. n /\ k # 0
    OBVIOUS
  <2> QED
    BY <1>6, <2>1
<1> QED
  BY <1>7, <1>8 DEF S, B

\* adjustTree is the last level's result.
LEMMA AdjustTreeIs ==
    ASSUME NEW t, NEW n, NEW path
    PROVE  adjustTree(t, n, path) = AdjustingIsFun(t, n, path, Len(path))[Len(path)].t
  BY DEF adjustTree, AdjustingIsFun, AdjustStep

\* The bounds of a page changed: the way up brings the bounds for it up to date.
LEMMA AdjustTreeKeeps ==
    ASSUME NEW t, NEW W, NEW X, NEW Y, NEW id \in DOMAIN t.page, Works(t, W, X \cup {id}, Y),
           NonEmpty(t.page[id].m_nodeMBR),
           NEW level \in Nat, t.page[id].m_level = level,
           NEW path, Up(t.page, t.m_rootID, id, level, path)
    PROVE  LET u == adjustTree(t, t.page[id], path) IN Works(u, W, X, Y) /\ Quiet(t, u, W)
<1> DEFINE P == t.page
<1> DEFINE r == t.m_rootID
<1> DEFINE N == Len(path)
<1> DEFINE f == AdjustingIsFun(t, P[id], path, N)
<1> DEFINE c(k) == IF k = 0 THEN id ELSE path[k]
<1>1. Climbs(P, r, id, level, path)
  BY UpIs
<1>2. /\ N \in Nat /\ (path = <<>> <=> id = r) /\ (path = <<>> <=> N = 0)
      /\ \A k \in 1 .. N : path[k] \in DOMAIN P /\ P[path[k]].m_level = level + k
      /\ \A k \in 1 .. N : path[k] = r <=> k = N
      /\ \A j, k \in 1 .. N : path[j] = path[k] => j = k
  BY <1>1 DEF Climbs
<1>3. \A k \in 1 .. N : \E e \in ToSet(P[path[k]].entries) : e.id = c(k - 1)
  <2>1. DOMAIN path = 1 .. N
    BY <1>1 DEF Climbs
  <2>2. \A k \in 1 .. N : \E e \in ToSet(P[path[k]].entries) : e.id = IF k = 1 THEN id ELSE path[k - 1]
    BY <2>1 DEF Up
  <2> QED
    BY <2>2
<1>4. \A k \in 1 .. N : path[k] \notin Off(P, W)
  <2>1. Forest(P, r, W, X \cup {id}, Tight(t))
    BY DEF Works
  <2>2. DOMAIN path = 1 .. N
    BY <1>1 DEF Climbs
  <2> QED
    BY <2>1, <2>2, UpNotOff
<1>5. f[0] = [t |-> t, n |-> P[id], changed |-> TRUE] /\ \A k \in 1 .. N : f[k] = AdjustStep(path, k, f[k - 1])
  <2> HIDE DEF N
  <2> QED
    BY <1>2, AdjustingIs
<1> DEFINE Good(k) ==
        LET s == f[k]
        IN  /\ Works(s.t, W, IF s.changed THEN X \cup {c(k)} ELSE X, Y) /\ Quiet(t, s.t, W)
            /\ s.changed => s.n = s.t.page[c(k)] /\ NonEmpty(s.n.m_nodeMBR)
            /\ \A j \in k + 1 .. N : s.t.page[path[j]] = P[path[j]]
<1> HIDE DEF f, N, P, r
<1>6. Good(0)
  <2>1. /\ f[0].t = t /\ f[0].n = P[id] /\ f[0].changed = TRUE
    BY <1>5
  <2>2. Quiet(t, t, W)
    <3>1. IsTree(t)
      BY DEF Works, Conf
    <3> QED
      BY <3>1 DEF Quiet, Same, Rests, Off
  <2> QED
    BY <2>1, <2>2 DEF P
<1>7. ASSUME NEW k \in 1 .. N, Good(k - 1) PROVE Good(k)
  <2> DEFINE s == f[k - 1]
  <2>1. /\ Works(s.t, W, IF s.changed THEN X \cup {c(k - 1)} ELSE X, Y) /\ Quiet(t, s.t, W)
        /\ s.changed => s.n = s.t.page[c(k - 1)] /\ NonEmpty(s.n.m_nodeMBR)
        /\ \A j \in (k - 1) + 1 .. N : s.t.page[path[j]] = P[path[j]]
    BY <1>7
  <2>2. f[k] = AdjustStep(path, k, s)
    BY <1>5
  <2>3. \A j \in k .. N : s.t.page[path[j]] = P[path[j]]
    <3>1. (k - 1) + 1 = k
      BY <1>2
    <3> QED
      BY <2>1, <3>1
  <2>4. k \in k .. N /\ k # 0 /\ k - 1 \in Nat /\ (\A j \in k + 1 .. N : j \in k .. N /\ j \in 1 .. N /\ j # k)
    BY <1>2
  <2> HIDE DEF s
  <2>5. CASE ~ s.changed
    <3>1. f[k] = s
      BY <2>2, <2>5 DEF AdjustStep
    <3> QED
      BY <2>1, <2>3, <2>4, <2>5, <3>1
  <2>6. CASE s.changed
    <3> DEFINE d == c(k - 1)
    <3> DEFINE p == path[k]
    <3> DEFINE q == Adjusted(s.t, s.t.page[p], s.t.page[d])
    <3> DEFINE ch == Recomputes(s.t, s.t.page[p], s.t.page[d])
    <3>1. f[k] = [t |-> writeNode(s.t, q), n |-> q, changed |-> ch]
      BY <2>1, <2>2, <2>6 DEF AdjustStep
    <3>2. DOMAIN s.t.page = DOMAIN P /\ \A o \in DOMAIN P : s.t.page[o].m_level = P[o].m_level
      BY <2>1 DEF Quiet, P
    <3>3. d \in DOMAIN P /\ p \in DOMAIN P /\ P[p].m_level = P[d].m_level + 1
      <4>1. p \in DOMAIN P /\ P[p].m_level = level + k
        BY <1>2
      <4>2. CASE k = 1
        <5>1. d = id
          BY <4>2
        <5> QED
          BY <4>1, <4>2, <5>1 DEF P
      <4>3. CASE k # 1
        <5>1. d = path[k - 1] /\ k - 1 \in 1 .. N
          <6>1. k \in Int /\ 1 <= k /\ k <= N /\ N \in Int
            BY <1>2
          <6>2. k - 1 \in 1 .. N /\ k - 1 # 0
            BY <4>3, <6>1
          <6> QED
            BY <6>2
        <5>2. d \in DOMAIN P /\ P[d].m_level = level + (k - 1)
          BY <1>2, <5>1
        <5> QED
          BY <4>1, <5>2
      <4> QED
        BY <4>2, <4>3
    <3>4. p \notin Off(s.t.page, W)
      BY <1>4, <3>2 DEF Off
    <3>5. \E e \in ToSet(s.t.page[p].entries) : e.id = d
      BY <1>3, <2>3, <2>4
    <3>6. Works(s.t, W, X \cup {d}, Y) /\ NonEmpty(s.t.page[d].m_nodeMBR)
      BY <2>1, <2>6
    <3>7. d \in DOMAIN s.t.page /\ p \in DOMAIN s.t.page /\ s.t.page[p].m_level = s.t.page[d].m_level + 1
      BY <3>2, <3>3
    <3> DEFINE t1 == s.t
    <3> DEFINE u == writeNode(t1, q)
    <3>8. /\ Works(u, W, IF ch THEN X \cup {p} ELSE X, Y) /\ Quiet(t1, u, W)
          /\ DOMAIN u.page = DOMAIN t1.page /\ u.page[p] = q /\ NonEmpty(q.m_nodeMBR)
          /\ \A o \in DOMAIN t1.page : o # p => u.page[o] = t1.page[o]
      <4>1. /\ d \in DOMAIN t1.page /\ p \in DOMAIN t1.page /\ t1.page[p].m_level = t1.page[d].m_level + 1
            /\ Works(t1, W, X \cup {d}, Y) /\ NonEmpty(t1.page[d].m_nodeMBR) /\ p \notin Off(t1.page, W)
            /\ \E e \in ToSet(t1.page[p].entries) : e.id = d
        BY <3>4, <3>5, <3>6, <3>7
      <4> HIDE DEF d, p, t1
      <4>2. Gets(t1, W, X, Y, d, p)
        BY <4>1, ParentAdjusted
      <4> QED
        BY <4>2 DEF t1, Gets
    <3>9. Quiet(t, u, W)
      BY <2>1, <3>8, QuietTwice
    <3>10. \A j \in k + 1 .. N : u.page[path[j]] = P[path[j]]
      <4> SUFFICES ASSUME NEW j \in k + 1 .. N PROVE u.page[path[j]] = P[path[j]]
        OBVIOUS
      <4>1. j \in k .. N /\ j \in 1 .. N /\ j # k
        BY <2>4
      <4>2. path[j] \in DOMAIN P /\ path[j] # p
        BY <1>2, <4>1
      <4>3. path[j] \in DOMAIN t1.page
        BY <3>2, <4>2
      <4>4. u.page[path[j]] = t1.page[path[j]]
        BY <3>8, <4>2, <4>3
      <4> QED
        BY <2>3, <4>1, <4>4
    <3>11. c(k) = p
      BY <2>4
    <3> HIDE DEF q, ch, u, p, d, c
    <3>12. f[k].t = u /\ f[k].n = q /\ f[k].changed = ch
      BY <3>1 DEF u
    <3> QED
      BY <3>8, <3>9, <3>10, <3>11, <3>12 DEF p
  <2> QED
    BY <2>5, <2>6
<1> HIDE DEF Good
<1>8. \A k \in 0 .. N : Good(k)
  <2>1. SUFFICES ASSUME {k \in Nat : k <= N /\ ~ Good(k)} # {} PROVE FALSE
    BY <1>2
  <2>2. PICK k \in {j \in Nat : j <= N /\ ~ Good(j)} : \A j \in {j \in Nat : j <= N /\ ~ Good(j)} : k <= j
    BY <2>1, LeastExists
  <2>3. k # 0
    BY <1>6, <2>2
  <2>4. Good(k - 1)
    BY <1>2, <2>2, <2>3
  <2> QED
    BY <1>2, <1>7, <2>2, <2>3, <2>4
<1>9. Good(N)
  BY <1>2, <1>8
<1> DEFINE u == f[N].t
<1>10. adjustTree(t, P[id], path) = u
  BY AdjustTreeIs DEF f, N, P
<1>11. Works(u, W, IF f[N].changed THEN X \cup {c(N)} ELSE X, Y) /\ Quiet(t, u, W)
  BY <1>9 DEF Good
<1>12. c(N) = r
  BY <1>2
<1>13. Works(u, W, X, Y)
  <2>1. u.m_rootID = r
    BY <1>11 DEF Quiet, Same, r
  <2>2. Works(u, W, X, Y) \/ Works(u, W, X \cup {r}, Y)
    BY <1>11, <1>12
  <2> HIDE DEF u
  <2>3. ASSUME Works(u, W, X \cup {r}, Y) PROVE Works(u, W, X, Y)
    <3>1. Forest(u.page, r, W, X \cup {r}, Tight(u))
      BY <2>1, <2>3 DEF Works
    <3>2. Forest(u.page, r, W, X, Tight(u))
      BY <3>1, ForestOther
    <3> QED
      BY <2>1, <2>3, <3>2 DEF Works
  <2> QED
    BY <2>2, <2>3
<1> QED
  BY <1>10, <1>11, <1>13 DEF P


\* The tree works whatever the overflow table holds.
LEMMA WorksSame ==
    ASSUME NEW t, NEW W, NEW X, NEW Y, Works(t, W, X, Y), NEW u, Same(t, u), u.page = t.page,
           u.m_u32TreeHeight = t.m_u32TreeHeight, u.m_nodesInLevel = t.m_nodesInLevel,
           u.m_u32Nodes = t.m_u32Nodes
    PROVE  Works(u, W, X, Y)
<1>1. /\ Conf(t) /\ Forest(t.page, t.m_rootID, W, X, Tight(t)) /\ Sizes(t, t.page, t.m_rootID, Y)
      /\ Counts(t, t.page)
  BY DEF Works
<1>2. Conf(u) /\ Tight(u) = Tight(t)
  BY <1>1, SameConf
<1>3. u.m_rootID = t.m_rootID
  BY DEF Same
<1>4. Sizes(u, u.page, u.m_rootID, Y)
  BY <1>1, <1>3, SizesSame
<1>5. Counts(u, u.page)
  BY <1>1, <1>3 DEF Counts
<1> QED
  BY <1>1, <1>2, <1>3, <1>4, <1>5 DEF Works

\* What is written twice.
LEMMA WriteAgain ==
    ASSUME NEW t, IsTree(t), NEW a, NEW b, a.m_identifier = b.m_identifier, a.m_identifier # NewPage
    PROVE  writeNode(writeNode(t, a), b) = writeNode(t, b)
<1> DEFINE A == Stored(t.page, a)
<1> DEFINE B == Stored(t.page, b)
<1>1. Stored(A, b) = B
  BY StoredTwice
<1> HIDE DEF A, B
<1>2. writeNode(t, a) = [t EXCEPT !.page = A] /\ writeNode(t, b) = [t EXCEPT !.page = B]
  BY DEF writeNode, A, B
<1> DEFINE u == [t EXCEPT !.page = A]
<1>3. u.page = A
  BY DEF IsTree, Fields
<1>4. writeNode(u, b) = [u EXCEPT !.page = B]
  <2> HIDE DEF u
  <2> QED
    BY <1>1, <1>3 DEF writeNode
<1> QED
  BY <1>2, <1>4

\* In a tree the entry e waits for the node id.
AtNode(t, W, X, Y, id, e) ==
    /\ id \in DOMAIN t.page
    /\ Works(t, W \cup {<<t.page[id].m_level, e>>}, X, Y) /\ <<t.page[id].m_level, e>> \notin W

\* So e is no entry of the node, nor has it the id of one.
Fits(t, W, id, e) ==
    LET n == t.page[id]
        es == Append(n.entries, e)
    IN  /\ id \in DOMAIN t.page
        /\ NodeOk(n, id, Tight(t)) /\ n.m_identifier = id /\ n.m_level \in Nat /\ id \in Nat
        /\ n.m_level <= t.page[t.m_rootID].m_level /\ n.m_nodeMBR \in AnyRegion
        /\ e \in EntryT /\ NonEmpty(e.mbr) /\ \A x \in ToSet(n.entries) : x.id # e.id
        /\ Shapely(es) /\ Distinct(es) /\ Len(es) = Len(n.entries) + 1 /\ Len(n.entries) \in Nat
        /\ ToSet(es) = ToSet(n.entries) \cup {e}
        /\ Pairs(n) \cap W = {} /\ <<n.m_level, e>> \notin Pairs(n)

\* What is known of a node that is to receive an entry.
LEMMA AtNodeIs ==
    ASSUME NEW t, NEW W, NEW X, NEW Y, NEW id, NEW e, AtNode(t, W, X, Y, id, e)
    PROVE  Fits(t, W, id, e)
<1> DEFINE n == t.page[id]
<1> DEFINE es == Append(n.entries, e)
<1> DEFINE w == <<n.m_level, e>>
<1>1. id \in DOMAIN t.page /\ Works(t, W \cup {w}, X, Y) /\ w \notin W
  BY DEF AtNode
<1>2. /\ Forest(t.page, t.m_rootID, W \cup {w}, X, Tight(t))
      /\ NodeOk(n, id, Tight(t)) /\ n.m_identifier = id /\ n.m_level \in Nat /\ id \in Nat
      /\ n.m_level <= t.page[t.m_rootID].m_level /\ Shapely(n.entries)
  BY <1>1, WorksIs
<1>3. n.m_nodeMBR \in AnyRegion /\ \A x \in ToSet(n.entries) : <<n.m_level, x>> \in Pairs(n)
  BY <1>2, PairsAre
<1>4. w \in PairT
  BY <1>2 DEF Forest
<1>5. e \in EntryT /\ NonEmpty(e.mbr)
  BY <1>4 DEF PairT
<1>6. OneId(Kept(t.page, W \cup {w})) /\ \A x \in Pairs(n) : x \notin W \cup {w}
  BY <1>1, <1>2 DEF Forest, OneHolder
<1>7. ASSUME NEW x \in ToSet(n.entries) PROVE x.id # e.id
  <2> DEFINE y == <<n.m_level, x>>
  <2>1. y \in Kept(t.page, W \cup {w}) /\ w \in Kept(t.page, W \cup {w})
    BY <1>1, <1>3, KeptIs
  <2>2. y[1] = w[1] /\ y[2] = x /\ w[2] = e /\ y # w
    BY <1>3, <1>6
  <2> HIDE DEF y, w
  <2> QED
    BY <1>6, <2>1, <2>2 DEF OneId
<1>8. /\ Shapely(es) /\ Len(es) = Len(n.entries) + 1 /\ DOMAIN es = 1 .. Len(n.entries) + 1
      /\ \A k \in 1 .. Len(n.entries) : es[k] = n.entries[k]
      /\ es[Len(n.entries) + 1] = e
      /\ ToSet(es) = ToSet(n.entries) \cup {e}
  BY <1>2, <1>5, AppendShapely
<1>9. Distinct(n.entries) /\ Len(n.entries) \in Nat /\ DOMAIN n.entries = 1 .. Len(n.entries)
  <2>1. Distinct(n.entries)
    BY <1>2 DEF NodeOk
  <2> QED
    BY <1>2, <2>1, ShapelyIs
<1>10. Distinct(es)
  <2>1. \A k \in 1 .. Len(n.entries) : es[k].id # e.id
    <3>1. \A k \in 1 .. Len(n.entries) : n.entries[k] \in ToSet(n.entries)
      BY <1>9 DEF ToSet
    <3> QED
      BY <1>7, <1>8, <3>1
  <2> SUFFICES ASSUME NEW j \in 1 .. Len(n.entries) + 1, NEW k \in 1 .. Len(n.entries) + 1, es[j].id = es[k].id
               PROVE j = k
    BY <1>8 DEF Distinct
  <2>2. (j \in 1 .. Len(n.entries) \/ j = Len(n.entries) + 1) /\ (k \in 1 .. Len(n.entries) \/ k = Len(n.entries) + 1)
    BY <1>9
  <2> HIDE DEF es, n
  <2> QED
    BY <1>8, <1>9, <2>1, <2>2 DEF Distinct
<1> QED
  BY <1>1, <1>2, <1>3, <1>5, <1>6, <1>7, <1>8, <1>9, <1>10 DEF Fits

\* The node becomes q, and V waits instead.
Becomes(t, u, id, q, W, V, X, Y, K) ==
    /\ Works(u, W \cup V, X, Y) /\ Same(t, u) /\ u.page = Stored(t.page, q)
    /\ u.overflowTable = t.overflowTable /\ u.outside = t.outside
    /\ u.page[t.m_rootID].m_level = t.page[t.m_rootID].m_level
    /\ DOMAIN u.page = DOMAIN t.page /\ u.page[id] = q
    /\ \A o \in DOMAIN t.page : o # id => u.page[o] = t.page[o]
    /\ Kept(u.page, W \cup V) = K

\* The node is replaced by one of the same identifier and level that still has enough entries.
LEMMA NodeBecomes ==
    ASSUME NEW t, NEW W, NEW X, NEW Y, NEW id, NEW e, AtNode(t, W, X, Y, id, e),
           NEW q, NodeOk(q, id, Tight(t)), q.m_level = t.page[id].m_level,
           Len(q.entries) <= Of(t.m_capacity, q.m_level), Least(t, q.m_level) <= Len(q.entries) \/ Len(t.page[id].entries) <= Len(q.entries),
           1 <= Len(q.entries), Len(q.entries) \in Nat,
           id = t.m_rootID /\ q.m_level # 0 => 2 <= Len(q.entries),
           NEW V, Pairs(q) \cup V = Pairs(t.page[id]) \cup {<<t.page[id].m_level, e>>}, Pairs(q) \cap V = {},
           NEW X2, X \in SUBSET X2, q.m_nodeMBR = t.page[id].m_nodeMBR \/ id \in X2
    PROVE  Becomes(t, writeNode(t, q), id, q, W, V, X2, Y, Kept(t.page, W \cup {<<t.page[id].m_level, e>>}))
<1> DEFINE P == t.page
<1> DEFINE r == t.m_rootID
<1> DEFINE n == P[id]
<1> DEFINE w == <<n.m_level, e>>
<1>1. /\ NodeOk(n, id, Tight(t)) /\ n.m_identifier = id /\ n.m_level \in Nat /\ id \in Nat /\ n.m_level <= P[r].m_level
      /\ Pairs(n) \cap W = {} /\ w \notin Pairs(n) /\ Len(n.entries) \in Nat
  BY AtNodeIs DEF Fits
<1>2. Works(t, W \cup {w}, X, Y) /\ w \notin W /\ id \in DOMAIN P
  BY DEF AtNode
<1>3. /\ Conf(t) /\ Forest(P, r, W \cup {w}, X, Tight(t)) /\ Sizes(t, P, r, Y) /\ Counts(t, P) /\ r \in DOMAIN P
      /\ \A o \in DOMAIN P : P[o].m_level \in Nat /\ P[o].m_level <= P[r].m_level
  BY <1>2, WorksIs
<1>4. q.m_identifier = id
  BY DEF NodeOk
<1>5. Pairs(q) \cup (W \cup V) = Pairs(n) \cup (W \cup {w}) /\ Pairs(q) \cap (W \cup V) = {}
  BY <1>1, <1>2
<1>6. id = r => \A o \in DOMAIN P : o # r => P[o].m_level <= q.m_level
  BY <1>3
<1> HIDE DEF w, n
<1>7. /\ Forest(Stored(P, q), r, W \cup V, X2, Tight(t))
      /\ Kept(Stored(P, q), W \cup V) = Kept(P, W \cup {w})
  <2>1. q.m_nodeMBR = P[id].m_nodeMBR \/ id \in X2 \/ id = r
    OBVIOUS
  <2>2. q.m_level = P[id].m_level
    OBVIOUS
  <2> DEFINE W1 == W \cup {w}
  <2> DEFINE W2 == W \cup V
  <2>3. Pairs(q) \cup W2 = Pairs(P[id]) \cup W1 /\ Pairs(q) \cap W2 = {} /\ Forest(P, r, W1, X, Tight(t))
    BY <1>3, <1>5 DEF n
  <2> HIDE DEF W1, W2, P, r
  <2>4. Forest(Stored(P, q), r, W2, X2, Tight(t)) /\ Kept(Stored(P, q), W2) = Kept(P, W1)
    BY <1>2, <1>6, <2>1, <2>2, <2>3, Exchange DEF Exchanged
  <2> QED
    BY <2>4 DEF W1, W2
<1>8. Sizes(t, Stored(P, q), r, Y)
  <2>1. /\ id \notin Y /\ id # r => Least(t, n.m_level) <= Len(n.entries)
        /\ id \notin Y /\ id = r /\ n.m_level # 0 => 2 <= Len(n.entries)
    BY <1>2, <1>3 DEF Sizes, n
  <2>2. Least(t, n.m_level) \in Nat
    BY <1>1, <1>3, LeastIs DEF Conf
  <2>3. q.m_level = n.m_level
    BY DEF n
  <2>4. id \notin Y /\ id # r => Least(t, q.m_level) <= Len(q.entries)
    BY <1>1, <2>1, <2>2, <2>3 DEF n
  <2> QED
    BY <1>3, <1>4, <2>4, SizesStored
<1> DEFINE u == writeNode(t, q)
<1> DEFINE U == W \cup V
<1>9. Forest(Stored(P, q), r, U, X2, Tight(t))
  BY <1>7
<1> HIDE DEF U, u
<1>10. Written(t, u, q, id, U, X2, Y)
  BY <1>1, <1>2, <1>3, <1>4, <1>8, <1>9, WorksWrite DEF u
<1> QED
  BY <1>7, <1>10 DEF Becomes, Written, u, U, w, n


\* Entries, at a level.
At(level, es) == {<<level, x>> : x \in ToSet(es)}

\* Pairs is At of the node's level and entries.
LEMMA AtIs ==
    ASSUME NEW n
    PROVE  Pairs(n) = At(n.m_level, n.entries)
  BY DEF Pairs, At

\* At distributes over the two parts of a split,
LEMMA AtUnion ==
    ASSUME NEW level, NEW a, NEW b, NEW es, ToSet(a) \cup ToSet(b) = ToSet(es)
    PROVE  At(level, a) \cup At(level, b) = At(level, es)
  BY DEF At

\* over an appended entry,
LEMMA AtAppend ==
    ASSUME NEW level, NEW es, NEW e, NEW s, ToSet(es) = ToSet(s) \cup {e}
    PROVE  At(level, es) = At(level, s) \cup {<<level, e>>}
  BY DEF At

\* and keeps apart what is apart.
LEMMA AtApart ==
    ASSUME NEW level, NEW a, NEW b, Apart(a, b)
    PROVE  At(level, a) \cap At(level, b) = {}
<1> SUFFICES ASSUME NEW x \in ToSet(a), NEW y \in ToSet(b), <<level, x>> = <<level, y>> PROVE FALSE
  BY DEF At
<1>1. x = y
  OBVIOUS
<1> QED
  BY <1>1 DEF Apart

Appends(t, u, q, id, e, W, X, Y) ==
    /\ Becomes(t, u, id, q, W, {}, X, Y, Kept(t.page, W \cup {<<t.page[id].m_level, e>>}))
    /\ NonEmpty(q.m_nodeMBR) /\ q.m_level = t.page[id].m_level

\* A node below its capacity gets the entry.
LEMMA AppendTo ==
    ASSUME NEW t, NEW W, NEW X, NEW Y, NEW id, NEW e, AtNode(t, W, X, Y, id, e),
           Len(t.page[id].entries) < Of(t.m_capacity, t.page[id].m_level),
           NEW X2, X \in SUBSET X2, containsRegion(t.page[id].m_nodeMBR, e.mbr) \/ id \in X2
    PROVE  Appends(t, writeNode(t, insertEntry(t.page[id], e)), insertEntry(t.page[id], e), id, e, W, X2, Y)
<1> DEFINE n == t.page[id]
<1> DEFINE q == insertEntry(n, e)
<1> DEFINE w == <<n.m_level, e>>
<1>1. /\ NodeOk(n, id, Tight(t)) /\ n.m_level \in Nat /\ id \in DOMAIN t.page /\ n.m_identifier = id
      /\ e \in EntryT /\ NonEmpty(e.mbr) /\ \A x \in ToSet(n.entries) : x.id # e.id
      /\ Len(n.entries) \in Nat
  <2>1. Fits(t, W, id, e)
    BY AtNodeIs
  <2> QED
    BY <2>1 DEF Fits
<1> HIDE DEF n
<1>2. /\ NodeOk(q, id, Tight(t)) /\ q.m_level = n.m_level
      /\ Pairs(q) = Pairs(n) \cup {w}
      /\ Len(q.entries) = Len(n.entries) + 1
      /\ NonEmpty(q.m_nodeMBR)
      /\ containsRegion(n.m_nodeMBR, e.mbr) => q.m_nodeMBR = n.m_nodeMBR
  BY <1>1, InsertEntryIs
<1> HIDE DEF q, w
<1>3. Works(t, W \cup {w}, X, Y)
  BY DEF AtNode, n, w
<1>4. /\ Sizes(t, t.page, t.m_rootID, Y) /\ Conf(t)
  BY <1>3, WorksIs
<1>5. n.m_level # 0 => 1 <= Len(n.entries)
  BY <1>1, <1>4 DEF Sizes, n
<1>6. Of(t.m_capacity, n.m_level) \in Nat /\ Len(n.entries) < Of(t.m_capacity, n.m_level)
  <2>1. Sized(t)
    BY <1>4 DEF Conf
  <2> QED
    BY <1>1, <2>1 DEF Sized, n
<1>7. /\ Len(q.entries) <= Of(t.m_capacity, q.m_level) /\ Len(n.entries) <= Len(q.entries)
      /\ 1 <= Len(q.entries) /\ Len(q.entries) \in Nat /\ (q.m_level # 0 => 2 <= Len(q.entries))
  BY <1>1, <1>2, <1>5, <1>6
<1>8. Pairs(q) \cup {} = Pairs(n) \cup {w} /\ Pairs(q) \cap {} = {}
  BY <1>2
<1>9. q.m_nodeMBR = n.m_nodeMBR \/ id \in X2
  BY <1>2 DEF n
<1>10. Becomes(t, writeNode(t, q), id, q, W, {}, X2, Y, Kept(t.page, W \cup {w}))
  BY <1>2, <1>7, <1>8, <1>9, NodeBecomes DEF n, w
<1> QED
  BY <1>2, <1>10 DEF n, q, w, Appends

\* The node keeps the entries a, and b waits.
LEMMA KeepPart ==
    ASSUME NEW t, NEW W, NEW X, NEW Y, NEW id, NEW e, AtNode(t, W, X, Y, id, e),
           NEW a, NEW b, SplitsTo(Append(t.page[id].entries, e), a, b),
           Least(t, t.page[id].m_level) <= Len(a), Len(a) <= Of(t.m_capacity, t.page[id].m_level)
    PROVE  LET q == Node(id, t.page[id].m_level, a)
               V == At(t.page[id].m_level, b)
           IN  /\ Becomes(t, writeNode(t, q), id, q, W, V, X \cup {id}, Y, Kept(t.page, W \cup {<<t.page[id].m_level, e>>}))
               /\ NonEmpty(q.m_nodeMBR) /\ q.m_level = t.page[id].m_level /\ V \cap W = {}
<1> DEFINE n == t.page[id]
<1> DEFINE lev == n.m_level
<1> DEFINE es == Append(n.entries, e)
<1> DEFINE q == Node(id, lev, a)
<1> DEFINE w == <<lev, e>>
<1> DEFINE V == At(lev, b)
<1>1. /\ NodeOk(n, id, Tight(t)) /\ lev \in Nat /\ id \in Nat
      /\ ToSet(es) = ToSet(n.entries) \cup {e}
      /\ Pairs(n) \cap W = {}
  <2>1. Fits(t, W, id, e)
    BY AtNodeIs
  <2> QED
    BY <2>1 DEF Fits
<1>2. w \notin W /\ Conf(t)
  <2>1. w \notin W /\ Works(t, W \cup {w}, X, Y)
    BY DEF AtNode
  <2> QED
    BY <2>1, WorksIs
<1>3. Shapely(a) /\ Distinct(a) /\ Apart(a, b) /\ ToSet(a) \cup ToSet(b) = ToSet(es)
  BY DEF SplitsTo
<1>4. Len(a) \in Nat /\ Least(t, lev) \in Nat /\ 1 <= Least(t, lev) /\ (lev # 0 => 2 <= Least(t, lev))
  <2>1. Sized(t)
    BY <1>2 DEF Conf
  <2> QED
    BY <1>1, <1>3, <2>1, ShapelyIs, LeastIs
<1> HIDE DEF n
<1>5. /\ NodeOk(q, id, Tight(t)) /\ q.m_level = lev /\ q.entries = a /\ (a # <<>> => NonEmpty(q.m_nodeMBR))
  <2>1. id \in Int
    BY <1>1
  <2> HIDE DEF lev
  <2> QED
    BY <1>1, <1>3, <2>1, NodeIs
<1>6. /\ Len(q.entries) <= Of(t.m_capacity, q.m_level) /\ Least(t, q.m_level) <= Len(q.entries)
      /\ 1 <= Len(q.entries) /\ Len(q.entries) \in Nat /\ (q.m_level # 0 => 2 <= Len(q.entries))
  <2>1. Least(t, lev) <= Len(a) /\ Len(a) <= Of(t.m_capacity, lev)
    BY DEF n
  <2> HIDE DEF q, lev
  <2> QED
    BY <1>4, <1>5, <2>1
<1>7. Pairs(q) = At(lev, a) /\ Pairs(n) = At(lev, n.entries)
  BY <1>5, AtIs
<1>8. At(lev, a) \cup V = At(lev, n.entries) \cup {w} /\ At(lev, a) \cap V = {}
  <2>1. At(lev, a) \cap At(lev, b) = {}
    BY <1>3, AtApart
  <2>2. ToSet(es) = ToSet(n.entries) \cup {e} /\ ToSet(a) \cup ToSet(b) = ToSet(es)
    BY <1>1, <1>3
  <2> HIDE DEF es, lev
  <2>3. At(lev, a) \cup At(lev, b) = At(lev, es)
    BY <2>2, AtUnion
  <2>4. At(lev, es) = At(lev, n.entries) \cup {<<lev, e>>}
    <3> DEFINE s == n.entries
    <3>1. ToSet(es) = ToSet(s) \cup {e}
      BY <2>2
    <3> HIDE DEF s
    <3>2. At(lev, es) = At(lev, s) \cup {<<lev, e>>}
      BY <3>1, AtAppend
    <3> QED
      BY <3>2 DEF s
  <2> QED
    BY <2>1, <2>3, <2>4
<1> HIDE DEF q, V, w, lev
<1>9. Pairs(q) \cup V = Pairs(n) \cup {w} /\ Pairs(q) \cap V = {}
  BY <1>7, <1>8
<1>10. NonEmpty(q.m_nodeMBR)
  <2>1. a # <<>>
    BY <1>5, <1>6
  <2> QED
    BY <1>5, <2>1
<1>11. V \cap W = {}
  BY <1>1, <1>2, <1>9
<1> DEFINE X2 == X \cup {id}
<1>12. Becomes(t, writeNode(t, q), id, q, W, V, X2, Y, Kept(t.page, W \cup {w}))
  <2>1. X \in SUBSET X2 /\ id \in X2
    OBVIOUS
  <2> HIDE DEF X2
  <2>2. q.m_level = t.page[id].m_level
    BY <1>5 DEF lev, n
  <2>3. w = <<t.page[id].m_level, e>>
    BY DEF w, lev, n
  <2> QED
    BY <1>5, <1>6, <1>9, <2>1, <2>2, <2>3, NodeBecomes DEF n
<1> QED
  BY <1>5, <1>10, <1>11, <1>12 DEF q, V, w, lev, n


\* There is a new node q, for which an entry waits.
ForNode(q) == <<q.m_level + 1, Entry(q.m_nodeMBR, q.m_identifier)>>

Adds(t, u, q, W, X, Y, K) ==
    /\ Works(u, W \cup {ForNode(q)}, X, Y) /\ Same(t, u) /\ u.page = Stored(t.page, q)
    /\ u.overflowTable = t.overflowTable /\ u.outside = t.outside
    /\ u.page[t.m_rootID].m_level = t.page[t.m_rootID].m_level
    /\ q.m_identifier \in Nat /\ q.m_identifier \notin DOMAIN t.page
    /\ DOMAIN u.page = DOMAIN t.page \cup {q.m_identifier} /\ u.page[q.m_identifier] = q
    /\ \A o \in DOMAIN t.page : u.page[o] = t.page[o]
    /\ ForNode(q) \notin K /\ Kept(u.page, W \cup {ForNode(q)}) = K \cup {ForNode(q)}

\* A new page takes entries that waited.
LEMMA NewPageGets ==
    ASSUME NEW t, NEW W, NEW V, NEW X, NEW Y, Works(t, W \cup V, X, Y), W \cap V = {},
           NEW level \in Nat, level <= t.page[t.m_rootID].m_level,
           NEW es, Shapely(es), Distinct(es), V = At(level, es),
           Least(t, level) <= Len(es), Len(es) <= Of(t.m_capacity, level)
    PROVE  Adds(t, writeNode(t, Node(NewPage, level, es)), Node(Unused(t), level, es), W, X, Y, Kept(t.page, W \cup V))
<1> DEFINE P == t.page
<1> DEFINE r == t.m_rootID
<1> DEFINE id == Unused(t)
<1> DEFINE q == Node(id, level, es)
<1> DEFINE w == ForNode(q)
<1> DEFINE u == writeNode(t, Node(NewPage, level, es))
<1> DEFINE U == W \cup V
<1> DEFINE U2 == W \cup {w}
<1>1. /\ Conf(t) /\ IsTree(t) /\ Forest(P, r, U, X, Tight(t)) /\ Sizes(t, P, r, Y) /\ Counts(t, P) /\ r \in DOMAIN P
      /\ IsFiniteSet(DOMAIN P) /\ P[r].m_level \in Nat
  BY WorksIs
<1>2. id \in Nat /\ id \notin DOMAIN P
  BY <1>1, UnusedIs
<1>3. Len(es) \in Nat /\ Least(t, level) \in Nat /\ 1 <= Least(t, level) /\ (level # 0 => 2 <= Least(t, level))
  <2>1. Sized(t)
    BY <1>1 DEF Conf
  <2> QED
    BY <2>1, ShapelyIs, LeastIs
<1>4. es # <<>> /\ 1 <= Len(es)
  BY <1>3
<1> HIDE DEF id
<1>5. /\ NodeOk(q, id, Tight(t)) /\ q.m_level = level /\ q.entries = es /\ q.m_identifier = id /\ NonEmpty(q.m_nodeMBR)
  <2>1. id \in Int
    BY <1>2
  <2> QED
    BY SMTT(30), <1>4, <2>1, NodeIs
<1>6. /\ Same(t, u) /\ u.page = Stored(P, q)
      /\ u.m_u32TreeHeight = t.m_u32TreeHeight
      /\ u.m_nodesInLevel = [t.m_nodesInLevel EXCEPT ![level + 1] = @ + 1]
      /\ u.m_u32Nodes = t.m_u32Nodes + 1
      /\ u.overflowTable = t.overflowTable /\ u.outside = t.outside
  <2>1. Created(t, u, q)
    BY <1>1, WriteNewIs DEF id
  <2>2. q.m_level = level
    BY <1>5
  <2> HIDE DEF u, q
  <2> QED
    BY <2>1, <2>2 DEF Created
<1> HIDE DEF q, u
<1>7. Pairs(q) = V
  BY <1>5, AtIs
<1>8. w = <<q.m_level + 1, Entry(q.m_nodeMBR, id)>>
  BY <1>5 DEF ForNode
<1>9. Pairs(q) \in SUBSET U /\ U2 = (U \ Pairs(q)) \cup {w}
  BY <1>7
<1> HIDE DEF U, U2, w
<1>10. /\ Forest(Stored(P, q), r, U2, X, Tight(t))
       /\ Kept(Stored(P, q), U2) = Kept(P, U) \cup {w}
       /\ w \notin Kept(P, U)
  <2>1. q.m_level <= P[r].m_level
    BY <1>5
  <2> HIDE DEF P, r
  <2> QED
    BY <1>1, <1>2, <1>5, <1>8, <1>9, <2>1, NewNode DEF NodeJoins
<1>11. Sizes(t, Stored(P, q), r, Y)
  <2>1. /\ Len(q.entries) <= Of(t.m_capacity, q.m_level) /\ Least(t, q.m_level) <= Len(q.entries)
        /\ 1 <= Len(q.entries) /\ id # r
    BY <1>1, <1>2, <1>4, <1>5
  <2> HIDE DEF P, r
  <2> QED
    BY <1>1, <1>5, <2>1, SizesStored
<1>12. Counts(u, Stored(P, q))
  <2>1. u.m_rootID = r
    BY <1>6 DEF Same
  <2> QED
    BY <1>1, <1>2, <1>5, <1>6, <2>1, CountsNew
<1>13. Conf(u) /\ Tight(u) = Tight(t) /\ u.m_rootID = r
  BY <1>1, <1>6, SameConf DEF Same
<1>14. Works(u, U2, X, Y)
  <2>1. Sizes(u, u.page, r, Y)
    BY <1>6, <1>11, SizesSame
  <2> QED
    BY <1>6, <1>10, <1>12, <1>13, <2>1 DEF Works
<1>15. DOMAIN u.page = DOMAIN P \cup {id} /\ u.page[id] = q /\ \A o \in DOMAIN P : u.page[o] = P[o]
  <2>1. DOMAIN Stored(P, q) = DOMAIN P \cup {q.m_identifier} /\ Stored(P, q)[q.m_identifier] = q
    BY StoredIs
  <2>2. \A o \in DOMAIN P : o # q.m_identifier => Stored(P, q)[o] = P[o]
    BY StoredOther
  <2> QED
    BY <1>2, <1>5, <1>6, <2>1, <2>2
<1>16. Adds(t, u, q, W, X, Y, Kept(P, U))
  BY <1>1, <1>2, <1>5, <1>6, <1>10, <1>14, <1>15 DEF Adds, U2, w
<1> QED
  BY <1>16 DEF u, q, id, U

\* A node that is not the root is split in two.
Divides(t, u, n1, n2, W, X, Y, K) ==
    /\ Works(u, W \cup {ForNode(n2)}, X \cup {n1.m_identifier}, Y) /\ Same(t, u)
    /\ u.overflowTable = t.overflowTable /\ u.outside = t.outside
    /\ u.page[t.m_rootID].m_level = t.page[t.m_rootID].m_level
    /\ n2.m_identifier \notin DOMAIN t.page /\ n2.m_identifier \in Nat
    /\ DOMAIN u.page = DOMAIN t.page \cup {n2.m_identifier}
    /\ u.page[n1.m_identifier] = n1 /\ u.page[n2.m_identifier] = n2
    /\ \A o \in DOMAIN t.page : o # n1.m_identifier => u.page[o] = t.page[o]
    /\ ForNode(n2) \notin K /\ Kept(u.page, W \cup {ForNode(n2)}) = K \cup {ForNode(n2)}
    /\ NonEmpty(n1.m_nodeMBR) /\ n1.m_level = n2.m_level

\* A split puts one part in the old page and the other in a new one; an entry for the new page waits.
LEMMA SplitDivides ==
    ASSUME NEW t, NEW W, NEW X, NEW Y, NEW id, NEW e, AtNode(t, W, X, Y, id, e),
           NEW a, NEW b, SplitsTo(Append(t.page[id].entries, e), a, b),
           Least(t, t.page[id].m_level) <= Len(a), Len(a) <= Of(t.m_capacity, t.page[id].m_level),
           Least(t, t.page[id].m_level) <= Len(b), Len(b) <= Of(t.m_capacity, t.page[id].m_level)
    PROVE  LET level == t.page[id].m_level
               n1 == Node(id, level, a)
               t1 == writeNode(t, n1)
           IN  Divides(t, writeNode(t1, Node(NewPage, level, b)), n1, Node(Unused(t1), level, b), W, X, Y,
                       Kept(t.page, W \cup {<<level, e>>}))
<1> DEFINE n == t.page[id]
<1> DEFINE level == n.m_level
<1> DEFINE n1 == Node(id, level, a)
<1> DEFINE t1 == writeNode(t, n1)
<1> DEFINE n2 == Node(Unused(t1), level, b)
<1> DEFINE u == writeNode(t1, Node(NewPage, level, b))
<1> DEFINE K == Kept(t.page, W \cup {<<level, e>>})
<1> DEFINE V == At(level, b)
<1>1. Fits(t, W, id, e)
  BY AtNodeIs
<1>2. /\ level \in Nat /\ id \in Nat /\ level <= t.page[t.m_rootID].m_level /\ id \in DOMAIN t.page
  BY <1>1 DEF Fits
<1>6. /\ Least(t, level) <= Len(b) /\ Len(b) <= Of(t.m_capacity, level) /\ Shapely(b) /\ Distinct(b)
  BY DEF SplitsTo
<1>7. /\ Becomes(t, t1, id, n1, W, V, X \cup {id}, Y, K)
      /\ NonEmpty(n1.m_nodeMBR) /\ n1.m_level = level /\ V \cap W = {}
  BY KeepPart
<1> HIDE DEF n, t1, n1, V, K
<1>8. /\ Works(t1, W \cup V, X \cup {id}, Y) /\ Same(t, t1)
      /\ t1.overflowTable = t.overflowTable /\ t1.outside = t.outside
      /\ t1.page[t.m_rootID].m_level = t.page[t.m_rootID].m_level
      /\ DOMAIN t1.page = DOMAIN t.page /\ t1.page[id] = n1
      /\ \A o \in DOMAIN t.page : o # id => t1.page[o] = t.page[o]
      /\ Kept(t1.page, W \cup V) = K
  BY <1>7 DEF Becomes
<1>9. Shapely(b) /\ Distinct(b) /\ Least(t1, level) = Least(t, level) /\ Of(t1.m_capacity, level) = Of(t.m_capacity, level)
      /\ t1.m_rootID = t.m_rootID
  BY <1>6, <1>8, SameSizes DEF Same
<1> DEFINE X2 == X \cup {id}
<1> HIDE DEF X2, level
<1>10. Adds(t1, u, n2, W, X2, Y, Kept(t1.page, W \cup V))
  <2>1. Works(t1, W \cup V, X2, Y)
    BY <1>8 DEF X2
  <2>2. W \cap V = {}
    BY <1>7
  <2>3. level <= t1.page[t1.m_rootID].m_level
    BY <1>2, <1>8, <1>9
  <2>4. Least(t1, level) <= Len(b) /\ Len(b) <= Of(t1.m_capacity, level)
    BY <1>6, <1>9
  <2> HIDE DEF u, n2
  <2> QED
    BY <1>2, <1>9, <2>1, <2>2, <2>3, <2>4, NewPageGets DEF V, u, n2
<1>11. n1.m_identifier = id /\ n2.m_level = level
  BY DEF n1, Node
<1> HIDE DEF u, n2
<1>12. /\ Works(u, W \cup {ForNode(n2)}, X2, Y) /\ Same(t1, u)
       /\ u.overflowTable = t1.overflowTable /\ u.outside = t1.outside
       /\ u.page[t.m_rootID].m_level = t1.page[t.m_rootID].m_level
       /\ n2.m_identifier \in Nat /\ n2.m_identifier \notin DOMAIN t1.page
       /\ DOMAIN u.page = DOMAIN t1.page \cup {n2.m_identifier} /\ u.page[n2.m_identifier] = n2
       /\ \A o \in DOMAIN t1.page : u.page[o] = t1.page[o]
       /\ ForNode(n2) \notin K /\ Kept(u.page, W \cup {ForNode(n2)}) = K \cup {ForNode(n2)}
  BY <1>8, <1>9, <1>10 DEF Adds
<1>13. Same(t, u)
  BY <1>8, <1>12, SameTwice
<1>14. Divides(t, u, n1, n2, W, X, Y, K)
  BY <1>2, <1>7, <1>8, <1>11, <1>12, <1>13 DEF Divides, X2
<1> QED
  BY <1>14 DEF u, n1, n2, t1, level, n, K


RootHas(P, r, A, B, C, W0, W, X, tight) ==
    LET Q == Stored(Stored(Stored(P, A), B), C)
    IN  Forest(Q, r, W, X, tight) /\ Kept(Q, W) = Kept(P, W0) \cup {ForNode(A), ForNode(B)}

\* The root's entries go to two new nodes, and it is written for these.
LEMMA RootSplits ==
    ASSUME NEW P, NEW r, NEW W, NEW X, NEW tight, NEW level \in Nat, NEW e,
           Forest(P, r, W \cup {<<level, e>>}, X, tight), <<level, e>> \notin W, r \in DOMAIN P, r \in Nat,
           P[r].m_level = level, Pairs(P[r]) \cap W = {},
           NEW all, ToSet(all) = ToSet(P[r].entries) \cup {e},
           NEW a, NEW b, SplitsTo(all, a, b), a # <<>>, b # <<>>,
           NEW i \in Nat, NEW j \in Nat, i \notin DOMAIN P, j \notin DOMAIN P, i # j,
           NEW A, NEW B, NEW C, A = Node(i, level, a), B = Node(j, level, b),
           C = Node(r, level + 1, <<Entry(A.m_nodeMBR, i), Entry(B.m_nodeMBR, j)>>)
    PROVE  RootHas(P, r, A, B, C, W \cup {<<level, e>>}, W, X, tight)
<1> DEFINE w == <<level, e>>
<1> DEFINE n == P[r]
<1> DEFINE K == Kept(P, W \cup {w})
<1> DEFINE E == Node(r, level, <<>>)
<1>1. /\ Shapely(a) /\ Shapely(b) /\ Distinct(a) /\ Distinct(b) /\ Apart(a, b)
      /\ ToSet(a) \cup ToSet(b) = ToSet(all)
  BY DEF SplitsTo
<1>2. i \in Int /\ j \in Int /\ r \in Int /\ level + 1 \in Nat
  OBVIOUS
<1>3. /\ NodeOk(A, i, tight) /\ A.m_level = level /\ A.entries = a /\ A.m_identifier = i /\ NonEmpty(A.m_nodeMBR)
      /\ NodeOk(B, j, tight) /\ B.m_level = level /\ B.entries = b /\ B.m_identifier = j /\ NonEmpty(B.m_nodeMBR)
  BY <1>1, <1>2, NodeIs
<1>4. A.m_nodeMBR \in AnyRegion /\ B.m_nodeMBR \in AnyRegion
  BY <1>3, PairsAre
<1>5. NodeOk(E, r, tight) /\ E.m_level = level /\ E.entries = <<>>
  <2>1. Shapely(<<>>) /\ Distinct(<<>>)
    BY DEF Shapely, Distinct
  <2> QED
    BY <1>2, <2>1, NodeIs
<1> DEFINE ea == Entry(A.m_nodeMBR, i)
<1> DEFINE eb == Entry(B.m_nodeMBR, j)
<1>6. ea \in EntryT /\ eb \in EntryT /\ ea.id = i /\ eb.id = j /\ ea.mbr = A.m_nodeMBR /\ eb.mbr = B.m_nodeMBR
  BY <1>2, <1>4 DEF Entry, EntryT
<1> DEFINE two == <<ea, eb>>
<1>7. Shapely(two) /\ Distinct(two) /\ ToSet(two) = {ea, eb}
  <2> HIDE DEF ea, eb
  <2>1. two \in Seq(EntryT) /\ Len(two) = 2 /\ two[1] = ea /\ two[2] = eb /\ DOMAIN two = 1 .. 2
    BY <1>6
  <2> HIDE DEF two
  <2>2. \A k \in 1 .. 2 : k = 1 \/ k = 2
    OBVIOUS
  <2>3. \A k \in DOMAIN two : NonEmpty(two[k].mbr)
    BY <1>3, <1>6, <2>1, <2>2
  <2>4. \A k, l \in DOMAIN two : two[k].id = two[l].id => k = l
    BY <1>6, <2>1, <2>2
  <2>5. 1 \in 1 .. 2 /\ 2 \in 1 .. 2
    OBVIOUS
  <2>6. ToSet(two) = {two[k] : k \in 1 .. 2}
    BY <2>1 DEF ToSet
  <2>7. ToSet(two) = {ea, eb}
    BY <2>1, <2>2, <2>5, <2>6
  <2> QED
    BY <2>1, <2>3, <2>4, <2>7 DEF Shapely, Distinct
<1>8. NodeOk(C, r, tight) /\ C.m_level = level + 1 /\ C.entries = two /\ C.m_identifier = r
  <2> HIDE DEF two
  <2>1. C = Node(r, level + 1, two)
    BY DEF two
  <2> QED
    BY <1>2, <1>7, <2>1, NodeIs
<1> DEFINE wa == <<level + 1, ea>>
<1> DEFINE wb == <<level + 1, eb>>
<1>9. Pairs(C) = {wa, wb}
  <2>1. Pairs(C) = {<<C.m_level, x>> : x \in ToSet(C.entries)}
    BY DEF Pairs
  <2>2. Pairs(C) = {<<level + 1, x>> : x \in {ea, eb}}
    BY <1>7, <1>8, <2>1
  <2> HIDE DEF ea, eb
  <2> QED
    BY <2>2
<1>10. ForNode(A) = wa /\ ForNode(B) = wb
  BY <1>3 DEF ForNode
<1> DEFINE VA == At(level, a)
<1> DEFINE VB == At(level, b)
<1>11. Pairs(A) = VA /\ Pairs(B) = VB /\ Pairs(E) = {} /\ VA \cap VB = {} /\ VA \cup VB = Pairs(n) \cup {w}
  <2>1. Pairs(A) = VA /\ Pairs(B) = VB
    BY <1>3, AtIs
  <2>2. Pairs(E) = {}
    BY <1>5 DEF Pairs, ToSet
  <2>3. VA \cap VB = {}
    BY <1>1, AtApart
  <2>4. VA \cup VB = At(level, all)
    BY <1>1, AtUnion
  <2>5. At(level, all) = At(level, n.entries) \cup {w}
    <3> DEFINE s == n.entries
    <3>1. ToSet(all) = ToSet(s) \cup {e}
      OBVIOUS
    <3> HIDE DEF s
    <3>2. At(level, all) = At(level, s) \cup {<<level, e>>}
      BY <3>1 DEF At
    <3> QED
      BY <3>2 DEF s
  <2>6. Pairs(n) = At(level, n.entries)
    BY AtIs
  <2> QED
    BY <2>1, <2>2, <2>3, <2>4, <2>5, <2>6
<1> DEFINE W0 == W \cup {w}
<1> DEFINE W1 == W \cup (VA \cup VB)
<1> DEFINE W2 == (W \cup VB) \cup {wa}
<1> DEFINE W3 == (W \cup {wa}) \cup {wb}
<1> DEFINE P1 == Stored(P, E)
<1> DEFINE P2 == Stored(P1, A)
<1> DEFINE P3 == Stored(P2, B)
<1> DEFINE P4 == Stored(P3, C)
<1>12. (VA \cup VB) \cap W = {}
  BY <1>11
<1>13. Forest(P, r, W0, X, tight) /\ \A o \in DOMAIN P : P[o].m_level <= level
  BY DEF Forest, Sound
<1> HIDE DEF w, n, E, two, ea, eb, wa, wb, VA, VB
<1>14. Forest(P1, r, W1, X, tight) /\ Kept(P1, W1) = K
  <2>1. Pairs(E) \cup W1 = Pairs(P[r]) \cup W0 /\ Pairs(E) \cap W1 = {}
    BY <1>11 DEF n
  <2> HIDE DEF W0, W1
  <2> QED
    BY SMTT(30), <1>5, <1>13, <2>1, Exchange DEF W0, Exchanged
<1>15. /\ DOMAIN P1 = DOMAIN P /\ P1[r] = E /\ \A o \in DOMAIN P : o # r => P1[o] = P[o]
  <2>1. E.m_identifier = r
    BY <1>5 DEF NodeOk
  <2>2. DOMAIN P1 = DOMAIN P \cup {E.m_identifier} /\ P1[E.m_identifier] = E
    BY StoredIs
  <2>3. \A o \in DOMAIN P : o # E.m_identifier => P1[o] = P[o]
    BY StoredOther
  <2> QED
    BY <2>1, <2>2, <2>3
<1> HIDE DEF P1, K
<1>16. Forest(P2, r, W2, X, tight) /\ Kept(P2, W2) = K \cup {wa} /\ wa \notin K
  <2>1. W2 = (W1 \ Pairs(A)) \cup {wa} /\ Pairs(A) \in SUBSET W1
    BY <1>11, <1>12
  <2>2. wa = <<A.m_level + 1, Entry(A.m_nodeMBR, i)>>
    BY <1>3 DEF wa, ea
  <2>3. A.m_level <= P1[r].m_level
    BY <1>3, <1>5, <1>15
  <2>4. i \notin DOMAIN P1 /\ Forest(P1, r, W1, X, tight)
    BY <1>14, <1>15
  <2> HIDE DEF W1, W2, P2
  <2>5. NodeJoins(P1, r, A, wa, W1, W2, X, tight)
    BY <1>3, <2>1, <2>2, <2>3, <2>4, NewNode
  <2> QED
    BY <1>14, <2>5 DEF NodeJoins, P2
<1>17. /\ DOMAIN P2 = DOMAIN P \cup {i} /\ P2[r] = E
       /\ \A o \in DOMAIN P : o # r => P2[o] = P[o]
  <2>1. DOMAIN P2 = DOMAIN P1 \cup {A.m_identifier} /\ P2[A.m_identifier] = A
    BY StoredIs
  <2>2. \A o \in DOMAIN P1 : o # A.m_identifier => P2[o] = P1[o]
    BY StoredOther
  <2> QED
    BY <1>3, <1>15, <2>1, <2>2
<1> HIDE DEF P2
<1>18. Forest(P3, r, W3, X, tight) /\ Kept(P3, W3) = (K \cup {wa}) \cup {wb}
  <2>0. wa \notin VB
    <3>1. \A x \in VB : x[1] = level
      BY DEF VB, At
    <3> QED
      BY <3>1 DEF wa
  <2>1. W3 = (W2 \ Pairs(B)) \cup {wb} /\ Pairs(B) \in SUBSET W2
    BY <1>11, <1>12, <2>0
  <2>2. wb = <<B.m_level + 1, Entry(B.m_nodeMBR, j)>>
    BY <1>3 DEF wb, eb
  <2>3. B.m_level <= P2[r].m_level /\ j \notin DOMAIN P2
    BY <1>3, <1>5, <1>17
  <2> HIDE DEF W2, W3
  <2> QED
    BY <1>3, <1>16, <2>1, <2>2, <2>3, NewNode DEF NodeJoins
<1>19. DOMAIN P3 = DOMAIN P \cup {i, j} /\ P3[r] = E /\ r \in DOMAIN P3
  <2>1. DOMAIN P3 = DOMAIN P2 \cup {B.m_identifier} /\ P3[B.m_identifier] = B
    BY StoredIs
  <2>2. \A o \in DOMAIN P2 : o # B.m_identifier => P3[o] = P2[o]
    BY StoredOther
  <2> QED
    BY <1>3, <1>17, <2>1, <2>2
<1> HIDE DEF P3
<1>20. Forest(P4, r, W, X, tight) /\ Kept(P4, W) = (K \cup {wa}) \cup {wb}
  <2>1. Pairs(C) \cup W = Pairs(P3[r]) \cup W3
    BY <1>9, <1>11, <1>19
  <2>2. Pairs(C) \cap W = {}
    <3>1. wa \notin W
      <4>1. wa \notin K /\ W \in SUBSET K
        BY <1>16, KeptIs DEF K
      <4> QED
        BY <4>1
    <3>2. wb \notin W
      <4>1. \A x \in W : x[1] = level + 1 => x[2].id \in DOMAIN P
        <5>1. Down(P, r, K, X) /\ W \in SUBSET K
          BY <1>13, KeptIs DEF Forest, K, W0
        <5> QED
          BY <5>1 DEF Down
      <4>2. wb[1] = level + 1 /\ wb[2].id = j
        BY <1>6 DEF wb
      <4> QED
        BY <4>1, <4>2
    <3> QED
      BY <1>9, <3>1, <3>2
  <2>3. \A o \in DOMAIN P3 : o # r => P3[o].m_level <= C.m_level
    <3>1. \A o \in DOMAIN P3 : P3[o].m_level <= P3[r].m_level /\ P3[o].m_level \in Nat
      BY <1>18, PairsAre DEF Forest, Sound
    <3> QED
      BY <1>5, <1>8, <1>19, <3>1
  <2> HIDE DEF W3
  <2>4. Exchanged(P3, r, C, W3, W, X, tight)
    BY <1>8, <1>18, <1>19, <2>1, <2>2, <2>3, Exchange
  <2> QED
    BY <1>18, <2>4 DEF Exchanged
<1>21. Stored(Stored(Stored(P, A), B), C) = P4
  <2>1. E.m_identifier = r
    BY <1>5 DEF NodeOk
  <2> QED
    BY <1>8, <2>1 DEF P4, P3, P2, P1, Stored
<1> QED
  BY <1>10, <1>20, <1>21 DEF K, w, RootHas


\* The numbers of nodes then.
WithRoot(s, level) ==
    Append([[[s EXCEPT ![level + 1] = @ + 1] EXCEPT ![level + 1] = @ + 1] EXCEPT ![level + 1] = 2], 1)

\* What NewRoot does, where A and B are the halves and C is the root above them.
Grown(t, u, level, A, B, C) ==
    /\ Same(t, u) /\ u.page = Stored(Stored(Stored(t.page, A), B), C)
    /\ u.m_u32Nodes = t.m_u32Nodes + 1 + 1 /\ u.m_u32TreeHeight = level + 2
    /\ u.m_nodesInLevel = WithRoot(t.m_nodesInLevel, level)
    /\ u.overflowTable = t.overflowTable /\ u.outside = t.outside

\* The root that splits is replaced: two new pages and a root of two entries above them.
LEMMA NewRootIs ==
    ASSUME NEW t, IsTree(t), IsFiniteSet(DOMAIN t.page), t.m_rootID # NewPage, NEW level, NEW es
    PROVE  \E i, j \in Nat :
              LET A == Node(i, level, es[1])
                  B == Node(j, level, es[2])
              IN  /\ i \notin DOMAIN t.page /\ j \notin DOMAIN t.page /\ i # j
                  /\ Grown(t, NewRoot(t, level, es), level, A, B,
                           Node(t.m_rootID, level + 1, <<Entry(A.m_nodeMBR, i), Entry(B.m_nodeMBR, j)>>))
<1> DEFINE i == Unused(t)
<1> DEFINE A == Node(i, level, es[1])
<1> DEFINE t1 == writeNode(t, Node(NewPage, level, es[1]))
<1> DEFINE j == Unused(t1)
<1> DEFINE B == Node(j, level, es[2])
<1> DEFINE t2 == writeNode(t1, Node(NewPage, level, es[2]))
<1> DEFINE C == Node(t.m_rootID, level + 1, <<Entry(A.m_nodeMBR, i), Entry(B.m_nodeMBR, j)>>)
<1> DEFINE t3 == writeNode(t2, C)
<1> DEFINE u == [t3 EXCEPT !.m_nodesInLevel = Append([@ EXCEPT ![level + 1] = 2], 1), !.m_u32TreeHeight = level + 2]
<1>1. i \in Nat /\ i \notin DOMAIN t.page
  BY UnusedIs
<1>2. Created(t, t1, A)
  BY WriteNewIs
<1>3. A.m_identifier = i /\ A.m_level = level /\ A.m_nodeMBR = Around(es[1])
  BY DEF Node
<1>4. B.m_identifier = j /\ B.m_level = level /\ B.m_nodeMBR = Around(es[2])
  BY DEF Node
<1>5. C.m_identifier = t.m_rootID
  BY DEF Node
<1>6. NewRoot(t, level, es) = u
  BY <1>3, <1>4 DEF NewRoot
<1> HIDE DEF i, A, t1, C
<1>7. IsTree(t1) /\ DOMAIN t1.page = DOMAIN t.page \cup {i} /\ IsFiniteSet(DOMAIN t1.page)
  <2>1. t1.page = Stored(t.page, A) /\ IsTree(t1)
    BY <1>2 DEF Created, Same
  <2>2. DOMAIN t1.page = DOMAIN t.page \cup {i}
    BY <1>3, <2>1 DEF Stored
  <2>3. IsFiniteSet(DOMAIN t.page \cup {i})
    BY FS_AddElement
  <2> QED
    BY <2>1, <2>2, <2>3
<1>8. j \in Nat /\ j \notin DOMAIN t1.page
  BY <1>7, UnusedIs
<1>9. Created(t1, t2, B)
  BY <1>7, WriteNewIs
<1> HIDE DEF j, B, t2
<1>10. IsTree(t2)
  BY <1>9 DEF Created, Same
<1>11. /\ Same(t2, t3) /\ t3.page = Stored(t2.page, C)
       /\ t3.m_u32TreeHeight = t2.m_u32TreeHeight /\ t3.m_nodesInLevel = t2.m_nodesInLevel
       /\ t3.m_u32Nodes = t2.m_u32Nodes /\ t3.overflowTable = t2.overflowTable /\ t3.outside = t2.outside
  BY <1>5, <1>10, WriteIs
<1> HIDE DEF t3
<1> DEFINE s == Append([t3.m_nodesInLevel EXCEPT ![level + 1] = 2], 1)
<1>12. u = [t3 EXCEPT !.m_nodesInLevel = s, !.m_u32TreeHeight = level + 2]
  OBVIOUS
<1> HIDE DEF s, u
<1>13. /\ Same(t3, u) /\ u.page = t3.page /\ u.m_u32Nodes = t3.m_u32Nodes /\ u.m_u32TreeHeight = level + 2
       /\ u.m_nodesInLevel = s /\ u.overflowTable = t3.overflowTable /\ u.outside = t3.outside
  <2>1. IsTree(t3)
    BY <1>11 DEF Same
  <2> QED
    BY <1>12, <2>1 DEF IsTree, Fields, Same
<1>14. Same(t, u)
  BY <1>2, <1>9, <1>11, <1>13, SameTwice DEF Created
<1>15. u.page = Stored(Stored(Stored(t.page, A), B), C)
  BY <1>2, <1>9, <1>11, <1>13 DEF Created
<1>16. /\ u.m_u32Nodes = t.m_u32Nodes + 1 + 1
       /\ u.overflowTable = t.overflowTable /\ u.outside = t.outside
  BY <1>2, <1>9, <1>11, <1>13 DEF Created
<1>17. u.m_nodesInLevel = WithRoot(t.m_nodesInLevel, level)
  <2>1. t3.m_nodesInLevel = [t1.m_nodesInLevel EXCEPT ![level + 1] = @ + 1]
    BY <1>4, <1>9, <1>11 DEF Created
  <2>2. t1.m_nodesInLevel = [t.m_nodesInLevel EXCEPT ![level + 1] = @ + 1]
    BY <1>2, <1>3 DEF Created
  <2> QED
    BY <1>13, <2>1, <2>2 DEF s, WithRoot
<1>18. Grown(t, u, level, A, B, C)
  BY <1>13, <1>14, <1>15, <1>16, <1>17 DEF Grown
<1>19. i # j /\ j \notin DOMAIN t.page
  BY <1>7, <1>8
<1> QED
  BY <1>1, <1>6, <1>8, <1>18, <1>19 DEF A, B, C

\* The numbers of nodes, when P is a tree whose root was alone on its level.
LEMMA CountsGrown ==
    ASSUME NEW t, NEW u, NEW P, Counts(t, P), IsFiniteSet(DOMAIN P), NEW r, r = t.m_rootID, r \in DOMAIN P,
           NEW level \in Nat, P[r].m_level = level,
           \A p \in DOMAIN P : p # r => P[p].m_level + 1 <= level /\ P[p].m_level \in Nat,
           NEW A, NEW B, NEW C, NEW i, NEW j, A.m_identifier = i, B.m_identifier = j, C.m_identifier = r,
           i \notin DOMAIN P, j \notin DOMAIN P, i # j,
           A.m_level = level, B.m_level = level, C.m_level = level + 1,
           u.m_rootID = r, u.m_u32Nodes = t.m_u32Nodes + 1 + 1, u.m_u32TreeHeight = level + 2,
           u.m_nodesInLevel = WithRoot(t.m_nodesInLevel, level)
    PROVE  Counts(u, Stored(Stored(Stored(P, A), B), C))
<1> DEFINE Q == Stored(Stored(Stored(P, A), B), C)
<1> DEFINE s == t.m_nodesInLevel
<1>1. /\ DOMAIN Q = (DOMAIN P \cup {i}) \cup {j} /\ Q[r] = C /\ Q[i] = A /\ Q[j] = B
      /\ \A p \in DOMAIN P : p # r => Q[p] = P[p]
  BY DEF Stored
<1> HIDE DEF Q
<1>2. /\ t.m_u32Nodes = Cardinality(DOMAIN P)
      /\ s \in Seq(Int) /\ Len(s) = level + 1 /\ \A l \in 1 .. level + 1 : s[l] = Cardinality(OnLevel(P, l - 1))
  BY DEF Counts
<1>3. u.m_u32Nodes = Cardinality(DOMAIN Q)
  <2>1. IsFiniteSet(DOMAIN P \cup {i}) /\ Cardinality(DOMAIN P \cup {i}) = Cardinality(DOMAIN P) + 1
    BY FS_AddElement
  <2>2. Cardinality((DOMAIN P \cup {i}) \cup {j}) = Cardinality(DOMAIN P \cup {i}) + 1
    BY <2>1, FS_AddElement
  <2> QED
    BY <1>1, <1>2, <2>1, <2>2
<1> DEFINE s3 == [[[s EXCEPT ![level + 1] = @ + 1] EXCEPT ![level + 1] = @ + 1] EXCEPT ![level + 1] = 2]
<1>4. /\ s3 \in Seq(Int) /\ Len(s3) = level + 1 /\ DOMAIN s3 = 1 .. level + 1
      /\ \A l \in 1 .. level + 1 : s3[l] = IF l = level + 1 THEN 2 ELSE s[l]
  <2>1. DOMAIN s = 1 .. level + 1 /\ level + 1 \in 1 .. level + 1
    BY <1>2
  <2> HIDE DEF s
  <2>2. /\ s3 = [l \in 1 .. level + 1 |-> IF l = level + 1 THEN 2 ELSE s[l]]
    BY <2>1
  <2>3. \A l \in 1 .. level + 1 : s[l] \in Int
    BY <1>2, <2>1
  <2> HIDE DEF s3
  <2>4. DOMAIN s3 = 1 .. level + 1 /\ \A l \in 1 .. level + 1 : s3[l] = IF l = level + 1 THEN 2 ELSE s[l]
    BY <2>2
  <2>5. \A l \in 1 .. level + 1 : s3[l] \in Int
    BY <2>3, <2>4
  <2>6. s3 \in Seq(Int)
    BY <2>2, <2>3
  <2>7. Len(s3) = level + 1
    BY <2>4, <2>6
  <2> QED
    BY <2>4, <2>6, <2>7
<1>5. u.m_nodesInLevel = Append(s3, 1)
  BY DEF WithRoot
<1> HIDE DEF s3
<1>6. /\ u.m_nodesInLevel \in Seq(Int) /\ Len(u.m_nodesInLevel) = level + 2
      /\ \A l \in 1 .. level + 1 : u.m_nodesInLevel[l] = s3[l]
      /\ u.m_nodesInLevel[level + 2] = 1
  <2>1. s3 \in Seq(Int) /\ Len(s3) = level + 1 /\ 1 \in Int
    BY <1>4
  <2> DEFINE z == Append(s3, 1)
  <2>2. z \in Seq(Int) /\ Len(z) = (level + 1) + 1 /\ (\A l \in 1 .. level + 1 : z[l] = s3[l]) /\ z[(level + 1) + 1] = 1
    BY <2>1, AppendProperties
  <2>3. (level + 1) + 1 = level + 2
    OBVIOUS
  <2> HIDE DEF z
  <2>4. u.m_nodesInLevel = z
    BY <1>5 DEF z
  <2> QED
    BY <2>2, <2>3, <2>4
<1>7. OnLevel(Q, level) = {i, j}
  BY <1>1 DEF OnLevel
<1>8. OnLevel(Q, level + 1) = {r}
  BY <1>1 DEF OnLevel
<1>9. ASSUME NEW l \in Nat, l < level PROVE OnLevel(Q, l) = OnLevel(P, l)
  BY <1>1, <1>9 DEF OnLevel
<1>10. Cardinality({i, j}) = 2 /\ Cardinality({r}) = 1
  <2> DEFINE S == {i}
  <2> DEFINE both == {i, j}
  <2>1. IsFiniteSet(S) /\ Cardinality(S) = 1 /\ Cardinality({r}) = 1
    BY FS_Singleton
  <2>2. j \notin S /\ both = S \cup {j}
    OBVIOUS
  <2> HIDE DEF S, both
  <2>3. Cardinality(S \cup {j}) = Cardinality(S) + 1
    BY <2>1, <2>2, FS_AddElement
  <2>4. Cardinality(both) = 2
    BY <2>1, <2>2, <2>3
  <2> QED
    BY <2>1, <2>4 DEF both
<1>11. ASSUME NEW l \in 1 .. level + 2 PROVE u.m_nodesInLevel[l] = Cardinality(OnLevel(Q, l - 1))
  <2>1. CASE l = level + 2
    <3>1. l - 1 = level + 1
      BY <2>1
    <3> QED
      BY <1>6, <1>8, <1>10, <2>1, <3>1
  <2>2. CASE l = level + 1
    <3>1. l - 1 = level /\ l \in 1 .. level + 1
      BY <2>2
    <3> QED
      BY <1>4, <1>6, <1>7, <1>10, <2>2, <3>1
  <2>3. CASE l # level + 2 /\ l # level + 1
    <3>1. l - 1 \in Nat /\ l - 1 < level /\ l \in 1 .. level + 1
      BY <2>3
    <3> QED
      BY <1>2, <1>4, <1>6, <1>9, <2>3, <3>1
  <2> QED
    BY <2>1, <2>2, <2>3
<1>12. level + 2 = (level + 1) + 1
  OBVIOUS
<1> QED
  BY <1>1, <1>3, <1>6, <1>11, <1>12 DEF Counts, Q


\* The root is one level higher.
Higher(t, u, W, X, Y, K) ==
    /\ Works(u, W, X, Y) /\ Same(t, u)
    /\ u.overflowTable = t.overflowTable /\ u.outside = t.outside
    /\ u.page[t.m_rootID].m_level = t.page[t.m_rootID].m_level + 1
    /\ \A o \in DOMAIN t.page : o # t.m_rootID => o \in DOMAIN u.page /\ u.page[o] = t.page[o]
    /\ \E a, b : a[1] # 0 /\ b[1] # 0 /\ Kept(u.page, W) = K \cup {a, b}

\* Same is symmetric.
LEMMA SameBack ==
    ASSUME NEW t, IsTree(t), NEW u, Same(t, u)
    PROVE  Same(u, t)
  BY DEF Same

\* After the root's split the tree works again, one level higher.
LEMMA NewRootKeeps ==
    ASSUME NEW t, IsTree(t), NEW n, n.m_identifier = t.m_rootID, t.m_rootID \in DOMAIN t.page, t.m_rootID # NewPage,
           NEW v, v = writeNode(t, n),
           NEW W, NEW X, NEW Y, NEW e, AtNode(v, W, X, Y, t.m_rootID, e), Low(v.page, t.m_rootID, W),
           Len(n.entries) >= Of(t.m_capacity, n.m_level)
    PROVE  Higher(v, NewRoot(t, n.m_level, split(t, n.m_level, Append(n.entries, e))), W, X, Y,
                  Kept(v.page, W \cup {<<n.m_level, e>>}))
<1> DEFINE r == t.m_rootID
<1> DEFINE level == n.m_level
<1> DEFINE all == Append(n.entries, e)
<1> DEFINE es == split(t, level, all)
<1> DEFINE u == NewRoot(t, level, es)
<1> DEFINE P == v.page
<1> DEFINE w == <<level, e>>
<1> DEFINE K == Kept(P, W \cup {w})
<1>1. /\ Same(t, v) /\ P = Stored(t.page, n)
      /\ v.m_u32TreeHeight = t.m_u32TreeHeight /\ v.m_nodesInLevel = t.m_nodesInLevel
      /\ v.m_u32Nodes = t.m_u32Nodes /\ v.overflowTable = t.overflowTable /\ v.outside = t.outside
  BY WriteIs
<1>2. Same(v, t) /\ v.m_rootID = r
  BY <1>1, SameBack DEF Same
<1>3. P[r] = n /\ DOMAIN P = DOMAIN t.page /\ \A o \in DOMAIN t.page : o # r => P[o] = t.page[o]
  <2>1. DOMAIN Stored(t.page, n) = DOMAIN t.page \cup {n.m_identifier} /\ Stored(t.page, n)[n.m_identifier] = n
    BY StoredIs
  <2>2. \A o \in DOMAIN t.page : o # n.m_identifier => Stored(t.page, n)[o] = t.page[o]
    BY StoredOther
  <2> QED
    BY <1>1, <2>1, <2>2
<1>4. Fits(v, W, r, e)
  BY AtNodeIs
<1>5. /\ NodeOk(n, r, Tight(v)) /\ level \in Nat /\ r \in Nat /\ r \in DOMAIN P
      /\ Shapely(all) /\ Distinct(all) /\ Len(all) = Len(n.entries) + 1 /\ Len(n.entries) \in Nat
      /\ ToSet(all) = ToSet(n.entries) \cup {e} /\ Pairs(n) \cap W = {}
  BY <1>3, <1>4 DEF Fits
<1>6. Works(v, W \cup {w}, X, Y) /\ w \notin W
  BY <1>3 DEF AtNode
<1>7. /\ Conf(v) /\ Sized(v) /\ Forest(P, r, W \cup {w}, X, Tight(v)) /\ Sizes(v, P, r, Y) /\ Counts(v, P)
      /\ IsFiniteSet(DOMAIN P)
  BY <1>2, <1>6, WorksIs
<1>8. Sized(t) /\ Of(t.m_capacity, level) = Of(v.m_capacity, level) /\ Least(t, level) = Least(v, level)
  BY <1>2, <1>7, SameSizes
<1>9. Len(all) = Of(t.m_capacity, level) + 1
  <2>1. Len(n.entries) <= Of(v.m_capacity, level)
    BY <1>3, <1>5, <1>7 DEF Sizes
  <2>2. Of(t.m_capacity, level) \in Nat
    BY <1>5, <1>8 DEF Sized
  <2> QED
    BY <1>5, <1>8, <2>1, <2>2
<1> DEFINE a == es[1]
<1> DEFINE b == es[2]
<1>10. /\ SplitsTo(all, a, b)
       /\ Least(t, level) <= Len(a) /\ Least(t, level) <= Len(b)
       /\ Len(a) <= Of(t.m_capacity, level) /\ Len(b) <= Of(t.m_capacity, level)
  <2> HIDE DEF all, level
  <2> QED
    BY <1>5, <1>8, <1>9, SplitKeeps
<1> HIDE DEF es, all
<1>11. \E i, j \in Nat :
          LET A == Node(i, level, a)
              B == Node(j, level, b)
          IN  /\ i \notin DOMAIN t.page /\ j \notin DOMAIN t.page /\ i # j
              /\ Grown(t, NewRoot(t, level, es), level, A, B,
                       Node(t.m_rootID, level + 1, <<Entry(A.m_nodeMBR, i), Entry(B.m_nodeMBR, j)>>))
  <2>1. IsFiniteSet(DOMAIN t.page)
    BY <1>3, <1>7
  <2> HIDE DEF level
  <2> QED
    BY <2>1, NewRootIs
<1>12. PICK i \in Nat, j \in Nat :
          /\ i \notin DOMAIN t.page /\ j \notin DOMAIN t.page /\ i # j
          /\ Grown(t, u, level, Node(i, level, a), Node(j, level, b),
                   Node(r, level + 1, <<Entry(Node(i, level, a).m_nodeMBR, i), Entry(Node(j, level, b).m_nodeMBR, j)>>))
  BY <1>11
<1> DEFINE A == Node(i, level, a)
<1> DEFINE B == Node(j, level, b)
<1> DEFINE C == Node(r, level + 1, <<Entry(A.m_nodeMBR, i), Entry(B.m_nodeMBR, j)>>)
<1>13. Grown(t, u, level, A, B, C)
  BY <1>12
<1>14. /\ A.m_identifier = i /\ A.m_level = level /\ A.entries = a
       /\ B.m_identifier = j /\ B.m_level = level /\ B.entries = b
       /\ C.m_identifier = r /\ C.m_level = level + 1
       /\ C.entries = <<Entry(A.m_nodeMBR, i), Entry(B.m_nodeMBR, j)>>
  BY DEF Node
<1>15. a # <<>> /\ b # <<>> /\ Len(a) \in Nat /\ Len(b) \in Nat /\ 1 <= Len(a) /\ 1 <= Len(b)
       /\ Least(t, level) \in Nat
  <2>1. Least(t, level) \in Nat /\ 1 <= Least(t, level)
    BY <1>5, <1>8, LeastIs
  <2>2. Len(a) \in Nat /\ Len(b) \in Nat /\ a \in Seq(EntryT) /\ b \in Seq(EntryT)
    BY <1>10, ShapelyIs DEF SplitsTo
  <2> HIDE DEF a, b
  <2> QED
    BY <1>10, <2>1, <2>2
<1> HIDE DEF a, b, u
<1>16. i \notin DOMAIN P /\ j \notin DOMAIN P /\ i # j /\ i # r /\ j # r
  BY <1>3, <1>12
<1> DEFINE Q == Stored(Stored(Stored(P, A), B), C)
<1>17. u.page = Q
  <2> HIDE DEF A, B, C
  <2>1. u.page = Stored(Stored(Stored(t.page, A), B), C)
    BY <1>13 DEF Grown
  <2>2. Stored(Stored(Stored(t.page, A), B), C) = Stored(Stored(Stored(Stored(t.page, n), A), B), C)
    BY <1>14 DEF Stored
  <2> QED
    BY <1>1, <2>1, <2>2
<1>18. /\ Forest(Q, r, W, X, Tight(v))
       /\ Kept(Q, W) = K \cup {ForNode(A), ForNode(B)}
  <2> DEFINE tight == Tight(v)
  <2>1. Forest(P, r, W \cup {<<level, e>>}, X, tight) /\ <<level, e>> \notin W /\ P[r].m_level = level /\ Pairs(P[r]) \cap W = {}
    BY <1>3, <1>5, <1>6, <1>7
  <2>2. ToSet(all) = ToSet(P[r].entries) \cup {e}
    BY <1>3, <1>5
  <2> HIDE DEF tight, A, B, P, r, level
  <2>3. C = Node(r, level + 1, <<Entry(A.m_nodeMBR, i), Entry(B.m_nodeMBR, j)>>) /\ A = Node(i, level, a) /\ B = Node(j, level, b)
    BY DEF A, B
  <2> HIDE DEF C
  <2>4. RootHas(P, r, A, B, C, W \cup {<<level, e>>}, W, X, tight)
    BY <1>5, <1>10, <1>15, <1>16, <2>1, <2>2, <2>3, RootSplits
  <2> QED
    BY <2>4 DEF tight, RootHas
<1> HIDE DEF A, B, C, K
<1>19. Sizes(v, Q, r, Y)
  <2>1. Sizes(v, Stored(P, A), r, Y)
    <3>1. /\ Len(A.entries) <= Of(v.m_capacity, A.m_level) /\ 1 <= Len(A.entries)
          /\ Least(v, A.m_level) <= Len(A.entries)
      BY <1>8, <1>10, <1>14, <1>15
    <3> QED
      BY <1>7, <1>14, <1>16, <3>1, SizesStored
  <2>2. Sizes(v, Stored(Stored(P, A), B), r, Y)
    <3>1. /\ Len(B.entries) <= Of(v.m_capacity, B.m_level) /\ 1 <= Len(B.entries)
          /\ Least(v, B.m_level) <= Len(B.entries)
      BY <1>8, <1>10, <1>14, <1>15
    <3> QED
      BY <1>14, <1>16, <2>1, <3>1, SizesStored
  <2>3. Len(C.entries) = 2
    BY <1>14
  <2>4. 2 <= Of(v.m_capacity, C.m_level)
    <3>1. C.m_level \in Nat
      BY <1>5, <1>14
    <3> QED
      BY <1>7, <3>1 DEF Sized
  <2>5. Len(C.entries) <= Of(v.m_capacity, C.m_level) /\ 1 <= Len(C.entries) /\ 2 <= Len(C.entries)
    BY <2>3, <2>4
  <2> QED
    BY <1>14, <2>2, <2>5, SizesStored
<1>20. \A p \in DOMAIN P : p # r => P[p].m_level + 1 <= level /\ P[p].m_level \in Nat
  <2>1. Low(P, r, W \cup {w})
    <3>1. w[1] = level /\ P[r].m_level = level
      BY <1>3
    <3> HIDE DEF w
    <3> QED
      BY <1>5, <3>1 DEF Low
  <2> QED
    BY <1>3, <1>7, <2>1, RootAlone
<1>21. /\ Same(t, u) /\ u.m_u32Nodes = t.m_u32Nodes + 1 + 1 /\ u.m_u32TreeHeight = level + 2
       /\ u.m_nodesInLevel = WithRoot(t.m_nodesInLevel, level)
       /\ u.overflowTable = t.overflowTable /\ u.outside = t.outside
  BY <1>13 DEF Grown
<1>22. Same(v, u) /\ u.m_rootID = r
  BY <1>2, <1>21, SameTwice DEF Same
<1> HIDE DEF Q, P
<1>23. Counts(u, Q)
  <2>1. u.m_u32Nodes = v.m_u32Nodes + 1 + 1
    BY <1>1, <1>21
  <2>2. u.m_nodesInLevel = WithRoot(v.m_nodesInLevel, level)
    BY <1>1, <1>21
  <2>3. P[r].m_level = level
    BY <1>3
  <2> HIDE DEF level, r
  <2> QED
    <3>1. /\ Counts(v, P) /\ IsFiniteSet(DOMAIN P) /\ r = v.m_rootID /\ r \in DOMAIN P /\ level \in Nat
          /\ u.m_rootID = r /\ u.m_u32TreeHeight = level + 2
      BY <1>2, <1>5, <1>7, <1>21, <1>22
    <3>2. /\ A.m_identifier = i /\ B.m_identifier = j /\ C.m_identifier = r
          /\ A.m_level = level /\ B.m_level = level /\ C.m_level = level + 1
      BY <1>14
    <3>3. Counts(u, Stored(Stored(Stored(P, A), B), C))
      BY <1>16, <1>20, <2>1, <2>2, <2>3, <3>1, <3>2, CountsGrown
    <3> QED
      BY <3>3 DEF Q
<1>24. Works(u, W, X, Y)
  <2>1. Conf(u) /\ Tight(u) = Tight(v)
    BY <1>7, <1>22, SameConf
  <2>2. Sizes(u, Q, r, Y)
    BY <1>19, <1>22, SizesSame
  <2> QED
    BY <1>17, <1>18, <1>22, <1>23, <2>1, <2>2 DEF Works
<1>25. /\ Q[r] = C /\ \A o \in DOMAIN P : o # r => o \in DOMAIN Q /\ Q[o] = P[o]
  BY <1>14, <1>16 DEF Q, Stored
<1>26. ForNode(A)[1] # 0 /\ ForNode(B)[1] # 0
  BY <1>5, <1>14 DEF ForNode
<1>27. Higher(v, u, W, X, Y, K)
  <2>1. u.page[v.m_rootID].m_level = v.page[v.m_rootID].m_level + 1
    BY <1>2, <1>3, <1>14, <1>17, <1>25 DEF P
  <2>2. \A o \in DOMAIN v.page : o # v.m_rootID => o \in DOMAIN u.page /\ u.page[o] = v.page[o]
    BY <1>2, <1>17, <1>25 DEF P
  <2>3. \E x, y : x[1] # 0 /\ y[1] # 0 /\ Kept(u.page, W) = K \cup {x, y}
    BY <1>17, <1>18, <1>26
  <2> QED
    BY <1>1, <1>21, <1>22, <1>24, <2>1, <2>2, <2>3 DEF Higher
<1> QED
  BY <1>27 DEF u, K, es, all, P


\* The tree as if the node of the climb was stored, and what goes into that node.
Stands(s) == writeNode(s.t, s.n)

Wanted(s) == <<s.n.m_level, s.e>>

IsGoing(s) == s = Going(s.t, s.n, s.e, s.changed, s.path)

Climbing(s, W, X, Y) ==
    /\ IsGoing(s)
    /\ IsTree(s.t) /\ s.n.m_identifier \in DOMAIN s.t.page /\ s.n.m_identifier # NewPage
    /\ AtNode(Stands(s), W, IF s.changed THEN X \cup {s.n.m_identifier} ELSE X, Y, s.n.m_identifier, s.e)
    /\ Up(Stands(s).page, s.t.m_rootID, s.n.m_identifier, s.n.m_level, s.path)
    /\ Low(Stands(s).page, s.t.m_rootID, W)

\* The nodes for which entries wait stay, and the root does not come down.
Since(t, u, W) ==
    /\ Same(t, u) /\ Rests(t.page, u.page, W)
    /\ t.page[t.m_rootID].m_level <= u.page[t.m_rootID].m_level

SameData(K, L) == {x \in K : x[1] = 0} = {x \in L : x[1] = 0}

\* The more waits, the more pages are cut off.
LEMMA OffLess ==
    ASSUME NEW P, NEW W, NEW V, W \in SUBSET V
    PROVE  Off(P, W) \in SUBSET Off(P, V)
  BY DEF Off

\* What stays as it is for more waiting entries stays for fewer.
LEMMA RestsLess ==
    ASSUME NEW P, NEW Q, NEW W, NEW V, W \in SUBSET V, Rests(P, Q, V)
    PROVE  Rests(P, Q, W)
  BY OffLess DEF Rests

\* Since is transitive.
LEMMA SinceTwice ==
    ASSUME NEW t, NEW u, NEW v, NEW W, Since(t, u, W), Since(u, v, W),
           t.page[t.m_rootID].m_level \in Nat, u.page[u.m_rootID].m_level \in Nat, v.page[v.m_rootID].m_level \in Nat
    PROVE  Since(t, v, W)
<1>1. u.m_rootID = t.m_rootID /\ v.m_rootID = t.m_rootID
  BY DEF Since, Same
<1>2. Same(t, v) /\ Rests(t.page, v.page, W)
  BY SameTwice, RestsTwice DEF Since
<1>3. t.page[t.m_rootID].m_level <= v.page[t.m_rootID].m_level
  BY <1>1 DEF Since
<1> QED
  BY <1>2, <1>3 DEF Since

ClimbsAt(s, v, id, W) ==
    /\ Same(s.t, v) /\ Same(v, s.t) /\ v.m_rootID = s.t.m_rootID
    /\ v.page = Stored(s.t.page, s.n) /\ v.page[id] = s.n /\ DOMAIN v.page = DOMAIN s.t.page
    /\ v.overflowTable = s.t.overflowTable /\ v.outside = s.t.outside
    /\ v.m_u32TreeHeight = s.t.m_u32TreeHeight /\ v.m_nodesInLevel = s.t.m_nodesInLevel
    /\ v.m_u32Nodes = s.t.m_u32Nodes
    /\ Fits(v, W, id, s.e) /\ Conf(v) /\ Sized(s.t) /\ s.n.m_level \in Nat /\ s.n.m_identifier = id
    /\ \A l : Least(v, l) = Least(s.t, l) /\ Of(v.m_capacity, l) = Of(s.t.m_capacity, l)
    /\ Len(s.n.entries) <= Of(s.t.m_capacity, s.n.m_level)
    /\ Of(s.t.m_capacity, s.n.m_level) \in Nat
    /\ v.page[v.m_rootID].m_level \in Nat /\ v.m_rootID \in DOMAIN v.page

\* Where an insertion stands on its way up.
LEMMA ClimbIs ==
    ASSUME NEW s, NEW W, NEW X, NEW Y, Climbing(s, W, X, Y)
    PROVE  ClimbsAt(s, Stands(s), s.n.m_identifier, W)
<1> DEFINE v == Stands(s)
<1> DEFINE id == s.n.m_identifier
<1> DEFINE X1 == IF s.changed THEN X \cup {s.n.m_identifier} ELSE X
<1>1. IsTree(s.t) /\ id \in DOMAIN s.t.page /\ id # NewPage /\ AtNode(v, W, X1, Y, id, s.e)
  BY DEF Climbing
<1>2. /\ Same(s.t, v) /\ v.page = Stored(s.t.page, s.n)
      /\ v.m_u32TreeHeight = s.t.m_u32TreeHeight /\ v.m_nodesInLevel = s.t.m_nodesInLevel
      /\ v.m_u32Nodes = s.t.m_u32Nodes /\ v.overflowTable = s.t.overflowTable /\ v.outside = s.t.outside
  BY <1>1, WriteIs DEF Stands
<1> HIDE DEF v, X1
<1>3. Same(v, s.t) /\ v.m_rootID = s.t.m_rootID
  BY <1>1, <1>2, SameBack DEF Same
<1>4. v.page[id] = s.n /\ DOMAIN v.page = DOMAIN s.t.page
  <2>1. DOMAIN Stored(s.t.page, s.n) = DOMAIN s.t.page \cup {id} /\ Stored(s.t.page, s.n)[id] = s.n
    BY StoredIs
  <2> QED
    BY <1>1, <1>2, <2>1
<1>5. Fits(v, W, id, s.e)
  BY <1>1, AtNodeIs
<1>6. \E V : Works(v, V, X1, Y) /\ id \in DOMAIN v.page
  BY <1>1 DEF AtNode
<1>7. /\ Conf(v) /\ Sized(v) /\ Sizes(v, v.page, v.m_rootID, Y) /\ id \in DOMAIN v.page
      /\ v.m_rootID \in DOMAIN v.page /\ v.page[v.m_rootID].m_level \in Nat
  BY <1>6, WorksIs
<1>8. /\ Sized(s.t) /\ \A l : Least(v, l) = Least(s.t, l) /\ Of(v.m_capacity, l) = Of(s.t.m_capacity, l)
  BY <1>2, <1>3, <1>7, SameSizes
<1>9. s.n.m_level \in Nat
  BY <1>4, <1>5 DEF Fits
<1>10. Len(s.n.entries) <= Of(s.t.m_capacity, s.n.m_level) /\ Of(s.t.m_capacity, s.n.m_level) \in Nat
  BY <1>4, <1>7, <1>8, <1>9 DEF Sizes, Sized
<1> QED
  BY <1>2, <1>3, <1>4, <1>5, <1>7, <1>8, <1>9, <1>10 DEF v, ClimbsAt

\* A node was written and the nodes above it are adjusted.
Settled(v, u, T, W, V, X, Y, K) ==
    /\ Works(u, W \cup V, X, Y) /\ Since(v, u, W)
    /\ u.overflowTable = T.overflowTable /\ u.outside = T.outside
    /\ SameData(K, Kept(u.page, W \cup V))
    /\ u.page[v.m_rootID].m_level = v.page[v.m_rootID].m_level

\* After the entry was placed, what remains is to adjust the pages above it.
LEMMA Settles ==
    ASSUME NEW v, NEW W, NEW X0, NEW Y, NEW id, NEW e, AtNode(v, W, X0, Y, id, e),
           NEW path, Up(v.page, v.m_rootID, id, v.page[id].m_level, path),
           NEW T, NEW V, NEW X, Works(T, W \cup V, X \cup {id}, Y), Same(v, T),
           NEW q, T.page = Stored(v.page, q), q.m_identifier = id, q.m_level = v.page[id].m_level,
           NonEmpty(q.m_nodeMBR),
           NEW K, Kept(T.page, W \cup V) = K
    PROVE  Settled(v, adjustTree(T, q, path), T, W, V, X, Y, K)
<1> DEFINE r == v.m_rootID
<1> DEFINE w == <<v.page[id].m_level, e>>
<1> DEFINE u == adjustTree(T, q, path)
<1>1. Works(v, W \cup {w}, X0, Y) /\ id \in DOMAIN v.page
  BY DEF AtNode
<1>2. /\ Forest(v.page, r, W \cup {w}, X0, Tight(v)) /\ r \in DOMAIN v.page /\ v.page[id].m_level \in Nat
      /\ v.page[r].m_level \in Nat
  BY <1>1, WorksIs
<1>3. T.page[id] = q /\ DOMAIN T.page = DOMAIN v.page /\ \A o \in DOMAIN v.page : o # id => T.page[o] = v.page[o]
  <2>1. DOMAIN T.page = DOMAIN v.page \cup {id} /\ T.page[id] = q
    <3>1. DOMAIN Stored(v.page, q) = DOMAIN v.page \cup {q.m_identifier} /\ Stored(v.page, q)[q.m_identifier] = q
      BY StoredIs
    <3>2. q.m_identifier = id /\ T.page = Stored(v.page, q)
      OBVIOUS
    <3> QED
      BY <3>1, <3>2
  <2>2. \A o \in DOMAIN v.page : o # id => T.page[o] = v.page[o]
    BY StoredOther
  <2> QED
    BY <1>1, <2>1, <2>2
<1>4. T.m_rootID = r
  BY DEF Same
<1>5. /\ path \in Seq(Nat) /\ DOMAIN path = 1 .. Len(path)
      /\ \A k \in 1 .. Len(path) : path[k] \in DOMAIN v.page /\ path[k] # id
  <2>1. Climbs(v.page, r, id, v.page[id].m_level, path)
    BY <1>1, <1>2, UpIs
  <2> QED
    BY <2>1 DEF Climbs
<1>6. Up(T.page, r, id, q.m_level, path)
  <2>1. \A k \in DOMAIN path : path[k] \in DOMAIN T.page /\ T.page[path[k]] = v.page[path[k]]
    BY <1>3, <1>5
  <2> QED
    BY <1>2, <2>1, UpKept
<1>7. Works(u, W \cup V, X, Y) /\ Quiet(T, u, W \cup V)
  <2> DEFINE U == W \cup V
  <2> DEFINE L == q.m_level
  <2>1. /\ Works(T, U, X \cup {id}, Y) /\ id \in DOMAIN T.page /\ NonEmpty(T.page[id].m_nodeMBR) /\ T.page[id].m_level = L
        /\ L \in Nat /\ Up(T.page, T.m_rootID, id, L, path)
    BY <1>1, <1>2, <1>3, <1>4, <1>6
  <2> HIDE DEF U, L
  <2>2. LET z == adjustTree(T, T.page[id], path) IN Works(z, U, X, Y) /\ Quiet(T, z, U)
    BY <2>1, AdjustTreeKeeps
  <2> QED
    BY <1>3, <2>2 DEF U
<1> HIDE DEF u
<1>8. id \notin Off(v.page, W)
  <2>1. id \notin Off(v.page, W \cup {w})
    BY <1>1, <1>2, UpNotOff
  <2> QED
    BY <2>1, OffLess
<1>9. Rests(v.page, u.page, W)
  <2>1. Rests(v.page, T.page, W)
    BY <1>8, RestsStored
  <2>2. Rests(T.page, u.page, W \cup V)
    BY <1>7 DEF Quiet
  <2>3. Rests(T.page, u.page, W)
    BY <2>2, RestsLess
  <2> QED
    BY <2>1, <2>3, RestsTwice
<1>10. Same(v, u)
  BY <1>7, SameTwice DEF Quiet
<1>11. u.page[r].m_level = v.page[r].m_level
  <2>1. u.page[r].m_level = T.page[r].m_level
    BY <1>4, <1>7 DEF Quiet
  <2>2. T.page[r].m_level = v.page[r].m_level
    BY <1>2, <1>3
  <2> QED
    BY <2>1, <2>2
<1>12. Since(v, u, W)
  BY <1>2, <1>9, <1>10, <1>11 DEF Since
<1>13. SameData(K, Kept(u.page, W \cup V))
  BY <1>7 DEF Quiet, Bottom, SameData
<1>14. u.overflowTable = T.overflowTable /\ u.outside = T.outside
  BY <1>7 DEF Quiet
<1> QED
  BY <1>7, <1>11, <1>12, <1>13, <1>14 DEF u, Settled


\* What is to be inserted again waits.
Out(a) == {<<a.out[k].level, a.out[k].e>> : k \in DOMAIN a.out}

\* It is taken out of a level for which the table allows it, and that only once.
Takes(v, a) ==
    /\ a.out \in Seq([e : EntryT, level : Nat])
    /\ \A j, k \in DOMAIN a.out : a.out[j].level = a.out[k].level /\ a.out[j].e = a.out[k].e => j = k
    /\ \/ a.out = <<>> /\ a.t.overflowTable = v.overflowTable
       \/ \E l \in 0 .. v.tableSize - 1 :
             /\ l \notin v.overflowTable /\ a.t.overflowTable = v.overflowTable \cup {l}
             /\ Len(a.out) <= Upper(v.cReinsert.leaf, v.cReinsert.index)

Ended(v, a, W, X, Y, K) ==
    /\ a.done
    /\ Works(a.t, W \cup Out(a), X, Y) /\ Out(a) \cap W = {} /\ Since(v, a.t, W)
    /\ SameData(K, Kept(a.t.page, W \cup Out(a)))
    /\ Low(a.t.page, v.m_rootID, W \cup Out(a)) /\ Takes(v, a)

GoesOn(v, a, path, W, X, Y, K) ==
    /\ Climbing(a, W, X, Y) /\ ~ a.done /\ path # <<>> /\ a.path = Tail(path) /\ Since(v, Stands(a), W)
    /\ SameData(K, Kept(Stands(a).page, W \cup {Wanted(a)}))
    /\ a.t.overflowTable = v.overflowTable

IsDone(a, t, out) == a.t = t /\ a.done = TRUE /\ a.out = out

\* An insertion that has ended.
LEMMA DoneIs ==
    ASSUME NEW s, IsGoing(s), NEW t, NEW out
    PROVE  IsDone(Finished(s, t, out), t, out)
<1> DEFINE n == s.n
<1> DEFINE e == s.e
<1> DEFINE c == s.changed
<1> DEFINE p == s.path
<1> DEFINE o == s.t
<1>1. s = [t |-> o, n |-> n, e |-> e, changed |-> c, path |-> p, done |-> FALSE, out |-> <<>>]
  BY DEF Going, IsGoing
<1> HIDE DEF n, e, c, p, o
<1> QED
  BY <1>1 DEF Finished, IsDone

\* An insertion that ended with nothing to reinsert.
LEMMA NothingOut ==
    ASSUME NEW a, a.out = <<>>, NEW v, a.t.overflowTable = v.overflowTable
    PROVE  Out(a) = {} /\ Takes(v, a)
  BY DEF Out, Takes

\* Waiting entries belong to levels the tree has, and keep doing so
LEMMA LowSame ==
    ASSUME NEW P, NEW Q, NEW r, NEW W, Low(P, r, W), Q[r].m_level = P[r].m_level
    PROVE  Low(Q, r, W)
  BY DEF Low

\* A node with room.
LEMMA AppendedEnds ==
    ASSUME NEW s, NEW W, NEW X, NEW Y, Climbing(s, W, X, Y), Len(s.n.entries) < Of(s.t.m_capacity, s.n.m_level)
    PROVE  Ended(Stands(s), Appended(s), W, X, Y, Kept(Stands(s).page, W \cup {Wanted(s)}))
<1> DEFINE v == Stands(s)
<1> DEFINE id == s.n.m_identifier
<1> DEFINE X1 == IF s.changed THEN X \cup {s.n.m_identifier} ELSE X
<1> DEFINE K == Kept(v.page, W \cup {Wanted(s)})
<1> DEFINE q == insertEntry(s.n, s.e)
<1> DEFINE T == writeNode(s.t, q)
<1> DEFINE still == containsRegion(s.n.m_nodeMBR, s.e.mbr) /\ ~ s.changed
<1> DEFINE u == IF still THEN T ELSE adjustTree(T, q, s.path)
<1> DEFINE X2 == IF still THEN X ELSE X \cup {id}
<1>1. /\ IsGoing(s) /\ IsTree(s.t) /\ id # NewPage
      /\ AtNode(v, W, X1, Y, id, s.e)
      /\ Up(v.page, s.t.m_rootID, id, s.n.m_level, s.path)
      /\ Low(v.page, s.t.m_rootID, W)
  BY DEF Climbing
<1>2. ClimbsAt(s, v, id, W)
  BY ClimbIs
<1>3. /\ v.m_rootID = s.t.m_rootID /\ v.page[id] = s.n /\ v.overflowTable = s.t.overflowTable
      /\ Of(v.m_capacity, s.n.m_level) = Of(s.t.m_capacity, s.n.m_level)
      /\ id \in DOMAIN v.page
  BY <1>2 DEF ClimbsAt, Fits
<1>4. T = writeNode(v, q)
  <2>1. q.m_identifier = id
    <3>1. NodeOk(s.n, id, Tight(v)) /\ s.e \in EntryT /\ NonEmpty(s.e.mbr) /\ \A x \in ToSet(s.n.entries) : x.id # s.e.id
      BY <1>2, <1>3 DEF ClimbsAt, Fits
    <3>2. NodeOk(q, id, Tight(v))
      BY <3>1, InsertEntryIs
    <3> QED
      BY <3>2 DEF NodeOk
  <2> HIDE DEF q
  <2> QED
    BY <1>1, <2>1, WriteAgain DEF Stands
<1> HIDE DEF T, K, v
<1>5. /\ Becomes(v, T, id, q, W, {}, X2, Y, K)
      /\ NonEmpty(q.m_nodeMBR) /\ q.m_level = s.n.m_level
  <2>1. X1 \in SUBSET X2 /\ (containsRegion(s.n.m_nodeMBR, s.e.mbr) \/ id \in X2)
    OBVIOUS
  <2> HIDE DEF X1, X2, id
  <2> DEFINE n == v.page[id]
  <2>2. Appends(v, writeNode(v, insertEntry(n, s.e)), insertEntry(n, s.e), id, s.e, W, X2, Y)
    BY <1>1, <1>3, <2>1, AppendTo
  <2> QED
    BY <1>3, <1>4, <2>2 DEF K, Wanted, Appends
<1> HIDE DEF q
<1>6. /\ Works(T, W \cup {}, X2, Y) /\ Same(v, T) /\ T.page = Stored(v.page, q)
      /\ T.overflowTable = v.overflowTable
      /\ T.page[v.m_rootID].m_level = v.page[v.m_rootID].m_level
      /\ Kept(T.page, W \cup {}) = K /\ \A o \in DOMAIN v.page : o # id => T.page[o] = v.page[o]
  BY <1>5 DEF Becomes
<1>7. Appended(s) = Finished(s, u, <<>>)
  BY DEF Appended, u, T, q
<1> HIDE DEF u
<1> DEFINE a == Appended(s)
<1>8. a.t = u /\ a.done /\ a.out = <<>>
  <2>1. IsGoing(s)
    BY <1>1
  <2>2. IsDone(Finished(s, u, <<>>), u, <<>>)
    BY <2>1, DoneIs
  <2> QED
    BY <1>7, <2>2 DEF IsDone
<1> HIDE DEF a
<1>9. /\ Works(u, W, X, Y) /\ Since(v, u, W) /\ u.overflowTable = v.overflowTable
      /\ SameData(K, Kept(u.page, W))
      /\ u.page[v.m_rootID].m_level = v.page[v.m_rootID].m_level
  <2>0. W \cup {} = W
    OBVIOUS
  <2>1. CASE still
    <3>1. u = T /\ X2 = X
      BY <2>1 DEF u
    <3>2. Rests(v.page, T.page, W)
      <4>1. q.m_identifier \notin Off(v.page, W)
        <5>1. id \notin Off(v.page, W \cup {<<v.page[id].m_level, s.e>>})
          <6> DEFINE U == W \cup {<<v.page[id].m_level, s.e>>}
          <6>1. Works(v, U, X1, Y)
            BY <1>1 DEF AtNode
          <6>2. Forest(v.page, v.m_rootID, U, X1, Tight(v)) /\ s.n.m_level \in Nat
            BY <1>2, <6>1, WorksIs DEF ClimbsAt
          <6> HIDE DEF U, id
          <6>3. /\ id \in DOMAIN v.page /\ v.page[id].m_level = s.n.m_level /\ s.n.m_level \in Nat
                /\ Up(v.page, v.m_rootID, id, s.n.m_level, s.path)
            BY <1>1, <1>3, <6>2
          <6>4. id \notin Off(v.page, U)
            BY <6>2, <6>3, UpNotOff
          <6> QED
            BY <6>4 DEF U
        <5>2. q.m_identifier = id
          BY <1>2, <1>5, <1>6 DEF Becomes, Works, Forest, Sound, NodeOk, ClimbsAt, Fits
        <5> QED
          BY <5>1, <5>2, OffLess
      <4> QED
        BY <1>6, <4>1, RestsStored
    <3>3. v.page[v.m_rootID].m_level \in Nat
      BY <1>2 DEF ClimbsAt
    <3>4. Since(v, T, W)
      BY <1>6, <3>2, <3>3 DEF Since
    <3>5. SameData(K, Kept(T.page, W))
      BY <1>6, <2>0 DEF SameData
    <3>6. Works(T, W, X, Y)
      BY <1>6, <2>0, <3>1
    <3> QED
      BY <1>6, <3>1, <3>4, <3>5, <3>6
  <2>2. CASE ~ still
    <3>1. u = adjustTree(T, q, s.path) /\ X2 = X \cup {id}
      BY <2>2 DEF u
    <3> HIDE DEF X2, X1, still
    <3>2. Up(v.page, v.m_rootID, id, v.page[id].m_level, s.path)
      BY <1>1, <1>3
    <3>3. Works(T, W \cup {}, X \cup {id}, Y)
      BY <1>6, <3>1
    <3>4. q.m_identifier = id /\ q.m_level = v.page[id].m_level
      <4>1. id \in DOMAIN T.page /\ T.page[id] = q
        BY <1>2, <1>3, <1>5 DEF Becomes
      <4> QED
        BY <1>3, <1>5, <3>3, <4>1, WorksIs
    <3>5. Settled(v, adjustTree(T, q, s.path), T, W, {}, X, Y, K)
      BY <1>1, <1>5, <1>6, <3>2, <3>3, <3>4, Settles
    <3> QED
      BY <1>6, <2>0, <3>1, <3>5 DEF Settled
  <2> QED
    BY <2>1, <2>2
<1>10. Out(a) = {} /\ Takes(v, a)
  BY <1>8, <1>9, NothingOut
<1>11. Low(u.page, v.m_rootID, W)
  BY <1>1, <1>3, <1>9, LowSame
<1>12. W \cup Out(a) = W /\ Out(a) \cap W = {}
  BY <1>10
<1> QED
  BY <1>8, <1>9, <1>10, <1>11, <1>12 DEF Ended, a, K, v


\* The level of the node is treated now.
Treats(t, u, level) ==
    /\ Same(t, u) /\ u.page = t.page /\ u.m_u32TreeHeight = t.m_u32TreeHeight
    /\ u.m_nodesInLevel = t.m_nodesInLevel /\ u.m_u32Nodes = t.m_u32Nodes
    /\ u.overflowTable = t.overflowTable \cup {level} /\ u.outside = t.outside

\* Marking a level treated.
LEMMA TreatsIs ==
    ASSUME NEW t, IsTree(t), NEW level
    PROVE  Treats(t, [t EXCEPT !.overflowTable = @ \cup {level}], level)
  BY DEF IsTree, Fields, Treats, Same

\* The capacity bounds the entries that one reinsertion takes out.
LEMMA UpperIs ==
    ASSUME NEW c, NEW level, c.leaf \in Nat, c.index \in Nat
    PROVE  Of(c, level) <= Upper(c.leaf, c.index) /\ Upper(c.leaf, c.index) \in Nat
  BY DEF Of, Upper

\* An overflow that is treated by reinsertion.
LEMMA ReinsertedEnds ==
    ASSUME NEW s, NEW W, NEW X, NEW Y, Climbing(s, W, X, Y), s.t.tableSize \in Nat,
           Len(s.n.entries) >= Of(s.t.m_capacity, s.n.m_level), Reinserts(s)
    PROVE  Ended(Stands(s), Reinserted(s), W, X, Y, Kept(Stands(s).page, W \cup {Wanted(s)}))
<1> DEFINE v == Stands(s)
<1> DEFINE t == s.t
<1> DEFINE n == s.n
<1> DEFINE e == s.e
<1> DEFINE id == s.n.m_identifier
<1> DEFINE lev == s.n.m_level
<1> DEFINE es == Append(n.entries, e)
<1> DEFINE X1 == IF s.changed THEN X \cup {s.n.m_identifier} ELSE X
<1> DEFINE K == Kept(v.page, W \cup {Wanted(s)})
<1> DEFINE d == reinsertData(s.t, s.n, s.e)
<1> DEFINE keep == d.keep
<1> DEFINE out == d.out
<1> DEFINE q == Node(id, lev, keep)
<1> DEFINE V == At(lev, out)
<1> DEFINE t2 == [t EXCEPT !.overflowTable = @ \cup {lev}]
<1> DEFINE T == writeNode(t2, q)
<1> DEFINE v1 == writeNode(v, q)
<1> DEFINE u == adjustTree(T, q, s.path)
<1> DEFINE outs == [k \in DOMAIN out |-> [e |-> out[k], level |-> lev]]
<1>1. /\ IsGoing(s) /\ IsTree(t) /\ id # NewPage
      /\ AtNode(v, W, X1, Y, id, s.e)
      /\ Up(v.page, t.m_rootID, id, lev, s.path)
      /\ Low(v.page, t.m_rootID, W)
  BY DEF Climbing
<1>2. ClimbsAt(s, v, id, W)
  BY ClimbIs
<1>3. /\ Same(t, v) /\ Same(v, t)
      /\ v.m_rootID = t.m_rootID /\ v.page[id] = n /\ v.overflowTable = t.overflowTable
      /\ v.outside = t.outside
      /\ v.page[v.m_rootID].m_level \in Nat
      /\ Of(v.m_capacity, lev) = Of(t.m_capacity, lev) /\ Least(v, lev) = Least(t, lev)
      /\ Sized(t) /\ lev \in Nat /\ Len(n.entries) <= Of(t.m_capacity, lev)
      /\ Of(t.m_capacity, lev) \in Nat /\ Fits(v, W, id, e)
  BY <1>2 DEF ClimbsAt
<1>4. /\ t.m_treeVariant = "RV_RSTAR" /\ s.path # <<>> /\ lev \notin t.overflowTable
      /\ lev \in 0 .. t.tableSize - 1
  <2>1. t.m_treeVariant = "RV_RSTAR" /\ s.path # <<>> /\ ~ (lev >= t.tableSize) /\ lev \notin t.overflowTable
    BY DEF Reinserts, AsksTable, Behind
  <2> QED
    BY <1>3, <2>1
<1>5. /\ Shapely(es) /\ Distinct(es) /\ Len(es) = Len(n.entries) + 1 /\ Len(n.entries) \in Nat
      /\ n.m_nodeMBR \in AnyRegion /\ lev <= v.page[v.m_rootID].m_level
  BY <1>3 DEF Fits
<1>6. Len(es) = Of(t.m_capacity, lev) + 1
  BY <1>3, <1>5
<1>7. /\ SplitsTo(es, keep, out) /\ Least(t, lev) <= Len(keep) /\ Len(keep) <= Of(t.m_capacity, lev)
      /\ Len(out) = Of(t.cReinsert, lev)
  BY <1>3, <1>4, <1>5, <1>6, ReinsertionKeeps
<1> HIDE DEF d, keep, out
<1>8. /\ Becomes(v, v1, id, q, W, V, X1 \cup {id}, Y, K)
      /\ NonEmpty(q.m_nodeMBR) /\ q.m_level = lev /\ V \cap W = {}
  <2> HIDE DEF X1, v, id
  <2>1. /\ AtNode(v, W, X1, Y, id, e) /\ SplitsTo(Append(v.page[id].entries, e), keep, out)
        /\ Least(v, v.page[id].m_level) <= Len(keep) /\ Len(keep) <= Of(v.m_capacity, v.page[id].m_level)
    BY <1>1, <1>3, <1>7
  <2>2. LET m == v.page[id].m_level
            q1 == Node(id, m, keep)
            V1 == At(m, out)
        IN  /\ Becomes(v, writeNode(v, q1), id, q1, W, V1, X1 \cup {id}, Y, Kept(v.page, W \cup {<<m, e>>}))
            /\ NonEmpty(q1.m_nodeMBR) /\ q1.m_level = m /\ V1 \cap W = {}
    BY <2>1, KeepPart
  <2> QED
    BY <1>3, <2>2 DEF Wanted
<1>9. X1 \cup {id} = X \cup {id}
  OBVIOUS
<1> HIDE DEF X1
<1>10. Treats(t, t2, lev)
  BY <1>1, TreatsIs
<1>11. q.m_identifier = id
  BY DEF Node
<1> HIDE DEF t2
<1>12. /\ Same(t2, T) /\ T.page = Stored(t2.page, q)
       /\ T.m_u32TreeHeight = t2.m_u32TreeHeight /\ T.m_nodesInLevel = t2.m_nodesInLevel
       /\ T.m_u32Nodes = t2.m_u32Nodes /\ T.overflowTable = t2.overflowTable /\ T.outside = t2.outside
  <2>1. IsTree(t2) /\ q.m_identifier # NewPage
    BY <1>1, <1>10, <1>11 DEF Treats, Same
  <2> HIDE DEF q
  <2> QED
    BY <2>1, WriteIs
<1>13. v1 = writeNode(t, q)
  <2> HIDE DEF q
  <2> QED
    BY <1>1, <1>11, WriteAgain DEF Stands
<1>14. /\ Same(t, v1) /\ v1.page = Stored(t.page, q)
       /\ v1.m_u32TreeHeight = t.m_u32TreeHeight /\ v1.m_nodesInLevel = t.m_nodesInLevel
       /\ v1.m_u32Nodes = t.m_u32Nodes
  <2> HIDE DEF q, v1
  <2>1. q.m_identifier # NewPage
    BY <1>1, <1>11
  <2> QED
    BY <1>1, <1>13, <2>1, WriteIs
<1> HIDE DEF v1, T
<1>15. Same(t, T) /\ Same(v1, T) /\ Same(v, T)
  <2>1. Same(t, T)
    BY <1>10, <1>12, SameTwice DEF Treats
  <2>2. Same(v1, t)
    BY <1>1, <1>14, SameBack
  <2> QED
    BY <1>3, <2>1, <2>2, SameTwice
<1>16. T.page = v1.page
  BY <1>10, <1>12, <1>14 DEF Treats
<1>17. /\ Works(v1, W \cup V, X \cup {id}, Y) /\ v1.page = Stored(v.page, q) /\ Kept(v1.page, W \cup V) = K
  BY <1>8, <1>9 DEF Becomes
<1> HIDE DEF K, V, v, q
<1>18. Works(T, W \cup V, X \cup {id}, Y)
  <2>1. T.m_u32TreeHeight = v1.m_u32TreeHeight /\ T.m_nodesInLevel = v1.m_nodesInLevel /\ T.m_u32Nodes = v1.m_u32Nodes
    BY <1>10, <1>12, <1>14 DEF Treats
  <2> QED
    BY <1>15, <1>16, <1>17, <2>1, WorksSame
<1>19. Settled(v, u, T, W, V, X, Y, K)
  <2>1. /\ AtNode(v, W, X1, Y, id, e) /\ Up(v.page, v.m_rootID, id, v.page[id].m_level, s.path)
        /\ Works(T, W \cup V, X \cup {id}, Y) /\ Same(v, T) /\ T.page = Stored(v.page, q)
        /\ q.m_identifier = id /\ q.m_level = v.page[id].m_level /\ NonEmpty(q.m_nodeMBR)
        /\ Kept(T.page, W \cup V) = K
    BY <1>1, <1>3, <1>8, <1>11, <1>15, <1>16, <1>17, <1>18
  <2> QED
    BY <2>1, Settles
<1> DEFINE a == Reinserted(s)
<1>20. a = Finished(s, u, outs)
  BY DEF Reinserted, u, T, t2, q, outs, out, keep, d
<1> HIDE DEF u
<1>21. a.t = u /\ a.done = TRUE /\ a.out = outs
  <2> HIDE DEF outs
  <2>1. IsGoing(s)
    BY <1>1
  <2>2. IsDone(Finished(s, u, outs), u, outs)
    BY <2>1, DoneIs
  <2> QED
    BY <1>20, <2>2 DEF IsDone
<1> HIDE DEF a
<1>22. out \in Seq(EntryT) /\ Distinct(out)
  BY <1>7, ShapelyIs DEF SplitsTo
<1>23. Out(a) = V
  <2>1. \A k \in DOMAIN out : outs[k].level = lev /\ outs[k].e = out[k]
    OBVIOUS
  <2>2. DOMAIN outs = DOMAIN out
    OBVIOUS
  <2>3. ToSet(out) = {out[k] : k \in DOMAIN out}
    BY DEF ToSet
  <2> HIDE DEF outs
  <2>4. Out(a) = {<<lev, out[k]>> : k \in DOMAIN out}
    BY <1>21, <2>1, <2>2 DEF Out
  <2> HIDE DEF lev
  <2> QED
    BY <2>3, <2>4 DEF V, At
<1>24. /\ Works(u, W \cup V, X, Y) /\ Since(v, u, W)
       /\ u.overflowTable = T.overflowTable
       /\ SameData(K, Kept(u.page, W \cup V))
       /\ u.page[v.m_rootID].m_level = v.page[v.m_rootID].m_level
  BY <1>19 DEF Settled
<1>25. Low(u.page, v.m_rootID, W \cup V)
  <2>1. Low(v.page, v.m_rootID, W)
    BY <1>1, <1>3
  <2>2. \A x \in V : x[1] = lev
    BY DEF V, At
  <2> QED
    BY <1>5, <1>24, <2>1, <2>2 DEF Low
<1>26. Takes(v, a)
  <2>1. outs \in Seq([e : EntryT, level : Nat])
    <3>1. \A k \in 1 .. Len(out) : outs[k] \in [e : EntryT, level : Nat]
      BY <1>3, <1>22
    <3>2. outs = [k \in 1 .. Len(out) |-> outs[k]] /\ Len(out) \in Nat
      BY <1>22
    <3> HIDE DEF outs
    <3> QED
      BY <3>1, <3>2
  <2>2. \A j, k \in DOMAIN outs : outs[j].level = outs[k].level /\ outs[j].e = outs[k].e => j = k
    <3>1. \A j, k \in DOMAIN out : out[j].id = out[k].id => j = k
      BY <1>22 DEF Distinct
    <3> QED
      BY <3>1
  <2>3. Len(outs) = Len(out)
    <3>1. DOMAIN outs = 1 .. Len(out) /\ Len(out) \in Nat
      BY <1>22
    <3>2. DOMAIN outs = 1 .. Len(outs) /\ Len(outs) \in Nat
      BY <2>1
    <3> HIDE DEF outs
    <3> QED
      BY <3>1, <3>2
  <2> HIDE DEF outs
  <2>4. Len(outs) <= Upper(v.cReinsert.leaf, v.cReinsert.index)
    <3>1. t.cReinsert = v.cReinsert
      BY <1>3 DEF Same
    <3>2. t.cReinsert.leaf \in Nat /\ t.cReinsert.index \in Nat
      <4>1. Of(t.cReinsert, 0) \in Nat /\ Of(t.cReinsert, 1) \in Nat
        BY <1>3, <1>4 DEF Sized
      <4> QED
        BY <4>1 DEF Of
    <3>3. Of(t.cReinsert, lev) <= Upper(t.cReinsert.leaf, t.cReinsert.index)
      BY <3>2, UpperIs
    <3> QED
      BY <1>7, <2>3, <3>1, <3>3
  <2>5. v.tableSize = t.tableSize
    BY <1>3 DEF Same
  <2>6. u.overflowTable = v.overflowTable \cup {lev} /\ lev \notin v.overflowTable /\ lev \in 0 .. v.tableSize - 1
    BY <1>3, <1>4, <1>10, <1>12, <1>24, <2>5 DEF Treats
  <2> QED
    BY <1>21, <2>1, <2>2, <2>4, <2>6 DEF Takes
<1> QED
  BY <1>8, <1>21, <1>23, <1>24, <1>25, <1>26 DEF Ended, a, K, v, V


\* when the tree grows.
LEMMA LowHigher ==
    ASSUME NEW P, NEW r, NEW W \in SUBSET PairT, NEW V, Low(P, r, V), W \in SUBSET V,
           NEW Q, Q[r].m_level >= P[r].m_level,
           P[r].m_level \in Nat, Q[r].m_level \in Nat
    PROVE  Low(Q, r, W)
  BY DEF Low, PairT

\* A root without room.
LEMMA RootSplitEnds ==
    ASSUME NEW s, NEW W, NEW X, NEW Y, Climbing(s, W, X, Y),
           Len(s.n.entries) >= Of(s.t.m_capacity, s.n.m_level), s.path = <<>>
    PROVE  Ended(Stands(s), SplitIn(s), W, X, Y, Kept(Stands(s).page, W \cup {Wanted(s)}))
<1> DEFINE v == Stands(s)
<1> DEFINE t == s.t
<1> DEFINE n == s.n
<1> DEFINE e == s.e
<1> DEFINE id == s.n.m_identifier
<1> DEFINE lev == s.n.m_level
<1> DEFINE X1 == IF s.changed THEN X \cup {s.n.m_identifier} ELSE X
<1> DEFINE w == Wanted(s)
<1> DEFINE K == Kept(v.page, W \cup {w})
<1> DEFINE u == NewRoot(t, lev, split(t, lev, Append(n.entries, e)))
<1>1. /\ IsGoing(s) /\ IsTree(t) /\ id # NewPage /\ id \in DOMAIN t.page
      /\ AtNode(v, W, X1, Y, id, e)
      /\ Up(v.page, t.m_rootID, id, lev, s.path)
      /\ Low(v.page, t.m_rootID, W)
  BY DEF Climbing
<1>2. id = t.m_rootID
  BY <1>1 DEF Up
<1>3. ClimbsAt(s, v, id, W)
  BY ClimbIs
<1>4. v.m_rootID = t.m_rootID /\ v.page[id] = n /\ v.page[id].m_level \in Nat /\ Same(t, v)
  BY <1>2, <1>3 DEF ClimbsAt
<1>5. Higher(v, u, W, X1, Y, K)
  <2> HIDE DEF X1, u
  <2>1. v = writeNode(t, n)
    BY DEF Stands
  <2>2. AtNode(v, W, X1, Y, t.m_rootID, e)
    BY <1>1, <1>2
  <2> HIDE DEF v
  <2>3. Higher(v, NewRoot(t, n.m_level, split(t, n.m_level, Append(n.entries, e))), W, X1, Y,
               Kept(v.page, W \cup {<<n.m_level, e>>}))
    BY <1>1, <1>2, <2>1, <2>2, NewRootKeeps
  <2> QED
    BY <2>3 DEF u, K, w, Wanted
<1>6. SplitIn(s) = Finished(s, u, <<>>)
  BY DEF SplitIn, SplitInto
<1> HIDE DEF u, v, K
<1> DEFINE r == v.m_rootID
<1>7. /\ Works(u, W, X1, Y) /\ Same(v, u) /\ u.m_rootID = r
      /\ u.overflowTable = v.overflowTable
      /\ u.page[r].m_level = v.page[r].m_level + 1
      /\ \A o \in DOMAIN v.page : o # r => o \in DOMAIN u.page /\ u.page[o] = v.page[o]
  BY <1>5 DEF Higher, Same
<1>8. Works(u, W, X, Y)
  <2>1. Forest(u.page, r, W, X1, Tight(u))
    BY <1>7, WorksIs
  <2>2. \A p \in DOMAIN u.page : p \in X1 => p \in X \/ p = r
    BY <1>2, <1>4
  <2> HIDE DEF X1
  <2>3. Forest(u.page, r, W, X, Tight(u))
    BY <2>1, <2>2, ForestOther
  <2> QED
    BY <1>7, <2>3 DEF Works
<1> HIDE DEF X1
<1>9. Works(v, W \cup {w}, X1, Y) /\ id \in DOMAIN v.page
  BY <1>1, <1>4 DEF AtNode, w, Wanted
<1> HIDE DEF w
<1>10. Forest(v.page, r, W \cup {w}, X1, Tight(v))
  BY <1>9, WorksIs
<1>11. W \in SUBSET PairT
  BY <1>10 DEF Forest
<1>12. Rests(v.page, u.page, W)
  <2>1. r \notin Off(v.page, W \cup {w})
    BY <1>10, RootNotOff
  <2>2. r \notin Off(v.page, W)
    BY <2>1, OffLess
  <2>3. Off(v.page, W) \in SUBSET DOMAIN v.page
    BY DEF Off
  <2> QED
    BY <1>7, <2>2, <2>3 DEF Rests
<1>13. v.page[r].m_level \in Nat /\ u.page[r].m_level \in Nat /\ v.page[r].m_level <= u.page[r].m_level
       /\ u.page[r].m_level >= v.page[r].m_level
  BY <1>2, <1>4, <1>7
<1>14. Since(v, u, W)
  BY <1>7, <1>12, <1>13 DEF Since
<1>15. SameData(K, Kept(u.page, W))
  BY <1>5 DEF Higher, SameData
<1>16. Low(u.page, r, W)
  <2>1. Low(v.page, r, W)
    BY <1>1, <1>4
  <2> QED
    BY <1>11, <1>13, <2>1, LowHigher
<1> DEFINE a == SplitIn(s)
<1>17. a.t = u /\ a.done = TRUE /\ a.out = <<>>
  <2>1. IsGoing(s)
    BY <1>1
  <2>2. IsDone(Finished(s, u, <<>>), u, <<>>)
    BY <2>1, DoneIs
  <2> QED
    BY <1>6, <2>2 DEF IsDone
<1> HIDE DEF a
<1>18. Out(a) = {} /\ Takes(v, a)
  BY <1>7, <1>17, NothingOut
<1>19. W \cup Out(a) = W /\ Out(a) \cap W = {}
  BY <1>18
<1> QED
  BY <1>8, <1>14, <1>15, <1>16, <1>17, <1>18, <1>19 DEF Ended, a, K, v, w


\* The climb stands at p, with the node q.
LEMMA GoingIs ==
    ASSUME NEW t, NEW q, NEW e, NEW ch, NEW path
    PROVE  LET a == Going(t, q, e, ch, path)
           IN  a.t = t /\ a.n = q /\ a.e = e /\ a.changed = ch /\ a.path = path /\ ~ a.done /\ IsGoing(a)
  BY DEF Going, IsGoing

\* Writing a page that is not cut off leaves the others.
LEMMA RestsOther ==
    ASSUME NEW P, NEW Q, NEW W, NEW id, id \notin Off(P, W), DOMAIN P \in SUBSET DOMAIN Q,
           \A o \in DOMAIN P : o # id => Q[o] = P[o]
    PROVE  Rests(P, Q, W)
  BY DEF Rests, Off

\* A node that is not the root was split: its parent gets the bounds and an entry.
LEMMA SplitGoesOn ==
    ASSUME NEW s, NEW W, NEW X, NEW Y, Climbing(s, W, X, Y),
           Len(s.n.entries) >= Of(s.t.m_capacity, s.n.m_level), s.path # <<>>
    PROVE  GoesOn(Stands(s), SplitIn(s), s.path, W, X, Y, Kept(Stands(s).page, W \cup {Wanted(s)}))
<1> DEFINE v == Stands(s)
<1> DEFINE t == s.t
<1> DEFINE n == s.n
<1> DEFINE e == s.e
<1> DEFINE id == s.n.m_identifier
<1> DEFINE lev == s.n.m_level
<1> DEFINE X1 == IF s.changed THEN X \cup {s.n.m_identifier} ELSE X
<1> DEFINE w == Wanted(s)
<1> DEFINE K == Kept(v.page, W \cup {w})
<1> DEFINE all == Append(n.entries, e)
<1> DEFINE h == split(t, lev, all)
<1> DEFINE n1 == Node(id, lev, h[1])
<1> DEFINE t1 == writeNode(t, n1)
<1> DEFINE t2 == writeNode(t1, Node(NewPage, lev, h[2]))
<1> DEFINE n2 == Node(Unused(t1), lev, h[2])
<1> DEFINE pid == Head(s.path)
<1> DEFINE p == t2.page[Head(s.path)]
<1> DEFINE q == Adjusted(t2, p, n1)
<1> DEFINE ch == Recomputes(t2, p, n1)
<1> DEFINE up == Tail(s.path)
<1> DEFINE f == Entry(n2.m_nodeMBR, n2.m_identifier)
<1> DEFINE a == SplitIn(s)
<1> DEFINE r == t.m_rootID
<1>1. /\ IsGoing(s) /\ IsTree(t) /\ id # NewPage /\ id \in DOMAIN t.page
      /\ AtNode(v, W, X1, Y, id, e)
      /\ Up(v.page, r, id, lev, s.path)
      /\ Low(v.page, r, W)
  BY DEF Climbing
<1>2. ClimbsAt(s, v, id, W)
  BY ClimbIs
<1>3. /\ Same(t, v) /\ v.m_rootID = r /\ v.page[id] = n /\ v.overflowTable = t.overflowTable
      /\ v.page[r].m_level \in Nat /\ r \in DOMAIN v.page /\ id \in DOMAIN v.page
      /\ Of(v.m_capacity, lev) = Of(t.m_capacity, lev) /\ Least(v, lev) = Least(t, lev)
      /\ Sized(t) /\ lev \in Nat /\ Len(n.entries) <= Of(t.m_capacity, lev)
      /\ Of(t.m_capacity, lev) \in Nat /\ Fits(v, W, id, e) /\ DOMAIN v.page = DOMAIN t.page
  BY <1>1, <1>2 DEF ClimbsAt
<1>4. /\ Shapely(all) /\ Distinct(all) /\ Len(all) = Len(n.entries) + 1 /\ Len(n.entries) \in Nat
  BY <1>3 DEF Fits
<1>5. Len(all) = Of(t.m_capacity, lev) + 1
  BY <1>3, <1>4
<1>6. /\ SplitsTo(all, h[1], h[2])
      /\ Least(t, lev) <= Len(h[1]) /\ Least(t, lev) <= Len(h[2])
      /\ Len(h[1]) <= Of(t.m_capacity, lev) /\ Len(h[2]) <= Of(t.m_capacity, lev)
  <2> HIDE DEF all
  <2> QED
    BY <1>3, <1>4, <1>5, SplitKeeps
<1>7. a = Going(t2, q, f, ch, up)
  <2>1. n2 = [Node(NewPage, lev, h[2]) EXCEPT !.m_identifier = Unused(t1)]
    BY DEF Node
  <2>2. a = adjustTree2(t2, n1, [Node(NewPage, lev, h[2]) EXCEPT !.m_identifier = Unused(t1)], s.path)
    BY DEF SplitIn, SplitInto
  <2> HIDE DEF n1, t2
  <2>3. a = adjustTree2(t2, n1, n2, s.path)
    BY <2>1, <2>2
  <2> HIDE DEF n2, a
  <2> QED
    BY <2>3 DEF adjustTree2
<1> HIDE DEF h
<1>8. Divides(v, t2, n1, n2, W, X1, Y, K)
  <2> HIDE DEF v, X1, K
  <2>1. /\ AtNode(v, W, X1, Y, id, e) /\ SplitsTo(Append(v.page[id].entries, e), h[1], h[2])
        /\ Least(v, v.page[id].m_level) <= Len(h[1]) /\ Len(h[1]) <= Of(v.m_capacity, v.page[id].m_level)
        /\ Least(v, v.page[id].m_level) <= Len(h[2]) /\ Len(h[2]) <= Of(v.m_capacity, v.page[id].m_level)
    BY <1>1, <1>3, <1>6
  <2>2. LET level == v.page[id].m_level
            m1 == Node(id, level, h[1])
            z == writeNode(v, m1)
        IN  Divides(v, writeNode(z, Node(NewPage, level, h[2])), m1, Node(Unused(z), level, h[2]), W, X1, Y,
                    Kept(v.page, W \cup {<<level, e>>}))
    <3> HIDE DEF id
    <3> QED
      BY <2>1, SplitDivides
  <2>3. writeNode(v, n1) = t1
    <3>1. n1.m_identifier = id
      BY DEF Node
    <3> HIDE DEF n1
    <3> QED
      BY <1>1, <3>1, WriteAgain DEF Stands, v
  <2> QED
    BY <1>3, <2>2, <2>3 DEF K, w, Wanted
<1>9. /\ n1.m_identifier = id /\ n1.m_level = lev /\ n2.m_level = lev
  BY DEF Node
<1>10. X1 \cup {id} = X \cup {id}
  OBVIOUS
<1> HIDE DEF t1, t2, n1, n2, X1, K, v, w
<1> DEFINE fn == ForNode(n2)
<1>11. fn = <<lev + 1, f>>
  BY <1>9 DEF ForNode
<1>12. /\ Works(t2, W \cup {fn}, X \cup {id}, Y) /\ Same(v, t2)
       /\ t2.overflowTable = v.overflowTable /\ t2.outside = v.outside
       /\ t2.page[r].m_level = v.page[r].m_level
       /\ DOMAIN t2.page = DOMAIN v.page \cup {n2.m_identifier} /\ n2.m_identifier \notin DOMAIN v.page
       /\ t2.page[id] = n1
       /\ \A o \in DOMAIN v.page : o # id => t2.page[o] = v.page[o]
       /\ fn \notin K /\ Kept(t2.page, W \cup {fn}) = K \cup {fn}
       /\ NonEmpty(n1.m_nodeMBR) /\ t2.m_rootID = r
  BY <1>3, <1>8, <1>9, <1>10 DEF Divides, Same
<1> HIDE DEF f
<1>13. Forest(v.page, r, W \cup {w}, X1, Tight(v)) /\ v.page[id].m_level = lev
  BY <1>1, <1>3, WorksIs DEF AtNode, w, Wanted
<1>14. Climbs(v.page, r, id, lev, s.path)
  BY <1>1, <1>3, UpIs
<1>15. Up(t2.page, r, id, lev, s.path)
  <2>1. \A k \in DOMAIN s.path : s.path[k] \in DOMAIN v.page /\ s.path[k] # id
    BY <1>14 DEF Climbs
  <2>2. \A k \in DOMAIN s.path : s.path[k] \in DOMAIN t2.page /\ t2.page[s.path[k]] = v.page[s.path[k]]
    BY <1>12, <2>1
  <2> QED
    BY <1>1, <1>3, <2>2, UpKept
<1>16. /\ Up(t2.page, r, pid, lev + 1, up) /\ pid = s.path[1] /\ pid \in DOMAIN t2.page
       /\ t2.page[pid].m_level = lev + 1 /\ \E x \in ToSet(t2.page[pid].entries) : x.id = id
  BY <1>3, <1>15, UpNext
<1>17. pid \notin Off(t2.page, W \cup {fn})
  <2>1. Forest(t2.page, r, W \cup {fn}, X \cup {id}, Tight(t2))
    BY <1>12, WorksIs
  <2>2. id \in DOMAIN t2.page /\ t2.page[id].m_level = lev /\ 1 \in DOMAIN s.path
    <3>1. 1 \in DOMAIN s.path
      <4>1. Len(s.path) \in Nat /\ Len(s.path) # 0 /\ DOMAIN s.path = 1 .. Len(s.path)
        BY <1>14 DEF Climbs
      <4> QED
        BY <4>1
    <3> QED
      BY <1>3, <1>9, <1>12, <3>1
  <2> HIDE DEF fn, pid, id
  <2>3. \A k \in DOMAIN s.path : s.path[k] \notin Off(t2.page, W \cup {fn})
    BY <1>3, <1>15, <2>1, <2>2, UpNotOff
  <2> QED
    BY <1>16, <2>2, <2>3
<1> HIDE DEF fn, pid, up
<1> DEFINE U == W \cup {fn}
<1>18. Gets(t2, U, X, Y, id, pid)
  <2>1. /\ id \in DOMAIN t2.page /\ Works(t2, U, X \cup {id}, Y) /\ NonEmpty(t2.page[id].m_nodeMBR)
        /\ pid \in DOMAIN t2.page /\ t2.page[pid].m_level = t2.page[id].m_level + 1 /\ pid \notin Off(t2.page, U)
        /\ \E x \in ToSet(t2.page[pid].entries) : x.id = id
    BY <1>3, <1>9, <1>12, <1>16, <1>17
  <2> HIDE DEF U, id
  <2> QED
    BY <2>1, ParentAdjusted
<1> DEFINE u == writeNode(t2, q)
<1> DEFINE X2 == IF ch THEN X \cup {pid} ELSE X
<1>19. /\ Works(u, U, X2, Y) /\ Quiet(t2, u, U)
       /\ DOMAIN u.page = DOMAIN t2.page /\ u.page[pid] = q
       /\ \A o \in DOMAIN t2.page : o # pid => u.page[o] = t2.page[o]
  <2>1. p = t2.page[pid] /\ n1 = t2.page[id]
    BY <1>12 DEF pid
  <2> HIDE DEF p, id
  <2> QED
    BY <1>18, <2>1 DEF Gets
<1> HIDE DEF q, ch
<1>20. q.m_identifier = pid /\ q.m_level = lev + 1 /\ pid \in Nat /\ pid \in DOMAIN u.page
  <2>1. pid \in DOMAIN u.page
    BY <1>16, <1>19
  <2>2. u.page[pid].m_identifier = pid /\ pid \in Nat
    BY <1>19, <2>1, WorksIs
  <2>3. u.page[pid].m_level = t2.page[pid].m_level
    BY <1>16, <1>19 DEF Quiet
  <2> QED
    BY <1>16, <1>19, <2>1, <2>2, <2>3
<1> HIDE DEF a, p, U, u
<1>21. a.t = t2 /\ a.n = q /\ a.e = f /\ a.changed = ch /\ a.path = up /\ ~ a.done /\ IsGoing(a)
  BY <1>7, GoingIs
<1>22. Stands(a) = u /\ Wanted(a) = fn
  BY <1>11, <1>20, <1>21 DEF Stands, Wanted, u
<1>23. fn \notin W
  <2>1. W \in SUBSET K
    BY DEF K, Kept
  <2> QED
    BY <1>12, <2>1
<1>24. AtNode(u, W, X2, Y, pid, f)
  <2>1. <<u.page[pid].m_level, f>> = fn
    BY <1>11, <1>19, <1>20
  <2> HIDE DEF X2
  <2> QED
    BY <1>19, <1>20, <1>23, <2>1 DEF AtNode, U
<1>25. Up(u.page, r, pid, lev + 1, up)
  <2>1. lev + 1 \in Nat
    BY <1>3
  <2>2. \A k \in DOMAIN up : up[k] \in DOMAIN t2.page /\ up[k] # pid
    <3>1. Climbs(t2.page, r, pid, lev + 1, up)
      BY <1>16, <2>1, UpIs
    <3> QED
      BY <3>1 DEF Climbs
  <2>3. \A k \in DOMAIN up : up[k] \in DOMAIN u.page /\ u.page[up[k]] = t2.page[up[k]]
    BY <1>19, <2>2
  <2> QED
    BY <1>16, <2>1, <2>3, UpKept
<1>26. u.page[r].m_level = v.page[r].m_level /\ u.overflowTable = v.overflowTable /\ Same(t2, u)
  BY <1>12, <1>19 DEF Quiet
<1>27. Low(u.page, r, W)
  BY <1>1, <1>26, LowSame
<1>28. Climbing(a, W, X, Y)
  <2>1. /\ IsTree(a.t) /\ a.n.m_identifier \in DOMAIN a.t.page /\ a.n.m_identifier # NewPage
    BY <1>12, <1>16, <1>20, <1>21 DEF Same, NewPage
  <2>2. AtNode(Stands(a), W, IF a.changed THEN X \cup {a.n.m_identifier} ELSE X, Y, a.n.m_identifier, a.e)
    BY <1>20, <1>21, <1>22, <1>24
  <2>3. Up(Stands(a).page, a.t.m_rootID, a.n.m_identifier, a.n.m_level, a.path)
    BY <1>12, <1>20, <1>21, <1>22, <1>25
  <2>4. Low(Stands(a).page, a.t.m_rootID, W)
    BY <1>12, <1>21, <1>22, <1>27
  <2> QED
    BY <1>21, <2>1, <2>2, <2>3, <2>4 DEF Climbing
<1>29. Rests(v.page, u.page, W)
  <2>1. id \notin Off(v.page, W)
    <3>1. id \notin Off(v.page, W \cup {w})
      BY <1>1, <1>3, <1>13, UpNotOff
    <3> QED
      BY <3>1, OffLess
  <2>2. Rests(v.page, t2.page, W)
    BY <1>12, <2>1, RestsOther
  <2>3. Rests(t2.page, u.page, W)
    <3>1. Rests(t2.page, u.page, U)
      BY <1>19 DEF Quiet
    <3> QED
      BY <3>1, RestsLess DEF U
  <2> QED
    BY <2>2, <2>3, RestsTwice
<1>30. Since(v, u, W)
  <2>1. Same(v, u)
    BY <1>12, <1>26, SameTwice
  <2> QED
    BY <1>3, <1>26, <1>29, <2>1 DEF Since
<1>31. SameData(K, Kept(u.page, W \cup {fn}))
  <2>1. fn[1] # 0
    BY <1>3, <1>11
  <2>2. Bottom(u.page, U) = Bottom(t2.page, U)
    BY <1>19 DEF Quiet
  <2> QED
    BY <1>12, <2>1, <2>2 DEF Bottom, SameData, U
<1> QED
  BY <1>12, <1>21, <1>22, <1>28, <1>30, <1>31 DEF GoesOn, a, K, v, w, up


\* The climb, with the mark of an access behind the table.
Marked(s) == [s EXCEPT !.t.outside = TRUE]

Marks(s, z, W, X, Y) ==
    /\ Climbing(z, W, X, Y) /\ Stands(z).page = Stands(s).page /\ Wanted(z) = Wanted(s)
    /\ Same(Stands(s), Stands(z)) /\ Stands(z).m_rootID = Stands(s).m_rootID
    /\ Stands(z).overflowTable = Stands(s).overflowTable
    /\ z.n = s.n /\ z.path = s.path /\ z.t.m_capacity = s.t.m_capacity

\* A level split that asks the overflow table behind its end (Node.cc:372-374) changes the table only,
LEMMA MarkedIs ==
    ASSUME NEW s, IsGoing(s), IsTree(s.t), s.t.m_treeVariant = "RV_RSTAR"
    PROVE  LET z == Marked(s)
           IN  /\ IsGoing(z) /\ z.n = s.n /\ z.e = s.e /\ z.changed = s.changed /\ z.path = s.path
               /\ Same(s.t, z.t) /\ z.t.page = s.t.page /\ z.t.overflowTable = s.t.overflowTable
               /\ z.t.m_u32TreeHeight = s.t.m_u32TreeHeight /\ z.t.m_nodesInLevel = s.t.m_nodesInLevel
               /\ z.t.m_u32Nodes = s.t.m_u32Nodes
<1> DEFINE n == s.n
<1> DEFINE e == s.e
<1> DEFINE c == s.changed
<1> DEFINE p == s.path
<1> DEFINE o == s.t
<1> DEFINE o2 == [s.t EXCEPT !.outside = TRUE]
<1>1. s = [t |-> o, n |-> n, e |-> e, changed |-> c, path |-> p, done |-> FALSE, out |-> <<>>]
  BY DEF Going, IsGoing
<1>2. Same(o, o2) /\ o2.page = o.page /\ o2.overflowTable = o.overflowTable
      /\ o2.m_u32TreeHeight = o.m_u32TreeHeight /\ o2.m_nodesInLevel = o.m_nodesInLevel
      /\ o2.m_u32Nodes = o.m_u32Nodes
  BY DEF IsTree, Fields, Same
<1>3. Marked(s) = [s EXCEPT !.t = o2]
  BY <1>1 DEF Marked
<1> HIDE DEF n, e, c, p, o, o2
<1>4. Marked(s) = Going(o2, n, e, c, p)
  BY <1>1, <1>3 DEF Going
<1>5. n = s.n /\ e = s.e /\ c = s.changed /\ p = s.path /\ o = s.t
  BY DEF n, e, c, p, o
<1> DEFINE z == Marked(s)
<1>6. z.t = o2 /\ z.n = n /\ z.e = e /\ z.changed = c /\ z.path = p /\ IsGoing(z)
  BY <1>4, GoingIs
<1> HIDE DEF z
<1> QED
  BY <1>2, <1>5, <1>6 DEF z

\* and the insertion climbs on.
LEMMA MarkedClimbs ==
    ASSUME NEW s, NEW W, NEW X, NEW Y, Climbing(s, W, X, Y), s.t.m_treeVariant = "RV_RSTAR"
    PROVE  Marks(s, Marked(s), W, X, Y)
<1> DEFINE v == Stands(s)
<1> DEFINE z == Marked(s)
<1> DEFINE v2 == Stands(z)
<1> DEFINE id == s.n.m_identifier
<1> DEFINE X1 == IF s.changed THEN X \cup {s.n.m_identifier} ELSE X
<1>1. /\ IsGoing(s) /\ IsTree(s.t) /\ id \in DOMAIN s.t.page /\ id # NewPage
      /\ AtNode(v, W, X1, Y, id, s.e)
      /\ Up(v.page, s.t.m_rootID, id, s.n.m_level, s.path)
      /\ Low(v.page, s.t.m_rootID, W)
  BY DEF Climbing
<1>2. /\ IsGoing(z) /\ z.n = s.n /\ z.e = s.e /\ z.changed = s.changed /\ z.path = s.path
      /\ Same(s.t, z.t) /\ z.t.page = s.t.page /\ z.t.overflowTable = s.t.overflowTable
      /\ z.t.m_u32TreeHeight = s.t.m_u32TreeHeight /\ z.t.m_nodesInLevel = s.t.m_nodesInLevel
      /\ z.t.m_u32Nodes = s.t.m_u32Nodes
  BY <1>1, MarkedIs
<1> HIDE DEF z
<1>3. /\ Same(s.t, v) /\ v.page = Stored(s.t.page, s.n)
      /\ v.m_u32TreeHeight = s.t.m_u32TreeHeight /\ v.m_nodesInLevel = s.t.m_nodesInLevel
      /\ v.m_u32Nodes = s.t.m_u32Nodes /\ v.overflowTable = s.t.overflowTable
  BY <1>1, WriteIs DEF Stands
<1>4. /\ Same(z.t, v2) /\ v2.page = Stored(z.t.page, z.n)
      /\ v2.m_u32TreeHeight = z.t.m_u32TreeHeight /\ v2.m_nodesInLevel = z.t.m_nodesInLevel
      /\ v2.m_u32Nodes = z.t.m_u32Nodes /\ v2.overflowTable = z.t.overflowTable
  <2>1. IsTree(z.t) /\ z.n.m_identifier # NewPage
    BY <1>1, <1>2 DEF Same
  <2> QED
    BY <2>1, WriteIs DEF Stands
<1> HIDE DEF v, v2, X1
<1>5. Same(v, v2)
  <2>1. Same(s.t, v2) /\ Same(v, s.t)
    BY <1>1, <1>2, <1>3, <1>4, SameTwice, SameBack
  <2> QED
    BY <2>1, SameTwice
<1>6. v2.page = v.page /\ v2.m_rootID = v.m_rootID /\ v2.overflowTable = v.overflowTable
      /\ z.t.m_rootID = s.t.m_rootID /\ z.t.m_capacity = s.t.m_capacity /\ IsTree(z.t)
  BY <1>2, <1>3, <1>4, <1>5 DEF Same
<1>7. AtNode(v2, W, X1, Y, id, s.e)
  <2> DEFINE U == W \cup {<<v.page[id].m_level, s.e>>}
  <2>1. Works(v, U, X1, Y)
    BY <1>1 DEF AtNode
  <2> HIDE DEF U
  <2>2. v2.m_u32TreeHeight = v.m_u32TreeHeight /\ v2.m_nodesInLevel = v.m_nodesInLevel
        /\ v2.m_u32Nodes = v.m_u32Nodes
    BY <1>2, <1>3, <1>4
  <2>3. Works(v2, U, X1, Y)
    BY <1>5, <1>6, <2>1, <2>2, WorksSame
  <2> QED
    BY <1>1, <1>6, <2>3 DEF AtNode, U
<1>8. Climbing(z, W, X, Y)
  BY <1>1, <1>2, <1>6, <1>7 DEF Climbing, v2, X1
<1> QED
  BY <1>2, <1>5, <1>6, <1>8 DEF Marks, Wanted, v, v2, z

\* Whether the table is asked behind its end or not.
LEMMA AskedClimbs ==
    ASSUME NEW s, NEW W, NEW X, NEW Y, Climbing(s, W, X, Y),
           NEW z, z = IF Behind(s) THEN Marked(s) ELSE s
    PROVE  Marks(s, z, W, X, Y)
<1>1. CASE Behind(s)
  <2>1. s.t.m_treeVariant = "RV_RSTAR" /\ z = Marked(s)
    BY <1>1 DEF Behind, AsksTable
  <2> QED
    BY <2>1, MarkedClimbs
<1>2. CASE ~Behind(s)
  <2>1. z = s
    BY <1>2
  <2>2. IsTree(s.t) /\ s.n.m_identifier # NewPage
    BY DEF Climbing
  <2>3. Same(s.t, Stands(s))
    BY <2>2, WriteIs DEF Stands
  <2>4. Same(Stands(s), Stands(s))
    BY <2>3 DEF Same
  <2> QED
    BY <2>1, <2>4 DEF Marks
<1> QED
  BY <1>1, <1>2

\* One step of the way up.
Progress(t, s, W, X, Y, K) ==
    /\ Climbing(s, W, X, Y) /\ ~ s.done /\ Since(t, Stands(s), W)
    /\ SameData(K, Kept(Stands(s).page, W \cup {Wanted(s)}))
    /\ s.t.overflowTable = t.overflowTable

\* What ended for a later tree ended for the earlier one,
LEMMA EndedFrom ==
    ASSUME NEW t, NEW v, NEW W, Since(t, v, W), t.overflowTable = v.overflowTable,
           t.page[t.m_rootID].m_level \in Nat, v.page[v.m_rootID].m_level \in Nat,
           NEW X, NEW Y, NEW a, NEW K, NEW K2, Ended(v, a, W, X, Y, K2), SameData(K, K2)
    PROVE  Ended(t, a, W, X, Y, K)
<1>1. /\ a.done
      /\ Works(a.t, W \cup Out(a), X, Y) /\ Out(a) \cap W = {} /\ Since(v, a.t, W)
      /\ SameData(K2, Kept(a.t.page, W \cup Out(a)))
      /\ Low(a.t.page, v.m_rootID, W \cup Out(a)) /\ Takes(v, a)
  BY DEF Ended
<1>2. t.m_rootID = v.m_rootID /\ t.tableSize = v.tableSize /\ t.cReinsert = v.cReinsert
  BY DEF Since, Same
<1>3. a.t.page[a.t.m_rootID].m_level \in Nat
  BY <1>1, WorksIs
<1>4. Since(t, a.t, W)
  BY <1>1, <1>3, SinceTwice
<1>5. SameData(K, Kept(a.t.page, W \cup Out(a)))
  BY <1>1 DEF SameData
<1>6. Takes(t, a)
  BY <1>1, <1>2 DEF Takes
<1> QED
  BY <1>1, <1>2, <1>4, <1>5, <1>6 DEF Ended

Moves(t, a, path, W, X, Y, K) == Progress(t, a, W, X, Y, K) /\ path # <<>> /\ a.path = Tail(path)

\* and what goes on goes on.
LEMMA ProgressFrom ==
    ASSUME NEW t, NEW v, NEW W, Since(t, v, W), t.overflowTable = v.overflowTable,
           t.page[t.m_rootID].m_level \in Nat, v.page[v.m_rootID].m_level \in Nat,
           NEW X, NEW Y, NEW a, NEW path, NEW K, NEW K2, GoesOn(v, a, path, W, X, Y, K2), SameData(K, K2)
    PROVE  Moves(t, a, path, W, X, Y, K)
<1>1. /\ Climbing(a, W, X, Y) /\ ~ a.done /\ path # <<>> /\ a.path = Tail(path) /\ Since(v, Stands(a), W)
      /\ SameData(K2, Kept(Stands(a).page, W \cup {Wanted(a)}))
      /\ a.t.overflowTable = v.overflowTable
  BY DEF GoesOn
<1>2. Stands(a).page[Stands(a).m_rootID].m_level \in Nat
  <2>1. ClimbsAt(a, Stands(a), a.n.m_identifier, W)
    BY <1>1, ClimbIs
  <2> QED
    BY <2>1 DEF ClimbsAt
<1>3. Since(t, Stands(a), W)
  BY <1>1, <1>2, SinceTwice
<1>4. SameData(K, Kept(Stands(a).page, W \cup {Wanted(a)}))
  BY <1>1 DEF SameData
<1> QED
  BY <1>1, <1>3, <1>4 DEF Progress, Moves

\* One call of insertData ends the insertion or goes on one level higher.
LEMMA StepKeeps ==
    ASSUME NEW t, t.page[t.m_rootID].m_level \in Nat, t.tableSize \in Nat,
           NEW s, NEW W, NEW X, NEW Y, NEW K, Progress(t, s, W, X, Y, K)
    PROVE  \/ Ended(t, insertData(s), W, X, Y, K)
           \/ Progress(t, insertData(s), W, X, Y, K) /\ s.path # <<>> /\ insertData(s).path = Tail(s.path)
<1> DEFINE v == Stands(s)
<1> DEFINE L == Kept(v.page, W \cup {Wanted(s)})
<1> DEFINE a == insertData(s)
<1>1. /\ Climbing(s, W, X, Y) /\ Since(t, v, W) /\ SameData(K, L) /\ s.t.overflowTable = t.overflowTable
  BY DEF Progress
<1>2. ClimbsAt(s, v, s.n.m_identifier, W)
  BY <1>1, ClimbIs
<1>3. /\ v.overflowTable = t.overflowTable /\ v.page[v.m_rootID].m_level \in Nat /\ s.t.tableSize = v.tableSize
      /\ Len(s.n.entries) <= Of(s.t.m_capacity, s.n.m_level) /\ Of(s.t.m_capacity, s.n.m_level) \in Nat
      /\ Len(s.n.entries) \in Nat
  BY <1>1, <1>2 DEF ClimbsAt, Same, Fits
<1>4. s.t.tableSize \in Nat
  BY <1>1, <1>3 DEF Since, Same
<1>5. CASE Len(s.n.entries) < Of(s.t.m_capacity, s.n.m_level)
  <2>1. a = Appended(s)
    BY <1>5 DEF insertData
  <2>2. Ended(v, a, W, X, Y, L)
    BY <1>1, <1>5, <2>1, AppendedEnds
  <2> QED
    BY <1>1, <1>3, <2>2, EndedFrom
<1>6. CASE Len(s.n.entries) >= Of(s.t.m_capacity, s.n.m_level)
  <2>0. ~ (Len(s.n.entries) < Of(s.t.m_capacity, s.n.m_level))
    BY <1>3, <1>6
  <2>1. CASE Reinserts(s)
    <3>1. a = Reinserted(s)
      BY <2>0, <2>1 DEF insertData
    <3>2. Ended(v, a, W, X, Y, L)
      BY <1>1, <1>4, <1>6, <2>1, <3>1, ReinsertedEnds
    <3> QED
      BY <1>1, <1>3, <3>2, EndedFrom
  <2>2. CASE ~ Reinserts(s)
    <3> DEFINE z == IF Behind(s) THEN Marked(s) ELSE s
    <3>1. a = SplitIn(z)
      BY <2>0, <2>2 DEF insertData, Marked
    <3>2. Marks(s, z, W, X, Y)
      BY <1>1, AskedClimbs
    <3> HIDE DEF z, a, v, L
    <3> DEFINE v2 == Stands(z)
    <3>3. /\ Climbing(z, W, X, Y) /\ v2.page = v.page /\ Wanted(z) = Wanted(s)
          /\ Same(v, v2) /\ v2.m_rootID = v.m_rootID
          /\ v2.overflowTable = v.overflowTable
          /\ z.n = s.n /\ z.path = s.path /\ z.t.m_capacity = s.t.m_capacity
      BY <3>2 DEF Marks, v
    <3>4. Since(t, v2, W)
      BY <1>1, <3>3, SameTwice DEF Since
    <3>5. L = Kept(v2.page, W \cup {Wanted(z)})
      BY <3>3 DEF L
    <3>6. Len(z.n.entries) >= Of(z.t.m_capacity, z.n.m_level)
      BY <1>6, <3>3
    <3>7. v2.page[v2.m_rootID].m_level \in Nat /\ t.overflowTable = v2.overflowTable
      BY <1>3, <3>3
    <3>8. CASE s.path = <<>>
      <4>1. Ended(v2, a, W, X, Y, L)
        BY <3>1, <3>3, <3>5, <3>6, <3>8, RootSplitEnds
      <4> HIDE DEF v2
      <4> QED
        BY <1>1, <3>4, <3>7, <4>1, EndedFrom DEF a
    <3>9. CASE s.path # <<>>
      <4>1. GoesOn(v2, a, s.path, W, X, Y, L)
        BY <3>1, <3>3, <3>5, <3>6, <3>9, SplitGoesOn
      <4> HIDE DEF v2
      <4>2. SameData(K, L) /\ t.page[t.m_rootID].m_level \in Nat
        BY <1>1
      <4> DEFINE path == s.path
      <4>3. GoesOn(v2, a, path, W, X, Y, L)
        BY <4>1
      <4> HIDE DEF path
      <4>4. Moves(t, a, path, W, X, Y, K)
        BY <3>4, <3>7, <4>2, <4>3, ProgressFrom
      <4> QED
        BY <4>4 DEF a, path, Moves
    <3> QED
      BY <3>8, <3>9
  <2> QED
    BY <2>1, <2>2
<1> QED
  BY <1>3, <1>5, <1>6


InsertStep(s) == IF s.done THEN s ELSE insertData(s)

\* The climb of an insertion.
InsertingIsFun(b, n) == CHOOSE g : g = [k \in 0 .. n |-> IF k = 0 THEN b ELSE InsertStep(g[k - 1])]

\* The calls of insertData, as a recursion.
LEMMA InsertingIs ==
    ASSUME NEW b, NEW n \in Nat, NEW f, f = InsertingIsFun(b, n)
    PROVE  /\ f[0] = b
           /\ \A k \in 1 .. n : f[k] = InsertStep(f[k - 1])
<1> DEFINE S(k, x) == InsertStep(x)
<1> DEFINE B == b
<1> DEFINE Solves(m, g) == g = [k \in 0 .. m |-> IF k = 0 THEN B ELSE S(k, g[k - 1])]
<1> DEFINE Wrong == {m \in Nat : ~ \E g : Solves(m, g)}
<1> HIDE DEF S, B
<1>1. ASSUME Wrong # {} PROVE FALSE
  <2>1. PICK m \in Wrong : \A j \in Wrong : m <= j
    BY <1>1, LeastExists
  <2>2. CASE m = 0
    <3> DEFINE g == [k \in 0 .. 0 |-> B]
    <3>1. Solves(0, g)
      OBVIOUS
    <3> QED
      BY <2>1, <2>2, <3>1
  <2>3. CASE m # 0
    <3>1. m - 1 \in Nat /\ m - 1 \notin Wrong
      <4>1. m \in Nat /\ m - 1 \in Nat
        BY <2>1, <2>3
      <4> HIDE DEF Wrong
      <4> QED
        BY <2>1, <4>1
    <3>2. PICK g : Solves(m - 1, g)
      BY <3>1
    <3> DEFINE h == [k \in 0 .. m |-> IF k < m THEN g[k] ELSE S(m, g[m - 1])]
    <3>3. ASSUME NEW k \in 0 .. m PROVE h[k] = IF k = 0 THEN B ELSE S(k, h[k - 1])
      <4>1. CASE k = 0
        <5>1. g[0] = B
          BY <3>1, <3>2
        <5> QED
          BY <2>3, <4>1, <5>1
      <4>2. CASE k # 0 /\ k < m
        <5>1. k \in 0 .. m - 1 /\ k - 1 \in 0 .. m
          BY <4>2
        <5>2. g[k] = S(k, g[k - 1])
          BY <3>2, <4>2, <5>1
        <5>3. h[k] = g[k] /\ h[k - 1] = g[k - 1]
          BY <4>2, <5>1
        <5> HIDE DEF h
        <5> QED
          BY <4>2, <5>2, <5>3
      <4>3. CASE k = m
        <5>1. m - 1 \in 0 .. m /\ m - 1 < m
          BY <3>1
        <5>2. h[m] = S(m, g[m - 1]) /\ h[m - 1] = g[m - 1]
          BY <2>3, <5>1
        <5> HIDE DEF h
        <5> QED
          BY <2>3, <4>3, <5>2
      <4> QED
        BY <4>1, <4>2, <4>3
    <3>4. h = [k \in 0 .. m |-> h[k]]
      OBVIOUS
    <3> HIDE DEF h
    <3>5. Solves(m, h)
      BY <3>3, <3>4
    <3> QED
      BY <2>1, <3>5
  <2> QED
    BY <2>2, <2>3
<1>2. \E g : Solves(n, g)
  BY <1>1
<1>3. \E g : g = [k \in 0 .. n |-> IF k = 0 THEN B ELSE S(k, g[k - 1])]
  BY <1>2
<1>4. f = CHOOSE g : g = [k \in 0 .. n |-> IF k = 0 THEN B ELSE S(k, g[k - 1])]
  BY DEF S, B, InsertingIsFun
<1>5. f = [k \in 0 .. n |-> IF k = 0 THEN B ELSE S(k, f[k - 1])]
  BY <1>3, <1>4
<1>6. \A k \in 0 .. n : f[k] = IF k = 0 THEN B ELSE S(k, f[k - 1])
  BY <1>5, Zenon
<1>7. f[0] = B
  BY <1>6
<1>8. ASSUME NEW k \in 1 .. n PROVE f[k] = S(k, f[k - 1])
  <2>1. k \in 0 .. n /\ k # 0
    OBVIOUS
  <2> QED
    BY <1>6, <2>1
<1> QED
  BY <1>7, <1>8 DEF S, B


\* insertData_impl is the last call's result.
LEMMA InsertImplIs ==
    ASSUME NEW t, NEW e, NEW level
    PROVE  LET way == chooseSubtree(t, e.mbr, level)
           IN  insertData_impl(t, e, level)
                  = InsertingIsFun(Going(t, t.page[way[1]], e, FALSE, Tail(way)), Len(way))[Len(way)]
  BY DEF insertData_impl, InsertingIsFun, InsertStep

\* A node that is written as it is.
LEMMA WrittenAsItIs ==
    ASSUME NEW t, NEW W, NEW X, NEW Y, Works(t, W, X, Y), NEW p \in DOMAIN t.page
    PROVE  /\ Written(t, writeNode(t, t.page[p]), t.page[p], p, W, X, Y)
           /\ Kept(writeNode(t, t.page[p]).page, W) = Kept(t.page, W)
<1> DEFINE P == t.page
<1> DEFINE r == t.m_rootID
<1> DEFINE q == P[p]
<1>1. /\ Conf(t) /\ Counts(t, P) /\ r \in DOMAIN P /\ Forest(P, r, W, X, Tight(t)) /\ Sizes(t, P, r, Y)
      /\ NodeOk(q, p, Tight(t)) /\ q.m_identifier = p /\ p \in Nat
      /\ \A o \in DOMAIN P : P[o].m_level <= P[r].m_level
  BY WorksIs
<1>2. Pairs(q) \cap W = {}
  BY <1>1 DEF Forest, OneHolder
<1>3. Exchanged(P, r, q, W, W, X, Tight(t))
  <2>1. Pairs(q) \cup W = Pairs(P[p]) \cup W
    OBVIOUS
  <2>2. p = r => \A o \in DOMAIN P : o # r => P[o].m_level <= q.m_level
    BY <1>1
  <2>3. p # r => q.m_level = P[p].m_level
    OBVIOUS
  <2>4. q.m_nodeMBR = P[p].m_nodeMBR
    OBVIOUS
  <2> HIDE DEF P, r, q
  <2> QED
    BY <1>1, <1>2, <2>1, <2>2, <2>3, <2>4, Exchange DEF P
<1>4. Sizes(t, Stored(P, q), r, Y)
  <2>1. /\ Len(q.entries) <= Of(t.m_capacity, q.m_level) /\ (q.m_level # 0 => 1 <= Len(q.entries))
        /\ (p \notin Y /\ p # r => Least(t, q.m_level) <= Len(q.entries))
        /\ (p \notin Y /\ p = r /\ q.m_level # 0 => 2 <= Len(q.entries))
    BY <1>1 DEF Sizes
  <2> HIDE DEF q, P, r
  <2> QED
    BY <1>1, <2>1, SizesStored
<1>5. Written(t, writeNode(t, q), q, p, W, X, Y)
  <2> HIDE DEF q
  <2>1. q.m_level = t.page[p].m_level
    BY DEF q
  <2> QED
    BY <1>1, <1>3, <1>4, <2>1, WorksWrite DEF Exchanged
<1> QED
  BY <1>3, <1>5 DEF Exchanged, Written

\* The beginning of the climb.
LEMMA InsertBegins ==
    ASSUME NEW t, NEW W, NEW X, NEW Y, NEW level \in Nat, NEW e, Works(t, W \cup {<<level, e>>}, X, Y),
           <<level, e>> \notin W, Low(t.page, t.m_rootID, W \cup {<<level, e>>}),
           NEW way, WayTo(t, level, way, t.m_rootID)
    PROVE  Progress(t, Going(t, t.page[way[1]], e, FALSE, Tail(way)), W, X, Y, Kept(t.page, W \cup {<<level, e>>}))
<1> DEFINE w == <<level, e>>
<1> DEFINE id == way[1]
<1> DEFINE n == t.page[id]
<1> DEFINE path == Tail(way)
<1> DEFINE s == Going(t, n, e, FALSE, path)
<1> DEFINE v == writeNode(t, n)
<1> DEFINE r == t.m_rootID
<1> DEFINE K == Kept(t.page, W \cup {w})
<1>1. id \in DOMAIN t.page /\ n.m_level = level /\ Up(t.page, r, id, level, path)
  BY WayIsUp
<1>2. Works(t, W \cup {w}, X, Y) /\ w \notin W /\ Low(t.page, r, W)
  BY DEF Low
<1> HIDE DEF w, id, path
<1>3. /\ Written(t, v, n, id, W \cup {w}, X, Y) /\ Kept(v.page, W \cup {w}) = K
  <2> DEFINE U == W \cup {w}
  <2>1. Works(t, U, X, Y)
    BY <1>2
  <2> HIDE DEF U
  <2>2. Written(t, v, n, id, U, X, Y) /\ Kept(v.page, U) = Kept(t.page, U)
    BY <1>1, <2>1, WrittenAsItIs
  <2> QED
    BY <2>2 DEF U
<1>4. n.m_identifier = id /\ id \in Nat /\ IsTree(t) /\ t.page[r].m_level \in Nat /\ r \in DOMAIN t.page
  BY <1>1, <1>2, WorksIs
<1> HIDE DEF n, K
<1>5. s.t = t /\ s.n = n /\ s.e = e /\ s.changed = FALSE /\ s.path = path /\ ~ s.done /\ IsGoing(s)
  BY GoingIs
<1> HIDE DEF s, v
<1>6. Stands(s) = v /\ Wanted(s) = w
  BY <1>1, <1>5 DEF Stands, Wanted, v, w
<1>7. /\ Works(v, W \cup {w}, X, Y) /\ Same(t, v)
      /\ v.overflowTable = t.overflowTable
      /\ v.page[r].m_level = t.page[r].m_level
      /\ DOMAIN v.page = DOMAIN t.page /\ v.page[id] = n
      /\ \A o \in DOMAIN t.page : o # id => v.page[o] = t.page[o]
  BY <1>3 DEF Written
<1>8. \A o \in DOMAIN t.page : v.page[o] = t.page[o]
  BY <1>7 DEF n
<1>9. AtNode(v, W, X, Y, id, e)
  BY <1>1, <1>2, <1>7 DEF AtNode, w
<1>10. Up(v.page, r, id, level, path)
  BY <1>1, <1>7, <1>8 DEF Up
<1>11. Low(v.page, r, W)
  BY <1>2, <1>7, LowSame
<1>12. Climbing(s, W, X, Y)
  <2>1. n.m_level = level /\ id # NewPage
    BY <1>1, <1>4 DEF NewPage
  <2> QED
    BY <1>1, <1>4, <1>5, <1>6, <1>9, <1>10, <1>11, <2>1 DEF Climbing
<1>13. Since(t, v, W)
  <2>1. Rests(t.page, v.page, W)
    BY <1>7, <1>8 DEF Rests, Off
  <2> QED
    BY <1>4, <1>7, <2>1 DEF Since
<1>14. SameData(K, Kept(v.page, W \cup {w}))
  BY <1>3 DEF SameData
<1> QED
  BY <1>5, <1>6, <1>12, <1>13, <1>14 DEF Progress, K, w, n, id, path, s

\* It ends with a tree that has the entry, or waits for some others.
THEOREM InsertionKeeps ==
    ASSUME NEW t, NEW W, NEW X, NEW Y, NEW level \in Nat, NEW e, Works(t, W \cup {<<level, e>>}, X, Y),
           <<level, e>> \notin W, Low(t.page, t.m_rootID, W \cup {<<level, e>>}), t.tableSize \in Nat
    PROVE  Ended(t, insertData_impl(t, e, level), W, X, Y, Kept(t.page, W \cup {<<level, e>>}))
<1> DEFINE way == chooseSubtree(t, e.mbr, level)
<1> DEFINE b == Going(t, t.page[way[1]], e, FALSE, Tail(way))
<1> DEFINE N == Len(way)
<1> DEFINE f == InsertingIsFun(b, N)
<1> DEFINE K == Kept(t.page, W \cup {<<level, e>>})
<1>1. /\ level <= t.page[t.m_rootID].m_level /\ t.page[t.m_rootID].m_level \in Nat
      /\ e.mbr \in AnyRegion
  <2> DEFINE w == <<level, e>>
  <2> DEFINE U == W \cup {w}
  <2>1. Works(t, U, X, Y) /\ w \in U /\ w[1] = level /\ w[2] = e
    OBVIOUS
  <2> HIDE DEF U, w
  <2>2. level <= t.page[t.m_rootID].m_level
    <3>1. Low(t.page, t.m_rootID, U)
      BY DEF U, w
    <3> QED
      BY <2>1, <3>1 DEF Low
  <2>3. U \in SUBSET PairT /\ t.m_rootID \in DOMAIN t.page /\ t.page[t.m_rootID].m_level \in Nat
    BY <2>1, WorksIs DEF Forest
  <2>4. w[2] \in EntryT
    BY <2>1, <2>3 DEF PairT
  <2> QED
    BY <2>1, <2>2, <2>3, <2>4 DEF EntryT
<1>2. WayTo(t, level, way, t.m_rootID)
  <2> DEFINE U == W \cup {<<level, e>>}
  <2>1. Works(t, U, X, Y)
    OBVIOUS
  <2> HIDE DEF U
  <2> QED
    BY <1>1, <2>1, ChooseIs
<1> HIDE DEF way
<1>3. N \in Nat /\ N # 0 /\ Len(Tail(way)) = N - 1
  BY <1>2, WayIsUp
<1>4. Progress(t, b, W, X, Y, K)
  BY <1>2, InsertBegins
<1>5. Len(b.path) = N - 1
  <2>1. b.path = Tail(way)
    BY DEF Going
  <2> QED
    BY <1>3, <2>1
<1> HIDE DEF N, b, K
<1>6. f[0] = b /\ \A k \in 1 .. N : f[k] = InsertStep(f[k - 1])
  BY <1>3, InsertingIs
<1> HIDE DEF f
<1> DEFINE Good(k) == \/ Ended(t, f[k], W, X, Y, K)
                      \/ Progress(t, f[k], W, X, Y, K) /\ Len(f[k].path) = (N - 1) - k
<1>7. Good(0)
  BY <1>3, <1>4, <1>5, <1>6
<1>8. ASSUME NEW k \in 1 .. N, Good(k - 1) PROVE Good(k)
  <2> DEFINE s == f[k - 1]
  <2>1. f[k] = InsertStep(s)
    BY <1>6
  <2>2. CASE Ended(t, s, W, X, Y, K)
    <3>1. s.done
      BY <2>2 DEF Ended
    <3>2. f[k] = s
      BY <2>1, <3>1 DEF InsertStep
    <3> QED
      BY <2>2, <3>2
  <2>3. CASE Progress(t, s, W, X, Y, K) /\ Len(s.path) = (N - 1) - (k - 1)
    <3> HIDE DEF s
    <3>1. f[k] = insertData(s)
      BY <2>1, <2>3 DEF InsertStep, Progress
    <3>2. \/ Ended(t, insertData(s), W, X, Y, K)
          \/ Progress(t, insertData(s), W, X, Y, K) /\ s.path # <<>> /\ insertData(s).path = Tail(s.path)
      BY <1>1, <2>3, StepKeeps
    <3>3. s.path \in Seq(Nat)
      BY <2>3 DEF Progress, Climbing, Up
    <3> DEFINE path == s.path
    <3>4. ASSUME path # <<>> PROVE Len(Tail(path)) = Len(path) - 1
      <4>1. path \in Seq(Nat)
        BY <3>3
      <4> HIDE DEF path
      <4> QED
        BY <3>4, <4>1
    <3>5. (N - 1) - (k - 1) - 1 = (N - 1) - k
      BY <1>3
    <3> QED
      BY <2>3, <3>1, <3>2, <3>4, <3>5
  <2> QED
    BY <1>8, <2>2, <2>3
<1>9. \A k \in 0 .. N : Good(k)
  <2> HIDE DEF Good
  <2>1. SUFFICES ASSUME {k \in Nat : k <= N /\ ~ Good(k)} # {} PROVE FALSE
    BY <1>3
  <2>2. PICK k \in {j \in Nat : j <= N /\ ~ Good(j)} : \A j \in {j \in Nat : j <= N /\ ~ Good(j)} : k <= j
    BY <2>1, LeastExists
  <2>3. k # 0
    BY <1>7, <2>2
  <2>4. Good(k - 1)
    BY <1>3, <2>2, <2>3
  <2> QED
    BY <1>3, <1>8, <2>2, <2>3, <2>4
<1>10. Good(N)
  <2> HIDE DEF Good
  <2> QED
    BY <1>3, <1>9
<1>11. Ended(t, f[N], W, X, Y, K)
  <2>1. ASSUME Progress(t, f[N], W, X, Y, K), Len(f[N].path) = (N - 1) - N PROVE FALSE
    <3> DEFINE path == f[N].path
    <3>1. path \in Seq(Nat)
      BY <2>1 DEF Progress, Climbing, Up
    <3>2. Len(path) = (N - 1) - N
      BY <2>1
    <3> HIDE DEF path
    <3>3. Len(path) \in Nat
      BY <3>1
    <3> QED
      BY <1>3, <3>2, <3>3
  <2> QED
    BY <1>10, <2>1
<1>12. insertData_impl(t, e, level) = f[N]
  BY InsertImplIs DEF f, N, b, way
<1> QED
  BY <1>11, <1>12 DEF K


TodoT == [e : EntryT, level : Nat]

Todo(q) == {<<q[k].level, q[k].e>> : k \in DOMAIN q}

Unlike(q) == \A j, k \in DOMAIN q : q[j].level = q[k].level /\ q[j].e = q[k].e => j = k

\* The entries taken out for reinsertion, but the first,
LEMMA TodoTail ==
    ASSUME NEW q \in Seq(TodoT), Unlike(q), q # <<>>
    PROVE  /\ Tail(q) \in Seq(TodoT) /\ Unlike(Tail(q)) /\ Len(Tail(q)) = Len(q) - 1
           /\ Head(q) \in TodoT
           /\ Todo(q) = Todo(Tail(q)) \cup {<<Head(q).level, Head(q).e>>}
           /\ <<Head(q).level, Head(q).e>> \notin Todo(Tail(q))
<1> DEFINE u == Tail(q)
<1> DEFINE n == Len(q)
<1>1. /\ u \in Seq(TodoT) /\ Len(u) = n - 1 /\ Head(q) = q[1] /\ n \in Nat /\ n # 0
      /\ \A i \in 1 .. n - 1 : u[i] = q[i + 1]
  OBVIOUS
<1>2. DOMAIN u = 1 .. n - 1
  <2>1. DOMAIN u = 1 .. Len(u)
    <3>1. u \in Seq(TodoT)
      BY <1>1
    <3> HIDE DEF u
    <3> QED
      BY <3>1
  <2> QED
    BY <1>1, <2>1
<1>3. DOMAIN q = 1 .. n
  OBVIOUS
<1>4. q[1] \in TodoT
  BY <1>1, <1>3
<1> HIDE DEF u, n
<1>5. Unlike(u)
  <2> SUFFICES ASSUME NEW j \in DOMAIN u, NEW k \in DOMAIN u, u[j].level = u[k].level, u[j].e = u[k].e
               PROVE j = k
    BY DEF Unlike
  <2>1. j \in 1 .. n - 1 /\ k \in 1 .. n - 1 /\ j + 1 \in DOMAIN q /\ k + 1 \in DOMAIN q
    BY <1>1, <1>2, <1>3
  <2>2. u[j] = q[j + 1] /\ u[k] = q[k + 1]
    BY <1>1, <2>1
  <2>3. j + 1 = k + 1
    BY <2>1, <2>2 DEF Unlike
  <2> QED
    BY <2>1, <2>3
<1>6. ASSUME NEW x PROVE x \in Todo(q) <=> x \in Todo(u) \/ x = <<q[1].level, q[1].e>>
  <2>1. ASSUME NEW k \in DOMAIN q, x = <<q[k].level, q[k].e>> PROVE x \in Todo(u) \/ x = <<q[1].level, q[1].e>>
    <3>1. CASE k = 1
      BY <2>1, <3>1
    <3>2. CASE k # 1
      <4>1. k - 1 \in 1 .. n - 1 /\ (k - 1) + 1 = k
        BY <1>1, <1>3, <3>2
      <4>2. u[k - 1] = q[k]
        BY <1>1, <4>1
      <4> QED
        BY <1>2, <2>1, <4>1, <4>2 DEF Todo
    <3> QED
      BY <3>1, <3>2
  <2>2. ASSUME x \in Todo(u) PROVE x \in Todo(q)
    <3>1. PICK k \in DOMAIN u : x = <<u[k].level, u[k].e>>
      BY <2>2 DEF Todo
    <3>2. k + 1 \in DOMAIN q /\ u[k] = q[k + 1]
      BY <1>1, <1>2, <1>3
    <3> QED
      BY <3>1, <3>2 DEF Todo
  <2>3. <<q[1].level, q[1].e>> \in Todo(q)
    BY <1>1, <1>3 DEF Todo
  <2>4. x \in Todo(q) => \E k \in DOMAIN q : x = <<q[k].level, q[k].e>>
    BY DEF Todo
  <2> QED
    BY <2>1, <2>2, <2>3, <2>4
<1>7. <<q[1].level, q[1].e>> \notin Todo(u)
  <2> SUFFICES ASSUME NEW k \in DOMAIN u, q[1].level = u[k].level, q[1].e = u[k].e PROVE FALSE
    BY DEF Todo
  <2>1. k + 1 \in DOMAIN q /\ 1 \in DOMAIN q /\ u[k] = q[k + 1] /\ k \in Nat /\ k # 0
    BY <1>1, <1>2, <1>3
  <2>2. 1 = k + 1
    BY <2>1 DEF Unlike
  <2> QED
    BY <2>1, <2>2
<1> QED
  BY <1>1, <1>4, <1>5, <1>6, <1>7 DEF u, n

\* and two such lists one after the other.
LEMMA TodoBoth ==
    ASSUME NEW a \in Seq(TodoT), NEW b \in Seq(TodoT), Unlike(a), Unlike(b), Todo(a) \cap Todo(b) = {}
    PROVE  /\ a \o b \in Seq(TodoT) /\ Unlike(a \o b) /\ Len(a \o b) = Len(a) + Len(b)
           /\ Todo(a \o b) = Todo(a) \cup Todo(b)
           /\ Len(a) \in Nat /\ Len(b) \in Nat
<1> DEFINE c == a \o b
<1> DEFINE m == Len(a)
<1> DEFINE n == Len(b)
<1>1. /\ c \in Seq(TodoT) /\ Len(c) = m + n /\ m \in Nat /\ n \in Nat
      /\ \A i \in 1 .. m + n : c[i] = IF i <= m THEN a[i] ELSE b[i - m]
  OBVIOUS
<1>2. DOMAIN a = 1 .. m /\ DOMAIN b = 1 .. n
  OBVIOUS
<1>3. DOMAIN c = 1 .. m + n
  <2>1. DOMAIN c = 1 .. Len(c)
    <3>1. c \in Seq(TodoT)
      BY <1>1
    <3> HIDE DEF c
    <3> QED
      BY <3>1
  <2> QED
    BY <1>1, <2>1
<1> HIDE DEF c, m, n
<1>4. ASSUME NEW i \in DOMAIN c
      PROVE \/ i \in DOMAIN a /\ c[i] = a[i]
            \/ i - m \in DOMAIN b /\ c[i] = b[i - m]
  <2>1. CASE i <= m
    BY <1>1, <1>2, <1>3, <2>1
  <2>2. CASE ~ (i <= m)
    <3>1. i - m \in 1 .. n
      BY <1>1, <1>3, <2>2
    <3> QED
      BY <1>1, <1>2, <1>3, <2>2, <3>1
  <2> QED
    BY <2>1, <2>2
<1>5. \A i \in DOMAIN a : i \in DOMAIN c /\ c[i] = a[i]
  BY <1>1, <1>2, <1>3
<1>6. ASSUME NEW i \in DOMAIN b PROVE i + m \in DOMAIN c /\ c[i + m] = b[i]
  <2>1. i + m \in 1 .. m + n /\ ~ (i + m <= m) /\ (i + m) - m = i
    BY <1>1, <1>2
  <2> QED
    BY <1>1, <1>3, <2>1
<1>7. ASSUME NEW x PROVE x \in Todo(c) <=> x \in Todo(a) \/ x \in Todo(b)
  <2>1. x \in Todo(c) <=> \E i \in DOMAIN c : x = <<c[i].level, c[i].e>>
    BY DEF Todo
  <2>2. x \in Todo(a) <=> \E i \in DOMAIN a : x = <<a[i].level, a[i].e>>
    BY DEF Todo
  <2>3. x \in Todo(b) <=> \E i \in DOMAIN b : x = <<b[i].level, b[i].e>>
    BY DEF Todo
  <2>4. x \in Todo(c) => x \in Todo(a) \/ x \in Todo(b)
    BY <1>4, <2>1, <2>2, <2>3
  <2>5. x \in Todo(a) => x \in Todo(c)
    BY <1>5, <2>1, <2>2
  <2>6. x \in Todo(b) => x \in Todo(c)
    BY <1>6, <2>1, <2>3
  <2> QED
    BY <2>4, <2>5, <2>6
<1>8. Unlike(c)
  <2> SUFFICES ASSUME NEW j \in DOMAIN c, NEW k \in DOMAIN c, c[j].level = c[k].level, c[j].e = c[k].e
               PROVE j = k
    BY DEF Unlike
  <2>1. ASSUME NEW i \in DOMAIN a, NEW h \in DOMAIN b PROVE a[i].level # b[h].level \/ a[i].e # b[h].e
    <3>1. <<a[i].level, a[i].e>> \in Todo(a) /\ <<b[h].level, b[h].e>> \in Todo(b)
      BY DEF Todo
    <3> QED
      BY <3>1
  <2>2. CASE j \in DOMAIN a /\ c[j] = a[j] /\ k \in DOMAIN a /\ c[k] = a[k]
    BY <2>2 DEF Unlike
  <2>3. CASE j - m \in DOMAIN b /\ c[j] = b[j - m] /\ k - m \in DOMAIN b /\ c[k] = b[k - m]
    <3>1. j - m = k - m
      BY <2>3 DEF Unlike
    <3> QED
      BY <1>1, <1>3, <3>1
  <2> QED
    BY <1>4, <2>1, <2>2, <2>3
<1> QED
  BY <1>1, <1>7, <1>8 DEF c, m, n

RoundStep(s) == Resumed(s, insertData_impl(s.t, Head(s.todo).e, Head(s.todo).level))

\* The insertions follow one another.
RoundsAreFun(b, n) == CHOOSE g : g = [k \in 0 .. n |-> IF k = 0 THEN b ELSE RoundStep(g[k - 1])]

\* The rounds of reinsertion, as a recursion.
LEMMA RoundsAre ==
    ASSUME NEW b, NEW n \in Nat, NEW f, f = RoundsAreFun(b, n)
    PROVE  /\ f[0] = b
           /\ \A k \in 1 .. n : f[k] = RoundStep(f[k - 1])
<1> DEFINE S(k, x) == RoundStep(x)
<1> DEFINE B == b
<1> DEFINE Solves(m, g) == g = [k \in 0 .. m |-> IF k = 0 THEN B ELSE S(k, g[k - 1])]
<1> DEFINE Wrong == {m \in Nat : ~ \E g : Solves(m, g)}
<1> HIDE DEF S, B
<1>1. ASSUME Wrong # {} PROVE FALSE
  <2>1. PICK m \in Wrong : \A j \in Wrong : m <= j
    BY <1>1, LeastExists
  <2>2. CASE m = 0
    <3> DEFINE g == [k \in 0 .. 0 |-> B]
    <3>1. Solves(0, g)
      OBVIOUS
    <3> QED
      BY <2>1, <2>2, <3>1
  <2>3. CASE m # 0
    <3>1. m - 1 \in Nat /\ m - 1 \notin Wrong
      <4>1. m \in Nat /\ m - 1 \in Nat
        BY <2>1, <2>3
      <4> HIDE DEF Wrong
      <4> QED
        BY <2>1, <4>1
    <3>2. PICK g : Solves(m - 1, g)
      BY <3>1
    <3> DEFINE h == [k \in 0 .. m |-> IF k < m THEN g[k] ELSE S(m, g[m - 1])]
    <3>3. ASSUME NEW k \in 0 .. m PROVE h[k] = IF k = 0 THEN B ELSE S(k, h[k - 1])
      <4>1. CASE k = 0
        <5>1. g[0] = B
          BY <3>1, <3>2
        <5> QED
          BY <2>3, <4>1, <5>1
      <4>2. CASE k # 0 /\ k < m
        <5>1. k \in 0 .. m - 1 /\ k - 1 \in 0 .. m
          BY <4>2
        <5>2. g[k] = S(k, g[k - 1])
          BY <3>2, <4>2, <5>1
        <5>3. h[k] = g[k] /\ h[k - 1] = g[k - 1]
          BY <4>2, <5>1
        <5> HIDE DEF h
        <5> QED
          BY <4>2, <5>2, <5>3
      <4>3. CASE k = m
        <5>1. m - 1 \in 0 .. m /\ m - 1 < m
          BY <3>1
        <5>2. h[m] = S(m, g[m - 1]) /\ h[m - 1] = g[m - 1]
          BY <2>3, <5>1
        <5> HIDE DEF h
        <5> QED
          BY <2>3, <4>3, <5>2
      <4> QED
        BY <4>1, <4>2, <4>3
    <3>4. h = [k \in 0 .. m |-> h[k]]
      OBVIOUS
    <3> HIDE DEF h
    <3>5. Solves(m, h)
      BY <3>3, <3>4
    <3> QED
      BY <2>1, <3>5
  <2> QED
    BY <2>2, <2>3
<1>2. \E g : Solves(n, g)
  BY <1>1
<1>3. \E g : g = [k \in 0 .. n |-> IF k = 0 THEN B ELSE S(k, g[k - 1])]
  BY <1>2
<1>4. f = CHOOSE g : g = [k \in 0 .. n |-> IF k = 0 THEN B ELSE S(k, g[k - 1])]
  BY DEF S, B, RoundsAreFun
<1>5. f = [k \in 0 .. n |-> IF k = 0 THEN B ELSE S(k, f[k - 1])]
  BY <1>3, <1>4
<1>6. \A k \in 0 .. n : f[k] = IF k = 0 THEN B ELSE S(k, f[k - 1])
  BY <1>5, Zenon
<1>7. f[0] = B
  BY <1>6
<1>8. ASSUME NEW k \in 1 .. n PROVE f[k] = S(k, f[k - 1])
  <2>1. k \in 0 .. n /\ k # 0
    OBVIOUS
  <2> QED
    BY <1>6, <2>1
<1> QED
  BY <1>7, <1>8 DEF S, B


\* InsertedAt is the last round's result.
LEMMA InsertedAtIs ==
    ASSUME NEW t, NEW e, NEW level
    PROVE  InsertedAt(t, e, level)
              = RoundsAreFun([t |-> t, todo |-> <<[e |-> e, level |-> level]>>], Rounds(t))[Rounds(t)].t
  BY DEF InsertedAt, RoundsAreFun, RoundStep


\* The table and the numbers of entries to be taken out have a size.
Ready(t) == t.tableSize \in Nat /\ t.cReinsert.leaf \in Nat /\ t.cReinsert.index \in Nat

Most(t) == Upper(t.cReinsert.leaf, t.cReinsert.index)

Untreated(t) == t.overflowTable \in SUBSET (0 .. t.tableSize - 1)

\* What was to be inserted waits, in a tree that had the data K.
Awaits(t, s, W, X, Y, K) ==
    /\ s.todo \in Seq(TodoT) /\ Unlike(s.todo) /\ Todo(s.todo) \cap W = {}
    /\ Works(s.t, W \cup Todo(s.todo), X, Y) /\ Since(t, s.t, W)
    /\ SameData(K, Kept(s.t.page, W \cup Todo(s.todo)))
    /\ Low(s.t.page, t.m_rootID, W \cup Todo(s.todo))
    /\ Untreated(s.t)

\* After k insertions, so many more can be wanted at most.
Within(s, k) == s.todo # <<>> => k + Len(s.todo) <= 1 + Most(s.t) * Cardinality(s.t.overflowTable)

TableOf(n, T) ==
    /\ IsFiniteSet(T) /\ Cardinality(T) \in Nat /\ Cardinality(T) <= n
    /\ \A l \in (0 .. n - 1) \ T : Cardinality(T \cup {l}) = Cardinality(T) + 1

\* A level not yet treated can be treated once.
LEMMA UntreatedIs ==
    ASSUME NEW n \in Nat, NEW T \in SUBSET (0 .. n - 1)
    PROVE  TableOf(n, T)
<1>1. IsFiniteSet(0 .. n - 1) /\ Cardinality(0 .. n - 1) = n
  <2>1. 0 \in Int /\ n - 1 \in Int
    OBVIOUS
  <2>2. Cardinality(0 .. n - 1) = IF 0 > n - 1 THEN 0 ELSE (n - 1) - 0 + 1
    BY <2>1, FS_Interval
  <2>3. IsFiniteSet(0 .. n - 1)
    BY <2>1, FS_Interval
  <2> QED
    BY <2>2, <2>3
<1> DEFINE S == 0 .. n - 1
<1> HIDE DEF S
<1>2. T \in SUBSET S /\ IsFiniteSet(S) /\ Cardinality(S) = n
  BY <1>1 DEF S
<1>3. IsFiniteSet(T) /\ Cardinality(T) <= n
  BY <1>2, FS_Subset
<1>4. Cardinality(T) \in Nat
  BY <1>3, FS_CardinalityType
<1>5. ASSUME NEW l \in S \ T PROVE Cardinality(T \cup {l}) = Cardinality(T) + 1
  BY <1>3, FS_AddElement
<1> QED
  BY <1>3, <1>4, <1>5 DEF S, TableOf

\* Rounds and sizes are numbers.
LEMMA MostIs ==
    ASSUME NEW t, Ready(t)
    PROVE  Most(t) \in Nat
  BY DEF Ready, Most, Upper

\* Arithmetic of the bound on rounds.
LEMMA Taller ==
    ASSUME NEW m \in Nat, NEW c \in Nat, NEW n \in Nat, c <= n
    PROVE  m * c \in Nat /\ m * c <= m * n /\ m * (c + 1) = m * c + m
<1>1. PICK d \in Nat : n = c + d
  <2>1. n - c \in Nat /\ n = c + (n - c)
    OBVIOUS
  <2> QED
    BY <2>1
<1>2. m * n = m * c + m * d /\ m * d \in Nat /\ m * c \in Nat
  BY <1>1
<1> QED
  BY <1>2

\* One round keeps the tree working, and what waits within the bound.
LEMMA RoundKeeps ==
    ASSUME NEW t, t.page[t.m_rootID].m_level \in Nat, Ready(t),
           NEW s, NEW W, NEW X, NEW Y, NEW K, Awaits(t, s, W, X, Y, K), s.todo # <<>>,
           NEW k \in Nat, Within(s, k)
    PROVE  Awaits(t, RoundStep(s), W, X, Y, K) /\ Within(RoundStep(s), k + 1)
<1> DEFINE q == s.todo
<1> DEFINE h == Head(q)
<1> DEFINE rest == Tail(q)
<1> DEFINE V == Todo(rest)
<1> DEFINE w == <<h.level, h.e>>
<1> DEFINE a == insertData_impl(s.t, h.e, h.level)
<1> DEFINE z == [t |-> a.t, todo |-> a.out \o rest]
<1> DEFINE U == W \cup V
<1>1. /\ q \in Seq(TodoT) /\ Unlike(q) /\ Todo(q) \cap W = {}
      /\ Works(s.t, W \cup Todo(q), X, Y) /\ Since(t, s.t, W)
      /\ SameData(K, Kept(s.t.page, W \cup Todo(q)))
      /\ Low(s.t.page, t.m_rootID, W \cup Todo(q))
      /\ Untreated(s.t)
  BY DEF Awaits
<1>2. /\ rest \in Seq(TodoT) /\ Unlike(rest) /\ Len(rest) = Len(q) - 1
      /\ h \in TodoT /\ Todo(q) = V \cup {w} /\ w \notin V
  <2> HIDE DEF q
  <2> QED
    BY <1>1, TodoTail DEF q
<1>3. Len(q) \in Nat
  BY <1>1
<1>4. h.level \in Nat
  BY <1>2 DEF TodoT
<1>5. W \cup Todo(q) = U \cup {w} /\ w \notin U
  BY <1>1, <1>2
<1>6. /\ s.t.m_rootID = t.m_rootID /\ s.t.tableSize = t.tableSize /\ s.t.cReinsert = t.cReinsert
      /\ s.t.tableSize \in Nat
  BY <1>1 DEF Since, Same, Ready
<1>7. RoundStep(s) = z
  BY DEF RoundStep, Resumed
<1> HIDE DEF w, U, V, a
<1> DEFINE L == Kept(s.t.page, U \cup {w})
<1>8. Ended(s.t, a, U, X, Y, L)
  <2>1. Works(s.t, U \cup {w}, X, Y) /\ w \notin U /\ Low(s.t.page, s.t.m_rootID, U \cup {w})
    BY <1>1, <1>5, <1>6
  <2>2. w = <<h.level, h.e>> /\ a = insertData_impl(s.t, h.e, h.level)
    BY DEF w, a
  <2> HIDE DEF h
  <2> DEFINE lev == h.level
  <2> DEFINE e == h.e
  <2> DEFINE T == s.t
  <2>3. /\ lev \in Nat /\ Works(T, U \cup {<<lev, e>>}, X, Y) /\ <<lev, e>> \notin U
        /\ Low(T.page, T.m_rootID, U \cup {<<lev, e>>}) /\ T.tableSize \in Nat
    BY <1>4, <1>6, <2>1, <2>2
  <2> HIDE DEF lev, e, T
  <2>4. Ended(T, insertData_impl(T, e, lev), U, X, Y, Kept(T.page, U \cup {<<lev, e>>}))
    BY <2>3, InsertionKeeps
  <2> QED
    BY <2>2, <2>4 DEF lev, e, T
<1>9. /\ Works(a.t, U \cup Out(a), X, Y) /\ Out(a) \cap U = {} /\ Since(s.t, a.t, U)
      /\ SameData(L, Kept(a.t.page, U \cup Out(a)))
      /\ Low(a.t.page, s.t.m_rootID, U \cup Out(a)) /\ Takes(s.t, a)
  BY <1>8 DEF Ended
<1>10. a.out \in Seq(TodoT) /\ Unlike(a.out) /\ Todo(a.out) = Out(a)
  BY <1>9 DEF Takes, TodoT, Unlike, Todo, Out
<1> HIDE DEF q, rest
<1>11. /\ a.out \o rest \in Seq(TodoT) /\ Unlike(a.out \o rest) /\ Len(a.out \o rest) = Len(a.out) + Len(rest)
       /\ Todo(a.out \o rest) = Out(a) \cup V
       /\ Len(a.out) \in Nat /\ Len(rest) \in Nat
  <2>1. Todo(a.out) \cap Todo(rest) = {}
    BY <1>9, <1>10 DEF U, V
  <2>2. /\ a.out \o rest \in Seq(TodoT) /\ Unlike(a.out \o rest) /\ Len(a.out \o rest) = Len(a.out) + Len(rest)
        /\ Todo(a.out \o rest) = Todo(a.out) \cup Todo(rest)
        /\ Len(a.out) \in Nat /\ Len(rest) \in Nat
    BY <1>2, <1>10, <2>1, TodoBoth
  <2> QED
    BY <1>10, <2>2 DEF V
<1> DEFINE both == a.out \o rest
<1>12. W \cup Todo(both) = U \cup Out(a) /\ Todo(both) \cap W = {}
  <2>1. V \cap W = {} /\ Out(a) \cap W = {}
    BY <1>1, <1>2, <1>9 DEF U, V
  <2> QED
    BY <1>11, <2>1 DEF U
<1> HIDE DEF both
<1>13. z.t = a.t /\ z.todo = both
  BY DEF both
<1> HIDE DEF z
<1>14. /\ a.t.m_rootID = t.m_rootID /\ a.t.tableSize = t.tableSize /\ a.t.cReinsert = t.cReinsert
       /\ s.t.page[s.t.m_rootID].m_level \in Nat /\ a.t.page[a.t.m_rootID].m_level \in Nat
  <2>1. s.t.page[s.t.m_rootID].m_level \in Nat /\ a.t.page[a.t.m_rootID].m_level \in Nat
    BY <1>1, <1>9, WorksIs
  <2> QED
    BY <1>6, <1>9, <2>1 DEF Since, Same
<1>15. Since(t, a.t, W)
  <2>1. Since(s.t, a.t, W)
    <3>1. W \in SUBSET U
      BY DEF U
    <3> QED
      BY <1>9, <3>1, RestsLess DEF Since
  <2> QED
    BY <1>1, <1>14, <2>1, SinceTwice
<1>16. SameData(K, Kept(a.t.page, U \cup Out(a)))
  <2>1. SameData(K, L)
    BY <1>1, <1>5 DEF L
  <2> QED
    BY <1>9, <2>1 DEF SameData
<1> DEFINE O == s.t.overflowTable
<1> DEFINE n == t.tableSize
<1> DEFINE m == Most(t)
<1>17. /\ O \in SUBSET (0 .. n - 1) /\ n \in Nat /\ m \in Nat /\ Most(s.t) = m /\ Most(a.t) = m
  BY <1>1, <1>6, <1>14, MostIs DEF Untreated, Most, Ready
<1>18. \/ a.out = <<>> /\ a.t.overflowTable = O
       \/ \E l \in 0 .. n - 1 : l \notin O /\ a.t.overflowTable = O \cup {l} /\ Len(a.out) <= m
  BY <1>6, <1>9 DEF Takes, Most
<1>19. Untreated(a.t)
  BY <1>14, <1>17, <1>18 DEF Untreated
<1>20. Awaits(t, z, W, X, Y, K)
  BY <1>6, <1>9, <1>11, <1>12, <1>13, <1>15, <1>16, <1>19 DEF Awaits, both
<1>21. k + Len(q) <= 1 + m * Cardinality(O) /\ Len(both) = Len(a.out) + Len(rest) /\ Len(rest) = Len(q) - 1
  BY <1>2, <1>11, <1>17 DEF Within, both, q
<1>22. Len(a.out) \in Nat /\ Len(q) \in Nat
  BY <1>3, <1>11
<1>23. k + 1 + Len(both) <= 1 + m * Cardinality(a.t.overflowTable)
  <2> HIDE DEF O, m, n
  <2>0. TableOf(n, O)
    BY <1>17, UntreatedIs
  <2>1. Cardinality(O) \in Nat /\ m * Cardinality(O) \in Nat
    BY <1>17, <2>0 DEF TableOf
  <2>2. CASE a.out = <<>> /\ a.t.overflowTable = O
    <3>1. Len(a.out) = 0
      BY <2>2
    <3> QED
      BY <1>21, <1>22, <2>1, <2>2, <3>1
  <2>3. CASE \E l \in 0 .. n - 1 : l \notin O /\ a.t.overflowTable = O \cup {l} /\ Len(a.out) <= m
    <3>1. PICK l \in 0 .. n - 1 : l \notin O /\ a.t.overflowTable = O \cup {l} /\ Len(a.out) <= m
      BY <2>3
    <3>2. Cardinality(a.t.overflowTable) = Cardinality(O) + 1
      BY <2>0, <3>1 DEF TableOf
    <3>3. m * (Cardinality(O) + 1) = m * Cardinality(O) + m
      BY <1>17, <2>1
    <3> DEFINE c == m * Cardinality(O)
    <3> DEFINE c2 == m * Cardinality(a.t.overflowTable)
    <3>4. c2 = c + m /\ c \in Nat /\ k + Len(q) <= 1 + c
      BY <1>21, <2>1, <3>2, <3>3
    <3> HIDE DEF c, c2
    <3>5. Len(a.out) <= m /\ m \in Nat
      BY <1>17, <3>1
    <3> DEFINE x == Len(q)
    <3> DEFINE y == Len(a.out)
    <3> DEFINE g == Len(both)
    <3>6. g = y + (x - 1) /\ x \in Nat /\ y \in Nat /\ y <= m /\ k + x <= 1 + c /\ m \in Nat
      BY <1>21, <1>22, <3>4, <3>5
    <3> HIDE DEF x, y, g
    <3>7. k + 1 + g <= 1 + c2
      BY <3>4, <3>6
    <3> QED
      BY <3>7 DEF c2, g
  <2> QED
    BY <1>18, <2>2, <2>3
<1>24. Within(z, k + 1)
  BY <1>13, <1>17, <1>23 DEF Within
<1> QED
  BY <1>7, <1>20, <1>24


InsertsAll(t, u, W, X, Y, K) ==
    /\ Works(u, W, X, Y) /\ Since(t, u, W) /\ SameData(K, Kept(u.page, W)) /\ Low(u.page, t.m_rootID, W)

\* The list that an insertion starts with.
LEMMA TodoOne ==
    ASSUME NEW e \in EntryT, NEW level \in Nat
    PROVE  LET q == <<[e |-> e, level |-> level]>>
           IN  q \in Seq(TodoT) /\ Unlike(q) /\ Todo(q) = {<<level, e>>} /\ Len(q) = 1
<1> DEFINE d == [e |-> e, level |-> level]
<1> DEFINE q == <<d>>
<1>1. d \in TodoT /\ d.e = e /\ d.level = level
  BY DEF TodoT
<1> HIDE DEF d
<1>2. q \in Seq(TodoT) /\ Len(q) = 1 /\ DOMAIN q = {1} /\ q[1] = d
  BY <1>1
<1>3. Unlike(q) /\ Todo(q) = {<<level, e>>}
  <2> HIDE DEF q
  <2> QED
    BY <1>1, <1>2 DEF Unlike, Todo
<1> QED
  BY <1>2, <1>3 DEF q, d

\* The insertions that follow one insertion come to an end, and the tree has all entries.
THEOREM InsertedAtKeeps ==
    ASSUME NEW t, NEW W, NEW X, NEW Y, NEW level \in Nat, NEW e, Works(t, W \cup {<<level, e>>}, X, Y),
           <<level, e>> \notin W, Low(t.page, t.m_rootID, W \cup {<<level, e>>}), Ready(t),
           t.overflowTable = {}
    PROVE  InsertsAll(t, InsertedAt(t, e, level), W, X, Y, Kept(t.page, W \cup {<<level, e>>}))
<1> DEFINE w == <<level, e>>
<1> DEFINE K == Kept(t.page, W \cup {w})
<1> DEFINE N == Rounds(t)
<1> DEFINE b == [t |-> t, todo |-> <<[e |-> e, level |-> level]>>]
<1> DEFINE f == RoundsAreFun(b, N)
<1>1. /\ t.page[t.m_rootID].m_level \in Nat /\ e \in EntryT /\ IsTree(t)
  <2> DEFINE U == W \cup {w}
  <2>1. Works(t, U, X, Y) /\ w \in U /\ w[2] = e
    OBVIOUS
  <2> HIDE DEF U, w
  <2>2. U \in SUBSET PairT /\ t.page[t.m_rootID].m_level \in Nat /\ IsTree(t)
    BY <2>1, WorksIs DEF Forest
  <2> QED
    BY <2>1, <2>2 DEF PairT
<1>2. Most(t) \in Nat /\ t.tableSize \in Nat /\ N = 1 + Most(t) * t.tableSize
  BY MostIs DEF Ready, Rounds, Most
<1>3. N \in Nat /\ N # 0
  <2> DEFINE c == Most(t) * t.tableSize
  <2>1. c \in Nat
    BY <1>2
  <2>2. N = 1 + c
    BY <1>2
  <2> HIDE DEF c, N
  <2> QED
    BY <2>1, <2>2
<1> HIDE DEF N
<1> DEFINE q == <<[e |-> e, level |-> level]>>
<1>4. q \in Seq(TodoT) /\ Unlike(q) /\ Todo(q) = {w} /\ Len(q) = 1
  BY <1>1, TodoOne
<1>5. b.t = t /\ b.todo = q
  OBVIOUS
<1> HIDE DEF b, q
<1>6. Works(t, W \cup {w}, X, Y) /\ w \notin W /\ Low(t.page, t.m_rootID, W \cup {w})
  OBVIOUS
<1> HIDE DEF w
<1>7. Since(t, t, W)
  <2>1. Same(t, t)
    BY <1>1 DEF Same
  <2>2. Rests(t.page, t.page, W)
    BY DEF Rests, Off
  <2> QED
    BY <1>1, <2>1, <2>2 DEF Since
<1>8. Awaits(t, b, W, X, Y, K)
  <2>1. SameData(K, Kept(t.page, W \cup {w}))
    BY DEF SameData
  <2>2. Untreated(t)
    BY DEF Untreated
  <2>3. Todo(b.todo) \cap W = {}
    BY <1>4, <1>5, <1>6
  <2> HIDE DEF K
  <2> QED
    BY <1>4, <1>5, <1>6, <1>7, <2>1, <2>2, <2>3 DEF Awaits
<1>9. Within(b, 0)
  <2>1. Cardinality(t.overflowTable) = 0
    BY FS_EmptySet
  <2>2. Most(t) * 0 = 0
    BY <1>2
  <2> QED
    <3>1. Len(b.todo) = 1 /\ b.t.overflowTable = t.overflowTable /\ Most(b.t) = Most(t)
      BY <1>4, <1>5
    <3>2. 0 + Len(b.todo) <= 1 + Most(b.t) * Cardinality(b.t.overflowTable)
      <4>1. Most(b.t) * Cardinality(b.t.overflowTable) = 0
        BY <2>1, <2>2, <3>1
      <4> QED
        BY <3>1, <4>1
    <3> QED
      BY <3>2 DEF Within
<1>10. f[0] = b /\ \A k \in 1 .. N : f[k] = RoundStep(f[k - 1])
  BY <1>3, RoundsAre
<1> HIDE DEF f, K
<1> DEFINE Good(k) == Awaits(t, f[k], W, X, Y, K) /\ Within(f[k], k)
<1>11. Good(0)
  BY <1>8, <1>9, <1>10
<1>12. ASSUME NEW k \in 1 .. N, Good(k - 1) PROVE Good(k)
  <2> DEFINE s == f[k - 1]
  <2> DEFINE j == k - 1
  <2>1. f[k] = RoundStep(s) /\ j \in Nat /\ j + 1 = k
    BY <1>3, <1>10
  <2>2. CASE s.todo = <<>>
    <3>1. f[k] = s
      BY <2>1, <2>2 DEF RoundStep, Resumed
    <3> QED
      BY <1>12, <2>2, <3>1 DEF Within
  <2>3. CASE s.todo # <<>>
    <3>1. Awaits(t, s, W, X, Y, K) /\ Within(s, j)
      BY <1>12
    <3> HIDE DEF s, j
    <3>2. Awaits(t, RoundStep(s), W, X, Y, K) /\ Within(RoundStep(s), j + 1)
      BY <1>1, <2>1, <2>3, <3>1, RoundKeeps
    <3> QED
      BY <2>1, <3>2
  <2> QED
    BY <2>2, <2>3
<1>13. \A k \in 0 .. N : Good(k)
  <2> HIDE DEF Good
  <2>1. SUFFICES ASSUME {k \in Nat : k <= N /\ ~ Good(k)} # {} PROVE FALSE
    BY <1>3
  <2>2. PICK k \in {j \in Nat : j <= N /\ ~ Good(j)} : \A j \in {j \in Nat : j <= N /\ ~ Good(j)} : k <= j
    BY <2>1, LeastExists
  <2>3. k # 0
    BY <1>11, <2>2
  <2>4. Good(k - 1)
    BY <1>3, <2>2, <2>3
  <2> QED
    BY <1>3, <1>12, <2>2, <2>3, <2>4
<1>14. Good(N)
  <2> HIDE DEF Good
  <2> QED
    BY <1>3, <1>13
<1> DEFINE s == f[N]
<1> DEFINE u == s.t
<1>15. /\ s.todo \in Seq(TodoT)
       /\ Works(u, W \cup Todo(s.todo), X, Y) /\ Since(t, u, W)
       /\ SameData(K, Kept(u.page, W \cup Todo(s.todo)))
       /\ Low(u.page, t.m_rootID, W \cup Todo(s.todo))
       /\ Untreated(u) /\ Within(s, N)
  BY <1>14 DEF Awaits
<1>16. u.tableSize = t.tableSize /\ Most(u) = Most(t)
  BY <1>15 DEF Since, Same, Most
<1>17. s.todo = <<>>
  <2> SUFFICES ASSUME s.todo # <<>> PROVE FALSE
    OBVIOUS
  <2> HIDE DEF s, u
  <2> DEFINE m == Most(t)
  <2> DEFINE n == t.tableSize
  <2> DEFINE O == u.overflowTable
  <2>1. N + Len(s.todo) <= 1 + m * Cardinality(O)
    BY <1>15, <1>16 DEF Within, u
  <2>2. Len(s.todo) \in Nat /\ Len(s.todo) # 0
    <3> DEFINE z == s.todo
    <3>1. z \in Seq(TodoT) /\ z # <<>>
      BY <1>15
    <3> HIDE DEF z
    <3>2. Len(z) \in Nat /\ Len(z) # 0
      BY <3>1
    <3> QED
      BY <3>2 DEF z
  <2>3. O \in SUBSET (0 .. n - 1) /\ n \in Nat /\ m \in Nat
    BY <1>2, <1>15, <1>16 DEF Untreated
  <2> HIDE DEF m, n, O
  <2>4. TableOf(n, O)
    BY <2>3, UntreatedIs
  <2>5. Cardinality(O) \in Nat /\ Cardinality(O) <= n
    BY <2>4 DEF TableOf
  <2> DEFINE x == m * Cardinality(O)
  <2> DEFINE y == m * n
  <2>6. x \in Nat /\ x <= y /\ y \in Nat
    BY <2>3, <2>5, Taller
  <2>7. N = 1 + y
    BY <1>2 DEF m, n
  <2>8. N + Len(s.todo) <= 1 + x
    BY <2>1
  <2> HIDE DEF x, y
  <2> DEFINE g == Len(s.todo)
  <2>9. g \in Nat /\ g # 0 /\ N + g <= 1 + x
    BY <2>2, <2>8
  <2> HIDE DEF g
  <2> QED
    BY <2>6, <2>7, <2>9
<1>18. W \cup Todo(s.todo) = W
  <2>1. Todo(<<>>) = {}
    BY DEF Todo
  <2> QED
    BY <1>17, <2>1
<1>19. InsertedAt(t, e, level) = u
  BY InsertedAtIs DEF f, N, b
<1> HIDE DEF s
<1> QED
  BY <1>15, <1>18, <1>19 DEF InsertsAll, K, w


\* The same tree of the same configuration, whatever it counts and remembers.
Alike(t, u) ==
    /\ IsTree(u) /\ u.m_rootID = t.m_rootID
    /\ u.m_treeVariant = t.m_treeVariant /\ u.m_capacity = t.m_capacity
    /\ u.m_minimumLoad = t.m_minimumLoad /\ u.m_bTightMBRs = t.m_bTightMBRs
    /\ u.m_nearMinimumOverlapFactor = t.m_nearMinimumOverlapFactor
    /\ u.cReinsert = t.cReinsert /\ u.nodeSPF = t.nodeSPF /\ u.Far = t.Far
    /\ t.m_treeVariant # "RV_RSTAR" => u.outside = t.outside

\* Alike is transitive,
LEMMA AlikeTwice ==
    ASSUME NEW t, NEW u, NEW v, Alike(t, u), Alike(u, v)
    PROVE  Alike(t, v)
  BY DEF Alike

\* weaker than Same,
LEMMA SameAlike ==
    ASSUME NEW t, NEW u, Same(t, u)
    PROVE  Alike(t, u)
  BY DEF Same, Alike

\* and keeps the settings and their bounds.
LEMMA AlikeConf ==
    ASSUME NEW t, Conf(t), NEW u, Alike(t, u)
    PROVE  /\ Conf(u) /\ Tight(u) = Tight(t)
           /\ \A P, r, Y : Sizes(t, P, r, Y) => Sizes(u, P, r, Y)
           /\ \A l : Least(u, l) = Least(t, l) /\ Of(u.m_capacity, l) = Of(t.m_capacity, l)
<1>1. /\ IsTree(u)
      /\ u.m_treeVariant = t.m_treeVariant /\ u.m_capacity = t.m_capacity
      /\ u.m_minimumLoad = t.m_minimumLoad /\ u.m_bTightMBRs = t.m_bTightMBRs
      /\ u.m_nearMinimumOverlapFactor = t.m_nearMinimumOverlapFactor
      /\ u.cReinsert = t.cReinsert /\ u.nodeSPF = t.nodeSPF /\ u.Far = t.Far
  BY DEF Alike
<1>2. Sized(u)
  BY <1>1 DEF Conf, Sized
<1>3. Tight(u) = Tight(t)
  BY <1>1 DEF Tight
<1>4. \A l : Least(u, l) = Least(t, l) /\ Of(u.m_capacity, l) = Of(t.m_capacity, l)
  BY <1>1 DEF Least
<1>5. \A P, r, Y : Sizes(t, P, r, Y) => Sizes(u, P, r, Y)
  BY <1>4 DEF Sizes
<1>6. Conf(u)
  BY <1>1, <1>2 DEF Conf
<1> QED
  BY <1>3, <1>4, <1>5, <1>6

\* The tree works whatever else changed.
LEMMA WorksAlike ==
    ASSUME NEW t, NEW W, NEW X, NEW Y, Works(t, W, X, Y), NEW u, Alike(t, u), u.page = t.page,
           u.m_u32TreeHeight = t.m_u32TreeHeight, u.m_nodesInLevel = t.m_nodesInLevel,
           u.m_u32Nodes = t.m_u32Nodes
    PROVE  Works(u, W, X, Y)
<1>1. /\ Conf(t) /\ Forest(t.page, t.m_rootID, W, X, Tight(t)) /\ Sizes(t, t.page, t.m_rootID, Y)
      /\ Counts(t, t.page)
  BY DEF Works
<1>2. Conf(u) /\ Tight(u) = Tight(t) /\ Sizes(u, t.page, t.m_rootID, Y)
  BY <1>1, AlikeConf
<1>3. u.m_rootID = t.m_rootID
  BY DEF Alike
<1>4. Counts(u, u.page)
  BY <1>1, <1>3 DEF Counts
<1> QED
  BY <1>1, <1>2, <1>3, <1>4 DEF Works

\* A table is laid.
Laid(t, u, n) ==
    /\ Alike(t, u) /\ u.page = t.page /\ u.m_u32TreeHeight = t.m_u32TreeHeight
    /\ u.m_nodesInLevel = t.m_nodesInLevel /\ u.m_u32Nodes = t.m_u32Nodes
    /\ u.overflowTable = {} /\ u.tableSize = n /\ u.m_u64Data = t.m_u64Data

\* A new overflow table changes nothing else.
LEMMA TableIs ==
    ASSUME NEW t, IsTree(t), NEW n
    PROVE  Laid(t, Table(t, n), n)
  BY DEF IsTree, Fields, Table, Laid, Alike

Entered(t, u, W, X, Y, K) ==
    /\ Works(u, W, X, Y) /\ Alike(t, u) /\ Rests(t.page, u.page, W)
    /\ t.page[t.m_rootID].m_level <= u.page[t.m_rootID].m_level
    /\ SameData(K, Kept(u.page, W)) /\ Low(u.page, t.m_rootID, W)
    /\ u.m_u64Data = t.m_u64Data

CanTake(t) == t.cReinsert.leaf \in Nat /\ t.cReinsert.index \in Nat

\* An entry that waits is inserted with a new table.
LEMMA TabledKeeps ==
    ASSUME NEW t, NEW W, NEW X, NEW Y, NEW level \in Nat, NEW e, Works(t, W \cup {<<level, e>>}, X, Y),
           <<level, e>> \notin W, Low(t.page, t.m_rootID, W \cup {<<level, e>>}), NEW n \in Nat, CanTake(t)
    PROVE  Entered(t, InsertedAt(Table(t, n), e, level), W, X, Y, Kept(t.page, W \cup {<<level, e>>}))
<1> DEFINE u == Table(t, n)
<1> DEFINE w == <<level, e>>
<1> DEFINE U == W \cup {w}
<1> DEFINE v == InsertedAt(u, e, level)
<1>1. Works(t, U, X, Y) /\ IsTree(t)
  <2> HIDE DEF U
  <2>1. ASSUME Works(t, U, X, Y) PROVE IsTree(t)
    BY <2>1, WorksIs
  <2> QED
    BY <2>1 DEF U
<1>2. Laid(t, u, n)
  BY <1>1, TableIs
<1> HIDE DEF u
<1>3. /\ Alike(t, u) /\ u.page = t.page /\ u.m_u32TreeHeight = t.m_u32TreeHeight
      /\ u.m_nodesInLevel = t.m_nodesInLevel /\ u.m_u32Nodes = t.m_u32Nodes
      /\ u.overflowTable = {} /\ u.tableSize = n /\ u.m_rootID = t.m_rootID /\ u.cReinsert = t.cReinsert
      /\ u.m_u64Data = t.m_u64Data
  BY <1>2 DEF Laid, Alike
<1>4. Works(u, U, X, Y)
  <2> HIDE DEF U
  <2> QED
    BY <1>1, <1>3, WorksAlike
<1>5. Ready(u)
  BY <1>3 DEF Ready, CanTake
<1>6. Low(u.page, u.m_rootID, U) /\ w \notin W
  BY <1>3
<1>7. InsertsAll(u, v, W, X, Y, Kept(u.page, U))
  BY <1>3, <1>4, <1>5, <1>6, InsertedAtKeeps
<1> HIDE DEF v, U
<1>8. /\ Works(v, W, X, Y) /\ Since(u, v, W) /\ SameData(Kept(u.page, U), Kept(v.page, W))
      /\ Low(v.page, t.m_rootID, W)
  BY <1>3, <1>7 DEF InsertsAll
<1>9. Alike(t, v) /\ v.m_u64Data = t.m_u64Data
  <2>1. Alike(u, v)
    BY <1>8, SameAlike DEF Since
  <2>2. v.m_u64Data = u.m_u64Data
    BY <1>8 DEF Since, Same
  <2> QED
    BY <1>3, <2>1, <2>2, AlikeTwice
<1> QED
  BY <1>3, <1>8, <1>9 DEF Entered, Since, v, U, u

\* What lies in the leaves.
LEMMA DataAre ==
    ASSUME NEW P, NEW r, NEW X, NEW tight, Forest(P, r, {}, X, tight), NEW t, t.page = P
    PROVE  /\ \A e : e \in DataOf(t) <=> <<0, e>> \in Kept(P, {})
           /\ \A x \in Kept(P, {}) : x[1] = 0 => x = <<0, x[2]>> /\ x[2] \in DataOf(t)
<1>1. \A p \in DOMAIN P : NodeOk(P[p], p, tight)
  BY DEF Forest, Sound
<1>2. ASSUME NEW e, e \in DataOf(t) PROVE <<0, e>> \in Kept(P, {})
  <2>1. PICK p \in DOMAIN P : P[p].m_level = 0 /\ e \in ToSet(P[p].entries)
    BY <1>2 DEF DataOf
  <2>2. <<0, e>> \in Pairs(P[p])
    BY <2>1 DEF Pairs
  <2> QED
    BY <2>2, KeptIs
<1>3. ASSUME NEW x \in Kept(P, {}), x[1] = 0 PROVE x = <<0, x[2]>> /\ x[2] \in DataOf(t)
  <2>1. PICK p \in DOMAIN P : x \in Pairs(P[p])
    BY KeptIs
  <2>2. P[p].m_level = 0 /\ x[2] \in ToSet(P[p].entries) /\ x = <<0, x[2]>>
    BY <1>1, <1>3, <2>1, PairsAre
  <2> QED
    BY <2>2 DEF DataOf
<1>4. ASSUME NEW e, <<0, e>> \in Kept(P, {}) PROVE e \in DataOf(t)
  <2> DEFINE x == <<0, e>>
  <2>1. x \in Kept(P, {}) /\ x[1] = 0 /\ x[2] = e
    BY <1>4
  <2> HIDE DEF x
  <2> QED
    BY <1>3, <2>1
<1> QED
  BY <1>2, <1>3, <1>4

\* The same data, by the levels.
LEMMA DataSame ==
    ASSUME NEW t, NEW u, NEW W, NEW X, NEW Y, Works(t, {}, X, Y), NEW X2, NEW Y2, Works(u, {}, X2, Y2), NEW D,
           \A e : <<0, e>> \in Kept(u.page, {}) <=> <<0, e>> \in Kept(t.page, {}) \/ e \in D
    PROVE  DataOf(u) = DataOf(t) \cup D
<1>1. \A e : e \in DataOf(t) <=> <<0, e>> \in Kept(t.page, {})
  BY WorksIs, DataAre
<1>2. \A e : e \in DataOf(u) <=> <<0, e>> \in Kept(u.page, {})
  BY WorksIs, DataAre
<1> QED
  BY <1>1, <1>2

OneMore(t, u, e) ==
    /\ Works(u, {}, {}, {}) /\ Alike(t, u) /\ DataOf(u) = DataOf(t) \cup {e}
    /\ u.m_u64Data = t.m_u64Data + 1

\* An insertion of a datum with an id of its own.
THEOREM InsertedKeeps ==
    ASSUME NEW t, Works(t, {}, {}, {}), CanTake(t), NEW e \in EntryT, NonEmpty(e.mbr),
           \A d \in DataOf(t) : d.id # e.id
    PROVE  OneMore(t, Inserted(t, e), e)
<1> DEFINE P == t.page
<1> DEFINE r == t.m_rootID
<1> DEFINE w == <<0, e>>
<1> DEFINE n == root(t).m_level
<1>1. /\ Conf(t) /\ IsTree(t) /\ Forest(P, r, {}, {}, Tight(t)) /\ Sizes(t, P, r, {}) /\ Counts(t, P)
      /\ P[r].m_level \in Nat /\ r \in DOMAIN P
  BY WorksIs
<1>2. \A x \in Bottom(P, {}) : x[2].id # e.id
  <2>1. \A x \in Kept(P, {}) : x[1] = 0 => x[2] \in DataOf(t)
    <3>1. Forest(P, r, {}, {}, Tight(t)) /\ t.page = P
      BY <1>1
    <3> HIDE DEF P, r
    <3> QED
      BY <3>1, DataAre
  <2> QED
    BY <2>1 DEF Bottom
<1>3. /\ Forest(P, r, {} \cup {w}, {}, Tight(t)) /\ Kept(P, {} \cup {w}) = Kept(P, {}) \cup {w}
  <2> DEFINE E == {}
  <2>1. Forest(P, r, E, {}, Tight(t)) /\ \A x \in Bottom(P, E) : x[2].id # e.id
    BY <1>1, <1>2
  <2> HIDE DEF P, r, E
  <2>2. Waited(P, r, E, {}, Tight(t), <<0, e>>)
    BY <2>1, Waits
  <2> QED
    BY <2>2 DEF E, Waited
<1>4. Works(t, {} \cup {w}, {}, {})
  BY <1>1, <1>3 DEF Works
<1>5. Low(P, r, {} \cup {w})
  BY <1>1 DEF Low
<1>6. n \in Nat
  BY <1>1 DEF root
<1> HIDE DEF n
<1> DEFINE v == InsertedAt(Table(t, n), e, 0)
<1>7. Entered(t, v, {}, {}, {}, Kept(P, {} \cup {w}))
  BY <1>4, <1>5, <1>6, TabledKeeps
<1> DEFINE u == [v EXCEPT !.m_u64Data = @ + 1]
<1>8. Inserted(t, e) = u
  BY DEF Inserted, n
<1> HIDE DEF v, w
<1>9. /\ Works(v, {}, {}, {}) /\ Alike(t, v) /\ SameData(Kept(P, {} \cup {w}), Kept(v.page, {}))
      /\ v.m_u64Data = t.m_u64Data /\ IsTree(v)
  BY <1>7 DEF Entered, Alike
<1>10. /\ Alike(v, u) /\ u.page = v.page /\ u.m_u32TreeHeight = v.m_u32TreeHeight
       /\ u.m_nodesInLevel = v.m_nodesInLevel /\ u.m_u32Nodes = v.m_u32Nodes
       /\ u.m_u64Data = v.m_u64Data + 1
  BY <1>9 DEF IsTree, Fields, Alike
<1> HIDE DEF u
<1>11. Works(u, {}, {}, {}) /\ Alike(t, u)
  BY <1>9, <1>10, WorksAlike, AlikeTwice
<1>12. ASSUME NEW d PROVE <<0, d>> \in Kept(u.page, {}) <=> <<0, d>> \in Kept(P, {}) \/ d \in {e}
  <2> DEFINE x == <<0, d>>
  <2>1. x[1] = 0 /\ (x = w <=> d = e)
    BY DEF w
  <2> HIDE DEF x
  <2>2. x \in Kept(v.page, {}) <=> x \in Kept(P, {} \cup {w})
    BY <1>9, <2>1 DEF SameData
  <2> QED
    BY <1>3, <1>10, <2>1, <2>2 DEF x
<1>13. DataOf(u) = DataOf(t) \cup {e}
  <2> DEFINE D == {e}
  <2>1. \A d : <<0, d>> \in Kept(u.page, {}) <=> <<0, d>> \in Kept(t.page, {}) \/ d \in D
    BY <1>12
  <2> HIDE DEF D
  <2>2. DataOf(u) = DataOf(t) \cup D
    BY <1>11, <2>1, DataSame
  <2> QED
    BY <2>2 DEF D
<1> QED
  BY <1>8, <1>9, <1>10, <1>11, <1>13 DEF OneMore
=============================================================================
