------------------------------- MODULE Regions -------------------------------
(***************************************************************************)
(* Region of the spatial index library: rectangles with their sides along  *)
(* the axes, in two dimensions.  A coordinate is an integer; the library's *)
(* are doubles, but on small integers its sums and products are exact.     *)
(*                                                                         *)
(* One thing depends on the size of the coordinates: touchesRegion adds an *)
(* epsilon of 2^-52, which a double of 4 or more does not keep.  Far says  *)
(* that all coordinates are of that size; else all are within -2 and 2,    *)
(* and the integers of the model stand for multiples of a fraction.        *)
(***************************************************************************)
EXTENDS Integers, FiniteSetsExt

m_dimension == 2
Dim == 1 .. m_dimension

\* Greater than every coordinate and distance of an instance.
Big == 10000

AnyRegion == [low : [Dim -> Int], high : [Dim -> Int]]

Region(x1, y1, x2, y2) == [low |-> <<x1, y1>>, high |-> <<x2, y2>>]

\* The region that contains nothing; combined with another it gives the other.
makeInfinite == Region(Big, Big, -Big, -Big)

Width(r, i) == r.high[i] - r.low[i]

Upper(a, b) == IF a >= b THEN a ELSE b
Lower(a, b) == IF a <= b THEN a ELSE b

\* Every region but the empty one.
NonEmpty(r) == r \in AnyRegion /\ \A i \in Dim : -Big < r.low[i] /\ r.low[i] <= r.high[i] /\ r.high[i] < Big

intersectsRegion(a, b) ==
    \A i \in Dim : a.low[i] <= b.high[i] /\ b.low[i] <= a.high[i]

containsRegion(a, b) ==
    \A i \in Dim : a.low[i] <= b.low[i] /\ b.high[i] <= a.high[i]

\* Whether a and b have a bound in common is the name of it: but the test compares with
\* epsilon the wrong way around.  It never finds a bound of small numbers, and finds the
\* common bounds of large ones, for which it answers no.
touchesRegion(Far, a, b) ==
    Far => \A i \in Dim : a.low[i] # b.low[i] /\ a.high[i] # b.high[i]

getCombinedRegion(a, b) ==
    [low  |-> [i \in Dim |-> Lower(a.low[i], b.low[i])],
     high |-> [i \in Dim |-> Upper(a.high[i], b.high[i])]]

\* The least region around all of S.
Bounding(S) ==
    IF S = {} THEN makeInfinite
    ELSE [low  |-> [i \in Dim |-> Min({r.low[i] : r \in S})],
          high |-> [i \in Dim |-> Max({r.high[i] : r \in S})]]

getIntersectingRegion(a, b) ==
    IF ~intersectsRegion(a, b) THEN makeInfinite
    ELSE [low  |-> [i \in Dim |-> Upper(a.low[i], b.low[i])],
          high |-> [i \in Dim |-> Lower(a.high[i], b.high[i])]]

getArea(r) == Width(r, 1) * Width(r, 2)

getIntersectingArea(a, b) ==
    IF intersectsRegion(a, b) THEN getArea(getIntersectingRegion(a, b)) ELSE 0

getMargin(r) == 2 * (Width(r, 1) + Width(r, 2))

\* Twice the center, and the square of the distance of two points.
getCenter(r) == [i \in Dim |-> r.low[i] + r.high[i]]

Square(p, q) == (p[1] - q[1]) * (p[1] - q[1]) + (p[2] - q[2]) * (p[2] - q[2])

\* Along dimension i, and its square over both: distances are compared only, so their
\* roots are left out.  A point is a region without width.
Gap(a, b, i) ==
    IF b.high[i] < a.low[i] THEN a.low[i] - b.high[i]
    ELSE IF a.high[i] < b.low[i] THEN b.low[i] - a.high[i]
    ELSE 0

getMinimumDistance(a, b) == Gap(a, b, 1) * Gap(a, b, 1) + Gap(a, b, 2) * Gap(a, b, 2)
=============================================================================
