--------------------------- MODULE PlanarGeometry ---------------------------
(***************************************************************************)
(* The plane geometry of materials/soil_domain.py on an integer grid.  The *)
(* tolerances of the code (1e-7 of the span and less) are below the grid   *)
(* step, so its comparisons are exact here.  A point is <<x, y>>, a        *)
(* segment a pair of points, a polygon the set of its directed sides.      *)
(***************************************************************************)
EXTENDS Integers, Sequences, FiniteSets, FiniteSetsExt

Minus(p, q) == <<p[1] - q[1], p[2] - q[2]>>
Cross(u, v) == u[1] * v[2] - u[2] * v[1]
Dot(u, v) == u[1] * v[1] + u[2] * v[2]
Least(a, b) == IF a <= b THEN a ELSE b
Greatest(a, b) == IF a >= b THEN a ELSE b

\* The segments of a polyline and the sides of a closed ring, in order.
Segments(line) == [i \in 1..(Len(line) - 1) |-> <<line[i], line[i + 1]>>]
Ring(points) == [i \in 1..Len(points) |-> <<points[i], points[1 + (i % Len(points))]>>]
Elements(seq) == {seq[i] : i \in DOMAIN seq}

OnSegment(p, s) ==
    LET d == Minus(s[2], s[1])
        v == Minus(p, s[1])
    IN Cross(d, v) = 0 /\ 0 <= Dot(v, d) /\ Dot(v, d) <= Dot(d, d)

OnAny(p, segments) == \E s \in segments : OnSegment(p, s)

\* The ray from p to the right crosses the side s.
RayHits(p, s) ==
    LET d == Minus(s[2], s[1])
        v == Minus(s[1], p)
    IN /\ (s[1][2] > p[2]) # (s[2][2] > p[2])
       /\ IF d[2] > 0 THEN Cross(v, d) > 0 ELSE Cross(v, d) < 0

OddHits(p, poly) == Cardinality({s \in poly : RayHits(p, s)}) % 2 = 1
InPolygon(p, poly) == OnAny(p, poly) \/ OddHits(p, poly)
StrictlyIn(p, poly) == ~OnAny(p, poly) /\ OddHits(p, poly)

\* Twice the signed area: positive when the sides run counterclockwise.
SignedArea2(poly) ==
    LET Term(s) == Cross(s[1], s[2])
    IN MapThenSumSet(Term, poly)

\* The centroid multiplied by three times SignedArea2.
CentroidScaled(poly) ==
    LET TermX(s) == (s[1][1] + s[2][1]) * Cross(s[1], s[2])
        TermY(s) == (s[1][2] + s[2][2]) * Cross(s[1], s[2])
    IN <<MapThenSumSet(TermX, poly), MapThenSumSet(TermY, poly)>>

Scaled(p, kx, ky) == <<kx * p[1], ky * p[2]>>
ScaledSegments(segments, kx, ky) ==
    {<<Scaled(s[1], kx, ky), Scaled(s[2], kx, ky)>> : s \in segments}

\* Where two segments that are not parallel meet: the parameters t/den and u/den of
\* the point on a and on b, if both are in [0, 1].
Meeting(a, b) ==
    LET r == Minus(a[2], a[1])
        s == Minus(b[2], b[1])
        q == Minus(b[1], a[1])
        den == Cross(r, s)
        sign == IF den < 0 THEN -1 ELSE 1
        found == [t |-> sign * Cross(q, s), u |-> sign * Cross(q, r), den |-> sign * den]
    IN IF den # 0 /\ found.t \in 0..found.den /\ found.u \in 0..found.den
       THEN {found} ELSE {}

\* How far the shadows of two segments on axis k overlap.
ShadowOverlap(k, a, b) ==
    Least(Greatest(a[1][k], a[2][k]), Greatest(b[1][k], b[2][k]))
        - Greatest(Least(a[1][k], a[2][k]), Least(b[1][k], b[2][k]))

OverlapColinear(a, b) ==
    LET d == Minus(a[2], a[1])
    IN /\ Cross(d, Minus(b[1], a[1])) = 0 /\ Cross(d, Minus(b[2], a[1])) = 0
       /\ Greatest(ShadowOverlap(1, a, b), ShadowOverlap(2, a, b)) > 0

\* The order of atan2, from just above -pi to pi.
Quarter(v) ==
    IF v[2] < 0 THEN 0 ELSE IF v[2] > 0 THEN 2 ELSE IF v[1] > 0 THEN 1 ELSE 3
AngleBefore(u, v) ==
    Quarter(u) < Quarter(v) \/ (Quarter(u) = Quarter(v) /\ Cross(u, v) > 0)
=============================================================================
