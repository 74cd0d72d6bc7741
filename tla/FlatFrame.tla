------------------------------ MODULE FlatFrame ------------------------------
(***************************************************************************)
(* Points, rings and rigid motions, as the files of                        *)
(* src/cpp/src/geometry/translation compute with them.                     *)
(*                                                                         *)
(* Coordinates are integers and every outline has its edges along the two  *)
(* axes, so that intersections, unit normals and quarter turns are exact:  *)
(* the tolerances of the code, which absorb floating-point noise, become   *)
(* equality.  Angles are counted in quarter turns.                         *)
(***************************************************************************)
EXTENDS Integers, Sequences, FiniteSets, SequencesExt

Sgn(i) == IF i > 0 THEN 1 ELSE IF i < 0 THEN -1 ELSE 0
Least(i, j) == IF i < j THEN i ELSE j
Most(i, j) == IF i > j THEN i ELSE j

\* A sequence built by a rule, its elements computed once.
Made(f) == f \o <<>>

\* Two functions as one: where both have a value, the first one's.
Beside(f, g) == [x \in DOMAIN f \cup DOMAIN g |-> IF x \in DOMAIN f THEN f[x] ELSE g[x]]

Nowhere == <<>>                      \* std::nullopt where a point may be

Sub2(a, b) == <<a[1] - b[1], a[2] - b[2]>>
Add2(a, b) == <<a[1] + b[1], a[2] + b[2]>>
Scaled2(k, a) == <<k * a[1], k * a[2]>>
Cross2(a, b) == a[1] * b[2] - a[2] * b[1]
Dot2(a, b) == a[1] * b[1] + a[2] * b[2]
Square2(a) == Dot2(a, a)             \* of the length

\* The side of the directed line a -> b that p is on: positive is left.
Side(a, b, p) == Cross2(Sub2(b, a), Sub2(p, a))

\* The unit vector to the left of a -> b, along an axis.
NLeft(a, b) == <<-Sgn(b[2] - a[2]), Sgn(b[1] - a[1])>>

\* a / b where b divides a, and may be negative.
Quotient(a, b) == (Sgn(b) * a) \div (Sgn(b) * b)

\* Where the line through p1 along d1 meets the line through p2 along d2.
LineIntersect2(p1, d1, p2, d2) ==
    IF Cross2(d1, d2) = 0 THEN Nowhere
    ELSE LET num == Cross2(Sub2(p2, p1), d2)
             den == Cross2(d1, d2)
         IN  <<p1[1] + Quotient(d1[1] * num, den), p1[2] + Quotient(d1[2] * num, den)>>

NearerFirst(p, q, a) == Square2(Sub2(p, a)) <= Square2(Sub2(q, a))
-----------------------------------------------------------------------------
\* Rings: closed sequences of points, 1 .. n.

After(i, n) == (i % n) + 1
Before(i, n) == ((i + n - 2) % n) + 1
Edge(ring, i) == <<ring[i], ring[After(i, Len(ring))]>>

FirstAt(ring, p) ==
    IF \E i \in 1 .. Len(ring) : ring[i] = p
    THEN CHOOSE i \in 1 .. Len(ring) :
            ring[i] = p /\ \A j \in 1 .. i - 1 : ring[j] # p
    ELSE 0

InsertAfter(ring, i, p) == SubSeq(ring, 1, i) \o <<p>> \o SubSeq(ring, i + 1, Len(ring))

\* From vertex i forward to vertex j, both kept.
Arc(ring, i, j) ==
    LET n == Len(ring)
    IN  [k \in 1 .. (((j - i + n) % n) + 1) |-> ring[((i + k - 2) % n) + 1]]

\* The sum of the first n of some terms.
Total(term, n) ==
    LET upTo[i \in 0 .. n] == IF i = 0 THEN 0 ELSE upTo[i - 1] + term[i]
    IN  upTo[n]

\* Twice the signed area.
DoubleArea(ring) ==
    Total([i \in 1 .. Len(ring) |-> Cross2(ring[i], ring[After(i, Len(ring))])], Len(ring))

OnSegment(p, a, b) ==
    /\ Side(a, b, p) = 0
    /\ Least(a[1], b[1]) <= p[1] /\ p[1] <= Most(a[1], b[1])
    /\ Least(a[2], b[2]) <= p[2] /\ p[2] <= Most(a[2], b[2])

\* Ray casting: the edges that cross the height of p to the right of it.
CrossesRightOf(p, a, b) ==
    /\ (a[2] > p[2]) # (b[2] > p[2])
    /\ LET lhs == (p[1] - a[1]) * (b[2] - a[2])
           rhs == (p[2] - a[2]) * (b[1] - a[1])
       IN  IF b[2] > a[2] THEN lhs < rhs ELSE lhs > rhs
PointInPolygon(p, ring) ==
    Cardinality({i \in 1 .. Len(ring) :
        CrossesRightOf(p, ring[i], ring[After(i, Len(ring))])}) % 2 = 1

SegmentsProperlyIntersect(p1, p2, p3, p4) ==
    /\ Sgn(Side(p3, p4, p1)) * Sgn(Side(p3, p4, p2)) < 0
    /\ Sgn(Side(p1, p2, p3)) * Sgn(Side(p1, p2, p4)) < 0

\* To the nearest point of a segment that lies along an axis.
SquareToSegment(p, a, b) ==
    LET x == Least(Most(p[1], Least(a[1], b[1])), Most(a[1], b[1]))
        y == Least(Most(p[2], Least(a[2], b[2])), Most(a[2], b[2]))
    IN  Square2(Sub2(p, <<x, y>>))

CircleFullyInsidePolygon(hole, ring) ==
    /\ Len(ring) >= 3 /\ hole.radius > 0
    /\ PointInPolygon(hole.center, ring)
    /\ \A i \in 1 .. Len(ring) :
          SquareToSegment(hole.center, ring[i], ring[After(i, Len(ring))])
              > hole.radius * hole.radius

RingFullyInsidePolygon(inner, ring) ==
    /\ Len(inner) >= 3 /\ Len(ring) >= 3
    /\ \A i \in 1 .. Len(inner) : PointInPolygon(inner[i], ring)
    /\ \A i \in 1 .. Len(inner), j \in 1 .. Len(ring) :
          ~ SegmentsProperlyIntersect(inner[i], inner[After(i, Len(inner))],
                                      ring[j], ring[After(j, Len(ring))])
-----------------------------------------------------------------------------
\* Rigid motions of space: p -> r * p + t.

Dot3(a, b) == a[1] * b[1] + a[2] * b[2] + a[3] * b[3]
Sub3(a, b) == <<a[1] - b[1], a[2] - b[2], a[3] - b[3]>>
Add3(a, b) == <<a[1] + b[1], a[2] + b[2], a[3] + b[3]>>
Cross3(a, b) == <<a[2] * b[3] - a[3] * b[2], a[3] * b[1] - a[1] * b[3],
                  a[1] * b[2] - a[2] * b[1]>>
Normalize3(a) == <<Sgn(a[1]), Sgn(a[2]), Sgn(a[3])>>     \* along an axis
At(p, z) == <<p[1], p[2], z>>

Identity == [r |-> <<<<1, 0, 0>>, <<0, 1, 0>>, <<0, 0, 1>>>>, t |-> <<0, 0, 0>>]

ApplyVector(T, v) == <<Dot3(T.r[1], v), Dot3(T.r[2], v), Dot3(T.r[3], v)>>
Apply(T, p) == Add3(ApplyVector(T, p), T.t)

Column(T, j) == <<T.r[1][j], T.r[2][j], T.r[3][j]>>
Compose(T, inner) ==
    [r |-> LET row(i) == <<Dot3(T.r[i], Column(inner, 1)), Dot3(T.r[i], Column(inner, 2)),
                           Dot3(T.r[i], Column(inner, 3))>>
           IN  <<row(1), row(2), row(3)>>,
     t |-> Apply(T, inner.t)]

Inverse3(T) ==
    LET back == [r |-> <<Column(T, 1), Column(T, 2), Column(T, 3)>>, t |-> <<0, 0, 0>>]
    IN  [back EXCEPT !.t = ApplyVector(back, Sub3(<<0, 0, 0>>, T.t))]

Sin(turns) == IF turns % 4 = 1 THEN 1 ELSE IF turns % 4 = 3 THEN -1 ELSE 0
Cos(turns) == Sin(turns + 1)

\* Rodrigues' formula about the line through origin along the unit vector d.
RotationAboutAxis(origin, d, turns) ==
    LET c == Cos(turns)
        s == Sin(turns)
        K == <<<<0, -d[3], d[2]>>, <<d[3], 0, -d[1]>>, <<-d[2], d[1], 0>>>>
        entry(i, j) == (IF i = j THEN c ELSE 0) + d[i] * d[j] * (1 - c) + s * K[i][j]
        row(i) == <<entry(i, 1), entry(i, 2), entry(i, 3)>>
        about == [r |-> <<row(1), row(2), row(3)>>, t |-> <<0, 0, 0>>]
    IN  [about EXCEPT !.t = Sub3(origin, ApplyVector(about, origin))]
=============================================================================
