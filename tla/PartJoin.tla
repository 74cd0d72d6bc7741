------------------------------ MODULE PartJoin ------------------------------
(***************************************************************************)
(* Taking a part apart at a bend and joining two parts at a seam:          *)
(* src/cpp/src/geometry/translation/part_split.cc and part_merge.cc.       *)
(*                                                                         *)
(* A point on an outline is a reference [edge, point]; it is a vertex when *)
(* it is the edge's first point.                                           *)
(***************************************************************************)
EXTENDS PartEvaluator

Tolerance == 2                       \* kMergeContactToleranceMm

Simplify(ring) == Points(SimplifyLoop(Uncut(ring)))
-----------------------------------------------------------------------------
\* GroundLine: the two points where the hinge line meets the outline.

GroundLine(ring, a, b) ==
    LET across == Crossings(ring, a, b)
        along  == OnLine(ring, a, b)
    IN  IF Cardinality(across) = 2
        THEN LET i == Pair(across)
                 p == CrossingPoint(ring, i[1], a, b)
                 q == CrossingPoint(ring, i[2], a, b)
             IN  [ok |-> TRUE, hinge |-> Ordered(p, q, a),
                  ring |-> InsertAfter(InsertAfter(ring, i[2], q), i[1], p)]
        ELSE IF a # b /\ {a, b} \subseteq Range(ring)
        THEN [ok |-> TRUE, ring |-> ring, hinge |-> <<a, b>>]
        ELSE IF Cardinality(along) = 2
        THEN LET i == Pair(along)
             IN  [ok |-> TRUE, ring |-> ring, hinge |-> Ordered(ring[i[1]], ring[i[2]], a)]
        ELSE [ok |-> FALSE, ring |-> ring, hinge |-> <<a, b>>]

\* ResolveCrossings: where two edges cross, the loop that turns the other way
\* round is dropped; if that does not tell the two loops apart, nothing is.
FirstCrossing(ring) ==
    LET n == Len(ring)
        crossing == {e \in (1 .. n) \X (1 .. n) :
            /\ e[1] + 1 < e[2] /\ After(e[2], n) # e[1]
            /\ SegmentsProperlyIntersect(ring[e[1]], ring[After(e[1], n)],
                                         ring[e[2]], ring[After(e[2], n)])}
    IN  IF crossing = {} THEN Nowhere
        ELSE CHOOSE e \in crossing : \A f \in crossing :
                e[1] < f[1] \/ (e[1] = f[1] /\ e[2] <= f[2])

Orientation(ring) == IF DoubleArea(ring) >= 0 THEN 1 ELSE -1

Half(ring, e, i, j) ==
    LET f == Edge(ring, e[i])
        h == Edge(ring, e[j])
    IN  <<LineIntersect2(f[1], Sub2(f[2], f[1]), h[1], Sub2(h[2], h[1]))>>
        \o Arc(ring, After(e[i], Len(ring)), e[j])

SameWayRound(loop, ring) == Len(loop) >= 3 /\ Orientation(loop) = Orientation(ring)

\* The half that goes round as the ring does, if only one does.
Kept(ring, half, other) ==
    IF SameWayRound(half, ring) = SameWayRound(other, ring) THEN ring
    ELSE IF SameWayRound(half, ring) THEN half ELSE other

Uncrossed(ring, e) ==
    IF e = Nowhere THEN ring ELSE Kept(ring, Half(ring, e, 1, 2), Half(ring, e, 2, 1))

\* Each crossing that is resolved leaves fewer vertices.
ResolveCrossings(ring) ==
    LET better[k \in 0 .. Len(ring)] ==
            IF k = 0 THEN ring
            ELSE LET r == better[k - 1] IN Uncrossed(r, FirstCrossing(r))
    IN  better[Len(ring)]

InsideOrOn(p, ring) ==
    \/ \E i \in 1 .. Len(ring) : OnSegment(p, ring[i], ring[After(i, Len(ring))])
    \/ PointInPolygon(p, ring)

\* The vertices' centroid of the child panel, told from n times its place.
HintIn(raw, chain) ==
    InsideOrOn(FoldLeft(LAMBDA sum, p : Add2(sum, p), <<0, 0>>, raw),
               Made([i \in 1 .. Len(chain) |-> Scaled2(Len(raw), chain[i])]))

\* The lap of the side that keeps the corner: thickness * sin(angle).
Lap(b, thickness) == IF b.turns = 0 THEN 0 ELSE thickness

Unsplit(code) == [ok |-> FALSE, code |-> code]

\* The side that keeps the corner, grown by the lap beyond the hinge.
Grown(side, lap, hinge) ==
    LET cap(p) == Add2(IF p = hinge[1] THEN hinge[1] ELSE hinge[2], lap)
    IN  IF lap = <<0, 0>> THEN side
        ELSE ResolveCrossings(Simplify(<<cap(side[1])>> \o side \o <<cap(Last(side))>>))

Outlines(keep, side, grown, trimmed) ==
    IF Len(trimmed) < 3 \/ Len(grown) < 3 \/ Orientation(grown) # Orientation(side)
    THEN Unsplit("corner zone not grounded")
    ELSE [ok |-> TRUE, child  |-> IF keep = "parent" THEN trimmed ELSE grown,
                       parent |-> IF keep = "parent" THEN grown ELSE trimmed]

Apart(child, parent, keep, lap, hinge) ==
    LET side  == IF keep = "parent" THEN parent ELSE child
        other == IF keep = "parent" THEN child ELSE parent
    IN  Outlines(keep, side, Grown(side, lap, hinge), ResolveCrossings(Simplify(other)))

SplitAlong(line, ab, ba, keep, lap, hintRaw) ==
    IF ~ line.ok THEN Unsplit("hinge not grounded")
    ELSE IF \/ ~ Range(line.hinge) \subseteq Range(line.ring) \/ line.hinge[1] = line.hinge[2]
            \/ Len(ab) < 3 \/ Len(ba) < 3
    THEN Unsplit("degenerate")
    ELSE IF HintIn(hintRaw, ab) THEN Apart(ab, ba, keep, lap, line.hinge)
    ELSE IF HintIn(hintRaw, ba) THEN Apart(ba, ab, keep, lap, line.hinge)
    ELSE Unsplit("hint ambiguous")

ArcBetween(line, i, j) ==
    Arc(line.ring, FirstAt(line.ring, line.hinge[i]), FirstAt(line.ring, line.hinge[j]))

\* SplitPartAtBend: the outlines of the child's side and of the parent's.
SplitOutline(b, thickness, keep, hintRaw, line) ==
    SplitAlong(line, ArcBetween(line, 1, 2), ArcBetween(line, 2, 1), keep,
               Scaled2(IF keep = "parent" THEN Lap(b, thickness) ELSE -Lap(b, thickness),
                       NLeft(line.hinge[1], line.hinge[2])),
               hintRaw)
-----------------------------------------------------------------------------
\* DetectContact: the seams of two parts, panel against panel.

RefOf(outline, p) ==
    LET n == Len(outline)
        on == {i \in 1 .. n : OnSegment(p, outline[i], outline[After(i, n)])}
    IN  IF FirstAt(outline, p) # 0 THEN [edge |-> FirstAt(outline, p), point |-> p]
        ELSE IF on # {} THEN [edge |-> CHOOSE i \in on : \A j \in on : i <= j, point |-> p]
        ELSE [edge |-> 0, point |-> p]

\* The edges of a panel along the part's outline: never a hinge.
Midway(ring, outline, i) ==
    LET e == Edge(ring, i)
        twice(p) == Scaled2(2, p)
    IN  \E k \in 1 .. Len(outline) :
            OnSegment(Add2(e[1], e[2]), twice(outline[k]), twice(outline[After(k, Len(outline))]))
FreeEdges(ring, outline) ==
    {i \in 1 .. Len(ring) : /\ Midway(ring, outline, i)
                            /\ \A p \in Range(Edge(ring, i)) : RefOf(outline, p).edge # 0}

\* The straight runs of B's free edges on A's plane, as <<first, last>>
\* vertices.  on(i): edge i qualifies; xy: B's vertices in A's frame.
Straight(xy, s, next, n) ==
    LET d == Sub2(xy[next], xy[s])
    IN  /\ d # <<0, 0>>
        /\ \A k \in 1 .. n : InOpenForwardArc(k, s, next, n) =>
              Cross2(d, Sub2(xy[k], xy[s])) ^ 2 <= Tolerance * Tolerance * Square2(d)
\* A run from s goes on while the next edge qualifies and keeps it straight.
RunEnd(on, xy, s) ==
    LET n == Len(xy)
        at(j) == ((s - 1 + j) % n) + 1
        ends == {j \in 1 .. n : ~ (at(j) \in on /\ Straight(xy, s, at(j + 1), n))}
    IN  at(CHOOSE j \in ends : \A i \in ends : j <= i)
RunsFrom(on, xy, s) ==
    LET found[k \in 0 .. Len(xy)] ==
            IF k = 0 THEN [at |-> s, runs |-> {}]
            ELSE LET f == found[k - 1]
                     e == RunEnd(on, xy, f.at)
                 IN  IF f.at \notin on THEN f
                     ELSE [at |-> e, runs |-> f.runs \cup {<<f.at, e>>}]
    IN  found[Len(xy)].runs
StraightRuns(on, xy) ==
    UNION {RunsFrom(on, xy, s) : s \in {i \in on : Before(i, Len(xy)) \notin on}}

\* The element of a sequence with the least key, the first or the last of them.
FirstBy(s, key) ==
    s[CHOOSE i \in 1 .. Len(s) : \A j \in 1 .. Len(s) :
        key[s[i]] < key[s[j]] \/ (key[s[i]] = key[s[j]] /\ i <= j)]
LastBy(s, key) == FirstBy(Reverse(s), key)

\* The ends of A's edges that cover a run, in the order of the edges.
CoverEnds(covers, n) ==
    FoldLeft(LAMBDA s, i : s \o <<i, After(i, n)>>, <<>>, SetToSortSeq(covers, <))
RunVertices(run, m) == Arc([k \in 1 .. m |-> k], run[1], run[2])

\* The point at parameter t of a run, on the first edge that reaches over it.
PointAt(edges, param, ring, t) ==
    LET n == Len(ring)
        over == SelectSeq(edges, LAMBDA i :
                    /\ param[i] # param[After(i, n)]
                    /\ Least(param[i], param[After(i, n)]) <= t
                    /\ t <= Most(param[i], param[After(i, n)]))
    IN  IF over = <<>> THEN Nowhere
        ELSE LET i == over[1]
                 e == Edge(ring, i)
                 d == Sub2(e[2], e[1])
                 len == param[After(i, n)] - param[i]
             IN  <<e[1][1] + Quotient(d[1] * (t - param[i]), len),
                   e[1][2] + Quotient(d[2] * (t - param[i]), len)>>

\* The seams along one run, for one direction in which A may walk it.  Each
\* end of a seam is the inner corner, the one that both parts reach; a corner
\* of the other part within the tolerance is the same corner.  Where the two
\* corners are level, rounding decides which of them is the inner one.
SeamsOnRun(ringA, freeA, ringB, bInA, run, flipped) ==
    LET n == Len(ringA)
        m == Len(ringB)
        xyB(k) == <<bInA[k][1], bInA[k][2]>>
        from == xyB(run[1])
        dir == Sub2(xyB(run[2]), from)
        runLen == Square2(dir)
        tA == Made([i \in 1 .. n |-> Dot2(Sub2(ringA[i], from), dir)])
        tB == Made([k \in 1 .. m |-> Dot2(Sub2(xyB(k), from), dir)])
        offLine(p) == Cross2(dir, Sub2(p, from)) ^ 2 > Tolerance * Tolerance * runLen
        covers == {i \in freeA :
            LET t1 == tA[i]
                t2 == tA[After(i, n)]
            IN  /\ ~ offLine(ringA[i]) /\ ~ offLine(ringA[After(i, n)])
                /\ Most(Least(t1, t2), 0) < Least(Most(t1, t2), runLen)
                /\ (t1 < t2) = flipped}
        aVerts == CoverEnds(covers, n)
        bVerts == RunVertices(run, m)
        bRising == SelectSeq(SubSeq(bVerts, 1, Len(bVerts) - 1), LAMBDA k : tB[k] < tB[After(k, m)])
        aIn(i) == At(ringA[i], 0)
        near(p, q) == Dot3(Sub3(p, q), Sub3(p, q))
        within(verts, distance(_)) == SelectSeq(verts, LAMBDA v : distance(v) <= Tolerance * Tolerance)
        endAtA(iA) ==
            LET close == within(bVerts, LAMBDA k : near(bInA[k], aIn(iA)))
            IN  [a |-> ringA[iA],
                 b |-> IF close # <<>> THEN ringB[LastBy(close, [k \in 1 .. m |-> near(bInA[k], aIn(iA))])]
                       ELSE PointAt(bRising, tB, ringB, tA[iA])]
        endAtB(iB) ==
            LET close == within(aVerts, LAMBDA i : near(aIn(i), bInA[iB]))
            IN  [b |-> ringB[iB],
                 a |-> IF close # <<>> THEN ringA[LastBy(close, [i \in 1 .. n |-> near(aIn(i), bInA[iB])])]
                       ELSE PointAt(SetToSortSeq(covers, <), tA, ringA, tB[iB])]
        aLo == FirstBy(aVerts, tA)
        aHi == FirstBy(aVerts, [i \in 1 .. n |-> -tA[i]])
        los == {endAtA(i) : i \in {k \in {aLo} : tA[k] >= 0}}
               \cup {endAtB(k) : k \in {j \in {run[1]} : tA[aLo] <= 0}}
        his == {endAtA(i) : i \in {k \in {aHi} : tA[k] <= runLen}}
               \cup {endAtB(k) : k \in {j \in {run[2]} : tA[aHi] >= runLen}}
        found == {e \in los \X his : /\ Nowhere \notin {e[1].a, e[1].b, e[2].a, e[2].b}
                                     /\ e[1].a # e[2].a /\ e[1].b # e[2].b}
        seam(entry, exit) == [aStart |-> entry.a, aEnd |-> exit.a,
                              bStart |-> exit.b, bEnd |-> entry.b, flipped |-> flipped]
    IN  IF runLen = 0 \/ covers = {} THEN {}
        ELSE {IF flipped THEN seam(e[1], e[2]) ELSE seam(e[2], e[1]) : e \in found}

DetectContactForPanelPair(ringA, freeA, poseA, ringB, freeB, poseB) ==
    LET bToA == Compose(Inverse3(poseA), poseB)
        bInA == Made([i \in 1 .. Len(ringB) |-> Apply(bToA, At(ringB[i], 0))])
        onPlane == {i \in 1 .. Len(ringB) : bInA[i][3] \in -Tolerance .. Tolerance}
        on == {i \in freeB \cap onPlane : After(i, Len(ringB)) \in onPlane}
        runs == StraightRuns(on, [i \in 1 .. Len(ringB) |-> <<bInA[i][1], bInA[i][2]>>])
    IN  IF onPlane = 1 .. Len(ringB) THEN {}
        ELSE UNION {SeamsOnRun(ringA, freeA, ringB, bInA, run, flipped) :
                       run \in runs, flipped \in BOOLEAN}

\* The quarter turns from A's sheet to B's about the hinge of the new bend,
\* which runs from the end of A's seam to its start.
\* Mutant: about the seam as A walks it.
TurnsAlongTheWalk(seam, poseA, poseB) ==
    LET axis == Normalize3(Sub3(Apply(poseA, At(seam.aEnd, 0)), Apply(poseA, At(seam.aStart, 0))))
        nA == ApplyVector(poseA, <<0, 0, 1>>)
        nB == ApplyVector(poseB, <<0, 0, IF seam.flipped THEN -1 ELSE 1>>)
    IN  IF Dot3(nA, nB) = 0 THEN Dot3(Cross3(nA, nB), axis) ELSE 1 - Dot3(nA, nB)
SeamTurns(seam, poseA, poseB) ==
    LET axis == Normalize3(Sub3(Apply(poseA, At(seam.aStart, 0)), Apply(poseA, At(seam.aEnd, 0))))
        nA == ApplyVector(poseA, <<0, 0, 1>>)
        nB == ApplyVector(poseB, <<0, 0, IF seam.flipped THEN -1 ELSE 1>>)
    IN  IF Dot3(nA, nB) = 0 THEN Dot3(Cross3(nA, nB), axis) ELSE 1 - Dot3(nA, nB)

\* A reference on FlipPart's outline: the vertices in reverse, mirrored.
FlippedRef(ref, outline) ==
    LET n == Len(outline)
    IN  [point |-> Mirrored(ref.point),
         edge |-> IF ref.point = outline[ref.edge] THEN n + 1 - ref.edge
                  ELSE ((2 * n - 1 - ref.edge) % n) + 1]

DetectContact(outlineA, panelsA, outlineB, panelsB) ==
    UNION {LET seams == DetectContactForPanelPair(
                   Points(panelsA[p].raw), FreeEdges(Points(panelsA[p].raw), outlineA), panelsA[p].pose,
                   Points(panelsB[q].raw), FreeEdges(Points(panelsB[q].raw), outlineB), panelsB[q].pose)
               refB(s, at) == IF s.flipped THEN FlippedRef(RefOf(outlineB, at), outlineB)
                              ELSE RefOf(outlineB, at)
               turns(s) == SeamTurns(s, panelsA[p].pose, panelsB[q].pose)
           IN  {[a |-> p, b |-> q, flipped |-> s.flipped, turns |-> turns(s),
                 aStart |-> RefOf(outlineA, s.aStart), aEnd |-> RefOf(outlineA, s.aEnd),
                 bStart |-> refB(s, s.bStart), bEnd |-> refB(s, s.bEnd)] :
                    s \in {t \in seams : turns(t) # 0}} :
           p \in DOMAIN panelsA, q \in DOMAIN panelsB}
-----------------------------------------------------------------------------
\* ReconcileOutlines: B's outline moved against A's seam, and the two joined.

\* Anything but a touch at one of the two splice vertices.
SegmentsBadOverlap(p1, p2, p3, p4, allowed) ==
    \/ SegmentsProperlyIntersect(p1, p2, p3, p4)
    \/ \E p \in {p3, p4} \ allowed : OnSegment(p, p1, p2)
    \/ \E p \in {p1, p2} \ allowed : OnSegment(p, p3, p4)
    \/ /\ Side(p1, p2, p3) = 0 /\ Side(p1, p2, p4) = 0
       /\ LET t(p) == Dot2(Sub2(p, p1), Sub2(p2, p1))
          IN  Most(0, Least(t(p3), t(p4))) < Least(t(p2), Most(t(p3), t(p4)))

\* The outline with the points of two references as vertices: the later edge
\* first, which leaves the number of the earlier one as it is.
WithVertex(ring, r) ==
    IF r.point \in Range(ring) THEN ring ELSE InsertAfter(ring, r.edge, r.point)
Later(r, s, outline) ==
    \/ r.edge > s.edge
    \/ r.edge = s.edge /\ ~ NearerFirst(r.point, s.point, outline[r.edge])
WithRefVertices(outline, r0, r1) ==
    IF Later(r0, r1, outline) THEN WithVertex(WithVertex(outline, r0), r1)
    ELSE WithVertex(WithVertex(outline, r1), r0)

\* The rigid motion of the plane that takes B's seam onto A's, reversed.
Placed(p, edgeB, edgeA) ==
    LET u == <<Sgn(edgeB[2][1] - edgeB[1][1]), Sgn(edgeB[2][2] - edgeB[1][2])>>
        w == <<Sgn(edgeA[1][1] - edgeA[2][1]), Sgn(edgeA[1][2] - edgeA[2][2])>>
        v == Sub2(p, edgeB[1])
        c == Dot2(u, w)
        s == Cross2(u, w)
    IN  Add2(<<c * v[1] - s * v[2], s * v[1] + c * v[2]>>, edgeA[2])

ReconcileOutlines(outlineA, a0, a1, outlineB, b0, b1) ==
    LET A == WithRefVertices(outlineA, a0, a1)
        B == WithRefVertices(outlineB, b0, b1)
        n == Len(A)
        m == Len(B)
        iA0 == FirstAt(A, a0.point)
        iA1 == FirstAt(A, a1.point)
        iB0 == FirstAt(B, b0.point)
        iB1 == FirstAt(B, b1.point)
        edgeA == <<a0.point, a1.point>>
        edgeB == <<b0.point, b1.point>>
        length(p, q) == Most(Sgn(q[1] - p[1]) * (q[1] - p[1]), Sgn(q[2] - p[2]) * (q[2] - p[2]))
        differ == length(a0.point, a1.point) - length(b0.point, b1.point)
        place(p) == Placed(p, edgeB, edgeA)
        placed == Made([i \in 1 .. m |-> IF i = iB0 THEN a1.point ELSE IF i = iB1 THEN a0.point
                                         ELSE place(B[i])])
        kept == Arc(placed, iB1, iB0)
        keptB == SubSeq(kept, 2, Len(kept) - 1)
        inSeam(i, start, end, count) == (i + count - start) % count < (end + count - start) % count
        bad == \E i \in 1 .. n, j \in 1 .. m :
                  /\ ~ inSeam(i, iA0, iA1, n) /\ ~ inSeam(j, iB0, iB1, m)
                  /\ SegmentsBadOverlap(A[i], A[After(i, n)], placed[j], placed[After(j, m)],
                                        Range(edgeA))
    IN  [ok |-> iA0 # iA1 /\ iB0 # iB1 /\ ~ bad
                /\ differ \in -2 * Tolerance .. 2 * Tolerance,
         outline |-> IF iA1 > iA0
                     THEN SubSeq(A, 1, iA0) \o keptB \o SubSeq(A, iA1, n)
                     ELSE SubSeq(A, iA1, iA0) \o keptB,
         edgeA |-> edgeA, edgeB |-> edgeB,
         hinge |-> <<a1.point, a0.point>>]
=============================================================================
