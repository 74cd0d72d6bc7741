---------------------------- MODULE PointMapping ----------------------------
(***************************************************************************)
(* What is read off the layout of a part: points of the flat pattern in    *)
(* space and back (point_mapping.cc), and the two sides of a plane         *)
(* (split_by_plane.cc), all of src/cpp/src/geometry/translation.           *)
(*                                                                         *)
(* A point on a bend has no place on the grid: it is kept as the point of  *)
(* the parent it comes from and how far round the bend it is.              *)
(***************************************************************************)
EXTENDS Workpieces

\* PointInPolygon2: at a squared distance less than near of the ring, or in it.
Exactly == 1
Nearby == Tolerance * Tolerance
Covers(ring, p, near) ==
    \/ \E i \in 1 .. Len(ring) : SquareToSegment(p, ring[i], ring[After(i, Len(ring))]) < near
    \/ PointInPolygon(p, ring)

\* How far p is from the ring, squared.
Off(ring, p) ==
    LET d == {SquareToSegment(p, ring[i], ring[After(i, Len(ring))]) : i \in 1 .. Len(ring)}
    IN  CHOOSE x \in d : \A y \in d : x <= y

\* FindBridgeZone: the first edge tagged with the bend on either panel.
Bordering(panel, bend) == {i \in 1 .. Len(panel.raw) : panel.raw[i].bend = bend}
TaggedEdge(panel, bend) ==
    LET tagged == Bordering(panel, bend)
        i == CHOOSE i \in tagged : \A j \in tagged : i <= j
    IN  IF tagged = {} THEN Nowhere ELSE Edge(Flattened(panel), i)

\* ResolveZoneLocal: s along the hinge, u across, of the extent [long, ba].
ZoneLocal(p, parentEdge, childEdge) ==
    LET d == Sub2(parentEdge[2], parentEdge[1])
        dHat == <<Sgn(d[1]), Sgn(d[2])>>
        across == Sub2(childEdge[1], parentEdge[1])
        perp == Sub2(across, Scaled2(Dot2(across, dHat), dHat))
        nHat == <<Sgn(perp[1]), Sgn(perp[2])>>
        rel == Sub2(p, parentEdge[1])
    IN  [s |-> Dot2(rel, dHat), u |-> Dot2(rel, nHat), long |-> Dot2(d, dHat),
         ba |-> Dot2(perp, nHat), origin |-> parentEdge[1], dHat |-> dHat]

NoZone == [ba |-> 0]
Zone(layout, b, p) ==
    LET parentEdge == TaggedEdge(layout.panels[b.parent], b.id)
        childEdge == TaggedEdge(layout.panels[b.child], b.id)
    IN  IF Nowhere \in {parentEdge, childEdge} THEN NoZone
        ELSE ZoneLocal(p, parentEdge, childEdge)

\* ZoneOutsideDistanceMm, squared.
Outside(z) ==
    LET over(x, most) == Most(Most(-x, x - most), 0)
    IN  over(z.s, z.long) ^ 2 + over(z.u, z.ba) ^ 2

OnPanel(layout, p, at, z) ==
    [ok |-> TRUE, panel |-> p, bend |-> NoBend, point |-> PlacedOn(layout.panels[p], at, z)]
\* ApplyBridgeFold: its start on the parent, to be turned by u of the bend.
OnBridge(layout, b, z) ==
    [ok |-> TRUE, panel |-> "none", bend |-> b.id, u |-> z.u,
     point |-> PlacedOn(layout.panels[b.parent], Add2(z.origin, Scaled2(z.s, z.dHat)), 0)]

NotOnPart == [ok |-> FALSE, code |-> "point not on part"]

\* The second pass: the nearest of all panels and bends within the tolerance.
Nearest(g, layout, p, z) ==
    LET order == PanelOrder(g, layout)
        offPanel == Made([k \in 1 .. Len(order) |-> Off(Flattened(layout.panels[order[k]]), p)])
        zones == Made([k \in Bends(g) |-> Zone(layout, g.bends[k], p)])
        offAll == offPanel \o Made([k \in Bends(g) |->
                        IF zones[k].ba = 0 THEN Nearby + 1 ELSE Outside(zones[k])])
        best == FirstBy(Made([k \in 1 .. Len(offAll) |-> k]), offAll)
        n == Len(order)
    IN  IF offAll[best] > Nearby THEN NotOnPart
        ELSE IF best <= n THEN OnPanel(layout, order[best], p, z)
        ELSE OnBridge(layout, g.bends[best - n], zones[best - n])

MapPointToWorld(g, layout, p, z) ==
    LET panels == SelectSeq(PanelOrder(g, layout),
                            LAMBDA q : Covers(Flattened(layout.panels[q]), p, Exactly))
        bends == SelectSeq(g.bends, LAMBDA b : LET at == Zone(layout, b, p)
                                               IN  at.ba # 0 /\ Outside(at) = 0)
    IN  IF panels # <<>> THEN OnPanel(layout, Head(panels), p, z)
        ELSE IF bends # <<>> THEN OnBridge(layout, Head(bends), Zone(layout, Head(bends), p))
        ELSE Nearest(g, layout, p, z)

\* MapPointToFlat, on a panel: the one whose plane is nearest, the first of
\* them.  A bend takes a point from it only with a smaller residual, so never
\* one that lies in the plane of a panel.
InReach(g, layout, point) ==
    SelectSeq(PanelOrder(g, layout), LAMBDA p :
        /\ Residual(layout.panels[p], point) <= Tolerance
        /\ Covers(Flattened(layout.panels[p]), FlatOn(layout.panels[p], point), Nearby))

\* Mutant: the first panel in reach, whatever its residual.
MapPointToFlatFirst(g, layout, point) ==
    LET near == InReach(g, layout, point)
    IN  IF near = <<>> THEN NotOnPart
        ELSE [ok |-> TRUE, panel |-> Head(near), point |-> FlatOn(layout.panels[Head(near)], point)]
MapPointToFlat(g, layout, point) ==
    LET near == InReach(g, layout, point)
        p == FirstBy(near, [q \in DOMAIN layout.panels |-> Residual(layout.panels[q], point)])
    IN  IF near = <<>> THEN NotOnPart
        ELSE [ok |-> TRUE, panel |-> p, point |-> FlatOn(layout.panels[p], point)]
-----------------------------------------------------------------------------
\* split_by_plane.cc: the regions of the flat pattern on either side of the
\* plane n . p = d of space.

\* ClipPositive: the part of a ring where a * x + b * y >= c (Sutherland and
\* Hodgman), corner by corner; a line is [ab |-> <<a, b>>, c |-> c].
Meeting(line, e) ==
    LET from == Above(line, e[1])
        drop == from - Above(line, e[2])
    IN  <<e[1][1] + Quotient((e[2][1] - e[1][1]) * from, drop),
          e[1][2] + Quotient((e[2][2] - e[1][2]) * from, drop)>>
Corners(line, e) ==
    LET within == Above(line, e[1]) >= 0
    IN  (IF within THEN <<e[1]>> ELSE <<>>)
        \o (IF within # (Above(line, e[2]) >= 0) THEN <<Meeting(line, e)>> ELSE <<>>)
ClipPositive(ring, line) ==
    LET out[i \in 0 .. Len(ring)] ==
          IF i = 0 THEN <<>> ELSE out[i - 1] \o Corners(line, Edge(ring, i))
    IN  IF Len(ring) < 3 THEN <<>> ELSE out[Len(ring)]

\* ComputeSplitByPlane: the fragment of a panel on either side, empty if it
\* would have fewer than three corners.
Fragment(panel, line) ==
    LET ring == ClipPositive(Flattened(panel), line)
    IN  IF Len(ring) < 3 THEN <<>> ELSE ring
Fragments(panel, n, d) ==
    [positive \in BOOLEAN |->
        Fragment(panel, IF positive THEN LineOn(panel, n, d) ELSE Negated(LineOn(panel, n, d)))]
-----------------------------------------------------------------------------
\* Points of the sheet in its flat pattern: the corners of the walls, the
\* centres of the holes in them, and the middles of the bends that are wide
\* enough for the grid.

OnTheWalls(layout) ==
    UNION {{Add2(p, panel.shift) : p \in Range(Points(panel.wall))
                                         \cup {h.center : h \in panel.wallHoles.circles}} :
              panel \in Range(layout.panels)}

Middle(fold) ==
    LET sum == Add2(fold.doubleHinge[1], fold.doubleHinge[2])
    IN  <<sum[1] \div 4, sum[2] \div 4>>
WideBridges(g, layout) ==
    {f \in Range(layout.bridges) :
        /\ \E b \in Range(g.bends) : b.id = f.bend /\ Allowance(b) > 1
        /\ \A p \in {f.parent, f.child} : Cardinality(Bordering(layout.panels[p], f.bend)) = 1}

\* Every point of the walls, and the middle of every bend, has its place in
\* space, the middle on the bend itself, unless a free edge passes for its
\* border; and from a wall back to the pattern and into space
\* again ends at the same place, on whichever panel it is found: the shift of
\* the bend allowances is taken off and put back (MapPointToWorld,
\* MapPointToFlat, PanelShift).
PointsRoundTrip ==
    \A id \in DOMAIN parts :
        LET g == parts[id].graph
            layout == parts[id].layout
            world(p) == MapPointToWorld(g, layout, p, 0)
            back(at) == world(MapPointToFlat(g, layout, at.point).point)
        IN  layout.ok =>
            /\ \A f \in WideBridges(g, layout) : world(Middle(f)).bend = f.bend
            /\ \A p \in OnTheWalls(layout) :
                  \E at \in {world(p)} : at.ok /\ at.bend = NoBend /\ back(at).point = at.point

\* A plane shares out every panel that does not lie in it: the areas of its
\* fragments add up to its own, and every corner of a fragment is, in space,
\* on the side of the plane that the fragment is reported on
\* (ComputeSplitByPlane).
SharesOut(panel, n, d) ==
    LET fragments == Fragments(panel, n, d)
    IN  LineOn(panel, n, d) # [ab |-> <<0, 0>>, c |-> 0] =>
        /\ DoubleArea(fragments[TRUE]) + DoubleArea(fragments[FALSE])
              = DoubleArea(Points(panel.raw))
        /\ \A p \in Range(fragments[TRUE]) : Dot3(n, PlacedOn(panel, p, 0)) >= d
        /\ \A p \in Range(fragments[FALSE]) : Dot3(n, PlacedOn(panel, p, 0)) <= d

Planes == {<<1, 0, 0>>, <<0, 1, 0>>, <<0, 0, 1>>} \X {5, 12}
PlanesShareOut ==
    \A id \in DOMAIN parts :
        \A panel \in Range(parts[id].layout.panels), plane \in Planes :
            SharesOut(panel, plane[1], plane[2])
=============================================================================
