----------------------------- MODULE Workpieces -----------------------------
(***************************************************************************)
(* Parts that are taken apart at their bends and joined at their seams:    *)
(* split_part_at_bend, split_part_by_bends, merge_bodies_with_bend and     *)
(* cut_panel of src/ts/src/v2/graph/evaluate-client.ts over the geometry   *)
(* of PartEvaluator and PartJoin.  A part is kept with its evaluated       *)
(* layout, which the code computes again wherever it needs it.             *)
(***************************************************************************)
EXTENDS PartJoin

CONSTANTS Radii,      \* the inner radii a bend may have
          Thicknesses,
          WorkRadii,  \* bound: of the parts that calls are made on
          MaxCalls    \* bound: calls after the parts were made

VARIABLES parts,      \* part id -> [graph, layout]
          calls

vars == <<parts, calls>>

Evaluated(g) == [graph |-> g, layout |-> Evaluate(g)]
-----------------------------------------------------------------------------
\* The sheets the parts are cut from: squares of side 10 and their bends.

Hinge(id, parent, child, a, b) ==
    [id |-> id, parent |-> parent, child |-> child, a |-> a, b |-> b]

Square(x, y) == <<<<x, y>>, <<x + 2, y>>, <<x + 2, y + 2>>, <<x, y + 2>>>>
Bore(x, y) == [center |-> <<x, y>>, radius |-> 1]

Strip ==
    [outline |-> <<<<0, 0>>, <<30, 0>>, <<30, 10>>, <<0, 10>>>>,
     polygonHoles |-> {Square(3, 4)}, circleHoles |-> {Bore(15, 5)},
     bends |-> <<Hinge(1, "west", "mid", <<10, 12>>, <<10, -2>>),
                 Hinge(2, "mid", "east", <<20, 10>>, <<20, 0>>)>>]
Corner ==
    [outline |-> <<<<0, 0>>, <<10, 0>>, <<20, 0>>, <<20, 10>>, <<10, 10>>, <<10, 20>>, <<0, 20>>,
                   <<0, 10>>>>,
     polygonHoles |-> {Square(3, 4)}, circleHoles |-> {Bore(5, 15)},
     bends |-> <<Hinge(1, "mid", "east", <<10, 10>>, <<10, 0>>),
                 Hinge(2, "mid", "north", <<0, 10>>, <<10, 10>>)>>]
Tee ==
    [outline |-> <<<<0, 0>>, <<30, 0>>, <<30, 10>>, <<20, 10>>, <<20, 20>>, <<10, 20>>, <<10, 10>>,
                   <<0, 10>>>>,
     polygonHoles |-> {Square(14, 14)}, circleHoles |-> {Bore(5, 5)},
     bends |-> <<Hinge(1, "wide", "flap", <<8, 10>>, <<22, 10>>)>>]
Cross ==
    [outline |-> <<<<10, 0>>, <<20, 0>>, <<20, 10>>, <<30, 10>>, <<30, 20>>, <<20, 20>>, <<20, 30>>,
                   <<10, 30>>, <<10, 20>>, <<0, 20>>, <<0, 10>>, <<10, 10>>>>,
     polygonHoles |-> {}, circleHoles |-> {Bore(15, 15), Bore(25, 15)},
     bends |-> <<Hinge(1, "mid", "north", <<10, 20>>, <<20, 20>>),
                 Hinge(2, "mid", "east", <<20, 20>>, <<20, 10>>),
                 Hinge(3, "mid", "south", <<20, 10>>, <<10, 10>>),
                 Hinge(4, "mid", "west", <<10, 10>>, <<10, 20>>)>>]

Sheets == {Strip, Corner, Tee, Cross}

\* A sheet as a part: folded by turns, of one radius, from one root, with its
\* holes or without.
Bent(h, turns, radius) ==
    [id |-> h.id, parent |-> h.parent, child |-> h.child, a |-> h.a, b |-> h.b,
     turns |-> turns, radius |-> radius, concave |-> "unset"]
PartOf(sheet, turns, radius, thickness, root, holed) ==
    LET bends == Made([i \in 1 .. Len(sheet.bends) |-> Bent(sheet.bends[i], turns[i], radius)])
    IN  [root |-> root, outline |-> sheet.outline,
         bends |-> RerootAt(bends, sheet.bends[1].parent, root),
         thickness |-> thickness, anchor |-> Identity,
         polygonHoles |-> IF holed THEN sheet.polygonHoles ELSE {},
         circleHoles |-> IF holed THEN sheet.circleHoles ELSE {}]

Folds(n) == IF n > 2 THEN {[i \in 1 .. n |-> t] : t \in {1, -1}} ELSE [1 .. n -> {1, -1}]

Init ==
    /\ calls = 0
    /\ \E sheet \in Sheets, radius \in Radii, thickness \in Thicknesses :
       \E turns \in Folds(Len(sheet.bends)), holed \in BOOLEAN,
          root \in UNION {{b.parent, b.child} : b \in Range(sheet.bends)} :
             parts = [id \in {1} |-> Evaluated(PartOf(sheet, turns, radius, thickness, root, holed))]
-----------------------------------------------------------------------------
\* splitPartAtBend, and the safety net after it: both parts must evaluate,
\* with every bend's zone on the walls of both its panels.

HasZoneEdge(layout, p, bend) ==
    LET wall == layout.panels[p].wall
    IN  \E i \in 1 .. Len(wall) :
            /\ wall[i].bend = bend /\ ~ wall[i].step
            /\ wall[i].point # wall[After(i, Len(wall))].point

Grounds(layout) ==
    /\ layout.ok
    /\ \A f \in Range(layout.bridges) :
          HasZoneEdge(layout, f.parent, f.bend) /\ HasZoneEdge(layout, f.child, f.bend)

\* The parts after a split of part id, with its new part's id; the old parts
\* where the split fails.
Unsplittable(all) == [ok |-> FALSE, parts |-> all]

Separated(all, id, newId, old, new) ==
    IF ~ Grounds(old.layout) \/ ~ Grounds(new.layout) THEN Unsplittable(all)
    ELSE [ok |-> TRUE, child |-> newId,
          parts |-> Beside([n \in {id} |-> old], Beside([n \in {newId} |-> new], all))]

\* The elements of a sequence at some indices, in their order.
Picked(s, K) ==
    LET upTo[i \in 0 .. Len(s)] ==
            IF i = 0 THEN <<>>
            ELSE IF i \in K THEN Append(upTo[i - 1], s[i]) ELSE upTo[i - 1]
    IN  upTo[Len(s)]

\* The least number that is not taken.
Fresh(taken) ==
    CHOOSE n \in 1 .. Cardinality(taken) + 1 : n \notin taken /\ \A k \in 1 .. n - 1 : k \in taken

\* Bend i goes; what hangs from its child is the new part's.
CutApart(all, id, i, cut) ==
    LET g == all[id].graph
        child == g.bends[i].child
        rest == Bends(g) \ {i}
        moved == Below({child}, Picked(g.bends, rest))
        kept == {k \in rest : g.bends[k].parent \notin moved}
    IN  IF ~ cut.ok THEN Unsplittable(all)
        ELSE Separated(all, id, Fresh(DOMAIN all),
                Evaluated([g EXCEPT !.outline = cut.parent, !.bends = Picked(@, kept)]),
                Evaluated([g EXCEPT !.outline = cut.child, !.root = child,
                                    !.bends = Picked(@, rest \ kept),
                                    !.anchor = all[id].layout.panels[child].pose]))

Pieces(all, id, i, keep) ==
    LET g == all[id].graph
        b == g.bends[i]
    IN  IF ~ all[id].layout.ok \/ g.polygonHoles # {} \/ g.circleHoles # {} THEN Unsplittable(all)
        ELSE CutApart(all, id, i,
                SplitOutline(b, g.thickness, keep, Points(all[id].layout.panels[b.child].raw),
                             GroundLine(g.outline, b.a, b.b)))

SplitPartAtBend(id, i, keep) ==
    \E split \in {Pieces(parts, id, i, keep)} : split.ok /\ parts' = split.parts

\* splitPartByAllBends: first bend first, both pieces back on the worklist;
\* the first failure restores the parts.
OnTheWorklist(split, work) ==
    [ok |-> split.ok, parts |-> split.parts,
     work |-> IF split.ok THEN Append(work, split.child) ELSE work]

\* A part of n bends is split n times and n + 1 pieces come off the worklist.
AllPieces(id, keep) ==
    LET most == 2 * Len(parts[id].graph.bends) + 1
        done[k \in 0 .. most] ==
            IF k = 0 THEN [ok |-> TRUE, parts |-> parts, work |-> <<id>>]
            ELSE LET d == done[k - 1]
                 IN  IF ~ d.ok \/ d.work = <<>> THEN d
                     ELSE IF d.parts[Last(d.work)].graph.bends = <<>>
                     THEN [d EXCEPT !.work = Front(@)]
                     ELSE OnTheWorklist(Pieces(d.parts, Last(d.work), 1, keep), d.work)
    IN  done[most]
SplitPartByAllBends(id, keep) ==
    \E split \in {AllPieces(id, keep)} :
        split.ok /\ split.parts # parts /\ parts' = split.parts
-----------------------------------------------------------------------------
\* mergePartsWithBend, along a seam the caller picks where there are several.

Carried(b, r) ==
    [b EXCEPT !.a = Placed(@, r.edgeB, r.edgeA), !.b = Placed(@, r.edgeB, r.edgeA)]
Moved(g, r) ==
    LET to(p) == Placed(p, r.edgeB, r.edgeA)
    IN  [g EXCEPT !.bends = Made([i \in 1 .. Len(@) |-> Carried(@[i], r)]),
                  !.polygonHoles = {Made([i \in 1 .. Len(h) |-> to(h[i])]) : h \in @},
                  !.circleHoles = {[h EXCEPT !.center = to(@)] : h \in @}]

\* Mutant: B's bends stay rooted where they were.
BendsOfBothAsTheyWere(A, B, seam) == A.bends \o B.bends
\* B's tree hangs from the seam: rerooted at the panel the seam is on.
BendsOfBoth(A, B, seam) == A.bends \o RerootAt(B.bends, B.root, seam.b)

\* The bend of a seam, with an id that no bend of any part has.
SeamBend(seam, hinge, radius) ==
    LET ids == UNION {{c.id : c \in Range(parts[id].graph.bends)} : id \in DOMAIN parts}
    IN  [id |-> Fresh(ids), parent |-> seam.a, child |-> seam.b, a |-> hinge[1], b |-> hinge[2],
         turns |-> seam.turns, radius |-> radius, concave |-> "unset"]

Joined(A, C, seam, r, radius) ==
    [A EXCEPT !.outline = r.outline,
              !.bends = Append(BendsOfBoth(A, C, seam), SeamBend(seam, r.hinge, radius)),
              !.polygonHoles = @ \cup C.polygonHoles,
              !.circleHoles = @ \cup C.circleHoles]

MergePartsWithBend(a, b, radius) ==
    LET A == parts[a].graph
    IN  \E seam \in DetectContact(A.outline, parts[a].layout.panels,
                                  parts[b].graph.outline, parts[b].layout.panels) :
        \E B \in {IF seam.flipped THEN FlipPart(parts[b].graph) ELSE parts[b].graph} :
        \E r \in {ReconcileOutlines(A.outline, seam.aStart, seam.aEnd,
                                    B.outline, seam.bStart, seam.bEnd)} :
            /\ r.ok
            \* Bound: two corners that count as one may lie askew; such a seam
            \* would turn part B by a few degrees and leave the grid of FlatFrame.
            /\ AlongAnAxis(r.edgeA) /\ AlongAnAxis(r.edgeB)
            /\ parts' = [id \in DOMAIN parts \ {b} |->
                           IF id = a THEN Evaluated(Joined(A, Moved(B, r), seam, r, radius))
                           ELSE parts[id]]
-----------------------------------------------------------------------------
\* cutPanel: the hole goes to the first panel it fits in, of all panels or of
\* the one the caller names.  A hole cut twice in one place counts as one.

\* The panels in the order Evaluate lists them.
PanelOrder(g, layout) ==
    <<g.root>> \o Made([i \in 1 .. Len(layout.bridges) |-> layout.bridges[i].child])

\* regionOuter: the panel's region where the flat pattern has it.
Flattened(panel) ==
    Made([i \in 1 .. Len(panel.raw) |-> Add2(panel.raw[i].point, panel.shift)])

Clockwise(ring) == IF DoubleArea(ring) > 0 THEN Reverse(ring) ELSE ring

\* The panels a hole fits in; the first of them gets it.
CircleTargets(id, hole, named) ==
    SelectSeq(PanelOrder(parts[id].graph, parts[id].layout), LAMBDA p :
        p \in named /\ CircleFullyInsidePolygon(hole, Flattened(parts[id].layout.panels[p])))
PolygonTargets(id, ring, named) ==
    SelectSeq(PanelOrder(parts[id].graph, parts[id].layout), LAMBDA p :
        p \in named /\ RingFullyInsidePolygon(ring, Flattened(parts[id].layout.panels[p])))

CutCircle(id, hole, named) ==
    /\ CircleTargets(id, hole, named) # <<>>
    /\ parts' = [parts EXCEPT ![id] =
                    Evaluated([parts[id].graph EXCEPT !.circleHoles = @ \cup {hole}])]
CutPolygon(id, ring, named) ==
    /\ PolygonTargets(id, Clockwise(ring), named) # <<>>
    /\ parts' = [parts EXCEPT ![id] =
                    Evaluated([parts[id].graph EXCEPT !.polygonHoles = @ \cup {Clockwise(ring)}])]

\* Bound: the holes that are cut.
Drills == {Bore(30, 5), Bore(15, 15)}

\* The panels a cut is looked for in.
Searched(id) ==
    {DOMAIN parts[id].layout.panels} \cup {{p} : p \in DOMAIN parts[id].layout.panels}

Workable(g) == \A b \in Range(g.bends) : b.radius \in WorkRadii

\* Joining a part with itself changes nothing (FoldGraph, Saved): a # b.
Next ==
    /\ calls < MaxCalls
    /\ calls' = calls + 1
    /\ \A id \in DOMAIN parts : Workable(parts[id].graph)
    /\ \/ \E id \in DOMAIN parts, keep \in {"parent", "child"} :
            \/ \E i \in Bends(parts[id].graph) : SplitPartAtBend(id, i, keep)
            \/ SplitPartByAllBends(id, keep)
       \/ \E a \in DOMAIN parts, b \in DOMAIN parts, radius \in WorkRadii :
            /\ a # b /\ parts[a].layout.ok /\ parts[b].layout.ok
            /\ MergePartsWithBend(a, b, radius)
       \/ \E id \in {n \in DOMAIN parts : parts[n].layout.ok} :
            \E named \in Searched(id) :
              \/ \E hole \in Drills : CutCircle(id, hole, named)
              \/ CutPolygon(id, Square(14, 4), named)

Spec == Init /\ [][Next]_vars
-----------------------------------------------------------------------------
\* Where a panel is in space: the corners of its raw region and the centres
\* and corners of its holes, on both faces.

Solid(thickness, panel) ==
    LET flat == Range(Points(panel.raw)) \cup {h.center : h \in panel.rawHoles.circles}
                \cup UNION {Range(h) : h \in panel.rawHoles.polygons}
    IN  {Apply(panel.pose, At(p, z)) : p \in flat, z \in {0, thickness}}
Solids(g, layout) == [p \in DOMAIN layout.panels |-> Solid(g.thickness, layout.panels[p])]


\* No outline, hinge or anchor leaves the grid (SplitPartAtBend,
\* ReconcileOutlines, EnsureHingeVertices).
PartsOnTheGrid == \A id \in DOMAIN parts : GraphOnTheGrid(parts[id].graph)

\* The raw regions of a part share out its outline, none overlapping another:
\* their areas add up, each is bounded by exactly the bends that touch the
\* panel, every hole is cut in exactly one of them, and no edge or pose leaves
\* the grid either (BuildCutEdges, ExtractLoop, RegionOf).
RegionsTile ==
    /\ PartsOnTheGrid
    /\ \A id \in DOMAIN parts :
           LET g == parts[id].graph
               panels == parts[id].layout.panels
               area(p) == DoubleArea(Points(panels[p].raw))
           IN  /\ FoldSet(LAMBDA p, sum : sum + area(p), 0, DOMAIN panels) = DoubleArea(g.outline)
               /\ \A p \in DOMAIN panels : OnTheGrid(panels[p])
               /\ \A p \in DOMAIN panels :
                     {v.bend : v \in Range(panels[p].raw)} \ {NoBend}
                         = {b.id : b \in {c \in Range(g.bends) : p \in {c.parent, c.child}}}
               /\ \A h \in g.circleHoles :
                     Cardinality({p \in DOMAIN panels : h \in panels[p].rawHoles.circles}) = 1
               /\ \A h \in g.polygonHoles :
                     Cardinality({p \in DOMAIN panels : h \in panels[p].rawHoles.polygons}) = 1

\* Sweeping a bend's zone edge of the parent's wall about the bend's axis
\* brings it onto the child's: the walls are trimmed by the same setback, on
\* the side the bend's sign says, that the bend's arc takes up (Setback in
\* BuildBendCuts against the axis in Evaluate).
ZoneEdges(panel, bend) ==
    {Edge(Points(panel.wall), i) : i \in {j \in 1 .. Len(panel.wall) :
        /\ panel.wall[j].bend = bend /\ ~ panel.wall[j].step
        /\ panel.wall[j].point # panel.wall[After(j, Len(panel.wall))].point}}
Collinear3(p, q, r) == Cross3(Sub3(q, p), Sub3(r, p)) = <<0, 0, 0>>
BridgesMeetTheWalls ==
    \A id \in DOMAIN parts :
        LET layout == parts[id].layout
        IN  \A f \in Range(layout.bridges) :
            LET swept == RotationAboutAxis(f.origin, f.axis, f.turns)
                parent == layout.panels[f.parent]
                child == layout.panels[f.child]
            IN  \A e \in ZoneEdges(parent, f.bend), h \in ZoneEdges(child, f.bend),
                   z \in {0, parts[id].graph.thickness}, k \in {1, 2} :
                  Collinear3(Apply(child.pose, At(h[1], z)), Apply(child.pose, At(h[2], z)),
                             Apply(swept, Apply(parent.pose, At(e[k], z))))

\* A tree of panels, each where the fold of its parent puts it.
Hangs(g, layout) ==
    LET pose == [p \in DOMAIN layout.panels |-> layout.panels[p].pose]
    IN  /\ Reached(g.bends, DOMAIN pose, g.root)
        /\ PosedBy(g.bends, g.thickness, EnsureHingeVertices(g).hinges, pose)

\* Whatever was split, rerooted and merged, the bends of a part are a tree of
\* panels that no other part has, and where the part can be laid out every
\* panel is where the fold of its parent puts it.
PartsAreTrees ==
    /\ \A id \in DOMAIN parts :
          /\ ValidateTree(parts[id].graph) = "none"
          /\ parts[id].layout.ok => Hangs(parts[id].graph, parts[id].layout)
    /\ \A id, other \in DOMAIN parts :
          id # other => Panels(parts[id].graph) \cap Panels(parts[other].graph) = {}

\* And ConstructPartSolid can build it: no region is malformed, and every bend
\* has its zone on both walls (mergePartsWithBend has no such check;
\* splitPartAtBend does).
PartsStayBuildable ==
    PartsAreTrees /\ \A id \in DOMAIN parts : Grounds(parts[id].layout)

\* A part rooted at another panel and anchored where that panel is: its bends
\* turn about the same lines and every panel lies where it lay.
Rerooted(g, p, anchor) ==
    [g EXCEPT !.root = p, !.bends = RerootAt(@, g.root, p), !.anchor = anchor]
RerootedInPlace(g, layout, p, rerooted, after) ==
    /\ ValidateTree(rerooted) = "none"
    /\ EnsureHingeVertices(rerooted).hinges
         = BackwardsOn(EnsureHingeVertices(g).hinges, PathUp(g.bends, g.root, p))
    /\ after.ok =>
         /\ Hangs(rerooted, after)
         /\ DOMAIN after.panels = DOMAIN layout.panels
         /\ \A q \in DOMAIN after.panels : after.panels[q].pose = layout.panels[q].pose
Rebuilt(g, layout, p, rerooted, after) ==
    /\ RerootedInPlace(g, layout, p, rerooted, after)
    /\ Grounds(layout) => Grounds(after)
    /\ Solids(rerooted, after) = Solids(g, layout)

\* Which panel a part is rooted at changes nothing in space: rerooted at any
\* panel, anchored where that panel is, its bends turn about the same lines,
\* every panel lies where it lay, the part still can be built, and no corner
\* or hole has moved (RerootAt; evaluator.hpp says "the bend angle is
\* unchanged").
RerootKeepsTheSolids ==
    \A id \in DOMAIN parts :
        LET g == parts[id].graph
            layout == parts[id].layout
        IN  \A p \in DOMAIN layout.panels :
            LET rerooted == Rerooted(g, p, layout.panels[p].pose)
            IN  Rebuilt(g, layout, p, rerooted, Evaluate(rerooted))

\* A part turned over: each bend turns about the line it turned about, and each
\* panel frame is turned over in place.
FlippedInPlace(g, layout, flipped, after) ==
    /\ EnsureHingeVertices(flipped).hinges = HingesFlipped(EnsureHingeVertices(g).hinges)
    /\ after.ok =>
         /\ Hangs(flipped, after)
         /\ DOMAIN after.panels = DOMAIN layout.panels
         /\ \A q \in DOMAIN after.panels :
              after.panels[q].pose = Compose(layout.panels[q].pose, TurnedOver(g.thickness))
RebuiltOver(g, layout, flipped, after) ==
    /\ FlippedInPlace(g, layout, flipped, after)
    /\ Solids(flipped, after) = Solids(g, layout)

\* FlipPart turns the sheet over and leaves the solid where it is, panel by
\* panel and hole by hole, each bend about the line it turned about.
FlipKeepsTheSolids ==
    \A id \in {n \in DOMAIN parts : parts[n].layout.ok} :
        LET g == parts[id].graph
        IN  RebuiltOver(g, parts[id].layout, FlipPart(g), Evaluate(FlipPart(g)))

\* Splitting and merging lose no panel, make none, and move none by more than
\* the contact tolerance, though trees, outlines, roots, anchors, hinges and
\* the angle of the new bend are all computed anew (mergePartsWithBend,
\* splitPartAtBend).
AllPanels == UNION {Panels(parts[id].graph) : id \in DOMAIN parts}
Lowest(points) == [k \in 1 .. 3 |-> CHOOSE x \in {p[k] : p \in points} : \A p \in points : x <= p[k]]
Highest(points) == [k \in 1 .. 3 |-> CHOOSE x \in {p[k] : p \in points} : \A p \in points : x >= p[k]]
Boxes ==
    UNION {LET s == Solids(parts[id].graph, parts[id].layout)
           IN  {<<p, Lowest(s[p]), Highest(s[p])>> : p \in DOMAIN s} : id \in DOMAIN parts}
PanelsStayPut ==
    [][/\ AllPanels' = AllPanels
       /\ \A old \in Boxes, new \in Boxes' :
             old[1] = new[1] =>
               \A k \in 1 .. 3 : /\ new[2][k] - old[2][k] \in -Tolerance .. Tolerance
                                 /\ new[3][k] - old[3][k] \in -Tolerance .. Tolerance]_vars

\* A hole goes to the panel that cut_panel answers, whole, and to no other
\* panel: cut_panel.integration.test.ts has "a hole in a bent part is assigned
\* to the correct region panel only" (candidateRegions in cutPanel against the
\* raw regions that RegionOf looks for holes in).
HolesLandWhereTold ==
    [][\A id \in {n \in DOMAIN parts : parts[n].layout.ok}, hole \in Drills :
         \A named \in Searched(id) :
            CutCircle(id, hole, named) =>
              \A p \in DOMAIN parts'[id].layout.panels :
                 hole \in parts'[id].layout.panels[p].rawHoles.circles
                   <=> p = Head(CircleTargets(id, hole, named))]_vars
=============================================================================
