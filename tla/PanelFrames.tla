----------------------------- MODULE PanelFrames -----------------------------
(***************************************************************************)
(* A bend and the frames of the panels on either side of it                *)
(* (src/cpp/src/geometry/translation/manufacturing_graph_evaluator.cc,     *)
(* point_mapping.cc and split_by_plane.cc): where its axes are, how it     *)
(* takes the pose of its parent to that of its child, and how a point or a *)
(* plane of space is seen on a panel.                                      *)
(*                                                                         *)
(* A bend turns by a quarter, so tan(angle / 2) is its sign; the quarter   *)
(* arc of radius 1 is taken as the unit of the bend allowance, which only  *)
(* shifts the flat pattern.                                                *)
(***************************************************************************)
EXTENDS FlatFrame

\* BottomIsConcave, BottomRadiusMm and ComputeBendGeometry, of a bend.
BottomIsConcave(b) == IF b.concave = "unset" THEN b.turns < 0 ELSE b.concave = "yes"
BottomRadius(b, thickness) == IF BottomIsConcave(b) THEN b.radius ELSE b.radius + thickness
Allowance(b) == b.radius

\* Mutant: the setback is taken without its sign.
SetbackUnsigned(b) == b.radius
\* How far in the plane the true axis is from the hinge: signed.
Setback(b) == (IF BottomIsConcave(b) THEN b.radius ELSE -b.radius) * b.turns
Offset(b, hinge) == Scaled2(Setback(b), NLeft(hinge[1], hinge[2]))

\* How high the axis is that the child turns about, and that of the arc.
SharpZ(b, thickness) == IF BottomIsConcave(b) THEN 0 ELSE thickness
PivotZ(b, thickness) ==
    IF BottomIsConcave(b) THEN -BottomRadius(b, thickness) ELSE BottomRadius(b, thickness)
-----------------------------------------------------------------------------
\* The bend of a part that is rerooted, and of one that is flipped.

\* Mutant: the hinge keeps its direction.
Reversed(b) == [b EXCEPT !.parent = b.child, !.child = b.parent]
\* The bend seen from its child: the hinge turns with it.
Swapped(b) == [b EXCEPT !.parent = b.child, !.child = b.parent, !.a = b.b, !.b = b.a]

SwappedOn(bends, path) ==
    [i \in 1 .. Len(bends) |-> IF i \in path THEN Swapped(bends[i]) ELSE bends[i]]

\* Mirror the flat frame, turn the sheet over: the same solid, its outside in.
Mirrored(p) == <<-p[1], p[2]>>
TurnedOver(thickness) ==
    [r |-> <<<<-1, 0, 0>>, <<0, 1, 0>>, <<0, 0, -1>>>>, t |-> <<0, 0, thickness>>]

OutsideIn(b) == IF BottomIsConcave(b) THEN "no" ELSE "yes"
\* Mutant: the hinge keeps its direction.
FlippedHingeKept(b) ==
    [b EXCEPT !.a = Mirrored(b.a), !.b = Mirrored(b.b), !.turns = -b.turns,
              !.concave = OutsideIn(b)]
Flipped(b) ==
    [b EXCEPT !.a = Mirrored(b.b), !.b = Mirrored(b.a), !.turns = -b.turns,
              !.concave = OutsideIn(b)]
FlippedAll(bends) == [i \in 1 .. Len(bends) |-> Flipped(bends[i])]
-----------------------------------------------------------------------------
\* The direction of a hinge, in space; the motion of the child about it.
Axis(pose, hinge, z) ==
    Normalize3(Sub3(Apply(pose, At(hinge[2], z)), Apply(pose, At(hinge[1], z))))
WorldFold(b, thickness, hinge, parentPose) ==
    LET z == SharpZ(b, thickness)
    IN  RotationAboutAxis(Apply(parentPose, At(hinge[1], z)), Axis(parentPose, hinge, z), b.turns)

\* The bridge of a bend, its child's pose and its child's share of the flat
\* pattern, from those of its parent.  The hinge for space is the one on the
\* ring; the hinge reported keeps the span the part was authored with.
Folded(g, b, hinge, parentPose, parentShift) ==
    LET allowance == Scaled2(Allowance(b), NLeft(hinge[1], hinge[2]))
        pivots == <<Add2(hinge[1], Offset(b, hinge)), Add2(hinge[2], Offset(b, hinge))>>
        pivotZ == PivotZ(b, g.thickness)
        half(p) == Add2(Scaled2(2, Add2(p, parentShift)), allowance)
    IN  [bend |-> b.id, parent |-> b.parent, child |-> b.child, turns |-> b.turns,
         origin |-> Apply(parentPose, At(pivots[1], pivotZ)),
         axis |-> Axis(parentPose, pivots, pivotZ),
         doubleHinge |-> <<half(b.a), half(b.b)>>,
         childPose |-> Compose(WorldFold(b, g.thickness, hinge, parentPose), parentPose),
         childShift |-> Add2(parentShift, allowance)]
-----------------------------------------------------------------------------
\* How the poses of a part hang together: each child's is the fold of its
\* parent's, and every panel is reached from the root.  No set of panels that
\* holds the root and the child of each of its panels leaves one out.
PosedBy(bends, thickness, hinges, pose) ==
    \A i \in 1 .. Len(bends) :
        pose[bends[i].child]
          = Compose(WorldFold(bends[i], thickness, hinges[i], pose[bends[i].parent]),
                    pose[bends[i].parent])
Reached(bends, Panel, root) ==
    \A S \in SUBSET Panel :
        /\ root \in S
        /\ \A i \in 1 .. Len(bends) : bends[i].parent \in S => bends[i].child \in S
        => S = Panel

\* The hinges of the bends that a reroot swaps, and of all when a part is
\* turned over.
Backwards(h) == <<h[2], h[1]>>
BackwardsOn(hinges, path) ==
    [i \in DOMAIN hinges |-> IF i \in path THEN Backwards(hinges[i]) ELSE hinges[i]]
HingeFlipped(h) == <<Mirrored(h[2]), Mirrored(h[1])>>
HingesFlipped(hinges) == [i \in DOMAIN hinges |-> HingeFlipped(hinges[i])]
-----------------------------------------------------------------------------
\* A panel has its region in three frames: raw, as cut from the outline;
\* flat, moved by the bend allowances before it; and in space.

\* Where a panel takes a point of the flat pattern.
PlacedOn(panel, p, z) == Apply(panel.pose, At(Sub2(p, panel.shift), z))

\* A point of space, as the panel has it.
LocalOn(panel, point) == Apply(Inverse3(panel.pose), point)
FlatOn(panel, point) ==
    LET local == LocalOn(panel, point) IN Add2(<<local[1], local[2]>>, panel.shift)
Residual(panel, point) ==
    LET z == LocalOn(panel, point)[3] IN Most(z, -z)

\* The line in which the plane n . p = d meets a panel, in the frame of the
\* flat pattern; a line is [ab |-> <<a, b>>, c |-> c], where a * x + b * y = c.
\* Mutant: in the frame of the outline.
LineUnshifted(panel, n, d) ==
    [ab |-> <<Dot3(n, Column(panel.pose, 1)), Dot3(n, Column(panel.pose, 2))>>,
     c |-> d - Dot3(n, panel.pose.t)]
LineOn(panel, n, d) ==
    LET ab == <<Dot3(n, Column(panel.pose, 1)), Dot3(n, Column(panel.pose, 2))>>
    IN  [ab |-> ab, c |-> d - Dot3(n, panel.pose.t) + Dot2(ab, panel.shift)]

Above(line, p) == Dot2(line.ab, p) - line.c
Negated(line) == [ab |-> Scaled2(-1, line.ab), c |-> -line.c]
-----------------------------------------------------------------------------
\* What keeps to the grid: points, the poses that take axes to axes, by the
\* rows of their rotations, bends by a quarter about hinges along an axis, and
\* panels whose edges are.

Plane == Int \X Int
Space == Int \X Int \X Int
Units == {<<1, 0, 0>>, <<-1, 0, 0>>, <<0, 1, 0>>, <<0, -1, 0>>, <<0, 0, 1>>, <<0, 0, -1>>}
Rotations ==
    {r \in Units \X Units \X Units : Dot3(r[1], r[2]) = 0 /\ r[3] = Cross3(r[1], r[2])}
Poses == [r : Rotations, t : Space]

AlongAnAxis(e) == e[1][1] = e[2][1] \/ e[1][2] = e[2][2]
Hinges == {h \in Plane \X Plane : h[1] # h[2] /\ (h[1][1] = h[2][1] \/ h[1][2] = h[2][2])}
BendsOf(Id, Panel) ==
    [id : Id, parent : Panel, child : Panel, a : Plane, b : Plane, turns : {1, -1},
     radius : Nat, concave : {"unset", "yes", "no"}]

OnTheGrid(panel) ==
    /\ panel.pose \in Poses /\ panel.shift \in Plane
    /\ panel.raw \in Seq([point : Plane, bend : Int, step : BOOLEAN])
    /\ \A i \in 1 .. Len(panel.raw) :
          AlongAnAxis(<<panel.raw[i].point, panel.raw[After(i, Len(panel.raw))].point>>)
=============================================================================
