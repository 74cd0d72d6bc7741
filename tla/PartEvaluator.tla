---------------------------- MODULE PartEvaluator ----------------------------
(***************************************************************************)
(* The manufacturing graph evaluator                                       *)
(* (src/cpp/src/geometry/translation/manufacturing_graph_evaluator.cc):    *)
(* a part is a flat outline and a tree of bends; Evaluate cuts the outline *)
(* into the region of every panel and folds the panels into space.         *)
(***************************************************************************)
EXTENDS PanelFrames

NoBend == 0                          \* the tag of an edge on no bend

-----------------------------------------------------------------------------
\* EnsureHingeVertices: the hinge of every bend, on vertices of the ring.

Crossings(ring, a, b) ==
    {i \in 1 .. Len(ring) : LET e == Edge(ring, i)
                            IN  Side(a, b, e[1]) * Side(a, b, e[2]) < 0}

CrossingPoint(ring, i, a, b) ==
    LET e == Edge(ring, i) IN LineIntersect2(e[1], Sub2(e[2], e[1]), a, Sub2(b, a))

\* The vertices on the hinge's own line, within its span.
OnLine(ring, a, b) == {i \in 1 .. Len(ring) : OnSegment(ring[i], a, b)}

Ordered(p, q, a) == IF NearerFirst(p, q, a) THEN <<p, q>> ELSE <<q, p>>

\* A pair of indices, the smaller first.
Pair(S) == LET i == CHOOSE i \in S : \A j \in S : i <= j IN <<i, CHOOSE j \in S : j # i>>

Grounded(ring, a, b) ==
    LET iA == FirstAt(ring, a)
        iB == FirstAt(ring, b)
        across == Crossings(ring, a, b)
        along  == OnLine(ring, a, b)
    IN  IF iA # 0 \/ iB # 0 THEN [ring |-> ring, hinge |-> <<a, b>>]
        ELSE IF Cardinality(across) = 2
        THEN LET i == Pair(across)
                 p == CrossingPoint(ring, i[1], a, b)
                 q == CrossingPoint(ring, i[2], a, b)
             IN  [ring |-> InsertAfter(InsertAfter(ring, i[2], q), i[1], p),
                  hinge |-> Ordered(p, q, a)]
        ELSE IF Cardinality(along) = 2
        THEN LET i == Pair(along)
             IN  [ring |-> ring, hinge |-> Ordered(ring[i[1]], ring[i[2]], a)]
        ELSE [ring |-> ring, hinge |-> <<a, b>>]

\* One bend after the other: the ring of a later one has the vertices of the
\* earlier.
EnsureHingeVertices(g) ==
    LET ground(acc, found) ==
            [ring |-> found.ring, hinges |-> Append(acc.hinges, found.hinge)]
        upTo[k \in 0 .. Len(g.bends)] ==
            IF k = 0 THEN [ring |-> g.outline, hinges |-> <<>>]
            ELSE ground(upTo[k - 1], Grounded(upTo[k - 1].ring, g.bends[k].a, g.bends[k].b))
    IN  upTo[Len(g.bends)]
-----------------------------------------------------------------------------
\* BuildBendCuts: the strip that each bend takes out of the outline.  The
\* indices iA and iB are 0 where the hinge is on no vertex.

BuildBendCuts(g, grounded, zeroOffset) ==
    Made([i \in 1 .. Len(g.bends) |->
        LET b == g.bends[i]
            a0 == grounded.hinges[i][1]
            b0 == grounded.hinges[i][2]
            shift == IF zeroOffset THEN <<0, 0>> ELSE Offset(b, grounded.hinges[i])
        IN  [id |-> b.id, parent |-> b.parent, child |-> b.child, a |-> a0, b |-> b0,
             childA |-> Sub2(a0, shift), childB |-> Sub2(b0, shift),
             parentA |-> Add2(a0, shift), parentB |-> Add2(b0, shift),
             iA |-> FirstAt(grounded.ring, a0), iB |-> FirstAt(grounded.ring, b0)]])

\* S and all that hangs from it: the least set closed under the bends.
Below(S, bends) ==
    LET all == S \cup {bends[i].child : i \in 1 .. Len(bends)}
        closed == {T \in SUBSET all : /\ S \subseteq T
                                      /\ \A i \in 1 .. Len(bends) :
                                            bends[i].parent \in T => bends[i].child \in T}
    IN  {p \in all : \A T \in closed : p \in T}

InOpenForwardArc(i, iA, iB, n) ==
    /\ i # iA /\ i # iB
    /\ (i + n - iA) % n < (iB + n - iA) % n

\* Whether walking the ring forward from hinge point A meets the child: told
\* by another bend on the way, else by where the vertices on the way lie.
ForwardFromAIsChild(ring, cuts, c) ==
    LET n == Len(ring)
        cut == cuts[c]
        met == {d \in 1 .. Len(cuts) \ {c} :
                   \E i \in {cuts[d].iA, cuts[d].iB} \ {0} :
                       InOpenForwardArc(i, cut.iA, cut.iB, n)}
        way == {i \in 1 .. n : InOpenForwardArc(i, cut.iA, cut.iB, n)}
        normal == NLeft(cut.a, cut.b)
    IN  IF met # {}
        THEN LET d == CHOOSE d \in met : \A e \in met : d <= e
             IN  cuts[d].parent \in Below({cut.child}, cuts)
        ELSE FoldSet(LAMBDA i, sum : sum + Dot2(Sub2(ring[i], cut.a), normal), 0, way) > 0

Turned(cut) ==
    [cut EXCEPT !.a = cut.b, !.b = cut.a, !.iA = cut.iB, !.iB = cut.iA,
                !.childA = cut.childB, !.childB = cut.childA,
                !.parentA = cut.parentB, !.parentB = cut.parentA]

\* One cut after the other: the test of a later one sees the earlier turned.
NormalizeCuts(ring, cuts0) ==
    FoldLeft(LAMBDA cuts, c :
                IF cuts[c].iA # 0 /\ cuts[c].iB # 0 /\ cuts[c].a # cuts[c].b
                   /\ ForwardFromAIsChild(ring, cuts, c)
                THEN [cuts EXCEPT ![c] = Turned(@)] ELSE cuts,
             cuts0, [c \in 1 .. Len(cuts0) |-> c])
-----------------------------------------------------------------------------
\* BuildCutEdges: the edges of the outline with every strip taken out, each
\* with the edge that follows it.  An edge is named by where it comes from:
\* <<"ring", v>>, the bridge of a cut on either side, or a step inserted at a
\* vertex or by a walk along a cut.
\*
\* (ring, cuts) is passed around as one value, K.

Size(K) == Len(K.ring)
CutIds(K) == 1 .. Len(K.cuts)
AtA(K, v) == {c \in CutIds(K) : K.cuts[c].iA = v}
AtB(K, v) == {c \in CutIds(K) : K.cuts[c].iB = v}
Claimed(K, v) == AtA(K, v) \cup AtB(K, v) # {}

\* How much of the ring lies between B and A: the smaller, the deeper nested.
Span(cut, n) == IF cut.iA = 0 \/ cut.iB = 0 THEN 0 ELSE (cut.iA - cut.iB + n) % n
Inside(K, c, d) == K.span[c] < K.span[d] \/ (K.span[c] = K.span[d] /\ c < d)
Innermost(K, S) == CHOOSE c \in S : \A d \in S \ {c} : Inside(K, c, d)
Outermost(K, S) == CHOOSE c \in S : \A d \in S \ {c} : Inside(K, d, c)

\* The neighbour of a cut among those that share a vertex with it, or 0.
NextInner(K, c, S) ==
    LET inner == {d \in S : Inside(K, d, c)}
    IN  IF c \notin S \/ inner = {} THEN 0 ELSE Outermost(K, inner)
NextOuter(K, c, S) ==
    LET outer == {d \in S : Inside(K, c, d)}
    IN  IF c \notin S \/ outer = {} THEN 0 ELSE Innermost(K, outer)

DirectlyAdjacent(K, c) ==
    /\ K.cuts[c].iA # 0 /\ K.cuts[c].iB # 0
    /\ K.cuts[c].iA = After(K.cuts[c].iB, Size(K))
RingEdge(v) == <<"ring", IF v = 0 THEN 1 ELSE v>>
\* Where the child of a cut goes on after the hinge: its own bridge.
ChildEntry(K, c) == IF DirectlyAdjacent(K, c) THEN RingEdge(K.cuts[c].iB) ELSE <<"child", c>>

Along(cut) == Sub2(cut.b, cut.a)
Collinear(K, v, cut) == Side(cut.a, cut.b, K.ring[v]) = 0

\* The corner of the wedge between a cut and the next one nested in it.
MiterB(K, outer, inner) ==
    IF DirectlyAdjacent(K, outer) THEN Nowhere
    ELSE LineIntersect2(K.cuts[outer].childB, Along(K.cuts[outer]),
                        K.cuts[inner].parentB, Along(K.cuts[inner]))
MiterA(K, outer, inner) ==
    IF DirectlyAdjacent(K, outer) THEN Nowhere
    ELSE LineIntersect2(K.cuts[inner].parentA, Along(K.cuts[inner]),
                        K.cuts[outer].childA, Along(K.cuts[outer]))
\* The corner where one cut ends and another begins.
MiterAB(K, v) ==
    LET x == K.cuts[Outermost(K, AtA(K, v))]
        y == K.cuts[Outermost(K, AtB(K, v))]
    IN  LineIntersect2(x.parentA, Along(x), y.parentB, Along(y))

OnlyA(K, v) == AtA(K, v) # {} /\ AtB(K, v) = {}
OnlyB(K, v) == AtB(K, v) # {} /\ AtA(K, v) = {}
Both(K, v) == AtA(K, v) # {} /\ AtB(K, v) # {}

\* A step leads from a free edge on the hinge line to the tangent line, or
\* between the tangent lines of two bends on one line.
StepAt(K, v) ==
    \/ OnlyB(K, v) /\ Collinear(K, Before(v, Size(K)), K.cuts[Outermost(K, AtB(K, v))])
    \/ OnlyA(K, v) /\ Collinear(K, After(v, Size(K)), K.cuts[Outermost(K, AtA(K, v))])
    \/ /\ Both(K, v) /\ MiterAB(K, v) = Nowhere
       /\ K.cuts[Outermost(K, AtA(K, v))].parentA # K.cuts[Outermost(K, AtB(K, v))].parentB
-----------------------------------------------------------------------------
\* The walks: vertices of the child between the hinge and its tangent line
\* are dropped, back from A or on from B, up to one that stays.

OwnsA(K, c) == K.cuts[c].iA # 0 /\ ~ DirectlyAdjacent(K, c)
               /\ Innermost(K, AtA(K, K.cuts[c].iA)) = c
OwnsB(K, c) == K.cuts[c].iB # 0 /\ ~ DirectlyAdjacent(K, c)
               /\ Innermost(K, AtB(K, K.cuts[c].iB)) = c

InBand(K, c, v) ==
    /\ Side(K.cuts[c].a, K.cuts[c].b, K.ring[v]) > 0
    /\ Side(K.cuts[c].childA, K.cuts[c].childB, K.ring[v]) < 0

WalksA(K, c) == OwnsA(K, c) /\ LET v == Before(K.cuts[c].iA, Size(K))
                               IN  ~ Claimed(K, v) /\ InBand(K, c, v)
WalksB(K, c) == OwnsB(K, c) /\ LET v == After(K.cuts[c].iB, Size(K))
                               IN  ~ Claimed(K, v) /\ InBand(K, c, v)

Stays(K, c, v) == Claimed(K, v) \/ ~ InBand(K, c, v)
\* The first vertex that stays, of those a walk from v comes to after its
\* first step, each a step on or back along the ring.
FirstStay(K, c, v, step) ==
    LET at(j) == ((v - 1 + step * j) % Size(K)) + 1
    IN  at(Min({j \in 2 .. Size(K) : Stays(K, c, at(j))}))

WalkStopA(K, c) == FirstStay(K, c, K.cuts[c].iA, -1)
WalkStopB(K, c) == FirstStay(K, c, K.cuts[c].iB, 1)

WalkPointA(K, c) ==
    LET p == WalkStopA(K, c)
    IN  LineIntersect2(K.cuts[c].childA, Along(K.cuts[c]), K.ring[p],
                       Sub2(K.ring[After(p, Size(K))], K.ring[p]))
WalkPointB(K, c) ==
    LET p == WalkStopB(K, c)
    IN  LineIntersect2(K.cuts[c].childB, Along(K.cuts[c]), K.ring[p],
                       Sub2(K.ring[Before(p, Size(K))], K.ring[p]))
-----------------------------------------------------------------------------
\* Each edge: its first point and the edge after it.  Where the code writes
\* an edge several times, the last write comes first here.

RingFrom(K, v) ==
    LET n == Size(K)
        ends == {c \in CutIds(K) : OwnsB(K, c) /\ After(K.cuts[c].iB, n) = v
                                   /\ Collinear(K, v, K.cuts[c])}
        begins == {c \in CutIds(K) : OwnsA(K, c) /\ Before(K.cuts[c].iA, n) = v
                                     /\ Collinear(K, v, K.cuts[c])}
    IN  IF ends # {}
        THEN LET cut == K.cuts[CHOOSE c \in ends : TRUE]
             IN  Sub2(K.ring[v], Sub2(cut.b, cut.childB))
        ELSE IF begins # {}
        THEN LET cut == K.cuts[CHOOSE c \in begins : TRUE]
             IN  Sub2(K.ring[v], Sub2(cut.a, cut.childA))
        ELSE IF AtB(K, v) # {} THEN K.cuts[Innermost(K, AtB(K, v))].childB
        ELSE IF OnlyA(K, v) /\ ~ StepAt(K, v) THEN K.cuts[Outermost(K, AtA(K, v))].parentA
        ELSE K.ring[v]

RingNext(K, v) ==
    LET w == After(v, Size(K))
        resumes == {c \in CutIds(K) : K.cuts[c].iB = v /\ WalksB(K, c)}
        closes  == {c \in CutIds(K) : OwnsA(K, c) /\ K.cuts[c].iA = w}
        leaves  == {c \in CutIds(K) : WalksA(K, c) /\ WalkStopA(K, c) = v}
    IN  IF resumes # {}
        THEN LET c == CHOOSE c \in resumes : TRUE
             IN  IF WalkPointB(K, c) = Nowhere THEN RingEdge(WalkStopB(K, c)) ELSE <<"walkB", c>>
        ELSE IF closes # {} THEN <<"child", CHOOSE c \in closes : TRUE>>
        ELSE IF leaves # {}
        THEN LET c == CHOOSE c \in leaves : TRUE
             IN  IF WalkPointA(K, c) = Nowhere THEN <<"child", c>> ELSE <<"walkA", c>>
        ELSE IF OnlyB(K, w)
        THEN IF StepAt(K, w) THEN <<"step", w>> ELSE <<"parent", Outermost(K, AtB(K, w))>>
        ELSE RingEdge(w)

RingBend(K, v) ==
    IF AtB(K, v) = {} THEN NoBend
    ELSE LET cut == K.cuts[Innermost(K, AtB(K, v))]
         IN  IF K.ring[After(v, Size(K))] = cut.a THEN cut.id ELSE NoBend

ParentFrom(K, c) ==
    LET v == K.cuts[c].iB
        outer == IF v = 0 THEN 0 ELSE NextOuter(K, c, AtB(K, v))
        corner == IF v = 0 THEN Nowhere
                  ELSE IF outer # 0 THEN MiterB(K, outer, c)
                  ELSE IF Both(K, v) THEN MiterAB(K, v) ELSE Nowhere
    IN  IF corner = Nowhere THEN K.cuts[c].parentB ELSE corner

\* Mutant: where another bend begins at the corner, it goes on along the ring.
ParentNextPastTheCorner(K, c) ==
    LET v == K.cuts[c].iA
        outer == IF v = 0 THEN 0 ELSE NextOuter(K, c, AtA(K, v))
    IN  IF outer # 0 THEN ChildEntry(K, outer)
        ELSE IF v # 0 /\ StepAt(K, v) THEN <<"step", v>> ELSE RingEdge(v)
ParentNext(K, c) ==
    LET v == K.cuts[c].iA
        outer == IF v = 0 THEN 0 ELSE NextOuter(K, c, AtA(K, v))
    IN  IF v = 0 THEN RingEdge(0)
        ELSE IF outer # 0 THEN ChildEntry(K, outer)
        ELSE IF StepAt(K, v) THEN <<"step", v>>
        ELSE IF Both(K, v) THEN <<"parent", Outermost(K, AtB(K, v))>>
        ELSE RingEdge(v)

ChildFrom(K, c) ==
    LET v == K.cuts[c].iA
        inner == IF v = 0 THEN 0 ELSE NextInner(K, c, AtA(K, v))
        corner == IF inner = 0 THEN Nowhere ELSE MiterA(K, c, inner)
    IN  IF corner = Nowhere THEN K.cuts[c].childA ELSE corner

ChildNext(K, c) ==
    LET v == K.cuts[c].iB
        inner == IF v = 0 THEN 0 ELSE NextInner(K, c, AtB(K, v))
    IN  IF inner # 0 THEN <<"parent", inner>> ELSE RingEdge(v)

StepEdge(K, v) ==
    IF OnlyB(K, v)
    THEN LET c == Outermost(K, AtB(K, v))
         IN  [from |-> K.ring[v], next |-> <<"parent", c>>, bend |-> K.cuts[c].id, step |-> TRUE]
    ELSE LET c == Outermost(K, AtA(K, v))
         IN  [from |-> K.cuts[c].parentA, bend |-> K.cuts[c].id, step |-> TRUE,
              next |-> IF Both(K, v) THEN <<"parent", Outermost(K, AtB(K, v))>> ELSE RingEdge(v)]

CutEdge(K, e) ==
    LET i == e[2]
        edge(from, next, bend, step) == [from |-> from, next |-> next, bend |-> bend, step |-> step]
    IN  CASE e[1] = "ring"   -> edge(RingFrom(K, i), RingNext(K, i), RingBend(K, i), FALSE)
          [] e[1] = "parent" -> edge(ParentFrom(K, i), ParentNext(K, i), K.cuts[i].id, FALSE)
          [] e[1] = "child"  -> edge(ChildFrom(K, i), ChildNext(K, i), K.cuts[i].id, FALSE)
          [] e[1] = "step"   -> StepEdge(K, i)
          [] e[1] = "walkA"  -> edge(WalkPointA(K, i), <<"child", i>>, K.cuts[i].id, TRUE)
          [] e[1] = "walkB"  -> edge(WalkPointB(K, i), RingEdge(WalkStopB(K, i)), K.cuts[i].id, TRUE)
-----------------------------------------------------------------------------
\* TraceLoopFrom and SimplifyLoop

\* The loop as far as k edges from the seed, up to one that was visited.
TraceLoopFrom(K, seed) ==
    LET start == [loop |-> <<>>, next |-> seed, visited |-> {}]
        past(walk, edge) ==
            [loop |-> Append(walk.loop, [point |-> edge.from, bend |-> edge.bend, step |-> edge.step]),
             next |-> edge.next, visited |-> walk.visited \cup {walk.next}]
        most == 2 * Size(K) + 4 * Len(K.cuts)
        traced[k \in 0 .. most] ==
            IF k = 0 THEN start
            ELSE LET walk == traced[k - 1]
                 IN  IF walk.next \in walk.visited THEN walk
                     ELSE past(walk, CutEdge(K, walk.next))
    IN  traced[most].loop

FoldsBack(loop, i) ==
    LET n == Len(loop)
        into == Sub2(loop[i].point, loop[Before(i, n)].point)
        out  == Sub2(loop[After(i, n)].point, loop[i].point)
    IN  into = <<0, 0>> \/ (Cross2(into, out) = 0 /\ Dot2(into, out) < 0)

\* The vertex goes; the edge before it takes over the tag of the edge after.
WithoutVertex(loop, i) ==
    LET p == Before(i, Len(loop))
        merged == [loop[p] EXCEPT !.bend = IF @ # NoBend THEN @ ELSE loop[i].bend,
                                  !.step = @ /\ loop[i].step]
    IN  RemoveAt([loop EXCEPT ![p] = merged], i)

Simpler(loop) ==
    LET folds == {i \in 1 .. Len(loop) : FoldsBack(loop, i)}
    IN  IF Len(loop) < 3 \/ folds = {} THEN loop
        ELSE WithoutVertex(loop, CHOOSE i \in folds : \A j \in folds : i <= j)
\* One vertex after the other, at most as many as there are.
SimplifyLoop(loop) ==
    LET left[k \in 0 .. Len(loop)] == IF k = 0 THEN loop ELSE Simpler(left[k - 1])
    IN  left[Len(loop)]

\* ExtractLoop: the loop of a panel starts on the child side of the bend that
\* leads to it, of the root on the parent side of its first bend.
Seed(g, K, panel) ==
    LET into == {i \in 1 .. Len(g.bends) : g.bends[i].child = panel}
        from == {i \in 1 .. Len(g.bends) : g.bends[i].parent = panel}
        first(S) == CHOOSE i \in S : \A j \in S : i <= j
    IN  IF into # {} /\ (~ DirectlyAdjacent(K, first(into)) \/ K.cuts[first(into)].iB # 0)
        THEN ChildEntry(K, first(into))
        ELSE IF from # {} THEN <<"parent", first(from)>> ELSE Nowhere

Nested(ring, cuts) ==
    [ring |-> ring, cuts |-> cuts,
     span |-> Made([c \in 1 .. Len(cuts) |-> Span(cuts[c], Len(ring))])]
LoopFrom(K, seed) ==
    IF seed = Nowhere THEN <<>> ELSE SimplifyLoop(TraceLoopFrom(K, seed))
ExtractLoop(g, panel, K) == LoopFrom(K, Seed(g, K, panel))

Points(loop) == Made([i \in 1 .. Len(loop) |-> loop[i].point])

HolesIn(g, ring) ==
    [polygons |-> {h \in g.polygonHoles : RingFullyInsidePolygon(h, ring)},
     circles |-> {h \in g.circleHoles : CircleFullyInsidePolygon(h, ring)}]

\* RegionOf: the panel's wall, trimmed to the tangent lines, and its raw
\* region, cut at the hinges.
Region(g, loops) ==
    LET wall == loops[1]
        raw == loops[2]
    IN  [ok |-> Len(wall) >= 3 /\ Len(raw) >= 3, wall |-> wall, raw |-> raw,
         wallHoles |-> HolesIn(g, Points(wall)), rawHoles |-> HolesIn(g, Points(raw))]

Uncut(ring) ==
    Made([i \in 1 .. Len(ring) |-> [point |-> ring[i], bend |-> NoBend, step |-> FALSE]])

RegionOf(g, grounded, panel) ==
    LET loop(zeroOffset) ==
          ExtractLoop(g, panel,
              Nested(grounded.ring,
                     NormalizeCuts(grounded.ring, BuildBendCuts(g, grounded, zeroOffset))))
    IN  Region(g, Made([i \in 1 .. 2 |->
            IF g.bends = <<>> THEN Uncut(g.outline) ELSE loop(i = 2)]))
-----------------------------------------------------------------------------
\* ValidateTree, RerootAt and FlipPart

Bends(g) == 1 .. Len(g.bends)
Into(g, panel) == {i \in Bends(g) : g.bends[i].child = panel}
Panels(g) == {g.root} \cup UNION {{b.parent, b.child} : b \in Range(g.bends)}

ValidateTree(g) ==
    LET reached == Below({g.root}, g.bends)
    IN  CASE \E b \in Range(g.bends) : b.parent = b.child -> "self"
          [] \E p \in Panels(g) : Cardinality(Into(g, p)) > 1 -> "cycle"
          [] Into(g, g.root) # {} /\ \E i \in Into(g, g.root) : g.bends[i].parent \in reached -> "cycle"
          [] \E b \in Range(g.bends) : b.parent \notin reached -> "dangling"
          [] OTHER -> "none"

\* From the new root up, the bend into each panel, until the old root.
PathUp(bends, oldRoot, newRoot) ==
    LET into(panel) == CHOOSE i \in 1 .. Len(bends) : bends[i].child = panel
        up[k \in 0 .. Len(bends)] ==
            IF k = 0 THEN [at |-> newRoot, path |-> {}]
            ELSE LET way == up[k - 1]
                 IN  IF way.at = oldRoot THEN way
                     ELSE [at |-> bends[into(way.at)].parent, path |-> way.path \cup {into(way.at)}]
    IN  up[Len(bends)].path

\* The bends on the way from the old root to the new one are swapped.
RerootAt(bends, oldRoot, newRoot) == Made(SwappedOn(bends, PathUp(bends, oldRoot, newRoot)))

\* FlipPart: mirrored, turned over, and every bend with it.
MirroredRing(ring) == Reverse(Made([i \in 1 .. Len(ring) |-> Mirrored(ring[i])]))
FlipPart(g) ==
    [g EXCEPT
        !.outline = MirroredRing(@),
        !.polygonHoles = {MirroredRing(h) : h \in @},
        !.circleHoles = {[h EXCEPT !.center = Mirrored(@)] : h \in @},
        !.bends = Made(FlippedAll(@)),
        !.anchor = Compose(@, TurnedOver(g.thickness))]
-----------------------------------------------------------------------------
\* Evaluate: the panels' regions and poses, the bridges between them.

\* The walk after a bend: its child is next, and has its pose.
Beyond(walk, f) ==
    [queue |-> Append(walk.queue, f.child), bridges |-> Append(walk.bridges, f),
     poses |-> Beside(walk.poses,
                      [p \in {f.child} |-> [pose |-> f.childPose, shift |-> f.childShift]])]

\* The walk after all bends of the panel at the head of its queue.
PoseStep(g, grounded, walk) ==
    LET p == Head(walk.queue)
        past[i \in 0 .. Len(g.bends)] ==
            IF i = 0 THEN [walk EXCEPT !.queue = Tail(@)]
            ELSE LET w == past[i - 1]
                 IN  IF g.bends[i].parent # p THEN w
                     ELSE Beyond(w, Folded(g, g.bends[i], grounded.hinges[i],
                                           w.poses[p].pose, w.poses[p].shift))
    IN  IF walk.queue = <<>> THEN walk ELSE past[Len(g.bends)]

\* A panel after the other, the root first.
PoseWalk(g, grounded) ==
    LET walked[k \in 0 .. Len(g.bends) + 1] ==
            IF k = 0 THEN [queue |-> <<g.root>>, bridges |-> <<>>,
                           poses |-> [p \in {g.root} |-> [pose |-> g.anchor, shift |-> <<0, 0>>]]]
            ELSE PoseStep(g, grounded, walked[k - 1])
    IN  walked[Len(g.bends) + 1]

Failed(code) == [ok |-> FALSE, code |-> code, panels |-> <<>>, bridges |-> <<>>]

LaidOut(walk, region) ==
    IF \E f \in Range(walk.bridges) : f.axis = <<0, 0, 0>> THEN Failed("outline")
    ELSE IF \E p \in DOMAIN region : ~ region[p].ok THEN Failed("clip")
    ELSE [ok |-> TRUE, code |-> "none", bridges |-> walk.bridges,
          panels |-> [p \in DOMAIN region |-> Beside(walk.poses[p], region[p])]]

Regions(g, grounded, walk) ==
    LaidOut(walk, [p \in DOMAIN walk.poses |-> RegionOf(g, grounded, p)])

EvaluateOn(g, grounded) ==
    Regions(g, grounded, PoseWalk(g, grounded))

Evaluate(g) ==
    IF Len(g.outline) < 3 THEN Failed("outline")
    ELSE IF ValidateTree(g) # "none" THEN Failed(ValidateTree(g))
    ELSE EvaluateOn(g, EnsureHingeVertices(g))
-----------------------------------------------------------------------------
\* A part as it is authored; and one on the grid: its outline and the bends on
\* it run along the axes, and every hinge found on it the way its bend was
\* drawn, ending strictly nearer to the drawn end than it begins.

Graphs(Id, Panel) ==
    [root : Panel, outline : Seq(Plane), bends : Seq(BendsOf(Id, Panel)), thickness : Int,
     anchor : Poses, polygonHoles : SUBSET Seq(Plane),
     circleHoles : SUBSET [center : Plane, radius : Int]]

OnAxes(ring) == \A i \in 1 .. Len(ring) : AlongAnAxis(Edge(ring, i))
HingesOnTheGrid(g) ==
    EnsureHingeVertices(g).hinges \in [1 .. Len(g.bends) -> Hinges]
RunsAsDrawn(g) ==
    LET hinges == EnsureHingeVertices(g).hinges
    IN  \A i \in 1 .. Len(g.bends) : ~ NearerFirst(hinges[i][1], hinges[i][2], g.bends[i].b)
GraphOnTheGrid(g) ==
    /\ g \in Graphs(Int, Panels(g))
    /\ OnAxes(g.outline) /\ \A b \in Range(g.bends) : AlongAnAxis(<<b.a, b.b>>)
    /\ HingesOnTheGrid(g) /\ RunsAsDrawn(g)
=============================================================================
