---------------------------- MODULE Parts_proofs ----------------------------
(***************************************************************************)
(* What the tools make of parts that are trees of panels: they stay       *)
(* trees, Evaluate puts every panel of a tree where the fold of its       *)
(* parent's puts it, and a part that is rooted at another panel or turned *)
(* over has its hinges and its panels where it had them: for every tree   *)
(* of bends, however many calls were made before.                         *)
(*                                                                        *)
(* The loops of the code are functions that are defined step after step   *)
(* (StepByStep, and the lemmas PassOf, WalkOf, WayUpOf, GroundingOf,      *)
(* PickingOf and WorkOf that say they exist); what holds after each step  *)
(* is shown by induction on the number of steps (Upward).                 *)
(*                                                                        *)
(* TreesOf is the inductive invariant: every part is a graph whose bends  *)
(* are a tree, with the layout that Evaluate makes of it, and no panel is *)
(* in two parts. A hinge of a part that was turned over is looked for on  *)
(* the mirrored ring, which runs the other way: MirrorImages says which   *)
(* edge of the one ring is the image of which edge of the other, and is   *)
(* kept when the hinge's points are inserted (FoundBoth).                 *)
(***************************************************************************)
EXTENDS PanelFrames_proofs, FiniteSetTheorems
-----------------------------------------------------------------------------
\* Trees of panels, and what validateTree lets pass (bend_transform.cc).

\* The bends of a part are a tree of its panels V.
IsTree(bends, V, root) ==
    /\ root \in V
    /\ \A i \in 1 .. Len(bends) : bends[i].parent \in V /\ bends[i].child \in V \ {root}
    /\ \A i, j \in 1 .. Len(bends) : bends[i].child = bends[j].child => i = j
    /\ Reached(bends, V, root)

\* What ValidateTree lets pass is a tree of all the panels of the part.
LEMMA ValidIsTree ==
    ASSUME NEW g, NEW T, g.bends \in Seq(T), ValidateTree(g) = "none"
    PROVE  IsTree(g.bends, Panels(g), g.root)
<1> DEFINE n == Len(g.bends)
           reached == Below({g.root}, g.bends)
<1>1. n \in Nat /\ DOMAIN g.bends = 1 .. n
  OBVIOUS
<1>2. \A b : b \in Range(g.bends) <=> \E i \in 1 .. n : b = g.bends[i]
  BY <1>1 DEF Range
<1>3. /\ ~ \E b \in Range(g.bends) : b.parent = b.child
      /\ ~ \E p \in Panels(g) : Cardinality(Into(g, p)) > 1
      /\ ~ (Into(g, g.root) # {} /\ \E i \in Into(g, g.root) : g.bends[i].parent \in reached)
      /\ ~ \E b \in Range(g.bends) : b.parent \notin reached
  <2>1. "self" # "none" /\ "cycle" # "none" /\ "dangling" # "none"
    OBVIOUS
  <2> HIDE DEF reached
  <2>2. Below({g.root}, g.bends) = reached
    BY DEF reached
  <2> QED
    BY <2>1, <2>2 DEF ValidateTree
<1>4. /\ g.root \in Panels(g)
      /\ \A i \in 1 .. n : g.bends[i].parent \in Panels(g) /\ g.bends[i].child \in Panels(g)
      /\ \A p \in Panels(g) : p = g.root \/ \E i \in 1 .. n : p \in {g.bends[i].parent, g.bends[i].child}
  BY <1>2 DEF Panels
<1>5. \A i \in 1 .. n : g.bends[i].child # g.root
  <2>1. SUFFICES ASSUME NEW i \in 1 .. n, g.bends[i].child = g.root PROVE FALSE
    OBVIOUS
  <2>2. i \in Into(g, g.root)
    BY <2>1 DEF Into, Bends
  <2>3. g.bends[i].parent \in reached
    BY <1>2, <1>3
  <2> QED
    BY <1>3, <2>2, <2>3
<1>6. ASSUME NEW i \in 1 .. n, NEW j \in 1 .. n, g.bends[i].child = g.bends[j].child
      PROVE  i = j
  <2>1. SUFFICES ASSUME i # j PROVE FALSE
    OBVIOUS
  <2>2. PICK p \in Panels(g) : p = g.bends[i].child
    BY <1>4
  <2>3. {i, j} \subseteq Into(g, p) /\ Into(g, p) \subseteq 1 .. n
    BY <1>6, <2>2 DEF Into, Bends
  <2>4. IsFiniteSet(1 .. n)
    BY <1>1, FS_Interval
  <2>5. IsFiniteSet(Into(g, p)) /\ Cardinality(Into(g, p)) \in Nat
    BY <2>3, <2>4, FS_Subset, FS_CardinalityType
  <2>6. Cardinality({i} \cup {j}) = 2
    <3>1. IsFiniteSet({i}) /\ Cardinality({i}) = 1
      BY FS_Singleton
    <3>2. Cardinality({i} \cup {j}) = IF j \in {i} THEN Cardinality({i}) ELSE Cardinality({i}) + 1
      BY <3>1, FS_AddElement, Zenon
    <3>3. Cardinality({i} \cup {j}) = Cardinality({i}) + 1
      BY <2>1, <3>2
    <3> QED
      BY <3>1, <3>3
  <2>7. {i} \cup {j} \in SUBSET Into(g, p)
    BY <2>3
  <2>8. Cardinality({i} \cup {j}) <= Cardinality(Into(g, p))
    BY <2>5, <2>7, FS_Subset
  <2>9. PICK k \in Nat : k = Cardinality(Into(g, p)) /\ k >= 2
    BY <2>5, <2>6, <2>8
  <2>10. ~ (k > 1)
    BY <1>3, <2>9
  <2> QED
    BY <2>9, <2>10
<1>7. ASSUME NEW S \in SUBSET Panels(g), g.root \in S,
             \A i \in 1 .. n : g.bends[i].parent \in S => g.bends[i].child \in S
      PROVE  S = Panels(g)
  <2> DEFINE all == {g.root} \cup {g.bends[i].child : i \in 1 .. n}
  <2>1. S \cap all \in SUBSET all /\ {g.root} \subseteq S \cap all
    BY <1>7
  <2>2. \A i \in 1 .. n : g.bends[i].parent \in S \cap all => g.bends[i].child \in S \cap all
    BY <1>7
  <2>3. reached \subseteq S \cap all
    BY <2>1, <2>2 DEF Below
  <2>4. \A i \in 1 .. n : g.bends[i].parent \in reached
    BY <1>2, <1>3
  <2>5. \A i \in 1 .. n : g.bends[i].parent \in S /\ g.bends[i].child \in S
    BY <1>7, <2>3, <2>4
  <2> QED
    BY <1>4, <1>7, <2>5
<1>8. Reached(g.bends, Panels(g), g.root)
  BY <1>7 DEF Reached
<1> QED
  BY <1>4, <1>5, <1>6, <1>8 DEF IsTree

\* And a tree of all a part's panels passes.
LEMMA TreeIsValid ==
    ASSUME NEW g, NEW T, g.bends \in Seq(T), IsTree(g.bends, Panels(g), g.root)
    PROVE  ValidateTree(g) = "none"
<1> DEFINE n == Len(g.bends)
           reached == Below({g.root}, g.bends)
           all == {g.root} \cup {g.bends[i].child : i \in 1 .. n}
<1>1. n \in Nat /\ DOMAIN g.bends = 1 .. n
  OBVIOUS
<1>2. \A b : b \in Range(g.bends) <=> \E i \in 1 .. n : b = g.bends[i]
  BY <1>1 DEF Range
<1>3. \A i \in 1 .. n : g.bends[i].child \in Panels(g) \ {g.root}
  BY DEF IsTree
<1>4. \A i, j \in 1 .. n : g.bends[i].child = g.bends[j].child => i = j
  BY DEF IsTree
<1>5. /\ g.root \in reached /\ reached \subseteq all
      /\ \A i \in 1 .. n : g.bends[i].parent \in reached => g.bends[i].child \in reached
  BY DEF Below
<1>6. reached = Panels(g)
  <2>1. reached \subseteq Panels(g)
    BY <1>3, <1>5 DEF IsTree
  <2> HIDE DEF reached
  <2> QED
    BY <1>5, <2>1 DEF IsTree, Reached
<1>7. \A i \in 1 .. n : g.bends[i].parent # g.bends[i].child
  <2>1. SUFFICES ASSUME NEW i \in 1 .. n, g.bends[i].parent = g.bends[i].child PROVE FALSE
    OBVIOUS
  <2>2. PICK c \in Panels(g) \ {g.root} : c = g.bends[i].child
    BY <1>3
  <2> DEFINE S == Panels(g) \ {c}
  <2>3. g.root \in S /\ S \in SUBSET Panels(g)
    BY <2>2 DEF IsTree
  <2>4. \A j \in 1 .. n : g.bends[j].parent \in S => g.bends[j].child \in S
    BY <1>3, <1>4, <2>1, <2>2
  <2>5. S = Panels(g)
    BY <2>3, <2>4 DEF IsTree, Reached
  <2> QED
    BY <2>2, <2>5
<1>8. \A p \in Panels(g) : ~ (Cardinality(Into(g, p)) > 1)
  <2>1. TAKE p \in Panels(g)
  <2>2. CASE Into(g, p) = {}
    <3>1. Cardinality(Into(g, p)) = 0
      BY <2>2, FS_EmptySet, Zenon
    <3> QED
      BY <3>1
  <2>3. CASE Into(g, p) # {}
    <3>1. PICK i : i \in Into(g, p)
      BY <2>3
    <3>2. Into(g, p) = {i}
      BY <1>4, <3>1 DEF Into, Bends
    <3>3. Cardinality(Into(g, p)) = 1
      BY <3>2, FS_Singleton, Zenon
    <3> QED
      BY <3>3
  <2> QED
    BY <2>2, <2>3
<1>9. Into(g, g.root) = {}
  BY <1>3 DEF Into, Bends
<1>10. \A i \in 1 .. n : g.bends[i].parent \in reached
  BY <1>6 DEF IsTree
<1> HIDE DEF reached
<1>11. Below({g.root}, g.bends) = reached
  BY DEF reached
<1>12. /\ ~ \E b \in Range(g.bends) : b.parent = b.child
       /\ ~ \E b \in Range(g.bends) : b.parent \notin reached
  BY <1>2, <1>7, <1>10
<1> QED
  BY <1>8, <1>9, <1>11, <1>12 DEF ValidateTree
-----------------------------------------------------------------------------
\* The walk over the tree that poses the panels (PoseWalk).

\* The walk after bend i, when the panels folded from p are laid out.
OverBend(g, grounded, p, w, i) ==
    IF g.bends[i].parent # p THEN w
    ELSE Beyond(w, Folded(g, g.bends[i], grounded.hinges[i], w.poses[p].pose, w.poses[p].shift))

\* past has what the walk is after each bend, for the panel at its head.
IsPass(g, grounded, walk, past) ==
    /\ past[0] = [walk EXCEPT !.queue = Tail(@)]
    /\ \A i \in 1 .. Len(g.bends) :
          past[i] = OverBend(g, grounded, Head(walk.queue), past[i - 1], i)
    /\ PoseStep(g, grounded, walk) = past[Len(g.bends)]
\* walked has what the walk is after each panel.
IsWalk(g, grounded, walked) ==
    /\ walked[0] = [queue |-> <<g.root>>, bridges |-> <<>>,
                    poses |-> [p \in {g.root} |-> [pose |-> g.anchor, shift |-> <<0, 0>>]]]
    /\ \A i \in 1 .. Len(g.bends) + 1 : walked[i] = PoseStep(g, grounded, walked[i - 1])
    /\ PoseWalk(g, grounded) = walked[Len(g.bends) + 1]

\* One panel of the walk: there is what the walk is after each of its bends.
LEMMA PassOf ==
    ASSUME NEW g, NEW T, g.bends \in Seq(T), NEW grounded, NEW walk, walk.queue # <<>>
    PROVE  \E past : IsPass(g, grounded, walk, past)
<1> DEFINE n == Len(g.bends)
           base == [walk EXCEPT !.queue = Tail(@)]
           p == Head(walk.queue)
           IsPast(m, f) ==
               f = [i \in 0 .. m |-> IF i = 0 THEN base ELSE OverBend(g, grounded, p, f[i - 1], i)]
           S == {m \in 0 .. n : \E f : IsPast(m, f)}
<1>1. n \in Nat
  OBVIOUS
<1>2. 0 \in S
  <2> HIDE DEF base, p
  <2> DEFINE f == [i \in 0 .. 0 |-> base]
  <2>1. IsPast(0, f)
    OBVIOUS
  <2>2. \E h : IsPast(0, h)
    <3> HIDE DEF IsPast, f
    <3> QED
      BY <2>1
  <2> HIDE DEF IsPast
  <2> QED
    BY <1>1, <2>2
<1>3. ASSUME NEW m \in 0 .. n - 1, m \in S PROVE m + 1 \in S
  <2>1. PICK f : IsPast(m, f)
    BY <1>3
  <2> HIDE DEF base, p
  <2> DEFINE h == [i \in 0 .. m + 1 |->
                      IF i = m + 1 THEN OverBend(g, grounded, p, f[m], m + 1) ELSE f[i]]
  <2>2. ASSUME NEW i \in 0 .. m + 1
        PROVE  h[i] = IF i = 0 THEN base ELSE OverBend(g, grounded, p, h[i - 1], i)
    <3>1. CASE i = m + 1
      <4>1. h[i] = OverBend(g, grounded, p, f[m], m + 1) /\ h[i - 1] = f[m] /\ i # 0
        BY <3>1
      <4> QED
        BY <3>1, <4>1
    <3>2. CASE i \in 0 .. m
      <4>1. f[i] = IF i = 0 THEN base ELSE OverBend(g, grounded, p, f[i - 1], i)
        BY <2>1, <3>2
      <4>2. h[i] = f[i] /\ (i # 0 => h[i - 1] = f[i - 1])
        BY <3>2
      <4> QED
        BY <4>1, <4>2
    <3> QED
      BY <3>1, <3>2
  <2>3. IsPast(m + 1, h)
    <3>1. h = [i \in 0 .. m + 1 |-> h[i]]
      OBVIOUS
    <3> HIDE DEF h
    <3> QED
      BY <2>2, <3>1
  <2> HIDE DEF IsPast, h
  <2>4. \E k : IsPast(m + 1, k)
    BY <2>3
  <2> QED
    BY <1>1, <1>3, <2>4
<1>4. n \in S
  <2> HIDE DEF S, n
  <2>1. \A i \in 0 .. n : i \in S
    BY <1>1, <1>2, <1>3, Upward
  <2> QED
    BY <1>1, <2>1
<1> DEFINE past == CHOOSE f : IsPast(n, f)
<1>5. IsPast(n, past)
  BY <1>4
<1>6. PoseStep(g, grounded, walk) = past[n]
  BY DEF PoseStep, OverBend
<1> HIDE DEF past
<1>7. past[0] = base /\ \A i \in 1 .. n : past[i] = OverBend(g, grounded, p, past[i - 1], i)
  <2> HIDE DEF base, p
  <2> QED
    BY <1>1, <1>5, SMTT(30)
<1>8. IsPass(g, grounded, walk, past)
  BY <1>6, <1>7 DEF IsPass
<1> QED
  BY <1>8

\* The walk: there is what it is after each panel.
LEMMA WalkOf ==
    ASSUME NEW g, NEW T, g.bends \in Seq(T), NEW grounded
    PROVE  \E walked : IsWalk(g, grounded, walked)
<1> DEFINE n == Len(g.bends) + 1
           base == [queue |-> <<g.root>>, bridges |-> <<>>,
                    poses |-> [p \in {g.root} |-> [pose |-> g.anchor, shift |-> <<0, 0>>]]]
           WalkUpTo(m, f) ==
               f = [i \in 0 .. m |-> IF i = 0 THEN base ELSE PoseStep(g, grounded, f[i - 1])]
           S == {m \in 0 .. n : \E f : WalkUpTo(m, f)}
<1>1. n \in Nat
  OBVIOUS
<1>2. 0 \in S
  <2> HIDE DEF base
  <2> DEFINE f == [i \in 0 .. 0 |-> base]
  <2>1. WalkUpTo(0, f)
    OBVIOUS
  <2>2. \E h : WalkUpTo(0, h)
    <3> HIDE DEF WalkUpTo, f
    <3> QED
      BY <2>1
  <2> HIDE DEF WalkUpTo
  <2> QED
    BY <1>1, <2>2
<1>3. ASSUME NEW m \in 0 .. n - 1, m \in S PROVE m + 1 \in S
  <2>1. PICK f : WalkUpTo(m, f)
    BY <1>3
  <2> HIDE DEF base
  <2> DEFINE h == [i \in 0 .. m + 1 |-> IF i = m + 1 THEN PoseStep(g, grounded, f[m]) ELSE f[i]]
  <2>2. ASSUME NEW i \in 0 .. m + 1
        PROVE  h[i] = IF i = 0 THEN base ELSE PoseStep(g, grounded, h[i - 1])
    <3>1. CASE i = m + 1
      <4>1. h[i] = PoseStep(g, grounded, f[m]) /\ h[i - 1] = f[m] /\ i # 0
        BY <3>1
      <4> QED
        BY <3>1, <4>1
    <3>2. CASE i \in 0 .. m
      <4>1. f[i] = IF i = 0 THEN base ELSE PoseStep(g, grounded, f[i - 1])
        BY <2>1, <3>2
      <4>2. h[i] = f[i] /\ (i # 0 => h[i - 1] = f[i - 1])
        BY <3>2
      <4> QED
        BY <4>1, <4>2
    <3> QED
      BY <3>1, <3>2
  <2>3. WalkUpTo(m + 1, h)
    <3>1. h = [i \in 0 .. m + 1 |-> h[i]]
      OBVIOUS
    <3> HIDE DEF h
    <3> QED
      BY <2>2, <3>1
  <2> HIDE DEF WalkUpTo, h
  <2>4. \E k : WalkUpTo(m + 1, k)
    BY <2>3
  <2> QED
    BY <1>1, <1>3, <2>4
<1>4. n \in S
  <2> HIDE DEF S, n
  <2>1. \A i \in 0 .. n : i \in S
    BY <1>1, <1>2, <1>3, Upward
  <2> QED
    BY <1>1, <2>1
<1> DEFINE walked == CHOOSE f : WalkUpTo(n, f)
<1>5. WalkUpTo(n, walked)
  BY <1>4
<1>6. PoseWalk(g, grounded) = walked[n]
  BY DEF PoseWalk
<1> HIDE DEF walked
<1>7. walked[0] = base /\ \A i \in 1 .. n : walked[i] = PoseStep(g, grounded, walked[i - 1])
  <2> HIDE DEF base
  <2> QED
    BY <1>1, <1>5
<1>8. IsWalk(g, grounded, walked)
  BY <1>6, <1>7 DEF IsWalk
<1> QED
  BY <1>8

\* A panel where the bend to it puts it.
FoldedOver(g, grounded, poses, i) ==
    LET from == poses[g.bends[i].parent]
        f == Folded(g, g.bends[i], grounded.hinges[i], from.pose, from.shift)
    IN  poses[g.bends[i].child] = [pose |-> f.childPose, shift |-> f.childShift]

Waits(w, p) == \E a \in 1 .. Len(w.queue) : w.queue[a] = p

\* The walk has gone over the bends B: which are the panels it knows, and
\* each is where its bend puts it.
HasGoneOver(g, grounded, w, B) ==
    /\ w = [queue |-> w.queue, bridges |-> w.bridges, poses |-> w.poses]
    /\ w.queue \in Seq(DOMAIN w.poses)
    /\ \A a, b \in 1 .. Len(w.queue) : w.queue[a] = w.queue[b] => a = b
    /\ B \subseteq 1 .. Len(g.bends)
    /\ DOMAIN w.poses = {g.root} \cup {g.bends[i].child : i \in B}
    /\ w.poses[g.root] = [pose |-> g.anchor, shift |-> <<0, 0>>]
    /\ \A i \in B : g.bends[i].parent \in DOMAIN w.poses /\ FoldedOver(g, grounded, w.poses, i)

\* Of the panels it knows, those that do not wait have had all their bends gone
\* over; but p, which is having them, only the first m.
AtPanel(g, grounded, w, B, p, m) ==
    /\ HasGoneOver(g, grounded, w, B)
    /\ p \in DOMAIN w.poses /\ ~ Waits(w, p)
    /\ \A i \in 1 .. Len(g.bends) :
          i \in B <=> /\ g.bends[i].parent \in DOMAIN w.poses /\ ~ Waits(w, g.bends[i].parent)
                      /\ (g.bends[i].parent = p => i <= m)
BetweenPanels(g, grounded, w, B) ==
    /\ HasGoneOver(g, grounded, w, B)
    /\ \A i \in 1 .. Len(g.bends) :
          i \in B <=> g.bends[i].parent \in DOMAIN w.poses /\ ~ Waits(w, g.bends[i].parent)

\* What gone over bend m makes of the walk w.
GoesOver(g, grounded, w, B, p, m, on) ==
    \/ on = w /\ AtPanel(g, grounded, on, B, p, m)
    \/ /\ m \notin B /\ Len(on.queue) = Len(w.queue) + 1
       /\ AtPanel(g, grounded, on, B \cup {m}, p, m)

\* A bend of the panel at the head puts the panel below it in the queue, any
\* other leaves the walk as it is.
LEMMA OneMoreBend ==
    ASSUME NEW g, NEW T, g.bends \in Seq(T), NEW V, IsTree(g.bends, V, g.root), NEW grounded,
           NEW w, NEW B, NEW p, NEW m \in 1 .. Len(g.bends), AtPanel(g, grounded, w, B, p, m - 1)
    PROVE  GoesOver(g, grounded, w, B, p, m, OverBend(g, grounded, p, w, m))
<1> DEFINE n == Len(g.bends)
           on == OverBend(g, grounded, p, w, m)
<1>1. n \in Nat
  OBVIOUS
<1>2. CASE g.bends[m].parent # p
  <2>1. on = w
    BY <1>2 DEF OverBend
  <2>2. \A i \in 1 .. n : (g.bends[i].parent = p => i <= m) <=> (g.bends[i].parent = p => i <= m - 1)
    BY <1>1, <1>2
  <2>3. AtPanel(g, grounded, w, B, p, m)
    BY <2>2 DEF AtPanel
  <2> HIDE DEF on
  <2>4. GoesOver(g, grounded, w, B, p, m, on)
    BY <2>1, <2>3 DEF GoesOver
  <2> QED
    BY <2>4 DEF on
<1>3. CASE g.bends[m].parent = p
  <2> DEFINE c == g.bends[m].child
             f == Folded(g, g.bends[m], grounded.hinges[m], w.poses[p].pose, w.poses[p].shift)
             new == [pose |-> f.childPose, shift |-> f.childShift]
             known == DOMAIN w.poses
  <2>1. f.child = c
    BY DEF Folded
  <2>2. HasGoneOver(g, grounded, w, B) /\ p \in known /\ ~ Waits(w, p)
    BY DEF AtPanel
  <2>3. m \notin B
    BY <1>1, <1>3 DEF AtPanel
  <2>4. c \notin known
    <3>1. c # g.root /\ \A i \in 1 .. n : g.bends[i].child = c => i = m
      BY DEF IsTree
    <3> QED
      BY <2>2, <2>3, <3>1 DEF HasGoneOver
  <2> HIDE DEF f
  <2>5. /\ on = [queue |-> Append(w.queue, c), bridges |-> Append(w.bridges, f),
                 poses |-> Beside(w.poses, [q \in {c} |-> new])]
    BY <1>3, <2>1 DEF OverBend, Beyond, f
  <2>6. on = [queue |-> on.queue, bridges |-> on.bridges, poses |-> on.poses]
    BY <2>5
  <2>7. on.queue = Append(w.queue, c) /\ on.poses = Beside(w.poses, [q \in {c} |-> new])
    BY <2>5
  <2>8. DOMAIN on.poses = known \cup {c}
    BY <2>7 DEF Beside
  <2>9. on.poses[c] = new /\ \A q \in known : on.poses[q] = w.poses[q]
    BY <2>4, <2>7 DEF Beside
  <2> HIDE DEF new
  <2>10. PICK l \in Nat : l = Len(w.queue)
    BY <2>2 DEF HasGoneOver
  <2>11. /\ on.queue \in Seq(known \cup {c}) /\ Len(on.queue) = l + 1
         /\ on.queue[l + 1] = c /\ \A a \in 1 .. l : on.queue[a] = w.queue[a] /\ w.queue[a] \in known
    BY <2>2, <2>7, <2>10 DEF HasGoneOver
  <2>12. \A q : Waits(on, q) <=> Waits(w, q) \/ q = c
    <3>1. 1 .. l + 1 = (1 .. l) \cup {l + 1}
      BY <2>10
    <3> QED
      BY <2>10, <2>11, <3>1 DEF Waits
  <2>13. \A a, b \in 1 .. Len(on.queue) : on.queue[a] = on.queue[b] => a = b
    <3>1. \A a, b \in 1 .. l : w.queue[a] = w.queue[b] => a = b
      BY <2>2, <2>10 DEF HasGoneOver
    <3>2. TAKE a, b \in 1 .. Len(on.queue)
    <3>3. (a \in 1 .. l \/ a = l + 1) /\ (b \in 1 .. l \/ b = l + 1)
      BY <2>10, <2>11
    <3> QED
      BY <2>4, <2>11, <3>1, <3>3
  <2>14. DOMAIN on.poses = {g.root} \cup {g.bends[i].child : i \in B \cup {m}}
    BY <2>2, <2>8 DEF HasGoneOver
  <2>15. ASSUME NEW i \in B \cup {m}
         PROVE  g.bends[i].parent \in DOMAIN on.poses /\ FoldedOver(g, grounded, on.poses, i)
    <3>1. CASE i = m
      BY <1>3, <2>2, <2>8, <2>9, <3>1 DEF FoldedOver, new, f
    <3>2. CASE i \in B
      <4>1. g.bends[i].parent \in known /\ g.bends[i].child \in known
        BY <2>2, <3>2 DEF HasGoneOver
      <4>2. FoldedOver(g, grounded, w.poses, i)
        BY <2>2, <3>2 DEF HasGoneOver
      <4>3. /\ on.poses[g.bends[i].parent] = w.poses[g.bends[i].parent]
            /\ on.poses[g.bends[i].child] = w.poses[g.bends[i].child]
        BY <2>9, <4>1
      <4> QED
        BY <2>8, <4>1, <4>2, <4>3 DEF FoldedOver
    <3> QED
      BY <3>1, <3>2
  <2>16. on.poses[g.root] = [pose |-> g.anchor, shift |-> <<0, 0>>]
    BY <2>2, <2>9 DEF HasGoneOver
  <2>17. HasGoneOver(g, grounded, on, B \cup {m})
    <3>1. B \cup {m} \subseteq 1 .. n
      BY <2>2 DEF HasGoneOver
    <3>2. on.queue \in Seq(DOMAIN on.poses)
      BY <2>8, <2>11
    <3> HIDE DEF on
    <3> QED
      BY <2>6, <2>13, <2>14, <2>15, <2>16, <3>1, <3>2 DEF HasGoneOver
  <2>18. p \in DOMAIN on.poses /\ ~ Waits(on, p)
    BY <2>2, <2>4, <2>8, <2>12
  <2>19. ASSUME NEW i \in 1 .. n
         PROVE  i \in B \cup {m} <=> /\ g.bends[i].parent \in DOMAIN on.poses
                                     /\ ~ Waits(on, g.bends[i].parent)
                                     /\ (g.bends[i].parent = p => i <= m)
    <3>1. i \in B <=> /\ g.bends[i].parent \in known /\ ~ Waits(w, g.bends[i].parent)
                      /\ (g.bends[i].parent = p => i <= m - 1)
      BY DEF AtPanel
    <3>2. g.bends[i].parent \in DOMAIN on.poses /\ ~ Waits(on, g.bends[i].parent)
            <=> g.bends[i].parent \in known /\ ~ Waits(w, g.bends[i].parent)
      BY <2>4, <2>8, <2>12
    <3>3. i <= m <=> i <= m - 1 \/ i = m
      BY <1>1
    <3> QED
      BY <1>3, <2>2, <3>1, <3>2, <3>3
  <2>20. AtPanel(g, grounded, on, B \cup {m}, p, m)
    <3> HIDE DEF on
    <3> QED
      BY <2>17, <2>18, <2>19 DEF AtPanel
  <2>21. Len(on.queue) = Len(w.queue) + 1
    BY <2>10, <2>11
  <2> HIDE DEF on
  <2>22. GoesOver(g, grounded, w, B, p, m, on)
    BY <2>3, <2>20, <2>21 DEF GoesOver
  <2> QED
    BY <2>22 DEF on
<1> QED
  BY <1>2, <1>3

\* A set of bends is finite, and one bend more makes it larger by one.
LEMMA GoneOverIsFinite ==
    ASSUME NEW n \in Nat, NEW B \in SUBSET (1 .. n)
    PROVE  /\ IsFiniteSet(B) /\ Cardinality(B) \in Nat /\ Cardinality(B) <= n
           /\ \A m : m \notin B => Cardinality(B \cup {m}) = Cardinality(B) + 1
<1>1. IsFiniteSet(1 .. n) /\ Cardinality(1 .. n) = n
  <2>1. Cardinality(1 .. n) = IF 1 > n THEN 0 ELSE n - 1 + 1
    BY FS_Interval
  <2> QED
    BY <2>1, FS_Interval
<1>2. IsFiniteSet(B) /\ Cardinality(B) <= Cardinality(1 .. n)
  BY <1>1, FS_Subset
<1>3. Cardinality(B) \in Nat
  BY <1>2, FS_CardinalityType
<1>4. ASSUME NEW m, m \notin B PROVE Cardinality(B \cup {m}) = Cardinality(B) + 1
  BY <1>2, <1>4, FS_AddElement
<1> QED
  BY <1>1, <1>2, <1>3, <1>4

\* Taken from the queue, a panel has none of its bends gone over.
LEMMA HeadLeaves ==
    ASSUME NEW g, NEW T, g.bends \in Seq(T), NEW grounded, NEW w, NEW B,
           BetweenPanels(g, grounded, w, B), w.queue # <<>>
    PROVE  LET next == [w EXCEPT !.queue = Tail(@)]
           IN  AtPanel(g, grounded, next, B, Head(w.queue), 0) /\ Len(next.queue) = Len(w.queue) - 1
<1> DEFINE n == Len(g.bends)
           next == [w EXCEPT !.queue = Tail(@)]
           p == Head(w.queue)
<1>1. n \in Nat
  OBVIOUS
<1>2. /\ w = [queue |-> w.queue, bridges |-> w.bridges, poses |-> w.poses]
      /\ w.queue \in Seq(DOMAIN w.poses)
  BY DEF BetweenPanels, HasGoneOver
<1>3. next = [queue |-> Tail(w.queue), bridges |-> w.bridges, poses |-> w.poses]
  <2>1. PICK q, b, o, r : q = w.queue /\ b = w.bridges /\ o = w.poses /\ r = Tail(w.queue)
    OBVIOUS
  <2>2. w = [queue |-> q, bridges |-> b, poses |-> o]
    BY <1>2, <2>1
  <2>3. [w EXCEPT !.queue = r] = [queue |-> r, bridges |-> b, poses |-> o]
    BY <2>2
  <2>4. next = [w EXCEPT !.queue = r]
    BY <2>1, Zenon
  <2> QED
    BY <2>1, <2>3, <2>4, Zenon
<1>4. next.queue = Tail(w.queue) /\ next.poses = w.poses /\ next.bridges = w.bridges
  BY <1>3
<1>5. PICK l \in Nat : l = Len(w.queue) /\ l > 0
  BY <1>2
<1>6. /\ next.queue \in Seq(DOMAIN w.poses) /\ Len(next.queue) = l - 1
      /\ \A a \in 1 .. l - 1 : next.queue[a] = w.queue[a + 1]
      /\ p = w.queue[1] /\ p \in DOMAIN w.poses
  BY <1>2, <1>4, <1>5
<1> HIDE DEF next, p
<1>7. \A a, b \in 1 .. l : w.queue[a] = w.queue[b] => a = b
  BY <1>5 DEF BetweenPanels, HasGoneOver
<1>8. Waits(w, p)
  BY <1>5, <1>6 DEF Waits
<1>9. ASSUME NEW q PROVE Waits(next, q) <=> Waits(w, q) /\ q # p
  <2>1. ASSUME NEW a \in 1 .. l - 1, next.queue[a] = q PROVE Waits(w, q) /\ q # p
    <3>1. a + 1 \in 1 .. l /\ w.queue[a + 1] = q /\ a + 1 # 1 /\ 1 \in 1 .. l
      BY <1>5, <1>6, <2>1
    <3> QED
      BY <1>5, <1>6, <1>7, <3>1 DEF Waits
  <2>2. ASSUME NEW a \in 1 .. l, w.queue[a] = q, q # p PROVE Waits(next, q)
    <3>1. a - 1 \in 1 .. l - 1 /\ (a - 1) + 1 = a
      BY <1>5, <1>6, <2>2
    <3>2. next.queue[a - 1] = q
      BY <1>6, <2>2, <3>1
    <3> QED
      BY <1>6, <3>1, <3>2 DEF Waits
  <2> QED
    BY <1>5, <1>6, <2>1, <2>2 DEF Waits
<1>10. \A a, b \in 1 .. Len(next.queue) : next.queue[a] = next.queue[b] => a = b
  <2>1. TAKE a, b \in 1 .. Len(next.queue)
  <2>2. a + 1 \in 1 .. l /\ b + 1 \in 1 .. l /\ a \in Int /\ b \in Int
    BY <1>5, <1>6
  <2>3. next.queue[a] = w.queue[a + 1] /\ next.queue[b] = w.queue[b + 1]
    BY <1>6
  <2>4. next.queue[a] = next.queue[b] => a + 1 = b + 1
    BY <1>7, <2>2, <2>3
  <2> QED
    BY <2>2, <2>4
<1>11. HasGoneOver(g, grounded, next, B)
  <2>1. next = [queue |-> next.queue, bridges |-> next.bridges, poses |-> next.poses]
    BY <1>3
  <2> QED
    BY <1>4, <1>6, <1>10, <2>1 DEF BetweenPanels, HasGoneOver
<1>12. ASSUME NEW i \in 1 .. n
       PROVE  i \in B <=> /\ g.bends[i].parent \in DOMAIN next.poses
                          /\ ~ Waits(next, g.bends[i].parent)
                          /\ (g.bends[i].parent = p => i <= 0)
  <2>1. i \in B <=> g.bends[i].parent \in DOMAIN w.poses /\ ~ Waits(w, g.bends[i].parent)
    BY DEF BetweenPanels
  <2>2. ~ (i <= 0)
    BY <1>1
  <2> QED
    BY <1>4, <1>8, <1>9, <2>1, <2>2
<1>13. p \in DOMAIN next.poses /\ ~ Waits(next, p)
  BY <1>4, <1>6, <1>9
<1>14. AtPanel(g, grounded, next, B, p, 0)
  BY <1>11, <1>12, <1>13 DEF AtPanel
<1> QED
  BY <1>5, <1>6, <1>14 DEF next, p

PassesTo(g, grounded, w, B, on, C) ==
    /\ BetweenPanels(g, grounded, on, C)
    /\ Len(on.queue) + Cardinality(B) + 1 = Len(w.queue) + Cardinality(C)

\* A panel taken from the queue has its bends gone over, so there are fewer
\* left to go over, or fewer panels wait.
LEMMA OneMorePanel ==
    ASSUME NEW g, NEW T, g.bends \in Seq(T), NEW V, IsTree(g.bends, V, g.root), NEW grounded,
           NEW w, NEW B, BetweenPanels(g, grounded, w, B), w.queue # <<>>
    PROVE  \E C : PassesTo(g, grounded, w, B, PoseStep(g, grounded, w), C)
<1>1. PICK n \in Nat : n = Len(g.bends)
  OBVIOUS
<1>2. PICK p : p = Head(w.queue)
  OBVIOUS
<1>3. PICK past :
          /\ past[0] = [w EXCEPT !.queue = Tail(@)]
          /\ \A i \in 1 .. n : past[i] = OverBend(g, grounded, p, past[i - 1], i)
          /\ PoseStep(g, grounded, w) = past[n]
  <2>1. PICK past : IsPass(g, grounded, w, past)
    BY PassOf
  <2> QED
    BY <1>1, <1>2, <2>1, Zenon DEF IsPass
<1>4. PICK l \in Nat : l = Len(w.queue)
  BY DEF BetweenPanels, HasGoneOver
<1>5. B \in SUBSET (1 .. n) /\ Cardinality(B) \in Nat
  BY <1>1, GoneOverIsFinite DEF BetweenPanels, HasGoneOver
<1> DEFINE Good(i, C) == /\ AtPanel(g, grounded, past[i], C, p, i)
                         /\ Len(past[i].queue) + Cardinality(B) + 1 = l + Cardinality(C)
           S == {i \in 0 .. n : \E C : Good(i, C)}
<1>6. 0 \in S
  <2>1. AtPanel(g, grounded, past[0], B, p, 0) /\ Len(past[0].queue) = l - 1
    <3>1. /\ AtPanel(g, grounded, [w EXCEPT !.queue = Tail(@)], B, Head(w.queue), 0)
          /\ Len([w EXCEPT !.queue = Tail(@)].queue) = Len(w.queue) - 1
      BY HeadLeaves, Zenon
    <3> QED
      BY <1>2, <1>3, <1>4, <3>1, Zenon
  <2>2. Good(0, B)
    BY <1>4, <1>5, <2>1
  <2> QED
    BY <1>1, <2>2
<1>7. ASSUME NEW i \in 0 .. n - 1, i \in S PROVE i + 1 \in S
  <2>1. PICK C : Good(i, C)
    BY <1>7
  <2>2. i + 1 \in 1 .. n /\ (i + 1) - 1 = i /\ i \in Int
    BY <1>1
  <2>3. past[i + 1] = OverBend(g, grounded, p, past[i], i + 1)
    BY <1>3, <2>2
  <2>4. AtPanel(g, grounded, past[i], C, p, (i + 1) - 1)
    BY <2>1, <2>2
  <2>5. \/ past[i + 1] = past[i] /\ AtPanel(g, grounded, past[i + 1], C, p, i + 1)
        \/ /\ i + 1 \notin C /\ Len(past[i + 1].queue) = Len(past[i].queue) + 1
           /\ AtPanel(g, grounded, past[i + 1], C \cup {i + 1}, p, i + 1)
    <3>1. PICK m \in 1 .. Len(g.bends) : m = i + 1
      BY <1>1, <2>2
    <3>2. AtPanel(g, grounded, past[i], C, p, m - 1) /\ past[m] = OverBend(g, grounded, p, past[i], m)
      BY <2>3, <2>4, <3>1
    <3>3. GoesOver(g, grounded, past[i], C, p, m, OverBend(g, grounded, p, past[i], m))
      BY <3>2, OneMoreBend
    <3>4. GoesOver(g, grounded, past[i], C, p, i + 1, past[i + 1])
      BY <3>1, <3>2, <3>3
    <3> QED
      BY <3>4 DEF GoesOver
  <2>6. C \in SUBSET (1 .. n) /\ past[i].queue \in Seq(DOMAIN past[i].poses)
    BY <1>1, <2>1 DEF AtPanel, HasGoneOver
  <2>7. PICK k \in Nat : k = Len(past[i].queue)
    BY <2>6
  <2>8. /\ Cardinality(C) \in Nat
        /\ i + 1 \notin C => Cardinality(C \cup {i + 1}) = Cardinality(C) + 1
    BY <2>6, GoneOverIsFinite
  <2>9. \E D : Good(i + 1, D)
    <3>1. CASE past[i + 1] = past[i] /\ AtPanel(g, grounded, past[i + 1], C, p, i + 1)
      <4>1. Good(i + 1, C)
        BY <2>1, <3>1
      <4> QED
        BY <4>1
    <3>2. CASE /\ i + 1 \notin C /\ Len(past[i + 1].queue) = Len(past[i].queue) + 1
               /\ AtPanel(g, grounded, past[i + 1], C \cup {i + 1}, p, i + 1)
      <4>1. k + Cardinality(B) + 1 = l + Cardinality(C)
        BY <2>1, <2>7
      <4>2. Len(past[i + 1].queue) + Cardinality(B) + 1 = l + Cardinality(C \cup {i + 1})
        <5>1. PICK b \in Nat, c \in Nat : b = Cardinality(B) /\ c = Cardinality(C)
          BY <1>5, <2>8
        <5>2. Cardinality(C \cup {i + 1}) = c + 1 /\ Len(past[i + 1].queue) = k + 1
          BY <2>7, <2>8, <3>2, <5>1
        <5>3. k + b + 1 = l + c
          BY <4>1, <5>1
        <5>4. (k + 1) + b + 1 = l + (c + 1)
          BY <5>3
        <5> QED
          BY <5>1, <5>2, <5>4
      <4>3. Good(i + 1, C \cup {i + 1})
        BY <3>2, <4>2
      <4> QED
        BY <4>3
    <3> QED
      BY <2>5, <3>1, <3>2
  <2> QED
    BY <1>1, <2>2, <2>9
<1>8. n \in S
  <2> HIDE DEF S
  <2>1. \A i \in 0 .. n : i \in S
    BY <1>1, <1>6, <1>7, Upward
  <2> QED
    BY <1>1, <2>1
<1>9. PICK C : Good(n, C)
  BY <1>8
<1>10. BetweenPanels(g, grounded, past[n], C)
  <2>1. \A i \in 1 .. n : i <= n
    OBVIOUS
  <2> QED
    BY <1>1, <1>9, <2>1 DEF AtPanel, BetweenPanels
<1>11. PassesTo(g, grounded, w, B, past[n], C)
  BY <1>4, <1>9, <1>10 DEF PassesTo
<1> QED
  BY <1>3, <1>11

\* PoseWalk comes to every panel, and puts each where its bend does.
LEMMA WalkPoses ==
    ASSUME NEW g, NEW T, g.bends \in Seq(T), NEW V, IsTree(g.bends, V, g.root), NEW grounded
    PROVE  LET poses == PoseWalk(g, grounded).poses
           IN  /\ DOMAIN poses = V
               /\ poses[g.root] = [pose |-> g.anchor, shift |-> <<0, 0>>]
               /\ \A i \in 1 .. Len(g.bends) : FoldedOver(g, grounded, poses, i)
<1>1. PICK n \in Nat : n = Len(g.bends)
  OBVIOUS
<1>2. PICK walked :
          /\ walked[0] = [queue |-> <<g.root>>, bridges |-> <<>>,
                          poses |-> [p \in {g.root} |-> [pose |-> g.anchor, shift |-> <<0, 0>>]]]
          /\ \A i \in 1 .. n + 1 : walked[i] = PoseStep(g, grounded, walked[i - 1])
          /\ PoseWalk(g, grounded) = walked[n + 1]
  <2>1. PICK walked : IsWalk(g, grounded, walked)
    BY WalkOf
  <2> QED
    BY <1>1, <2>1, Zenon DEF IsWalk
<1> DEFINE Good(k, B) == /\ BetweenPanels(g, grounded, walked[k], B)
                         /\ walked[k].queue = <<>> \/ Len(walked[k].queue) + k = Cardinality(B) + 1
           S == {k \in 0 .. n + 1 : \E B : Good(k, B)}
<1>3. 0 \in S
  <2>1. /\ walked[0].queue = <<g.root>> /\ walked[0].bridges = <<>>
        /\ walked[0].poses = [p \in {g.root} |-> [pose |-> g.anchor, shift |-> <<0, 0>>]]
        /\ walked[0] = [queue |-> walked[0].queue, bridges |-> walked[0].bridges,
                        poses |-> walked[0].poses]
    BY <1>2
  <2>2. /\ DOMAIN walked[0].poses = {g.root} /\ Len(walked[0].queue) = 1
        /\ walked[0].queue[1] = g.root /\ walked[0].queue \in Seq({g.root})
        /\ walked[0].poses[g.root] = [pose |-> g.anchor, shift |-> <<0, 0>>]
    BY <2>1
  <2>3. \A q : Waits(walked[0], q) <=> q = g.root
    BY <2>2 DEF Waits
  <2>4. HasGoneOver(g, grounded, walked[0], {})
    BY <2>1, <2>2 DEF HasGoneOver
  <2>5. BetweenPanels(g, grounded, walked[0], {})
    BY <2>2, <2>3, <2>4 DEF BetweenPanels
  <2>6. Cardinality({}) = 0
    BY FS_EmptySet
  <2>7. Good(0, {})
    BY <2>2, <2>5, <2>6
  <2> QED
    BY <1>1, <2>7
<1>4. ASSUME NEW k \in 0 .. n, k \in S PROVE k + 1 \in S
  <2>1. PICK B : Good(k, B)
    BY <1>4
  <2>2. k + 1 \in 1 .. n + 1 /\ (k + 1) - 1 = k /\ k \in Int
    BY <1>1
  <2>3. walked[k + 1] = PoseStep(g, grounded, walked[k])
    BY <1>2, <2>2
  <2>4. \E C : Good(k + 1, C)
    <3>1. CASE walked[k].queue = <<>>
      <4>1. walked[k + 1] = walked[k]
        BY <2>3, <3>1 DEF PoseStep
      <4>2. Good(k + 1, B)
        BY <2>1, <3>1, <4>1
      <4> QED
        BY <4>2
    <3>2. CASE walked[k].queue # <<>>
      <4>1. PICK C : /\ BetweenPanels(g, grounded, walked[k + 1], C)
                     /\ Len(walked[k + 1].queue) + Cardinality(B) + 1
                          = Len(walked[k].queue) + Cardinality(C)
        <5>1. PICK C : PassesTo(g, grounded, walked[k], B, PoseStep(g, grounded, walked[k]), C)
          <6>1. BetweenPanels(g, grounded, walked[k], B)
            BY <2>1
          <6> HIDE DEF Good, S
          <6> QED
            BY <3>2, <6>1, OneMorePanel
        <5> QED
          BY <2>3, <5>1 DEF PassesTo
      <4>2. /\ B \in SUBSET (1 .. n) /\ C \in SUBSET (1 .. n)
            /\ walked[k].queue \in Seq(DOMAIN walked[k].poses)
            /\ walked[k + 1].queue \in Seq(DOMAIN walked[k + 1].poses)
        BY <1>1, <2>1, <4>1 DEF BetweenPanels, HasGoneOver
      <4>3. PICK b \in Nat, c \in Nat : b = Cardinality(B) /\ c = Cardinality(C)
        BY <4>2, GoneOverIsFinite
      <4>4. PICK x \in Nat, y \in Nat : x = Len(walked[k].queue) /\ y = Len(walked[k + 1].queue)
        BY <4>2
      <4>5. y + b + 1 = x + c /\ x + k = b + 1
        BY <2>1, <3>2, <4>1, <4>3, <4>4
      <4>6. y + (k + 1) = c + 1
        BY <2>2, <4>5
      <4>7. Good(k + 1, C)
        BY <4>1, <4>3, <4>4, <4>6
      <4> QED
        BY <4>7
    <3> QED
      BY <3>1, <3>2
  <2> QED
    BY <1>1, <2>2, <2>4
<1>5. n + 1 \in S
  <2> HIDE DEF S
  <2>1. \A k \in 0 .. (n + 1) - 1 : k \in S => k + 1 \in S
    BY <1>1, <1>4
  <2>2. \A i \in 0 .. n + 1 : i \in S
    BY <1>1, <1>3, <2>1, Upward, SMTT(30)
  <2> QED
    BY <1>1, <2>2
<1>6. PICK B : Good(n + 1, B)
  BY <1>5
<1>7. PICK w : w = walked[n + 1]
  OBVIOUS
<1>8. HasGoneOver(g, grounded, w, B)
  BY <1>6, <1>7 DEF BetweenPanels
<1>9. w.queue = <<>>
  <2>1. B \in SUBSET (1 .. n) /\ w.queue \in Seq(DOMAIN w.poses)
    BY <1>1, <1>8 DEF HasGoneOver
  <2>2. PICK b \in Nat : b = Cardinality(B) /\ b <= n
    BY <2>1, GoneOverIsFinite
  <2>3. PICK x \in Nat : x = Len(w.queue) /\ (x = 0 => w.queue = <<>>)
    <3>1. PICK Q : Q = DOMAIN w.poses
      OBVIOUS
    <3>2. PICK s \in Seq(Q) : s = w.queue
      BY <2>1, <3>1
    <3>3. Len(s) \in Nat /\ (Len(s) = 0 => s = <<>>)
      OBVIOUS
    <3> QED
      BY <3>2, <3>3
  <2>4. w.queue = <<>> \/ x + (n + 1) = b + 1
    BY <1>6, <1>7, <2>2, <2>3
  <2>5. \A u, v, k \in Nat : (v <= k /\ u + (k + 1) = v + 1) => u = 0
    OBVIOUS
  <2>6. x + (n + 1) = b + 1 => x = 0
    <3>1. x \in Nat /\ b \in Nat /\ n \in Nat /\ b <= n
      BY <1>1, <2>2, <2>3
    <3> QED
      BY <2>5, <3>1, Zenon
  <2> QED
    BY <2>3, <2>4, <2>6
<1>10. \A q : ~ Waits(w, q)
  <2>1. Len(w.queue) = 0
    BY <1>9
  <2> QED
    BY <2>1 DEF Waits
<1>11. \A i \in 1 .. n : i \in B <=> g.bends[i].parent \in DOMAIN w.poses
  BY <1>1, <1>6, <1>7, <1>10 DEF BetweenPanels
<1>12. DOMAIN w.poses = V
  <2>1. \A i \in 1 .. n : g.bends[i].parent \in DOMAIN w.poses => g.bends[i].child \in DOMAIN w.poses
    BY <1>8, <1>11 DEF HasGoneOver
  <2>2. g.root \in DOMAIN w.poses /\ DOMAIN w.poses \subseteq V
    BY <1>1, <1>8 DEF HasGoneOver, IsTree
  <2> QED
    BY <1>1, <2>1, <2>2 DEF IsTree, Reached
<1>13. \A i \in 1 .. n : FoldedOver(g, grounded, w.poses, i)
  <2>1. \A i \in 1 .. n : g.bends[i].parent \in V
    BY <1>1 DEF IsTree
  <2> QED
    BY <1>8, <1>11, <1>12, <2>1 DEF HasGoneOver
<1> QED
  BY <1>1, <1>2, <1>7, <1>8, <1>12, <1>13 DEF HasGoneOver
-----------------------------------------------------------------------------
\* Evaluate: what of the walk it reports.

\* A panel of the tree is its root, or hangs from a bend.
LEMMA RootOrChild ==
    ASSUME NEW bends, NEW V, NEW root, IsTree(bends, V, root), NEW p \in V
    PROVE  p = root \/ \E i \in 1 .. Len(bends) : p = bends[i].child
<1> DEFINE S == {q \in V : q = root \/ \E i \in 1 .. Len(bends) : q = bends[i].child}
<1>1. root \in S /\ S \in SUBSET V
  BY DEF IsTree
<1>2. \A i \in 1 .. Len(bends) : bends[i].child \in S
  BY DEF IsTree
<1>3. S = V
  <2> HIDE DEF S
  <2> QED
    BY <1>1, <1>2 DEF IsTree, Reached
<1> QED
  BY <1>3

\* The pose and the share a panel is laid out with are those of the walk.
LEMMA BesidePose ==
    ASSUME NEW a, NEW s, NEW x, x = [pose |-> a, shift |-> s], NEW f
    PROVE  Beside(x, f).pose = a /\ Beside(x, f).shift = s
<1>1. DOMAIN x = {"pose", "shift"} /\ x["pose"] = a /\ x["shift"] = s
  OBVIOUS
<1>2. "pose" \in DOMAIN x \cup DOMAIN f /\ "shift" \in DOMAIN x \cup DOMAIN f
  BY <1>1
<1>3. Beside(x, f)["pose"] = x["pose"] /\ Beside(x, f)["shift"] = x["shift"]
  BY <1>1, <1>2 DEF Beside
<1> QED
  BY <1>1, <1>3

\* A fold puts the child where the bend turns its parent.
LEMMA FoldedChild ==
    ASSUME NEW g, NEW b, NEW hinge, NEW pose, NEW shift
    PROVE  Folded(g, b, hinge, pose, shift).childPose
             = Compose(WorldFold(b, g.thickness, hinge, pose), pose)
BY DEF Folded

\* What the walk makes of a tree: every panel of it, where its bend puts it.
WalkHangs(g, V, grounded) ==
    LET poses == PoseWalk(g, grounded).poses
        pose == [p \in V |-> poses[p].pose]
    IN  /\ DOMAIN poses = V
        /\ \A p \in V : poses[p] = [pose |-> poses[p].pose, shift |-> poses[p].shift]
        /\ pose[g.root] = g.anchor
        /\ PosedBy(g.bends, g.thickness, grounded.hinges, pose)

\* The walk poses every panel of a tree where the fold of its parent puts it.
LEMMA WalkOfTreeHangs ==
    ASSUME NEW g, NEW T, g.bends \in Seq(T), NEW V, IsTree(g.bends, V, g.root), NEW grounded
    PROVE  WalkHangs(g, V, grounded)
<1>1. PICK poses : poses = PoseWalk(g, grounded).poses
  OBVIOUS
<1>2. /\ DOMAIN poses = V
      /\ poses[g.root] = [pose |-> g.anchor, shift |-> <<0, 0>>]
      /\ \A i \in 1 .. Len(g.bends) : FoldedOver(g, grounded, poses, i)
  BY <1>1, WalkPoses
<1>3. ASSUME NEW p \in V
      PROVE  poses[p] = [pose |-> poses[p].pose, shift |-> poses[p].shift]
  <2>1. CASE p = g.root
    BY <1>2, <2>1
  <2>2. CASE \E i \in 1 .. Len(g.bends) : p = g.bends[i].child
    <3>1. PICK i \in 1 .. Len(g.bends) : p = g.bends[i].child
      BY <2>2
    <3>2. PICK a, s : poses[p] = [pose |-> a, shift |-> s]
      BY <1>2, <3>1 DEF FoldedOver
    <3> QED
      BY <3>2
  <2> QED
    BY <2>1, <2>2, RootOrChild
<1> DEFINE pose == [p \in V |-> poses[p].pose]
<1>4. g.root \in V /\ \A i \in 1 .. Len(g.bends) : g.bends[i].parent \in V /\ g.bends[i].child \in V
  BY DEF IsTree
<1>5. pose[g.root] = g.anchor
  BY <1>2, <1>4
<1>6. ASSUME NEW i \in 1 .. Len(g.bends)
      PROVE  pose[g.bends[i].child]
               = Compose(WorldFold(g.bends[i], g.thickness, grounded.hinges[i], pose[g.bends[i].parent]),
                         pose[g.bends[i].parent])
  <2>1. PICK b, from : b = g.bends[i] /\ from = poses[b.parent]
    OBVIOUS
  <2>2. pose[b.parent] = from.pose /\ pose[b.child] = poses[b.child].pose
    BY <1>4, <2>1
  <2>3. PICK f : f = Folded(g, b, grounded.hinges[i], from.pose, from.shift)
    OBVIOUS
  <2>4. poses[b.child] = [pose |-> f.childPose, shift |-> f.childShift]
    BY <1>2, <2>1, <2>3 DEF FoldedOver
  <2>5. f.childPose = Compose(WorldFold(b, g.thickness, grounded.hinges[i], from.pose), from.pose)
    BY <2>3, FoldedChild
  <2> QED
    BY <2>1, <2>2, <2>4, <2>5
<1>7. PosedBy(g.bends, g.thickness, grounded.hinges, pose)
  BY <1>6 DEF PosedBy
<1> QED
  BY <1>1, <1>2, <1>3, <1>5, <1>7 DEF WalkHangs

\* An evaluated part is a tree, its panels are the tree's, and each has the
\* pose the walk gave it.
EvaluatedAs(g, layout) ==
    LET walk == PoseWalk(g, EnsureHingeVertices(g))
    IN  /\ ValidateTree(g) = "none"
        /\ DOMAIN layout.panels = DOMAIN walk.poses
        /\ \A p \in DOMAIN layout.panels : \E f : layout.panels[p] = Beside(walk.poses[p], f)

\* A part that could be laid out passed ValidateTree, and its panels have the
\* poses of the walk.
LEMMA EvaluatedIs ==
    ASSUME NEW g, Evaluate(g).ok
    PROVE  EvaluatedAs(g, Evaluate(g))
<1>1. \A code : ~ Failed(code).ok
  BY DEF Failed
<1>2. /\ ValidateTree(g) = "none"
      /\ Evaluate(g) = EvaluateOn(g, EnsureHingeVertices(g))
  BY <1>1 DEF Evaluate
<1>3. PICK walk : walk = PoseWalk(g, EnsureHingeVertices(g))
  OBVIOUS
<1>4. PICK region : /\ DOMAIN region = DOMAIN walk.poses
                    /\ Evaluate(g) = LaidOut(walk, region)
  BY <1>2, <1>3 DEF EvaluateOn, Regions
<1>5. LaidOut(walk, region)
        = [ok |-> TRUE, code |-> "none", bridges |-> walk.bridges,
           panels |-> [p \in DOMAIN region |-> Beside(walk.poses[p], region[p])]]
  BY <1>1, <1>4 DEF LaidOut
<1>6. Evaluate(g).panels = [p \in DOMAIN region |-> Beside(walk.poses[p], region[p])]
  BY <1>4, <1>5
<1> QED
  BY <1>2, <1>3, <1>4, <1>6 DEF EvaluatedAs

\* Evaluate lays the panels of a part out as a tree: every panel of the graph,
\* each where the fold of its parent's puts it.
LEMMA LayoutHangs ==
    ASSUME NEW g, NEW T, g.bends \in Seq(T), Evaluate(g).ok
    PROVE  /\ DOMAIN Evaluate(g).panels = Panels(g)
           /\ IsTree(g.bends, Panels(g), g.root)
           /\ Evaluate(g).panels[g.root].pose = g.anchor
           /\ PosedBy(g.bends, g.thickness, EnsureHingeVertices(g).hinges,
                      [p \in Panels(g) |-> Evaluate(g).panels[p].pose])
<1>1. PICK layout, V, grounded :
        layout = Evaluate(g) /\ V = Panels(g) /\ grounded = EnsureHingeVertices(g)
  OBVIOUS
<1>2. EvaluatedAs(g, layout)
  BY <1>1, EvaluatedIs
<1>3. IsTree(g.bends, V, g.root)
  BY <1>1, <1>2, ValidIsTree DEF EvaluatedAs
<1>4. PICK poses : poses = PoseWalk(g, grounded).poses
  OBVIOUS
<1>5. /\ DOMAIN poses = V
      /\ \A p \in V : poses[p] = [pose |-> poses[p].pose, shift |-> poses[p].shift]
      /\ [p \in V |-> poses[p].pose][g.root] = g.anchor
      /\ PosedBy(g.bends, g.thickness, grounded.hinges, [p \in V |-> poses[p].pose])
  <2>1. WalkHangs(g, V, grounded)
    BY <1>3, WalkOfTreeHangs
  <2> QED
    BY <1>4, <2>1, Zenon DEF WalkHangs
<1>6. DOMAIN layout.panels = V
  BY <1>1, <1>2, <1>4, <1>5 DEF EvaluatedAs
<1>7. ASSUME NEW p \in V PROVE layout.panels[p].pose = poses[p].pose
  <2>1. PICK f : layout.panels[p] = Beside(poses[p], f)
    BY <1>1, <1>2, <1>4, <1>6 DEF EvaluatedAs
  <2>2. Beside(poses[p], f).pose = poses[p].pose
    BY <1>5, BesidePose
  <2> QED
    BY <2>1, <2>2
<1>8. [p \in V |-> layout.panels[p].pose] = [p \in V |-> poses[p].pose]
  BY <1>7
<1>9. g.root \in V
  BY <1>3 DEF IsTree
<1>10. layout.panels[g.root].pose = g.anchor
  BY <1>5, <1>7, <1>9
<1> QED
  BY <1>1, <1>3, <1>5, <1>6, <1>8, <1>10

\* Evaluate lays the panels of a part out as a tree, for every graph: all its
\* panels, each where the fold of its parent puts it
\* (evaluateManufacturingGraph, bend_transform.cc). This is what the proofs
\* about rerooting and turning over suppose of a layout.
THEOREM EvaluatedPartsHang ==
    ASSUME NEW g, NEW T, g.bends \in Seq(T), Evaluate(g).ok
    PROVE  Hangs(g, Evaluate(g))
<1>1. PICK layout, V : layout = Evaluate(g) /\ V = Panels(g)
  OBVIOUS
<1>2. /\ DOMAIN layout.panels = V
      /\ IsTree(g.bends, V, g.root)
      /\ PosedBy(g.bends, g.thickness, EnsureHingeVertices(g).hinges,
                 [p \in V |-> layout.panels[p].pose])
  BY <1>1, LayoutHangs
<1>3. DOMAIN [p \in V |-> layout.panels[p].pose] = V
  OBVIOUS
<1>4. Reached(g.bends, V, g.root)
  BY <1>2 DEF IsTree
<1>5. Hangs(g, layout)
  BY <1>2, <1>3, <1>4 DEF Hangs
<1> QED
  BY <1>1, <1>5
-----------------------------------------------------------------------------
\* The way from a panel up to the root (PathUp, rerootPart).

\* One step of the way up from a panel to the root.
BendInto(bends, panel) == CHOOSE i \in 1 .. Len(bends) : bends[i].child = panel
WayStep(bends, root, way) ==
    IF way.at = root THEN way
    ELSE [at |-> bends[BendInto(bends, way.at)].parent,
          path |-> way.path \cup {BendInto(bends, way.at)}]
IsWayUp(bends, root, newRoot, up) ==
    /\ up[0] = [at |-> newRoot, path |-> {}]
    /\ \A i \in 1 .. Len(bends) : up[i] = WayStep(bends, root, up[i - 1])
    /\ PathUp(bends, root, newRoot) = up[Len(bends)].path

\* There is the way up after each of its steps.
LEMMA WayUpOf ==
    ASSUME NEW bends, NEW T, bends \in Seq(T), NEW root, NEW newRoot
    PROVE  \E up : IsWayUp(bends, root, newRoot, up)
<1> DEFINE n == Len(bends)
           base == [at |-> newRoot, path |-> {}]
           WayUpTo(m, f) ==
               f = [i \in 0 .. m |-> IF i = 0 THEN base ELSE WayStep(bends, root, f[i - 1])]
           S == {m \in 0 .. n : \E f : WayUpTo(m, f)}
<1>1. n \in Nat
  OBVIOUS
<1>2. 0 \in S
  <2> HIDE DEF base
  <2> DEFINE f == [i \in 0 .. 0 |-> base]
  <2>1. WayUpTo(0, f)
    OBVIOUS
  <2>2. \E h : WayUpTo(0, h)
    <3> HIDE DEF WayUpTo, f
    <3> QED
      BY <2>1
  <2> HIDE DEF WayUpTo
  <2> QED
    BY <1>1, <2>2
<1>3. ASSUME NEW m \in 0 .. n - 1, m \in S PROVE m + 1 \in S
  <2>1. PICK f : WayUpTo(m, f)
    BY <1>3
  <2> HIDE DEF base
  <2> DEFINE h == [i \in 0 .. m + 1 |-> IF i = m + 1 THEN WayStep(bends, root, f[m]) ELSE f[i]]
  <2>2. ASSUME NEW i \in 0 .. m + 1
        PROVE  h[i] = IF i = 0 THEN base ELSE WayStep(bends, root, h[i - 1])
    <3>1. CASE i = m + 1
      <4>1. h[i] = WayStep(bends, root, f[m]) /\ h[i - 1] = f[m] /\ i # 0
        BY <3>1
      <4> QED
        BY <3>1, <4>1
    <3>2. CASE i \in 0 .. m
      <4>1. f[i] = IF i = 0 THEN base ELSE WayStep(bends, root, f[i - 1])
        BY <2>1, <3>2
      <4>2. h[i] = f[i] /\ (i # 0 => h[i - 1] = f[i - 1])
        BY <3>2
      <4> QED
        BY <4>1, <4>2
    <3> QED
      BY <3>1, <3>2
  <2>3. WayUpTo(m + 1, h)
    <3>1. h = [i \in 0 .. m + 1 |-> h[i]]
      OBVIOUS
    <3> HIDE DEF h
    <3> QED
      BY <2>2, <3>1
  <2> HIDE DEF WayUpTo, h
  <2>4. \E k : WayUpTo(m + 1, k)
    BY <2>3
  <2> QED
    BY <1>1, <1>3, <2>4
<1>4. n \in S
  <2> HIDE DEF S, n
  <2>1. \A i \in 0 .. n : i \in S
    BY <1>1, <1>2, <1>3, Upward
  <2> QED
    BY <1>1, <2>1
<1> DEFINE up == CHOOSE f : WayUpTo(n, f)
<1>5. WayUpTo(n, up)
  BY <1>4
<1>6. PathUp(bends, root, newRoot) = up[n].path
  BY DEF PathUp, WayStep, BendInto
<1> HIDE DEF up
<1>7. up[0] = base /\ \A i \in 1 .. n : up[i] = WayStep(bends, root, up[i - 1])
  <2> HIDE DEF base
  <2> QED
    BY <1>1, <1>5
<1>8. IsWayUp(bends, root, newRoot, up)
  BY <1>6, <1>7 DEF IsWayUp
<1> QED
  BY <1>8

Passed(bends, path) == {bends[i].child : i \in path}

\* The bends of path lead from newRoot up to at: each is the bend into a panel
\* below, none into at, and whoever follows them the other way comes to all of
\* these panels.
GoneUp(bends, V, newRoot, at, path) ==
    LET all == Passed(bends, path) \cup {at}
    IN  /\ at \in V /\ at \notin Passed(bends, path) /\ newRoot \in all
        /\ path \subseteq 1 .. Len(bends)
        /\ \A i \in path : bends[i].parent \in all /\ bends[i].parent # newRoot
        /\ \A i, j \in path : bends[i].parent = bends[j].parent => i = j
        /\ \A S \in SUBSET V :
              newRoot \in S /\ (\A i \in path : bends[i].child \in S => bends[i].parent \in S)
                => all \subseteq S

\* In a tree no panels hang from one another in a ring.
LEMMA NoRing ==
    ASSUME NEW bends, NEW V, NEW root, IsTree(bends, V, root), NEW C \in SUBSET (V \ {root}),
           \A i \in 1 .. Len(bends) : bends[i].child \in C => bends[i].parent \in C
    PROVE  C = {}
<1> DEFINE S == V \ C
<1>1. root \in S /\ S \in SUBSET V
  BY DEF IsTree
<1>2. \A i \in 1 .. Len(bends) : bends[i].parent \in S => bends[i].child \in S
  BY DEF IsTree
<1>3. S = V
  <2> HIDE DEF S
  <2> QED
    BY <1>1, <1>2 DEF IsTree, Reached
<1> QED
  BY <1>3

\* The bend into the panel that was come to is not on the way yet, and leads
\* on.
LEMMA OneBendUp ==
    ASSUME NEW bends, NEW V, NEW root, IsTree(bends, V, root), NEW newRoot \in V,
           NEW at, NEW path, GoneUp(bends, V, newRoot, at, path), at # root,
           NEW e \in 1 .. Len(bends), bends[e].child = at
    PROVE  e \notin path /\ GoneUp(bends, V, newRoot, bends[e].parent, path \cup {e})
<1>1. PICK below, all : below = Passed(bends, path) /\ all = below \cup {at}
  OBVIOUS
<1>2. /\ at \in V /\ at \notin below /\ newRoot \in all /\ path \subseteq 1 .. Len(bends)
      /\ \A i \in path : bends[i].parent \in all /\ bends[i].parent # newRoot
      /\ \A i, j \in path : bends[i].parent = bends[j].parent => i = j
      /\ \A S \in SUBSET V :
            newRoot \in S /\ (\A i \in path : bends[i].child \in S => bends[i].parent \in S)
              => all \subseteq S
  BY <1>1 DEF GoneUp
<1>3. /\ \A i \in 1 .. Len(bends) : bends[i].parent \in V /\ bends[i].child \in V \ {root}
      /\ \A i, j \in 1 .. Len(bends) : bends[i].child = bends[j].child => i = j
  BY DEF IsTree
<1>4. PICK up : up = bends[e].parent
  OBVIOUS
<1>5. \A p : p \in below <=> \E i \in path : p = bends[i].child
  BY <1>1 DEF Passed
<1>6. all \in SUBSET (V \ {root})
  BY <1>1, <1>2, <1>3, <1>5
<1>7. up \notin all
  <2>1. SUFFICES ASSUME up \in all PROVE FALSE
    OBVIOUS
  <2>2. ASSUME NEW i \in 1 .. Len(bends), bends[i].child \in all PROVE bends[i].parent \in all
    <3>1. CASE bends[i].child = at
      BY <1>3, <1>4, <2>1, <3>1
    <3>2. CASE bends[i].child \in below
      <4>1. PICK j \in path : bends[i].child = bends[j].child
        BY <1>5, <3>2
      <4>2. i = j
        BY <1>2, <1>3, <4>1
      <4> QED
        BY <1>2, <4>1, <4>2
    <3> QED
      BY <1>1, <2>2, <3>1, <3>2
  <2>3. all = {}
    BY <1>6, <2>2, NoRing
  <2> QED
    BY <1>1, <2>3
<1>8. e \notin path
  BY <1>2, <1>5
<1>9. PICK more : more = path \cup {e}
  OBVIOUS
<1>10. Passed(bends, more) = all
  <2>1. \A p : p \in Passed(bends, more) <=> \E i \in more : p = bends[i].child
    BY DEF Passed
  <2>2. \A p : p \in Passed(bends, more) <=> p \in all
    BY <1>1, <1>5, <1>9, <2>1
  <2> QED
    BY <2>2
<1>11. up \in V /\ more \subseteq 1 .. Len(bends)
  BY <1>2, <1>3, <1>4, <1>9
<1>12. \A i \in more : bends[i].parent \in all \cup {up} /\ bends[i].parent # newRoot
  BY <1>2, <1>4, <1>7, <1>9
<1>13. \A i, j \in more : bends[i].parent = bends[j].parent => i = j
  BY <1>2, <1>4, <1>7, <1>9
<1>14. ASSUME NEW S \in SUBSET V, newRoot \in S,
              \A i \in more : bends[i].child \in S => bends[i].parent \in S
       PROVE  all \cup {up} \subseteq S
  <2>1. all \subseteq S
    BY <1>2, <1>9, <1>14
  <2>2. up \in S
    BY <1>1, <1>4, <1>9, <1>14, <2>1
  <2> QED
    BY <2>1, <2>2
<1>15. GoneUp(bends, V, newRoot, up, more)
  BY <1>2, <1>7, <1>10, <1>11, <1>12, <1>13, <1>14 DEF GoneUp
<1> QED
  BY <1>4, <1>8, <1>9, <1>15

\* PathUp comes to the old root.
LEMMA PathReachesTheRoot ==
    ASSUME NEW bends, NEW T, bends \in Seq(T), NEW V, NEW root, IsTree(bends, V, root),
           NEW newRoot \in V
    PROVE  GoneUp(bends, V, newRoot, root, PathUp(bends, root, newRoot))
<1>1. PICK n \in Nat : n = Len(bends)
  OBVIOUS
<1>2. PICK up : /\ up[0] = [at |-> newRoot, path |-> {}]
                /\ \A i \in 1 .. n : up[i] = WayStep(bends, root, up[i - 1])
                /\ PathUp(bends, root, newRoot) = up[n].path
  <2>1. PICK up : IsWayUp(bends, root, newRoot, up)
    BY WayUpOf
  <2> QED
    BY <1>1, <2>1, Zenon DEF IsWayUp
<1> DEFINE Good(k) == /\ GoneUp(bends, V, newRoot, up[k].at, up[k].path)
                      /\ up[k].at = root \/ Cardinality(up[k].path) = k
           S == {k \in 0 .. n : Good(k)}
<1>3. ASSUME NEW k \in 0 .. n, Good(k), up[k].at # root
      PROVE  /\ BendInto(bends, up[k].at) \in 1 .. n
             /\ BendInto(bends, up[k].at) \notin up[k].path
             /\ GoneUp(bends, V, newRoot, bends[BendInto(bends, up[k].at)].parent,
                       up[k].path \cup {BendInto(bends, up[k].at)})
  <2>1. PICK at, path : at = up[k].at /\ path = up[k].path
    OBVIOUS
  <2>2. at \in V /\ GoneUp(bends, V, newRoot, at, path)
    BY <1>3, <2>1 DEF GoneUp
  <2>3. \E i \in 1 .. Len(bends) : bends[i].child = at
    BY <1>3, <2>1, <2>2, RootOrChild
  <2>4. PICK e \in 1 .. Len(bends) : e = BendInto(bends, at) /\ bends[e].child = at
    BY <2>3 DEF BendInto
  <2>5. at # root
    BY <1>3, <2>1
  <2>6. e \notin path /\ GoneUp(bends, V, newRoot, bends[e].parent, path \cup {e})
    BY <2>2, <2>4, <2>5, OneBendUp, Zenon
  <2> QED
    BY <1>1, <2>1, <2>4, <2>6
<1>4. Good(0)
  <2>1. up[0].at = newRoot /\ up[0].path = {} /\ Cardinality({}) = 0
    BY <1>2, FS_EmptySet
  <2>2. GoneUp(bends, V, newRoot, newRoot, {})
    BY DEF GoneUp, Passed
  <2> QED
    BY <2>1, <2>2
<1>5. ASSUME NEW k \in 0 .. n - 1, Good(k) PROVE Good(k + 1)
  <2>1. up[k + 1] = WayStep(bends, root, up[k]) /\ k \in 0 .. n
    BY <1>1, <1>2
  <2>2. CASE up[k].at = root
    <3>1. up[k + 1] = up[k]
      BY <2>1, <2>2 DEF WayStep
    <3> QED
      BY <1>5, <2>2, <3>1
  <2>3. CASE up[k].at # root
    <3>1. PICK e : e = BendInto(bends, up[k].at)
      OBVIOUS
    <3>2. up[k + 1].at = bends[e].parent /\ up[k + 1].path = up[k].path \cup {e}
      BY <2>1, <2>3, <3>1 DEF WayStep
    <3>3. /\ e \in 1 .. n /\ e \notin up[k].path
          /\ GoneUp(bends, V, newRoot, bends[e].parent, up[k].path \cup {e})
      BY <1>3, <1>5, <2>1, <2>3, <3>1
    <3>4. PICK path : path = up[k].path /\ path \in SUBSET (1 .. n) /\ Cardinality(path) = k
      BY <1>1, <1>5, <2>3 DEF GoneUp
    <3>5. IsFiniteSet(path)
      <4>1. IsFiniteSet(1 .. n)
        BY <1>1, FS_Interval
      <4> QED
        BY <3>4, <4>1, FS_Subset
    <3>6. Cardinality(path \cup {e}) = IF e \in path THEN Cardinality(path) ELSE Cardinality(path) + 1
      BY <3>5, FS_AddElement, Zenon
    <3>7. Cardinality(path \cup {e}) = k + 1
      BY <3>3, <3>4, <3>6
    <3> QED
      BY <3>2, <3>3, <3>4, <3>7
  <2> QED
    BY <2>2, <2>3
<1>6. Good(n)
  <2>1. \A k \in 0 .. n - 1 : k \in S => k + 1 \in S
    <3> HIDE DEF Good
    <3> QED
      BY <1>1, <1>5
  <2>2. 0 \in S
    BY <1>1, <1>4
  <2>3. \A k \in 0 .. n : k \in S
    <3> HIDE DEF S
    <3> QED
      BY <1>1, <2>1, <2>2, Upward
  <2> HIDE DEF Good
  <2>4. n \in S
    BY <1>1, <2>3
  <2> QED
    BY <2>4
<1>7. up[n].at = root
  <2>1. SUFFICES ASSUME up[n].at # root PROVE FALSE
    OBVIOUS
  <2>2. PICK path : path = up[n].path /\ path \in SUBSET (1 .. n) /\ Cardinality(path) = n
    BY <1>1, <1>6, <2>1 DEF GoneUp
  <2>3. IsFiniteSet(1 .. n) /\ Cardinality(1 .. n) = n
    <3>1. 1 \in Int /\ n \in Int
      BY <1>1
    <3>2. IsFiniteSet(1 .. n) /\ Cardinality(1 .. n) = IF 1 > n THEN 0 ELSE n - 1 + 1
      BY <3>1, FS_Interval, Zenon
    <3> QED
      BY <1>1, <3>2
  <2>4. path = 1 .. n
    BY <2>2, <2>3, FS_Subset
  <2>5. n \in 0 .. n
    BY <1>1
  <2>6. BendInto(bends, up[n].at) \in 1 .. n /\ BendInto(bends, up[n].at) \notin path
    BY <1>3, <1>6, <2>1, <2>2, <2>5
  <2> QED
    BY <2>4, <2>6
<1> QED
  BY <1>2, <1>6, <1>7

\* With the bends on that way swapped, the panels are a tree from the new root.
LEMMA SwappedIsTree ==
    ASSUME NEW bends, NEW T, bends \in Seq(T), NEW V, NEW root, IsTree(bends, V, root),
           NEW newRoot \in V, NEW path, GoneUp(bends, V, newRoot, root, path),
           \A i \in 1 .. Len(bends) :
              Swapped(bends[i]).parent = bends[i].child /\ Swapped(bends[i]).child = bends[i].parent
    PROVE  IsTree(SwappedOn(bends, path), V, newRoot)
<1>1. PICK n \in Nat : n = Len(bends)
  OBVIOUS
<1>2. PICK below, all : below = Passed(bends, path) /\ all = below \cup {root}
  OBVIOUS
<1>3. /\ root \notin below /\ newRoot \in all /\ path \subseteq 1 .. n
      /\ \A i \in path : bends[i].parent \in all /\ bends[i].parent # newRoot
      /\ \A i, j \in path : bends[i].parent = bends[j].parent => i = j
      /\ \A S \in SUBSET V :
            newRoot \in S /\ (\A i \in path : bends[i].child \in S => bends[i].parent \in S)
              => all \subseteq S
  BY <1>1, <1>2 DEF GoneUp
<1>4. /\ root \in V
      /\ \A i \in 1 .. n : bends[i].parent \in V /\ bends[i].child \in V \ {root}
      /\ \A i, j \in 1 .. n : bends[i].child = bends[j].child => i = j
  BY <1>1 DEF IsTree
<1>5. \A p : p \in below <=> \E i \in path : p = bends[i].child
  BY <1>2 DEF Passed
<1>6. PICK to : to = SwappedOn(bends, path)
  OBVIOUS
<1>7. /\ Len(to) = n
      /\ \A i \in 1 .. n : to[i] = IF i \in path THEN Swapped(bends[i]) ELSE bends[i]
  BY <1>1, <1>6 DEF SwappedOn
<1>8. \A i \in 1 .. n : i \in path => to[i].parent = bends[i].child /\ to[i].child = bends[i].parent
  BY <1>1, <1>7
<1>9. \A i \in 1 .. n : i \notin path => to[i].parent = bends[i].parent /\ to[i].child = bends[i].child
  BY <1>7
<1>10. ASSUME NEW j \in 1 .. n, j \notin path PROVE bends[j].child \notin all
  <2>1. bends[j].child # root
    BY <1>4
  <2>2. bends[j].child \notin below
    BY <1>3, <1>4, <1>5, <1>10
  <2> QED
    BY <1>2, <2>1, <2>2
<1>11. \A i \in 1 .. n : to[i].parent \in V /\ to[i].child \in V \ {newRoot}
  BY <1>3, <1>4, <1>8, <1>9, <1>10
<1>12. \A i, j \in 1 .. n : to[i].child = to[j].child => i = j
  BY <1>3, <1>4, <1>8, <1>9, <1>10
<1>13. ASSUME NEW S \in SUBSET V, newRoot \in S,
              \A i \in 1 .. n : to[i].parent \in S => to[i].child \in S
       PROVE  S = V
  <2>1. all \subseteq S
    BY <1>3, <1>8, <1>13
  <2>2. \A i \in 1 .. n : bends[i].parent \in S => bends[i].child \in S
    BY <1>2, <1>5, <1>9, <1>13, <2>1
  <2>3. root \in S
    BY <1>2, <2>1
  <2> QED
    BY <1>1, <2>2, <2>3 DEF IsTree, Reached
<1>14. Reached(to, V, newRoot)
  BY <1>7, <1>13 DEF Reached
<1>15. IsTree(to, V, newRoot)
  BY <1>7, <1>11, <1>12, <1>14 DEF IsTree
<1> QED
  BY <1>6, <1>15
-----------------------------------------------------------------------------
\* A part rooted at another of its panels (RerootAt).

\* The bends of a graph join panels of it, along lines of the plane.
LEMMA BendsJoin ==
    ASSUME NEW Id, NEW Panel, NEW bends \in Seq(BendsOf(Id, Panel)), NEW i \in 1 .. Len(bends)
    PROVE  /\ bends[i] \in BendsOf(Id, Panel)
           /\ bends[i].parent \in Panel /\ bends[i].child \in Panel
           /\ bends[i].a \in Plane /\ bends[i].b \in Plane
<1>1. PICK T : T = BendsOf(Id, Panel) /\ bends \in Seq(T)
  OBVIOUS
<1>2. bends[i] \in T
  BY <1>1, ElementOfSeq
<1> QED
  BY <1>1, <1>2 DEF BendsOf

\* A bend swapped has its panels and its points the other way round.
LEMMA SwappedParts ==
    ASSUME NEW Id, NEW Panel, NEW b \in BendsOf(Id, Panel)
    PROVE  /\ Swapped(b) \in BendsOf(Id, Panel)
           /\ Swapped(b).parent = b.child /\ Swapped(b).child = b.parent
           /\ Swapped(b).a = b.b /\ Swapped(b).b = b.a
BY DEF Swapped, BendsOf

\* Swapping the bends of a path leaves the others, and their number.
LEMMA SwappedBends ==
    ASSUME NEW Id, NEW Panel, NEW bends \in Seq(BendsOf(Id, Panel)), NEW path
    PROVE  /\ SwappedOn(bends, path) \in Seq(BendsOf(Id, Panel))
           /\ Len(SwappedOn(bends, path)) = Len(bends)
           /\ Made(SwappedOn(bends, path)) = SwappedOn(bends, path)
           /\ \A i \in 1 .. Len(bends) :
                 SwappedOn(bends, path)[i] = IF i \in path THEN Swapped(bends[i]) ELSE bends[i]
<1>1. PICK n \in Nat : n = Len(bends)
  OBVIOUS
<1>2. \A i \in 1 .. n : bends[i] \in BendsOf(Id, Panel)
  BY <1>1
<1>3. PICK to : to = SwappedOn(bends, path)
  OBVIOUS
<1>4. to = [i \in 1 .. n |-> IF i \in path THEN Swapped(bends[i]) ELSE bends[i]]
  BY <1>1, <1>3 DEF SwappedOn
<1>5. \A i \in 1 .. n : to[i] \in BendsOf(Id, Panel)
  BY <1>2, <1>4, SwappedParts
<1>6. PICK T : T = BendsOf(Id, Panel)
  OBVIOUS
<1>7. to \in Seq(T) /\ Len(to) = n
  BY <1>1, <1>4, <1>5, <1>6
<1>8. to \o <<>> = to
  BY <1>7, ConcatEmptySeq
<1> QED
  BY <1>1, <1>3, <1>4, <1>6, <1>7, <1>8 DEF Made

\* Rerooting sets the root and its anchor and swaps the bends on the way;
\* nothing else.
LEMMA RerootedIs ==
    ASSUME NEW Id, NEW Panel, NEW g \in Graphs(Id, Panel), NEW p \in Panel, NEW anchor \in Poses
    PROVE  /\ Rerooted(g, p, anchor) \in Graphs(Id, Panel)
           /\ Rerooted(g, p, anchor).root = p /\ Rerooted(g, p, anchor).anchor = anchor
           /\ Rerooted(g, p, anchor).outline = g.outline
           /\ Rerooted(g, p, anchor).thickness = g.thickness
           /\ Rerooted(g, p, anchor).bends = SwappedOn(g.bends, PathUp(g.bends, g.root, p))
<1>1. PICK to : to = RerootAt(g.bends, g.root, p)
  OBVIOUS
<1>2. g.bends \in Seq(BendsOf(Id, Panel))
  BY DEF Graphs
<1>3. to \in Seq(BendsOf(Id, Panel)) /\ to = SwappedOn(g.bends, PathUp(g.bends, g.root, p))
  BY <1>1, <1>2, SwappedBends DEF RerootAt
<1>4. Rerooted(g, p, anchor) = [g EXCEPT !.root = p, !.bends = to, !.anchor = anchor]
  BY <1>1 DEF Rerooted
<1>5. PICK B : B = Seq(BendsOf(Id, Panel))
  OBVIOUS
<1>6. PICK P, O, H : P = Poses /\ O = Seq(Plane) /\ H = SUBSET [center : Plane, radius : Int]
  OBVIOUS
<1>7. Graphs(Id, Panel)
        = [root : Panel, outline : O, bends : B, thickness : Int, anchor : P,
           polygonHoles : SUBSET O, circleHoles : H]
  BY <1>5, <1>6 DEF Graphs
<1>8. anchor \in P /\ to \in B
  BY <1>3, <1>5, <1>6
<1>9. PICK r, o, b, t, a, h, c :
         /\ g = [root |-> r, outline |-> o, bends |-> b, thickness |-> t, anchor |-> a,
                 polygonHoles |-> h, circleHoles |-> c]
         /\ o \in O /\ t \in Int /\ h \in SUBSET O /\ c \in H
  BY <1>7
<1>10. [g EXCEPT !.root = p, !.bends = to, !.anchor = anchor]
        = [root |-> p, outline |-> o, bends |-> to, thickness |-> t, anchor |-> anchor,
           polygonHoles |-> h, circleHoles |-> c]
  <2>1. PICK g1 : g1 = [g EXCEPT !.root = p]
    OBVIOUS
  <2>2. g1 = [root |-> p, outline |-> o, bends |-> b, thickness |-> t, anchor |-> a,
              polygonHoles |-> h, circleHoles |-> c]
    BY <1>9, <2>1
  <2>3. PICK g2 : g2 = [g1 EXCEPT !.bends = to]
    OBVIOUS
  <2>4. g2 = [root |-> p, outline |-> o, bends |-> to, thickness |-> t, anchor |-> a,
              polygonHoles |-> h, circleHoles |-> c]
    BY <2>2, <2>3
  <2>5. [g2 EXCEPT !.anchor = anchor]
          = [root |-> p, outline |-> o, bends |-> to, thickness |-> t, anchor |-> anchor,
             polygonHoles |-> h, circleHoles |-> c]
    BY <2>4
  <2>6. [g EXCEPT !.root = p, !.bends = to, !.anchor = anchor] = [g2 EXCEPT !.anchor = anchor]
    <3>1. [g EXCEPT !.root = p, !.bends = to, !.anchor = anchor]
            = [[[g EXCEPT !.root = p] EXCEPT !.bends = to] EXCEPT !.anchor = anchor]
      BY <1>9
    <3> QED
      BY <2>1, <2>3, <3>1
  <2> QED
    BY <2>5, <2>6
<1>11. g.outline = o /\ g.thickness = t
  BY <1>9
<1>12. PICK other : /\ other = Rerooted(g, p, anchor)
                 /\ other = [root |-> p, outline |-> o, bends |-> to, thickness |-> t,
                           anchor |-> anchor, polygonHoles |-> h, circleHoles |-> c]
  BY <1>4, <1>10
<1>13. other \in [root : Panel, outline : O, bends : B, thickness : Int, anchor : P,
                polygonHoles : SUBSET O, circleHoles : H]
  BY <1>8, <1>9, <1>12
<1>14. /\ other.root = p /\ other.anchor = anchor /\ other.outline = o /\ other.thickness = t
       /\ other.bends = to
  BY <1>12
<1> QED
  BY <1>3, <1>7, <1>11, <1>12, <1>13, <1>14

\* The panels of a tree's graph are the tree's.
LEMMA PanelsOfTree ==
    ASSUME NEW g, NEW T, g.bends \in Seq(T), NEW V, IsTree(g.bends, V, g.root)
    PROVE  Panels(g) = V
<1>1. \A p : p \in Panels(g) <=> \/ p = g.root
                                 \/ \E i \in 1 .. Len(g.bends) : p \in {g.bends[i].parent, g.bends[i].child}
  <2>1. \A b : b \in Range(g.bends) <=> \E i \in 1 .. Len(g.bends) : b = g.bends[i]
    <3>1. DOMAIN g.bends = 1 .. Len(g.bends)
      OBVIOUS
    <3> QED
      BY <3>1 DEF Range
  <2> QED
    BY <2>1 DEF Panels
<1>2. Panels(g) \subseteq V
  BY <1>1 DEF IsTree
<1>3. V \subseteq Panels(g)
  BY <1>1, RootOrChild
<1> QED
  BY <1>2, <1>3

\* A valid tree, rerooted at a panel of it, is a tree of its panels from
\* there.
LEMMA RerootedTree ==
    ASSUME NEW Id, NEW Panel, NEW g \in Graphs(Id, Panel), ValidateTree(g) = "none",
           NEW p \in Panels(g), NEW anchor \in Poses
    PROVE  IsTree(Rerooted(g, p, anchor).bends, Panels(g), p)
<1>1. g.bends \in Seq(BendsOf(Id, Panel)) /\ g.root \in Panel
  BY DEF Graphs
<1>2. PICK bends, V, root, T : bends = g.bends /\ V = Panels(g) /\ root = g.root /\ T = BendsOf(Id, Panel)
  OBVIOUS
<1>3. bends \in Seq(T) /\ IsTree(bends, V, root) /\ p \in V
  BY <1>1, <1>2, ValidIsTree
<1>4. PICK path : path = PathUp(bends, root, p)
  OBVIOUS
<1>5. GoneUp(bends, V, p, root, path)
  BY <1>3, <1>4, PathReachesTheRoot
<1>6. \A i \in 1 .. Len(bends) :
         Swapped(bends[i]).parent = bends[i].child /\ Swapped(bends[i]).child = bends[i].parent
  BY <1>2, <1>3, SwappedParts, ElementOfSeq
<1>7. IsTree(SwappedOn(bends, path), V, p)
  BY <1>3, <1>5, <1>6, SwappedIsTree
<1>8. p \in Panel
  <2>1. \A i \in 1 .. Len(bends) : bends[i].child \in Panel
    BY <1>1, <1>2, BendsJoin
  <2>2. p = root \/ \E i \in 1 .. Len(bends) : p = bends[i].child
    BY <1>3, RootOrChild
  <2> QED
    BY <1>1, <1>2, <2>1, <2>2
<1> QED
  BY <1>2, <1>4, <1>7, <1>8, RerootedIs

\* A part rooted at any of its panels is a tree of the same panels, and
\* validateTree has nothing to say against it (rerootPart, which the split
\* and the merge call before they cut and join).
THEOREM RerootStaysATree ==
    ASSUME NEW Id, NEW Panel, NEW g \in Graphs(Id, Panel), ValidateTree(g) = "none",
           NEW p \in Panels(g), NEW anchor \in Poses
    PROVE  /\ ValidateTree(Rerooted(g, p, anchor)) = "none"
           /\ Panels(Rerooted(g, p, anchor)) = Panels(g)
<1>1. PICK to, V : to = Rerooted(g, p, anchor) /\ V = Panels(g)
  OBVIOUS
<1>2. p \in Panel
  <2>1. g.bends \in Seq(BendsOf(Id, Panel)) /\ g.root \in Panel
    BY DEF Graphs
  <2>2. \A i \in 1 .. Len(g.bends) : g.bends[i].child \in Panel
    BY <2>1, BendsJoin
  <2>3. p = g.root \/ \E i \in 1 .. Len(g.bends) : p = g.bends[i].child
    BY <2>1, ValidIsTree, RootOrChild
  <2> QED
    BY <2>1, <2>2, <2>3
<1>3. to \in Graphs(Id, Panel) /\ to.root = p
  BY <1>1, <1>2, RerootedIs
<1>4. PICK T : to.bends \in Seq(T)
  BY <1>3 DEF Graphs
<1>5. IsTree(to.bends, V, to.root)
  BY <1>1, <1>3, RerootedTree
<1>6. Panels(to) = V
  BY <1>4, <1>5, PanelsOfTree
<1>7. ValidateTree(to) = "none"
  BY <1>4, <1>5, <1>6, TreeIsValid
<1> QED
  BY <1>1, <1>6, <1>7
-----------------------------------------------------------------------------
\* A line drawn from its other end crosses what it crossed.

\* What is left of a line is right of it from its other end.
LEMMA SideSwaps ==
    ASSUME NEW a \in Plane, NEW b \in Plane, NEW p \in Plane
    PROVE  Side(a, b, p) \in Int /\ Side(b, a, p) = - Side(a, b, p)
BY DEF Plane, Side, Cross2, Sub2

\* The points of a ring, and the ends of its edges, are in the plane.
LEMMA PointOfRing ==
    ASSUME NEW ring \in Seq(Plane), NEW i \in 1 .. Len(ring)
    PROVE  /\ ring[i] \in Plane
           /\ Edge(ring, i)[1] \in Plane /\ Edge(ring, i)[2] \in Plane
<1>1. PICK n \in Nat : n = Len(ring)
  OBVIOUS
<1>2. After(i, n) \in 1 .. n
  BY <1>1 DEF After
<1> QED
  BY <1>1, <1>2 DEF Edge

\* Cross products of differences, and how they turn with the line.
LEMMA CrossesOfDifferences ==
    ASSUME NEW e \in Plane, NEW f \in Plane, NEW a \in Plane, NEW b \in Plane
    PROVE  /\ Sub2(f, e) \in Plane
           /\ Cross2(e, f) \in Int
           /\ Cross2(e, Sub2(a, b)) = - Cross2(e, Sub2(b, a))
           /\ Cross2(Sub2(b, e), Sub2(a, b)) = - Cross2(Sub2(a, e), Sub2(b, a))
           /\ Cross2(Sub2(f, e), Sub2(b, a)) = Side(a, b, e) - Side(a, b, f)
<1>1. PICK e1 \in Int, e2 \in Int, f1 \in Int, f2 \in Int : e = <<e1, e2>> /\ f = <<f1, f2>>
  BY DEF Plane
<1>2. PICK a1 \in Int, a2 \in Int, b1 \in Int, b2 \in Int : a = <<a1, a2>> /\ b = <<b1, b2>>
  BY DEF Plane
<1>3. Sub2(f, e) \in Plane /\ Cross2(e, f) \in Int
  BY <1>1 DEF Plane, Sub2, Cross2
<1>4. Cross2(e, Sub2(a, b)) = - Cross2(e, Sub2(b, a))
  <2>1. e1 * (a2 - b2) - e2 * (a1 - b1) = -(e1 * (b2 - a2) - e2 * (b1 - a1))
    OBVIOUS
  <2> QED
    BY <1>1, <1>2, <2>1 DEF Sub2, Cross2
<1>5. Cross2(Sub2(b, e), Sub2(a, b)) = - Cross2(Sub2(a, e), Sub2(b, a))
  <2>1. (b1 - e1) * (a2 - b2) - (b2 - e2) * (a1 - b1)
          = -((a1 - e1) * (b2 - a2) - (a2 - e2) * (b1 - a1))
    OBVIOUS
  <2> QED
    BY <1>1, <1>2, <2>1 DEF Sub2, Cross2
<1>6. Cross2(Sub2(f, e), Sub2(b, a)) = Side(a, b, e) - Side(a, b, f)
  <2>1. (f1 - e1) * (b2 - a2) - (f2 - e2) * (b1 - a1)
          = ((b1 - a1) * (e2 - a2) - (b2 - a2) * (e1 - a1))
            - ((b1 - a1) * (f2 - a2) - (b2 - a2) * (f1 - a1))
    OBVIOUS
  <2> QED
    BY <1>1, <1>2, <2>1 DEF Sub2, Cross2, Side
<1> QED
  BY <1>3, <1>4, <1>5, <1>6

\* From its other end a line crosses the same edges,
LEMMA CrossingsSwap ==
    ASSUME NEW ring \in Seq(Plane), NEW a \in Plane, NEW b \in Plane
    PROVE  Crossings(ring, b, a) = Crossings(ring, a, b)
<1>1. ASSUME NEW i \in 1 .. Len(ring)
      PROVE  Side(b, a, Edge(ring, i)[1]) * Side(b, a, Edge(ring, i)[2])
               = Side(a, b, Edge(ring, i)[1]) * Side(a, b, Edge(ring, i)[2])
  <2>1. PICK p \in Plane, q \in Plane : p = Edge(ring, i)[1] /\ q = Edge(ring, i)[2]
    BY PointOfRing
  <2>2. PICK x \in Int, y \in Int : x = Side(a, b, p) /\ y = Side(a, b, q)
    BY SideSwaps
  <2>3. Side(b, a, p) = -x /\ Side(b, a, q) = -y
    BY <2>2, SideSwaps
  <2>4. (-x) * (-y) = x * y
    OBVIOUS
  <2> QED
    BY <2>1, <2>2, <2>3, <2>4
<1> QED
  BY <1>1 DEF Crossings

\* A quotient is the same with both signs turned.
LEMMA QuotientSwaps ==
    ASSUME NEW x \in Int, NEW y \in Int
    PROVE  Quotient(-x, -y) = Quotient(x, y)
<1>1. CASE y > 0
  <2>1. Sgn(y) = 1 /\ Sgn(-y) = -1
    BY <1>1 DEF Sgn
  <2> QED
    BY <2>1 DEF Quotient
<1>2. CASE y < 0
  <2>1. Sgn(y) = -1 /\ Sgn(-y) = 1
    BY <1>2 DEF Sgn
  <2> QED
    BY <2>1 DEF Quotient
<1>3. CASE y = 0
  <2>1. Sgn(y) = 0 /\ Sgn(-y) = 0
    BY <1>3 DEF Sgn
  <2>2. 0 * (-x) = 0 * x /\ 0 * (-y) = 0 * y
    OBVIOUS
  <2> QED
    BY <2>1, <2>2 DEF Quotient
<1> QED
  BY <1>1, <1>2, <1>3

\* and it crosses each of them in the same point.
LEMMA CrossingSwaps ==
    ASSUME NEW ring \in Seq(Plane), NEW i \in 1 .. Len(ring), NEW a \in Plane, NEW b \in Plane
    PROVE  CrossingPoint(ring, i, b, a) = CrossingPoint(ring, i, a, b)
<1>1. PICK e \in Plane, f \in Plane : e = Edge(ring, i)[1] /\ f = Edge(ring, i)[2]
  BY PointOfRing
<1>2. PICK d \in Plane : d = Sub2(f, e)
  BY CrossesOfDifferences
<1>3. PICK x \in Int, y \in Int : x = Cross2(d, Sub2(b, a)) /\ y = Cross2(Sub2(a, e), Sub2(b, a))
  BY CrossesOfDifferences
<1>4. Cross2(d, Sub2(a, b)) = -x
  BY <1>3, CrossesOfDifferences
<1>5. Cross2(Sub2(b, e), Sub2(a, b)) = -y
  BY <1>3, CrossesOfDifferences
<1>6. PICK u \in Int, v \in Int : u = d[1] /\ v = d[2]
  BY DEF Plane
<1>7. Quotient(u * (-y), -x) = Quotient(u * y, x) /\ Quotient(v * (-y), -x) = Quotient(v * y, x)
  <2>1. u * (-y) = -(u * y) /\ v * (-y) = -(v * y) /\ u * y \in Int /\ v * y \in Int
    OBVIOUS
  <2> QED
    BY <2>1, QuotientSwaps
<1>8. -x = 0 <=> x = 0
  OBVIOUS
<1>9. LineIntersect2(e, d, b, Sub2(a, b)) = LineIntersect2(e, d, a, Sub2(b, a))
  BY <1>3, <1>4, <1>5, <1>6, <1>7, <1>8 DEF LineIntersect2
<1> QED
  BY <1>1, <1>2, <1>9 DEF CrossingPoint

\* That point is a point of the plane.
LEMMA CrossingInPlane ==
    ASSUME NEW ring \in Seq(Plane), NEW a \in Plane, NEW b \in Plane, NEW i \in Crossings(ring, a, b)
    PROVE  CrossingPoint(ring, i, a, b) \in Plane
<1>1. i \in 1 .. Len(ring) /\ Side(a, b, Edge(ring, i)[1]) * Side(a, b, Edge(ring, i)[2]) < 0
  BY DEF Crossings
<1>2. PICK e \in Plane, f \in Plane : e = Edge(ring, i)[1] /\ f = Edge(ring, i)[2]
  BY <1>1, PointOfRing
<1>3. PICK d \in Plane : d = Sub2(f, e)
  BY CrossesOfDifferences
<1>4. PICK x \in Int, y \in Int : x = Cross2(d, Sub2(b, a)) /\ y = Cross2(Sub2(a, e), Sub2(b, a))
  BY CrossesOfDifferences
<1>5. PICK s \in Int, t \in Int : s = Side(a, b, e) /\ t = Side(a, b, f)
  BY SideSwaps
<1>6. x = s - t
  BY <1>3, <1>4, <1>5, CrossesOfDifferences
<1>7. s * t < 0
  BY <1>1, <1>2, <1>5
<1>8. s # t
  <2>1. \A k \in Int : ~ (k * k < 0)
    OBVIOUS
  <2> QED
    BY <1>7, <2>1
<1>9. x # 0
  BY <1>6, <1>8
<1>10. \A u \in Int : Quotient(u, x) \in Int
  <2>1. CASE x > 0
    BY <2>1 DEF Quotient, Sgn
  <2>2. CASE x < 0
    BY <2>2 DEF Quotient, Sgn
  <2> QED
    BY <1>9, <2>1, <2>2
<1>11. PICK u \in Int, v \in Int : u = Quotient(d[1] * y, x) /\ v = Quotient(d[2] * y, x)
  <2>1. d[1] * y \in Int /\ d[2] * y \in Int
    BY DEF Plane
  <2> QED
    BY <1>10, <2>1
<1>12. LineIntersect2(e, d, a, Sub2(b, a)) = <<e[1] + u, e[2] + v>>
  BY <1>4, <1>9, <1>11 DEF LineIntersect2
<1>13. <<e[1] + u, e[2] + v>> \in Plane
  BY DEF Plane
<1> QED
  BY <1>2, <1>3, <1>12, <1>13 DEF CrossingPoint

\* A line passes through the same vertices from its other end.
LEMMA OnLineSwaps ==
    ASSUME NEW ring \in Seq(Plane), NEW a \in Plane, NEW b \in Plane
    PROVE  OnLine(ring, b, a) = OnLine(ring, a, b)
<1>1. \A x, y \in Int : Least(x, y) = Least(y, x) /\ Most(x, y) = Most(y, x)
  BY DEF Least, Most
<1>2. a[1] \in Int /\ a[2] \in Int /\ b[1] \in Int /\ b[2] \in Int
  BY DEF Plane
<1>3. ASSUME NEW i \in 1 .. Len(ring) PROVE OnSegment(ring[i], b, a) <=> OnSegment(ring[i], a, b)
  <2>1. PICK p \in Plane : p = ring[i]
    BY PointOfRing
  <2>2. Side(b, a, p) = 0 <=> Side(a, b, p) = 0
    <3>1. PICK x \in Int : x = Side(a, b, p) /\ Side(b, a, p) = -x
      BY SideSwaps
    <3> QED
      BY <3>1
  <2> QED
    BY <1>1, <1>2, <2>1, <2>2 DEF OnSegment
<1> QED
  BY <1>3 DEF OnLine

\* From the other end the two points come in the other order, if the second is
\* strictly the nearer to that end.
LEMMA OrderedSwaps ==
    ASSUME NEW p \in Plane, NEW q \in Plane, NEW a \in Plane, NEW b \in Plane,
           ~ NearerFirst(Ordered(p, q, a)[1], Ordered(p, q, a)[2], b)
    PROVE  Ordered(p, q, b) = Backwards(Ordered(p, q, a))
<1>1. PICK x \in Int, y \in Int : x = Square2(Sub2(p, b)) /\ y = Square2(Sub2(q, b))
  BY DEF Square2, Dot2, Sub2, Plane
<1>2. CASE NearerFirst(p, q, a)
  <2>1. Ordered(p, q, a) = <<p, q>>
    BY <1>2 DEF Ordered
  <2>2. ~ NearerFirst(p, q, b)
    BY <2>1
  <2> QED
    BY <2>1, <2>2 DEF Ordered, Backwards
<1>3. CASE ~ NearerFirst(p, q, a)
  <2>1. Ordered(p, q, a) = <<q, p>>
    BY <1>3 DEF Ordered
  <2>2. ~ NearerFirst(q, p, b)
    BY <2>1
  <2>3. NearerFirst(p, q, b)
    BY <1>1, <2>2 DEF NearerFirst
  <2> QED
    BY <2>1, <2>3 DEF Ordered, Backwards
<1> QED
  BY <1>2, <1>3
-----------------------------------------------------------------------------
\* The hinges that EnsureHingeVertices finds, bend after bend.

GroundStep(g, acc, k) ==
    LET found == Grounded(acc.ring, g.bends[k].a, g.bends[k].b)
    IN  [ring |-> found.ring, hinges |-> Append(acc.hinges, found.hinge)]
IsGrounding(g, upTo) ==
    /\ upTo[0] = [ring |-> g.outline, hinges |-> <<>>]
    /\ \A i \in 1 .. Len(g.bends) : upTo[i] = GroundStep(g, upTo[i - 1], i)
    /\ EnsureHingeVertices(g) = upTo[Len(g.bends)]

\* There are the ring and the hinges after each bend.
LEMMA GroundingOf ==
    ASSUME NEW g, NEW T, g.bends \in Seq(T)
    PROVE  \E upTo : IsGrounding(g, upTo)
<1> DEFINE n == Len(g.bends)
           base == [ring |-> g.outline, hinges |-> <<>>]
           GroundedUpTo(m, f) ==
               f = [i \in 0 .. m |-> IF i = 0 THEN base ELSE GroundStep(g, f[i - 1], i)]
           S == {m \in 0 .. n : \E f : GroundedUpTo(m, f)}
<1>1. n \in Nat
  OBVIOUS
<1>2. 0 \in S
  <2> HIDE DEF base
  <2> DEFINE f == [i \in 0 .. 0 |-> base]
  <2>1. GroundedUpTo(0, f)
    OBVIOUS
  <2>2. \E h : GroundedUpTo(0, h)
    <3> HIDE DEF GroundedUpTo, f
    <3> QED
      BY <2>1
  <2> HIDE DEF GroundedUpTo
  <2> QED
    BY <1>1, <2>2
<1>3. ASSUME NEW m \in 0 .. n - 1, m \in S PROVE m + 1 \in S
  <2>1. PICK f : GroundedUpTo(m, f)
    BY <1>3
  <2> HIDE DEF base
  <2> DEFINE h == [i \in 0 .. m + 1 |-> IF i = m + 1 THEN GroundStep(g, f[m], m + 1) ELSE f[i]]
  <2>2. ASSUME NEW i \in 0 .. m + 1
        PROVE  h[i] = IF i = 0 THEN base ELSE GroundStep(g, h[i - 1], i)
    <3>1. CASE i = m + 1
      <4>1. h[i] = GroundStep(g, f[m], m + 1) /\ h[i - 1] = f[m] /\ i # 0
        BY <3>1
      <4> QED
        BY <3>1, <4>1
    <3>2. CASE i \in 0 .. m
      <4>1. f[i] = IF i = 0 THEN base ELSE GroundStep(g, f[i - 1], i)
        BY <2>1, <3>2
      <4>2. h[i] = f[i] /\ (i # 0 => h[i - 1] = f[i - 1])
        BY <3>2
      <4> QED
        BY <4>1, <4>2
    <3> QED
      BY <3>1, <3>2
  <2>3. GroundedUpTo(m + 1, h)
    <3>1. h = [i \in 0 .. m + 1 |-> h[i]]
      OBVIOUS
    <3> HIDE DEF h
    <3> QED
      BY <2>2, <3>1
  <2> HIDE DEF GroundedUpTo, h
  <2>4. \E k : GroundedUpTo(m + 1, k)
    BY <2>3
  <2> QED
    BY <1>1, <1>3, <2>4
<1>4. n \in S
  <2> HIDE DEF S, n
  <2>1. \A i \in 0 .. n : i \in S
    BY <1>1, <1>2, <1>3, Upward
  <2> QED
    BY <1>1, <2>1
<1> DEFINE upTo == CHOOSE f : GroundedUpTo(n, f)
<1>5. GroundedUpTo(n, upTo)
  BY <1>4
<1>6. EnsureHingeVertices(g) = upTo[n]
  BY DEF EnsureHingeVertices, GroundStep
<1> HIDE DEF upTo
<1>7. upTo[0] = base /\ \A i \in 1 .. n : upTo[i] = GroundStep(g, upTo[i - 1], i)
  <2> HIDE DEF base
  <2> QED
    BY <1>1, <1>5, SMTT(30)
<1>8. IsGrounding(g, upTo)
  BY <1>6, <1>7 DEF IsGrounding
<1> QED
  BY <1>8

\* A point inserted in a ring makes it longer by one.
LEMMA RingGrows ==
    ASSUME NEW ring \in Seq(Plane), NEW i \in 1 .. Len(ring), NEW p \in Plane
    PROVE  InsertAfter(ring, i, p) \in Seq(Plane) /\ Len(InsertAfter(ring, i, p)) = Len(ring) + 1
<1>1. PICK n \in Nat : n = Len(ring)
  OBVIOUS
<1>2. PICK before, after : before = SubSeq(ring, 1, i) /\ after = SubSeq(ring, i + 1, n)
  OBVIOUS
<1>3. before \in Seq(Plane) /\ after \in Seq(Plane) /\ Len(before) = i /\ Len(after) = n - i
  BY <1>1, <1>2
<1>4. before \o <<p>> \in Seq(Plane) /\ Len(before \o <<p>>) = i + 1
  BY <1>3
<1>5. (before \o <<p>>) \o after \in Seq(Plane) /\ Len((before \o <<p>>) \o after) = n + 1
  BY <1>1, <1>3, <1>4
<1> QED
  BY <1>1, <1>2, <1>5 DEF InsertAfter

\* What Grounded finds: the vertices of the ring it is on, or of its crossings.
LEMMA PairOf ==
    ASSUME NEW n \in Nat, NEW S \in SUBSET (1 .. n), Cardinality(S) = 2
    PROVE  Pair(S)[1] \in S /\ Pair(S)[2] \in S /\ Pair(S)[1] < Pair(S)[2]
<1>1. IsFiniteSet(S) /\ \A i \in S : i \in Nat
  <2>1. IsFiniteSet(1 .. n)
    BY FS_Interval
  <2>2. IsFiniteSet(S)
    BY <2>1, FS_Subset
  <2> QED
    BY <2>2
<1>2. S # {}
  <2>1. Cardinality({}) = 0
    BY FS_EmptySet
  <2> QED
    BY <2>1
<1>3. \E i \in S : \A j \in S : i <= j
  BY <1>1, <1>2, LeastNumber
<1>4. PICK i \in S : i = (CHOOSE k \in S : \A j \in S : k <= j) /\ \A j \in S : i <= j
  BY <1>3
<1>5. \E j \in S : j # i
  <2>1. SUFFICES ASSUME S = {i} PROVE FALSE
    OBVIOUS
  <2>2. Cardinality({i}) = 1
    BY FS_Singleton
  <2> QED
    BY <2>1, <2>2
<1>6. PICK j \in S : j = (CHOOSE k \in S : k # i) /\ j # i
  BY <1>5
<1>7. Pair(S) = <<i, j>>
  BY <1>4, <1>6 DEF Pair
<1>8. i < j
  <2>1. i \in Nat /\ j \in Nat /\ i <= j /\ i # j
    BY <1>1, <1>4, <1>6
  <2>2. \A x, y \in Nat : (x <= y /\ x # y) => x < y
    OBVIOUS
  <2> QED
    BY <2>1, <2>2
<1> QED
  BY <1>7, <1>8

\* The hinge Grounded finds on a ring, and the ring with it: at the points the
\* bend was given, at two crossings, or at two vertices on its line.
Founded(ring, a, b, found) ==
    \/ found = [ring |-> ring, hinge |-> <<a, b>>]
    \/ \E p, q \in Plane, i, j \in 1 .. Len(ring) :
          /\ i < j
          /\ found = [ring |-> InsertAfter(InsertAfter(ring, j, q), i, p), hinge |-> Ordered(p, q, a)]
    \/ \E p, q \in Plane : found = [ring |-> ring, hinge |-> Ordered(p, q, a)]

\* Grounded finds a hinge in one of these ways, whatever the ring.
LEMMA GroundedFinds ==
    ASSUME NEW ring \in Seq(Plane), NEW a \in Plane, NEW b \in Plane
    PROVE  Founded(ring, a, b, Grounded(ring, a, b))
<1>1. PICK across, along : across = Crossings(ring, a, b) /\ along = OnLine(ring, a, b)
  OBVIOUS
<1>2. PICK n \in Nat : n = Len(ring)
  OBVIOUS
<1>3. across \in SUBSET (1 .. n) /\ along \in SUBSET (1 .. n)
  BY <1>1, <1>2 DEF Crossings, OnLine
<1>4. CASE FirstAt(ring, a) # 0 \/ FirstAt(ring, b) # 0
  <2>1. Grounded(ring, a, b) = [ring |-> ring, hinge |-> <<a, b>>]
    BY <1>4 DEF Grounded
  <2> QED
    BY <2>1 DEF Founded
<1>5. CASE ~ (FirstAt(ring, a) # 0 \/ FirstAt(ring, b) # 0) /\ Cardinality(across) = 2
  <2>1. PICK i \in across, j \in across : i = Pair(across)[1] /\ j = Pair(across)[2] /\ i < j
    BY <1>2, <1>3, <1>5, PairOf
  <2>2. PICK p \in Plane, q \in Plane :
            p = CrossingPoint(ring, i, a, b) /\ q = CrossingPoint(ring, j, a, b)
    BY <1>1, CrossingInPlane
  <2>3. Grounded(ring, a, b)
          = [ring |-> InsertAfter(InsertAfter(ring, j, q), i, p), hinge |-> Ordered(p, q, a)]
    BY <1>1, <1>5, <2>1, <2>2 DEF Grounded
  <2>4. i \in 1 .. Len(ring) /\ j \in 1 .. Len(ring)
    BY <1>2, <1>3
  <2> QED
    BY <2>1, <2>3, <2>4 DEF Founded
<1>6. CASE ~ (FirstAt(ring, a) # 0 \/ FirstAt(ring, b) # 0) /\ Cardinality(across) # 2
           /\ Cardinality(along) = 2
  <2>1. PICK i \in along, j \in along : i = Pair(along)[1] /\ j = Pair(along)[2]
    BY <1>2, <1>3, <1>6, PairOf
  <2>2. PICK p \in Plane, q \in Plane : p = ring[i] /\ q = ring[j]
    BY <1>2, <1>3, PointOfRing
  <2>3. Grounded(ring, a, b) = [ring |-> ring, hinge |-> Ordered(p, q, a)]
    BY <1>1, <1>6, <2>1, <2>2 DEF Grounded
  <2> QED
    BY <2>3 DEF Founded
<1>7. CASE ~ (FirstAt(ring, a) # 0 \/ FirstAt(ring, b) # 0) /\ Cardinality(across) # 2
           /\ Cardinality(along) # 2
  <2>1. Grounded(ring, a, b) = [ring |-> ring, hinge |-> <<a, b>>]
    BY <1>1, <1>7 DEF Grounded
  <2> QED
    BY <2>1 DEF Founded
<1> QED
  BY <1>4, <1>5, <1>6, <1>7

\* The hinge and the ring it finds are in the plane.
LEMMA GroundedInPlane ==
    ASSUME NEW ring \in Seq(Plane), NEW a \in Plane, NEW b \in Plane
    PROVE  /\ Grounded(ring, a, b).ring \in Seq(Plane)
           /\ Grounded(ring, a, b).hinge \in Plane \X Plane
<1>1. PICK found : found = Grounded(ring, a, b) /\ Founded(ring, a, b, found)
  BY GroundedFinds
<1>2. ASSUME NEW p \in Plane, NEW q \in Plane, NEW i \in 1 .. Len(ring), NEW j \in 1 .. Len(ring)
      PROVE  InsertAfter(InsertAfter(ring, j, q), i, p) \in Seq(Plane)
  <2>1. PICK longer \in Seq(Plane) : longer = InsertAfter(ring, j, q) /\ Len(longer) = Len(ring) + 1
    BY RingGrows
  <2>2. i \in 1 .. Len(longer)
    BY <2>1
  <2> QED
    BY <2>1, <2>2, RingGrows
<1>3. \A p, q \in Plane : Ordered(p, q, a) \in Plane \X Plane
  BY DEF Ordered
<1>4. <<a, b>> \in Plane \X Plane
  OBVIOUS
<1>5. found.ring \in Seq(Plane)
  BY <1>1, <1>2 DEF Founded
<1>6. found.hinge \in Plane \X Plane
  BY <1>1, <1>3, <1>4 DEF Founded
<1> QED
  BY <1>1, <1>5, <1>6

\* A hinge that is looked for from its other end is the same hinge backwards,
\* if it ends strictly nearer to that end than it begins; the ring is the same.
LEMMA GroundedSwaps ==
    ASSUME NEW ring \in Seq(Plane), NEW a \in Plane, NEW b \in Plane,
           ~ NearerFirst(Grounded(ring, a, b).hinge[1], Grounded(ring, a, b).hinge[2], b)
    PROVE  /\ Grounded(ring, b, a).ring = Grounded(ring, a, b).ring
           /\ Grounded(ring, b, a).hinge = Backwards(Grounded(ring, a, b).hinge)
<1>1. PICK across, along : across = Crossings(ring, a, b) /\ along = OnLine(ring, a, b)
  OBVIOUS
<1>2. PICK n \in Nat : n = Len(ring)
  OBVIOUS
<1>3. across \in SUBSET (1 .. n) /\ along \in SUBSET (1 .. n)
  BY <1>1, <1>2 DEF Crossings, OnLine
<1>4. Crossings(ring, b, a) = across /\ OnLine(ring, b, a) = along
  BY <1>1, CrossingsSwap, OnLineSwaps
<1>5. Backwards(<<a, b>>) = <<b, a>>
  BY DEF Backwards
<1>6. CASE FirstAt(ring, a) # 0 \/ FirstAt(ring, b) # 0
  <2>1. Grounded(ring, a, b) = [ring |-> ring, hinge |-> <<a, b>>]
    BY <1>6 DEF Grounded
  <2>2. Grounded(ring, b, a) = [ring |-> ring, hinge |-> <<b, a>>]
    BY <1>6 DEF Grounded
  <2> QED
    BY <1>5, <2>1, <2>2
<1>7. CASE ~ (FirstAt(ring, a) # 0 \/ FirstAt(ring, b) # 0) /\ Cardinality(across) = 2
  <2>1. PICK i \in across, j \in across : i = Pair(across)[1] /\ j = Pair(across)[2]
    BY <1>2, <1>3, <1>7, PairOf
  <2>2. PICK p \in Plane, q \in Plane :
            p = CrossingPoint(ring, i, a, b) /\ q = CrossingPoint(ring, j, a, b)
    BY <1>1, CrossingInPlane
  <2>3. p = CrossingPoint(ring, i, b, a) /\ q = CrossingPoint(ring, j, b, a)
    BY <1>2, <1>3, <2>2, CrossingSwaps
  <2>4. Grounded(ring, a, b)
          = [ring |-> InsertAfter(InsertAfter(ring, j, q), i, p), hinge |-> Ordered(p, q, a)]
    BY <1>1, <1>7, <2>1, <2>2 DEF Grounded
  <2>5. Grounded(ring, b, a)
          = [ring |-> InsertAfter(InsertAfter(ring, j, q), i, p), hinge |-> Ordered(p, q, b)]
    BY <1>4, <1>7, <2>1, <2>3 DEF Grounded
  <2>6. Grounded(ring, a, b).hinge = Ordered(p, q, a)
    BY <2>4
  <2>7. Ordered(p, q, b) = Backwards(Ordered(p, q, a))
    BY <2>6, OrderedSwaps
  <2> QED
    BY <2>4, <2>5, <2>7
<1>8. CASE ~ (FirstAt(ring, a) # 0 \/ FirstAt(ring, b) # 0) /\ Cardinality(across) # 2
           /\ Cardinality(along) = 2
  <2>1. PICK i \in along, j \in along : i = Pair(along)[1] /\ j = Pair(along)[2]
    BY <1>2, <1>3, <1>8, PairOf
  <2>2. PICK p \in Plane, q \in Plane : p = ring[i] /\ q = ring[j]
    BY <1>2, <1>3, PointOfRing
  <2>3. Grounded(ring, a, b) = [ring |-> ring, hinge |-> Ordered(p, q, a)]
    BY <1>1, <1>8, <2>1, <2>2 DEF Grounded
  <2>4. Grounded(ring, b, a) = [ring |-> ring, hinge |-> Ordered(p, q, b)]
    BY <1>4, <1>8, <2>1, <2>2 DEF Grounded
  <2>5. Grounded(ring, a, b).hinge = Ordered(p, q, a)
    BY <2>3
  <2>6. Ordered(p, q, b) = Backwards(Ordered(p, q, a))
    BY <2>5, OrderedSwaps
  <2> QED
    BY <2>3, <2>4, <2>6
<1>9. CASE ~ (FirstAt(ring, a) # 0 \/ FirstAt(ring, b) # 0) /\ Cardinality(across) # 2
           /\ Cardinality(along) # 2
  <2>1. Grounded(ring, a, b) = [ring |-> ring, hinge |-> <<a, b>>]
    BY <1>1, <1>9 DEF Grounded
  <2>2. Grounded(ring, b, a) = [ring |-> ring, hinge |-> <<b, a>>]
    BY <1>4, <1>9 DEF Grounded
  <2> QED
    BY <1>5, <2>1, <2>2
<1> QED
  BY <1>6, <1>7, <1>8, <1>9

\* The bends are drawn in the plane.
BendsDrawn(bends) == \A i \in 1 .. Len(bends) : bends[i].a \in Plane /\ bends[i].b \in Plane
\* The ring and the hinges so far, when k bends are grounded.
GroundedSoFar(g, upTo, k) ==
    /\ upTo[k].ring \in Seq(Plane)
    /\ upTo[k].hinges \in Seq(Plane \X Plane) /\ Len(upTo[k].hinges) = k
    /\ \A i \in 1 .. k :
          upTo[k].hinges[i] = Grounded(upTo[i - 1].ring, g.bends[i].a, g.bends[i].b).hinge

\* After every bend the ring and the hinges are in the plane, and the hinges
\* that were found before are kept.
LEMMA GroundingSoFar ==
    ASSUME NEW g, NEW T, g.bends \in Seq(T), g.outline \in Seq(Plane), BendsDrawn(g.bends),
           NEW upTo, IsGrounding(g, upTo)
    PROVE  \A k \in 0 .. Len(g.bends) : GroundedSoFar(g, upTo, k)
<1>1. PICK n \in Nat : n = Len(g.bends)
  OBVIOUS
<1>2. /\ upTo[0] = [ring |-> g.outline, hinges |-> <<>>]
      /\ \A i \in 1 .. n : upTo[i] = GroundStep(g, upTo[i - 1], i)
  BY <1>1 DEF IsGrounding
<1> DEFINE S == {k \in 0 .. n : GroundedSoFar(g, upTo, k)}
<1>3. 0 \in S
  <2>1. upTo[0].ring = g.outline /\ upTo[0].hinges = <<>>
    BY <1>2
  <2>2. GroundedSoFar(g, upTo, 0)
    BY <2>1 DEF GroundedSoFar
  <2> QED
    BY <1>1, <2>2
<1>4. ASSUME NEW k \in 0 .. n - 1, k \in S PROVE k + 1 \in S
  <2>1. PICK H : H = Plane \X Plane
    OBVIOUS
  <2>2. PICK ring, hinges : ring = upTo[k].ring /\ hinges = upTo[k].hinges
    OBVIOUS
  <2>3. /\ ring \in Seq(Plane) /\ hinges \in Seq(H) /\ Len(hinges) = k
        /\ \A i \in 1 .. k : hinges[i] = Grounded(upTo[i - 1].ring, g.bends[i].a, g.bends[i].b).hinge
    BY <1>4, <2>1, <2>2 DEF GroundedSoFar
  <2>4. k + 1 \in 1 .. n
    BY <1>1
  <2>5. g.bends[k + 1].a \in Plane /\ g.bends[k + 1].b \in Plane
    BY <1>1, <2>4 DEF BendsDrawn
  <2>6. PICK found : found = Grounded(ring, g.bends[k + 1].a, g.bends[k + 1].b)
    OBVIOUS
  <2>7. found.ring \in Seq(Plane) /\ found.hinge \in H
    BY <2>1, <2>3, <2>5, <2>6, GroundedInPlane
  <2>8. upTo[k + 1] = [ring |-> found.ring, hinges |-> Append(hinges, found.hinge)]
    <3>1. upTo[k + 1] = GroundStep(g, upTo[k], k + 1)
      BY <1>2, <2>4
    <3> QED
      BY <2>2, <2>6, <3>1 DEF GroundStep
  <2>9. PICK more : more = Append(hinges, found.hinge)
    OBVIOUS
  <2>10. /\ more \in Seq(H) /\ Len(more) = k + 1
         /\ \A i \in 1 .. k : more[i] = hinges[i]
         /\ more[k + 1] = found.hinge
    BY <2>3, <2>7, <2>9
  <2>11. more[k + 1] = Grounded(upTo[(k + 1) - 1].ring, g.bends[k + 1].a, g.bends[k + 1].b).hinge
    BY <2>2, <2>6, <2>10
  <2>12. upTo[k + 1].ring = found.ring /\ upTo[k + 1].hinges = more
    BY <2>8, <2>9
  <2>13. \A i \in 1 .. k + 1 :
            more[i] = Grounded(upTo[i - 1].ring, g.bends[i].a, g.bends[i].b).hinge
    <3>1. TAKE i \in 1 .. k + 1
    <3>2. CASE i = k + 1
      BY <2>11, <3>2
    <3>3. CASE i \in 1 .. k
      BY <2>3, <2>10, <3>3
    <3> QED
      BY <1>1, <3>2, <3>3
  <2>14. GroundedSoFar(g, upTo, k + 1)
    BY <2>1, <2>7, <2>10, <2>12, <2>13 DEF GroundedSoFar
  <2> QED
    BY <1>1, <2>14
<1>5. \A k \in 0 .. n : k \in S
  <2> HIDE DEF S
  <2> QED
    BY <1>1, <1>3, <1>4, Upward
<1> QED
  BY <1>1, <1>5

\* The bends and the outline of a graph are well formed.
Authored(g) ==
    \E Id, Panel : g.bends \in Seq(BendsOf(Id, Panel)) /\ g.outline \in Seq(Plane)

\* With some of its bends swapped a part has the same ring, and the hinges of
\* these bends the other way.
LEMMA HingesOfSwapped ==
    ASSUME NEW g, Authored(g), RunsAsDrawn(g),
           NEW path, NEW other, other.bends = SwappedOn(g.bends, path), other.outline = g.outline
    PROVE  /\ EnsureHingeVertices(other).hinges = BackwardsOn(EnsureHingeVertices(g).hinges, path)
           /\ EnsureHingeVertices(other).ring = EnsureHingeVertices(g).ring
<1>0. PICK Id, Panel : g.bends \in Seq(BendsOf(Id, Panel)) /\ g.outline \in Seq(Plane)
  BY DEF Authored
<1>1. PICK n, T : n \in Nat /\ n = Len(g.bends) /\ T = BendsOf(Id, Panel)
  BY <1>0
<1>2. /\ g.bends \in Seq(T) /\ other.bends \in Seq(T) /\ Len(other.bends) = n
      /\ \A i \in 1 .. n : other.bends[i] = IF i \in path THEN Swapped(g.bends[i]) ELSE g.bends[i]
  BY <1>0, <1>1, SwappedBends
<1>3. \A i \in 1 .. n : g.bends[i] \in T /\ g.bends[i].a \in Plane /\ g.bends[i].b \in Plane
  BY <1>0, <1>1, BendsJoin
<1>4. \A i \in 1 .. n : Swapped(g.bends[i]).a = g.bends[i].b /\ Swapped(g.bends[i]).b = g.bends[i].a
  BY <1>1, <1>3, SwappedParts
<1>5. BendsDrawn(g.bends) /\ BendsDrawn(other.bends)
  BY <1>1, <1>2, <1>3, <1>4 DEF BendsDrawn
<1>6. PICK u : IsGrounding(g, u)
  BY <1>2, GroundingOf
<1>7. PICK v : IsGrounding(other, v)
  BY <1>2, GroundingOf
<1>8. \A k \in 0 .. n : GroundedSoFar(g, u, k)
  BY <1>0, <1>1, <1>2, <1>5, <1>6, GroundingSoFar
<1>9. \A k \in 0 .. n : GroundedSoFar(other, v, k)
  BY <1>0, <1>2, <1>5, <1>7, GroundingSoFar
<1>10. PICK hinges : hinges = EnsureHingeVertices(g).hinges /\ hinges = u[n].hinges
  BY <1>1, <1>6 DEF IsGrounding
<1>11. EnsureHingeVertices(other).hinges = v[n].hinges
  BY <1>2, <1>7 DEF IsGrounding
<1>12. \A i \in 1 .. n : hinges[i] = Grounded(u[i - 1].ring, g.bends[i].a, g.bends[i].b).hinge
  <2>1. GroundedSoFar(g, u, n)
    BY <1>1, <1>8
  <2> QED
    BY <1>10, <2>1 DEF GroundedSoFar
<1>13. \A i \in 1 .. n : v[n].hinges[i] = Grounded(v[i - 1].ring, other.bends[i].a, other.bends[i].b).hinge
  <2>1. GroundedSoFar(other, v, n)
    BY <1>1, <1>9
  <2> QED
    BY <2>1 DEF GroundedSoFar
<1>14. ASSUME NEW i \in 1 .. n, v[i - 1].ring = u[i - 1].ring
       PROVE  /\ v[i].ring = u[i].ring
              /\ v[n].hinges[i] = IF i \in path THEN Backwards(hinges[i]) ELSE hinges[i]
  <2>1. PICK ring : ring = u[i - 1].ring
    OBVIOUS
  <2>2. ring \in Seq(Plane)
    <3>1. i - 1 \in 0 .. n
      BY <1>1
    <3> QED
      BY <1>8, <2>1, <3>1 DEF GroundedSoFar
  <2>3. PICK a \in Plane, b \in Plane : a = g.bends[i].a /\ b = g.bends[i].b
    BY <1>3
  <2>4. u[i].ring = Grounded(ring, a, b).ring /\ hinges[i] = Grounded(ring, a, b).hinge
    <3>1. u[i] = GroundStep(g, u[i - 1], i)
      BY <1>1, <1>6 DEF IsGrounding
    <3> QED
      BY <1>12, <2>1, <2>3, <3>1 DEF GroundStep
  <2>5. /\ v[i].ring = Grounded(ring, other.bends[i].a, other.bends[i].b).ring
        /\ v[n].hinges[i] = Grounded(ring, other.bends[i].a, other.bends[i].b).hinge
    <3>1. v[i] = GroundStep(other, v[i - 1], i)
      BY <1>2, <1>7 DEF IsGrounding
    <3> QED
      BY <1>13, <1>14, <2>1, <3>1 DEF GroundStep
  <2>6. CASE i \notin path
    <3>1. other.bends[i].a = a /\ other.bends[i].b = b
      BY <1>2, <2>3, <2>6
    <3> QED
      BY <2>4, <2>5, <2>6, <3>1
  <2>7. CASE i \in path
    <3>1. other.bends[i].a = b /\ other.bends[i].b = a
      BY <1>2, <1>4, <2>3, <2>7
    <3>2. ~ NearerFirst(Grounded(ring, a, b).hinge[1], Grounded(ring, a, b).hinge[2], b)
      BY <1>1, <1>10, <2>3, <2>4 DEF RunsAsDrawn
    <3>3. /\ Grounded(ring, b, a).ring = Grounded(ring, a, b).ring
          /\ Grounded(ring, b, a).hinge = Backwards(Grounded(ring, a, b).hinge)
      BY <2>2, <3>2, GroundedSwaps
    <3> QED
      BY <2>4, <2>5, <2>7, <3>1, <3>3
  <2> QED
    BY <2>6, <2>7
<1> DEFINE S == {k \in 0 .. n : v[k].ring = u[k].ring}
<1>15. \A k \in 0 .. n : k \in S
  <2>1. 0 \in S
    BY <1>1, <1>6, <1>7 DEF IsGrounding
  <2>2. ASSUME NEW k \in 0 .. n - 1, k \in S PROVE k + 1 \in S
    <3>1. PICK i \in 1 .. n : i = k + 1 /\ i - 1 = k
      BY <1>1
    <3>2. v[i].ring = u[i].ring
      BY <1>14, <2>2, <3>1
    <3> QED
      BY <1>1, <3>1, <3>2
  <2> HIDE DEF S
  <2> QED
    BY <1>1, <2>1, <2>2, Upward
<1>16. \A i \in 1 .. n : v[n].hinges[i] = IF i \in path THEN Backwards(hinges[i]) ELSE hinges[i]
  <2>1. TAKE i \in 1 .. n
  <2>2. i - 1 \in S
    BY <1>1, <1>15
  <2> QED
    BY <1>14, <2>2
<1>17. hinges \in Seq(Plane \X Plane) /\ Len(hinges) = n
  BY <1>1, <1>8, <1>10 DEF GroundedSoFar
<1>18. v[n].hinges \in Seq(Plane \X Plane) /\ Len(v[n].hinges) = n
  BY <1>1, <1>9 DEF GroundedSoFar
<1>19. v[n].hinges = [i \in 1 .. n |-> IF i \in path THEN Backwards(hinges[i]) ELSE hinges[i]]
  <2>1. PICK found : found = v[n].hinges
    OBVIOUS
  <2>2. PICK H : H = Plane \X Plane
    OBVIOUS
  <2>3. found \in Seq(H) /\ Len(found) = n
    BY <1>18, <2>1, <2>2
  <2>4. found = [i \in 1 .. n |-> found[i]]
    BY <2>3
  <2>5. \A i \in 1 .. n : found[i] = IF i \in path THEN Backwards(hinges[i]) ELSE hinges[i]
    BY <1>16, <2>1
  <2> QED
    BY <2>1, <2>4, <2>5
<1>20. DOMAIN hinges = 1 .. n
  BY <1>17
<1>21. EnsureHingeVertices(other).ring = EnsureHingeVertices(g).ring
  <2>1. n \in S
    BY <1>1, <1>15
  <2>2. EnsureHingeVertices(g) = u[n] /\ EnsureHingeVertices(other) = v[n]
    BY <1>1, <1>2, <1>6, <1>7 DEF IsGrounding
  <2> QED
    BY <2>1, <2>2
<1> QED
  BY <1>10, <1>11, <1>19, <1>20, <1>21 DEF BackwardsOn
-----------------------------------------------------------------------------
\* What Evaluate makes of the rerooted part.

\* A sequence whose elements are all in B is a sequence over B.
LEMMA SeqOfAll ==
    ASSUME NEW T, NEW s \in Seq(T), NEW B, \A i \in 1 .. Len(s) : s[i] \in B
    PROVE  s \in Seq(B)
<1>1. PICK n \in Nat : n = Len(s)
  OBVIOUS
<1>2. PICK f : f = [i \in 1 .. n |-> s[i]]
  OBVIOUS
<1>3. f \in [1 .. n -> B]
  BY <1>1, <1>2
<1>4. f \in Seq(B)
  BY <1>3
<1>5. s = f
  BY <1>1, <1>2
<1> QED
  BY <1>4, <1>5

\* A layout has a pose for every panel, and the panels are those that the
\* bends join.
LEMMA PosesOfLayout ==
    ASSUME NEW Id, NEW Panel, NEW g \in Graphs(Id, Panel), Evaluate(g).ok, HingesOnTheGrid(g)
    PROVE  /\ DOMAIN Evaluate(g).panels = Panels(g)
           /\ \A p \in Panels(g) : p \in Panel /\ Evaluate(g).panels[p].pose \in Poses
           /\ g.bends \in Seq(BendsOf(Id, Panels(g)))
<1>1. PICK V, root, bends, thickness, hinges, layout :
         /\ V = Panels(g) /\ root = g.root /\ bends = g.bends /\ thickness = g.thickness
         /\ hinges = EnsureHingeVertices(g).hinges /\ layout = Evaluate(g)
  OBVIOUS
<1>2. g.bends \in Seq(BendsOf(Id, Panel)) /\ g.root \in Panel /\ g.thickness \in Int /\ g.anchor \in Poses
  BY DEF Graphs
<1>3. bends \in Seq(BendsOf(Id, Panel)) /\ thickness \in Int
      /\ hinges \in [1 .. Len(bends) -> Hinges]
  BY <1>1, <1>2 DEF HingesOnTheGrid
<1>4. PICK pose : pose = [q \in V |-> layout.panels[q].pose]
  OBVIOUS
<1>5. /\ DOMAIN layout.panels = V /\ IsTree(bends, V, root) /\ layout.panels[root].pose = g.anchor
      /\ PosedBy(bends, thickness, hinges, pose)
  BY <1>1, <1>2, <1>4, LayoutHangs
<1>6. root \in V /\ Reached(bends, V, root)
  BY <1>5 DEF IsTree
<1>7. \A q \in V : q \in Panel
  <2>1. \A i \in 1 .. Len(bends) : bends[i].child \in Panel
    BY <1>3, BendsJoin
  <2> QED
    BY <1>1, <1>2, <1>5, <2>1, RootOrChild
<1>8. pose[root] \in Poses
  BY <1>1, <1>2, <1>4, <1>5, <1>6
<1>9. bends \in Seq(BendsOf(Id, V))
  <2>1. ASSUME NEW i \in 1 .. Len(bends) PROVE bends[i] \in BendsOf(Id, V)
    <3>1. bends[i] \in BendsOf(Id, Panel)
      BY <1>3, BendsJoin
    <3>2. bends[i].parent \in V /\ bends[i].child \in V
      BY <1>5 DEF IsTree
    <3> QED
      BY <3>1, <3>2 DEF BendsOf
  <2> QED
    BY <1>3, <2>1, SeqOfAll
<1>10. \A q \in V : pose[q] \in Poses
  BY <1>3, <1>5, <1>6, <1>8, <1>9, PosesAreRigid
<1> QED
  BY <1>1, <1>4, <1>5, <1>7, <1>9, <1>10

\* A part rooted at another of its panels has the hinges it had, those on the
\* way to that panel backwards, if they run the way their bends are drawn: a
\* hinge that is looked for from its other end is found at the same points
\* (rerootPart, ensureHingeVertices).
THEOREM HingesOfRerooted ==
    ASSUME NEW Id, NEW Panel, NEW g \in Graphs(Id, Panel), RunsAsDrawn(g),
           NEW p \in Panel, NEW anchor \in Poses
    PROVE  EnsureHingeVertices(Rerooted(g, p, anchor)).hinges
             = BackwardsOn(EnsureHingeVertices(g).hinges, PathUp(g.bends, g.root, p))
<1>1. g.bends \in Seq(BendsOf(Id, Panel)) /\ g.outline \in Seq(Plane)
  BY DEF Graphs
<1>2. PICK to, path : to = Rerooted(g, p, anchor) /\ path = PathUp(g.bends, g.root, p)
  OBVIOUS
<1>3. to.outline = g.outline /\ to.bends = SwappedOn(g.bends, path)
  BY <1>2, RerootedIs
<1>4. Authored(g)
  BY <1>1 DEF Authored
<1>5. EnsureHingeVertices(to).hinges = BackwardsOn(EnsureHingeVertices(g).hinges, path)
  BY <1>3, <1>4, HingesOfSwapped
<1> QED
  BY <1>2, <1>5

\* Rerooted at another of its panels, and anchored where that panel is, a
\* part that can be laid out has all its panels where they were (rerootPart
\* and evaluateManufacturingGraph together; RerootMovesNothing is the step
\* from the hinges to the poses).
THEOREM RerootLeavesThePanels ==
    ASSUME NEW Id, NEW Panel, NEW g \in Graphs(Id, Panel), Evaluate(g).ok,
           HingesOnTheGrid(g), RunsAsDrawn(g),
           NEW p \in Panels(g),
           Evaluate(Rerooted(g, p, Evaluate(g).panels[p].pose)).ok
    PROVE  LET after == Evaluate(Rerooted(g, p, Evaluate(g).panels[p].pose))
           IN  /\ DOMAIN after.panels = DOMAIN Evaluate(g).panels
               /\ \A q \in DOMAIN after.panels : after.panels[q].pose = Evaluate(g).panels[q].pose
<1>1. PICK V, root, bends, thickness, hinges, layout :
         /\ V = Panels(g) /\ root = g.root /\ bends = g.bends /\ thickness = g.thickness
         /\ hinges = EnsureHingeVertices(g).hinges /\ layout = Evaluate(g)
  OBVIOUS
<1>2. g.bends \in Seq(BendsOf(Id, Panel)) /\ g.root \in Panel /\ g.thickness \in Int /\ g.anchor \in Poses
      /\ g.outline \in Seq(Plane)
  BY DEF Graphs
<1>3. bends \in Seq(BendsOf(Id, Panel)) /\ thickness \in Int
      /\ hinges \in [1 .. Len(bends) -> Hinges]
  BY <1>1, <1>2 DEF HingesOnTheGrid
<1>4. PICK pose : pose = [q \in V |-> layout.panels[q].pose]
  OBVIOUS
<1>5. /\ DOMAIN layout.panels = V /\ IsTree(bends, V, root) /\ layout.panels[root].pose = g.anchor
      /\ PosedBy(bends, thickness, hinges, pose)
  BY <1>1, <1>2, <1>4, LayoutHangs
<1>6. root \in V /\ Reached(bends, V, root)
  BY <1>5 DEF IsTree
<1>7. /\ \A q \in V : q \in Panel /\ layout.panels[q].pose \in Poses
      /\ bends \in Seq(BendsOf(Id, V))
  BY <1>1, PosesOfLayout
<1>8. \A q \in V : pose[q] \in Poses
  BY <1>4, <1>7
<1>9. pose[root] \in Poses
  BY <1>6, <1>8
<1>10. PICK anchor \in Poses : anchor = layout.panels[p].pose /\ anchor = pose[p]
  BY <1>1, <1>4, <1>8
<1>11. PICK to, path : to = Rerooted(g, p, anchor) /\ path = PathUp(g.bends, g.root, p)
  OBVIOUS
<1>12. /\ to \in Graphs(Id, Panel) /\ to.root = p /\ to.anchor = anchor
       /\ to.outline = g.outline /\ to.thickness = thickness
       /\ to.bends = SwappedOn(bends, path)
  BY <1>1, <1>7, <1>10, <1>11, RerootedIs
<1>13. PICK after : after = Evaluate(to) /\ after.ok
  BY <1>1, <1>10, <1>11
<1>14. ValidateTree(g) = "none"
  BY EvaluatedIs DEF EvaluatedAs
<1>15. Panels(to) = V
  BY <1>1, <1>10, <1>11, <1>14, RerootStaysATree
<1>16. IsTree(SwappedOn(bends, path), V, p)
  BY <1>1, <1>10, <1>11, <1>12, <1>14, RerootedTree
<1>17. EnsureHingeVertices(to).hinges = BackwardsOn(hinges, path)
  BY <1>1, <1>7, <1>10, <1>11, HingesOfRerooted
<1>18. PICK other : other = [q \in V |-> after.panels[q].pose]
  OBVIOUS
<1>19. /\ DOMAIN after.panels = V /\ after.panels[p].pose = anchor
       /\ PosedBy(SwappedOn(bends, path), thickness, BackwardsOn(hinges, path), other)
  <2>1. PICK T : T = BendsOf(Id, Panel) /\ to.bends \in Seq(T)
    BY <1>12 DEF Graphs
  <2>2. /\ DOMAIN after.panels = Panels(to)
        /\ after.panels[to.root].pose = to.anchor
        /\ PosedBy(to.bends, to.thickness, EnsureHingeVertices(to).hinges,
                   [q \in Panels(to) |-> after.panels[q].pose])
    BY <1>13, <2>1, LayoutHangs
  <2> QED
    BY <1>12, <1>15, <1>17, <1>18, <2>2
<1>20. other[p] = pose[p] /\ p \in V
  BY <1>1, <1>10, <1>18, <1>19
<1>21. Reached(SwappedOn(bends, path), V, p)
  BY <1>16 DEF IsTree
<1>22. \A q \in V : other[q] = pose[q]
  BY <1>3, <1>5, <1>6, <1>7, <1>8, <1>9, <1>19, <1>20, <1>21, RerootMovesNothing
<1>23. \A q \in V : after.panels[q].pose = layout.panels[q].pose
  BY <1>4, <1>18, <1>22
<1> QED
  BY <1>1, <1>5, <1>10, <1>11, <1>13, <1>19, <1>23
-----------------------------------------------------------------------------
\* Trees that are taken apart and joined. Of a bend only its two panels
\* matter here.

\* A sequence of bends: records that have at least what a tree is made of.
BendFields == {"parent", "child", "a", "b"}
HasBends(bends) ==
    \E T : bends \in Seq(T) /\ \A b \in T : BendFields \subseteq DOMAIN b

\* A bend swapped joins the same panels, whatever else is in the record.
LEMMA SwappedBend ==
    ASSUME NEW b, BendFields \subseteq DOMAIN b
    PROVE  /\ Swapped(b).parent = b.child /\ Swapped(b).child = b.parent
           /\ DOMAIN Swapped(b) = DOMAIN b
<1>1. /\ "parent" \in DOMAIN b /\ "child" \in DOMAIN b /\ "a" \in DOMAIN b /\ "b" \in DOMAIN b
  BY DEF BendFields
<1>2. PICK parent, child, a0, b0 : parent = b.parent /\ child = b.child /\ a0 = b.a /\ b0 = b.b
  OBVIOUS
<1>3. PICK b1 : b1 = [b EXCEPT !.parent = child]
  OBVIOUS
<1>4. b1.parent = child /\ DOMAIN b1 = DOMAIN b
  BY <1>1, <1>3
<1>5. PICK b2 : b2 = [b1 EXCEPT !.child = parent]
  OBVIOUS
<1>6. b2.parent = child /\ b2.child = parent /\ DOMAIN b2 = DOMAIN b
  BY <1>1, <1>4, <1>5
<1>7. PICK b3 : b3 = [b2 EXCEPT !.a = b0]
  OBVIOUS
<1>8. b3.parent = child /\ b3.child = parent /\ DOMAIN b3 = DOMAIN b
  BY <1>1, <1>6, <1>7
<1>9. PICK b4 : b4 = [b3 EXCEPT !.b = a0]
  OBVIOUS
<1>10. b4.parent = child /\ b4.child = parent /\ DOMAIN b4 = DOMAIN b
  BY <1>1, <1>8, <1>9
<1>11. [b EXCEPT !.parent = child, !.child = parent, !.a = b0, !.b = a0]
         = [[[[b EXCEPT !.parent = child] EXCEPT !.child = parent] EXCEPT !.a = b0] EXCEPT !.b = a0]
  OBVIOUS
<1>12. Swapped(b) = b4
  BY <1>2, <1>3, <1>5, <1>7, <1>9, <1>11 DEF Swapped
<1> QED
  BY <1>2, <1>10, <1>12

\* What a map over a sequence of bends makes is one, of the same length.
LEMMA MadeBends ==
    ASSUME NEW n \in Nat, NEW f, f = [i \in 1 .. n |-> f[i]],
           \A i \in 1 .. n : BendFields \subseteq DOMAIN f[i]
    PROVE  Made(f) = f /\ HasBends(f) /\ Len(f) = n
<1> DEFINE T == {f[i] : i \in 1 .. n}
<1>1. f \in Seq(T) /\ Len(f) = n
  <2>1. \A i \in 1 .. n : f[i] \in T
    OBVIOUS
  <2> HIDE DEF T
  <2> QED
    BY <2>1
<1>2. \A b \in T : BendFields \subseteq DOMAIN b
  OBVIOUS
<1> HIDE DEF T
<1>3. f \o <<>> = f
  BY <1>1, ConcatEmptySeq
<1> QED
  BY <1>1, <1>2, <1>3 DEF Made, HasBends

\* The bends of a part, as a function of their indices.
LEMMA BendsAre ==
    ASSUME NEW bends, HasBends(bends)
    PROVE  /\ Len(bends) \in Nat /\ DOMAIN bends = 1 .. Len(bends)
           /\ bends = [i \in 1 .. Len(bends) |-> bends[i]]
           /\ \A i \in 1 .. Len(bends) : BendFields \subseteq DOMAIN bends[i]
<1>1. PICK T : bends \in Seq(T) /\ \A b \in T : BendFields \subseteq DOMAIN b
  BY DEF HasBends
<1> QED
  BY <1>1

\* A tree is told by the parent and the child of every bend.
LEMMA SameEndsSameTree ==
    ASSUME NEW s, NEW t, NEW V, NEW root, IsTree(s, V, root), Len(t) = Len(s),
           \A i \in 1 .. Len(s) : t[i].parent = s[i].parent /\ t[i].child = s[i].child
    PROVE  IsTree(t, V, root)
BY DEF IsTree, Reached

\* Rerooted at any of its panels, a tree is a tree of the same panels.
LEMMA RerootedBends ==
    ASSUME NEW bends, HasBends(bends), NEW V, NEW root, IsTree(bends, V, root), NEW p \in V
    PROVE  HasBends(RerootAt(bends, root, p)) /\ IsTree(RerootAt(bends, root, p), V, p)
<1>1. PICK T : bends \in Seq(T) /\ \A b \in T : BendFields \subseteq DOMAIN b
  BY DEF HasBends
<1>2. PICK n \in Nat : n = Len(bends) /\ \A i \in 1 .. n : BendFields \subseteq DOMAIN bends[i]
  BY <1>1
<1>3. PICK path : path = PathUp(bends, root, p)
  OBVIOUS
<1>4. GoneUp(bends, V, p, root, path)
  BY <1>1, <1>3, PathReachesTheRoot
<1>5. \A i \in 1 .. n : /\ Swapped(bends[i]).parent = bends[i].child
                        /\ Swapped(bends[i]).child = bends[i].parent
                        /\ DOMAIN Swapped(bends[i]) = DOMAIN bends[i]
  BY <1>2, SwappedBend
<1>6. IsTree(SwappedOn(bends, path), V, p)
  BY <1>1, <1>2, <1>4, <1>5, SwappedIsTree
<1>7. PICK f : f = SwappedOn(bends, path)
  OBVIOUS
<1>8. f = [i \in 1 .. n |-> IF i \in path THEN Swapped(bends[i]) ELSE bends[i]]
  BY <1>2, <1>7 DEF SwappedOn
<1>9. \A i \in 1 .. n : BendFields \subseteq DOMAIN f[i]
  BY <1>2, <1>5, <1>8
<1>10. f = [i \in 1 .. n |-> f[i]]
  BY <1>8
<1>11. Made(f) = f /\ HasBends(f)
  BY <1>9, <1>10, MadeBends
<1> QED
  BY <1>3, <1>6, <1>7, <1>11 DEF RerootAt

\* Picked: the elements at the indices K, in their order.
PickStep(s, K, picked, i) == IF i \in K THEN Append(picked, s[i]) ELSE picked
IsPicking(s, K, upTo) ==
    /\ upTo[0] = <<>>
    /\ \A i \in 1 .. Len(s) : upTo[i] = PickStep(s, K, upTo[i - 1], i)
    /\ Picked(s, K) = upTo[Len(s)]

\* There is what has been picked after each index.
LEMMA PickingOf ==
    ASSUME NEW s, NEW T, s \in Seq(T), NEW K
    PROVE  \E upTo : IsPicking(s, K, upTo)
<1> DEFINE n == Len(s)
           base == <<>>
           PickedUpTo(m, f) ==
               f = [i \in 0 .. m |-> IF i = 0 THEN base ELSE PickStep(s, K, f[i - 1], i)]
           S == {m \in 0 .. n : \E f : PickedUpTo(m, f)}
<1>1. n \in Nat
  OBVIOUS
<1>2. 0 \in S
  <2> HIDE DEF base
  <2> DEFINE f == [i \in 0 .. 0 |-> base]
  <2>1. PickedUpTo(0, f)
    OBVIOUS
  <2>2. \E h : PickedUpTo(0, h)
    <3> HIDE DEF PickedUpTo, f
    <3> QED
      BY <2>1
  <2> HIDE DEF PickedUpTo
  <2> QED
    BY <1>1, <2>2
<1>3. ASSUME NEW m \in 0 .. n - 1, m \in S PROVE m + 1 \in S
  <2>1. PICK f : PickedUpTo(m, f)
    BY <1>3
  <2> HIDE DEF base
  <2> DEFINE h == [i \in 0 .. m + 1 |-> IF i = m + 1 THEN PickStep(s, K, f[m], m + 1) ELSE f[i]]
  <2>2. ASSUME NEW i \in 0 .. m + 1
        PROVE  h[i] = IF i = 0 THEN base ELSE PickStep(s, K, h[i - 1], i)
    <3>1. CASE i = m + 1
      <4>1. h[i] = PickStep(s, K, f[m], m + 1) /\ h[i - 1] = f[m] /\ i # 0
        BY <3>1
      <4> QED
        BY <3>1, <4>1
    <3>2. CASE i \in 0 .. m
      <4>1. f[i] = IF i = 0 THEN base ELSE PickStep(s, K, f[i - 1], i)
        BY <2>1, <3>2
      <4>2. h[i] = f[i] /\ (i # 0 => h[i - 1] = f[i - 1])
        BY <3>2
      <4> QED
        BY <4>1, <4>2
    <3> QED
      BY <3>1, <3>2
  <2>3. PickedUpTo(m + 1, h)
    <3>1. h = [i \in 0 .. m + 1 |-> h[i]]
      OBVIOUS
    <3> HIDE DEF h
    <3> QED
      BY <2>2, <3>1
  <2> HIDE DEF PickedUpTo, h
  <2>4. \E k : PickedUpTo(m + 1, k)
    BY <2>3
  <2> QED
    BY <1>1, <1>3, <2>4
<1>4. n \in S
  <2> HIDE DEF S, n
  <2>1. \A i \in 0 .. n : i \in S
    BY <1>1, <1>2, <1>3, Upward
  <2> QED
    BY <1>1, <2>1
<1> DEFINE upTo == CHOOSE f : PickedUpTo(n, f)
<1>5. PickedUpTo(n, upTo)
  BY <1>4
<1>6. Picked(s, K) = upTo[n]
  BY DEF Picked, PickStep
<1> HIDE DEF upTo
<1>7. upTo[0] = base /\ \A i \in 1 .. n : upTo[i] = PickStep(s, K, upTo[i - 1], i)
  <2> HIDE DEF base
  <2> QED
    BY <1>1, <1>5
<1>8. IsPicking(s, K, upTo)
  BY <1>6, <1>7 DEF IsPicking
<1> QED
  BY <1>8

\* The elements of t are those of s at the indices K, each once.
PicksAt(s, K, t, f) ==
    /\ f \in [1 .. Len(t) -> K]
    /\ \A a, b \in 1 .. Len(t) : f[a] = f[b] => a = b
    /\ \A k \in K : \E a \in 1 .. Len(t) : f[a] = k
    /\ \A a \in 1 .. Len(t) : t[a] = s[f[a]]
Picks(s, K, t) == \E f : PicksAt(s, K, t, f)

\* Another index picks its element, or leaves it.
LEMMA OneMorePicked ==
    ASSUME NEW s, NEW T, s \in Seq(T), NEW K, NEW i \in 1 .. Len(s), NEW t \in Seq(T),
           Picks(s, K \cap (1 .. i - 1), t)
    PROVE  /\ PickStep(s, K, t, i) \in Seq(T)
           /\ Picks(s, K \cap (1 .. i), PickStep(s, K, t, i))
<1>1. PICK f : PicksAt(s, K \cap (1 .. i - 1), t, f)
  BY DEF Picks
<1>2. PICK m \in Nat : m = Len(t)
  OBVIOUS
<1>3. CASE i \notin K
  <2>1. K \cap (1 .. i) = K \cap (1 .. i - 1)
    <3>1. \A k : k \in 1 .. i <=> (k \in 1 .. i - 1 \/ k = i)
      OBVIOUS
    <3> QED
      BY <1>3, <3>1
  <2>2. PickStep(s, K, t, i) = t
    BY <1>3 DEF PickStep
  <2> QED
    BY <2>1, <2>2
<1>4. CASE i \in K
  <2> DEFINE h == [a \in 1 .. m + 1 |-> IF a = m + 1 THEN i ELSE f[a]]
             L == K \cap (1 .. i)
  <2>1. PICK u : u = Append(t, s[i])
    OBVIOUS
  <2>2. s[i] \in T
    OBVIOUS
  <2>3. u \in Seq(T) /\ Len(u) = m + 1 /\ u[m + 1] = s[i] /\ \A a \in 1 .. m : u[a] = t[a]
    BY <1>2, <2>1, <2>2
  <2>4. /\ \A a \in 1 .. m : f[a] \in K /\ f[a] \in 1 .. i - 1 /\ t[a] = s[f[a]]
        /\ \A a, b \in 1 .. m : f[a] = f[b] => a = b
        /\ \A k \in K \cap (1 .. i - 1) : \E a \in 1 .. m : f[a] = k
    BY <1>1, <1>2 DEF PicksAt
  <2>5. \A a \in 1 .. m + 1 : a = m + 1 \/ a \in 1 .. m
    OBVIOUS
  <2>6. \A a \in 1 .. m : h[a] = f[a] /\ f[a] # i
    BY <2>4
  <2>7. h[m + 1] = i /\ i \in L
    BY <1>4
  <2>8. \A k \in 1 .. i - 1 : k \in 1 .. i
    OBVIOUS
  <2>9. h \in [1 .. m + 1 -> L]
    <3>1. \A a \in 1 .. m + 1 : h[a] \in L
      BY <2>4, <2>5, <2>6, <2>7, <2>8
    <3>2. h = [a \in 1 .. m + 1 |-> h[a]]
      OBVIOUS
    <3> HIDE DEF h, L
    <3> QED
      BY <3>1, <3>2
  <2> HIDE DEF h
  <2>10. ASSUME NEW a \in 1 .. m + 1, NEW b \in 1 .. m + 1, h[a] = h[b] PROVE a = b
    <3>1. CASE a = m + 1 /\ b = m + 1
      BY <3>1
    <3>2. CASE a \in 1 .. m /\ b \in 1 .. m
      BY <2>4, <2>6, <2>10, <3>2
    <3>3. CASE a = m + 1 /\ b \in 1 .. m
      BY <2>6, <2>7, <2>10, <3>3
    <3>4. CASE b = m + 1 /\ a \in 1 .. m
      BY <2>6, <2>7, <2>10, <3>4
    <3> QED
      BY <2>5, <3>1, <3>2, <3>3, <3>4
  <2>11. \A k \in L : \E a \in 1 .. m + 1 : h[a] = k
    <3>1. TAKE k \in L
    <3>2. CASE k = i
      BY <2>7, <3>2
    <3>3. CASE k # i
      <4>1. k \in K \cap (1 .. i - 1)
        BY <3>3
      <4>2. PICK a \in 1 .. m : f[a] = k
        BY <2>4, <4>1
      <4> QED
        BY <2>6, <4>2
    <3> QED
      BY <3>2, <3>3
  <2>12. \A a \in 1 .. m + 1 : u[a] = s[h[a]]
    BY <2>3, <2>4, <2>5, <2>6, <2>7
  <2> HIDE DEF L
  <2>13. PicksAt(s, L, u, h)
    BY <2>3, <2>9, <2>10, <2>11, <2>12 DEF PicksAt
  <2>14. Picks(s, L, u)
    BY <2>13 DEF Picks
  <2>15. PickStep(s, K, t, i) = u
    BY <1>4, <2>1 DEF PickStep
  <2> QED
    BY <2>3, <2>14, <2>15 DEF L
<1> QED
  BY <1>3, <1>4

\* What is picked is the elements at these indices, each once.
LEMMA PickedIs ==
    ASSUME NEW s, NEW T, s \in Seq(T), NEW K \in SUBSET (1 .. Len(s))
    PROVE  Picked(s, K) \in Seq(T) /\ Picks(s, K, Picked(s, K))
<1>1. PICK n \in Nat : n = Len(s)
  OBVIOUS
<1>2. PICK upTo : IsPicking(s, K, upTo)
  BY PickingOf
<1> DEFINE S == {i \in 0 .. n : upTo[i] \in Seq(T) /\ Picks(s, K \cap (1 .. i), upTo[i])}
<1>3. 0 \in S
  <2>1. upTo[0] = <<>> /\ <<>> \in Seq(T) /\ Len(<<>>) = 0
    BY <1>2 DEF IsPicking
  <2>2. K \cap (1 .. 0) = {}
    OBVIOUS
  <2>3. PICK f : f \in [1 .. 0 -> {}]
    <3>1. [i \in 1 .. 0 |-> i] \in [1 .. 0 -> {}]
      OBVIOUS
    <3> QED
      BY <3>1
  <2>4. PicksAt(s, {}, <<>>, f)
    BY <2>1, <2>3 DEF PicksAt
  <2>5. Picks(s, {}, <<>>)
    BY <2>4 DEF Picks
  <2>6. Picks(s, K \cap (1 .. 0), upTo[0])
    BY <2>1, <2>2, <2>5, Zenon
  <2>7. 0 \in 0 .. n
    BY <1>1
  <2> QED
    BY <2>1, <2>6, <2>7
<1>4. ASSUME NEW m \in 0 .. n - 1, m \in S PROVE m + 1 \in S
  <2>1. PICK i \in 1 .. n : i = m + 1 /\ m = i - 1
    BY <1>1
  <2>2. upTo[m] \in Seq(T) /\ Picks(s, K \cap (1 .. i - 1), upTo[m])
    BY <1>4, <2>1
  <2>3. upTo[i] = PickStep(s, K, upTo[m], i)
    BY <1>1, <1>2, <2>1 DEF IsPicking
  <2>4. PICK t \in Seq(T) : t = upTo[m]
    BY <2>2
  <2>5. upTo[i] \in Seq(T) /\ Picks(s, K \cap (1 .. i), upTo[i])
    BY <1>1, <2>2, <2>3, <2>4, OneMorePicked
  <2> QED
    BY <1>1, <2>1, <2>5
<1>5. n \in S
  <2> HIDE DEF S
  <2>1. \A i \in 0 .. n : i \in S
    BY <1>1, <1>3, <1>4, Upward
  <2> QED
    BY <1>1, <2>1
<1>6. K \cap (1 .. n) = K
  BY <1>1
<1> QED
  BY <1>1, <1>2, <1>5, <1>6 DEF IsPicking

\* Bends that are picked are bends.
LEMMA PickedBends ==
    ASSUME NEW s, HasBends(s), NEW K \in SUBSET (1 .. Len(s))
    PROVE  HasBends(Picked(s, K)) /\ Picks(s, K, Picked(s, K))
<1>1. PICK T : s \in Seq(T) /\ \A b \in T : BendFields \subseteq DOMAIN b
  BY DEF HasBends
<1>2. Picked(s, K) \in Seq(T) /\ Picks(s, K, Picked(s, K))
  BY <1>1, PickedIs
<1> QED
  BY <1>1, <1>2 DEF HasBends

\* What hangs from p by the bends at the indices K, and nothing else.
HangsFrom(s, K, p, S) ==
    /\ p \in S
    /\ \A k \in K : s[k].parent \in S => s[k].child \in S
LeastFrom(s, K, p, S) ==
    HangsFrom(s, K, p, S) /\ \A R : HangsFrom(s, K, p, R) => S \subseteq R

\* What hangs from p by the bends picked hangs from it by these bends, and no
\* smaller set does.
LEMMA BelowPicked ==
    ASSUME NEW s, NEW K, NEW t, Picks(s, K, t), Len(t) \in Nat, NEW p
    PROVE  LeastFrom(s, K, p, Below({p}, t))
<1>1. PICK f : PicksAt(s, K, t, f)
  BY DEF Picks
<1>2. PICK n \in Nat : n = Len(t)
  OBVIOUS
<1>3. /\ \A a \in 1 .. n : f[a] \in K /\ t[a] = s[f[a]]
      /\ \A k \in K : \E a \in 1 .. n : f[a] = k
  BY <1>1, <1>2 DEF PicksAt
<1> DEFINE all == {p} \cup {t[a].child : a \in 1 .. n}
           closed == {R \in SUBSET all : /\ {p} \subseteq R
                                         /\ \A a \in 1 .. n : t[a].parent \in R => t[a].child \in R}
           below == {q \in all : \A R \in closed : q \in R}
<1>4. Below({p}, t) = below
  BY <1>2 DEF Below
<1>5. p \in below
  OBVIOUS
<1>6. ASSUME NEW k \in K, s[k].parent \in below PROVE s[k].child \in below
  <2>1. PICK a \in 1 .. n : f[a] = k /\ t[a] = s[k]
    BY <1>3
  <2>2. t[a].child \in all /\ \A R \in closed : t[a].child \in R
    BY <1>6, <2>1
  <2> QED
    BY <2>1, <2>2
<1>7. ASSUME NEW R, HangsFrom(s, K, p, R) PROVE below \subseteq R
  <2>1. \A a \in 1 .. n : t[a].parent \in R => t[a].child \in R
    BY <1>3, <1>7 DEF HangsFrom
  <2>2. \A a \in 1 .. n : t[a].child \in all
    OBVIOUS
  <2>3. R \cap all \in closed
    BY <1>7, <2>1, <2>2 DEF HangsFrom
  <2> QED
    BY <2>3
<1> HIDE DEF below
<1>8. LeastFrom(s, K, p, below)
  BY <1>5, <1>6, <1>7 DEF LeastFrom, HangsFrom
<1> QED
  BY <1>4, <1>8

\* Picked out of a tree, the bends of a set of panels that hangs from one of
\* them are a tree of that set.
LEMMA PickedIsTree ==
    ASSUME NEW s, NEW V, NEW root, IsTree(s, V, root), NEW K \in SUBSET (1 .. Len(s)),
           NEW t, Picks(s, K, t), Len(t) \in Nat, NEW W \in SUBSET V, NEW p \in W,
           \A k \in K : s[k].parent \in W /\ s[k].child \in W \ {p},
           \A S \in SUBSET W : HangsFrom(s, K, p, S) => S = W
    PROVE  IsTree(t, W, p)
<1>1. PICK f : PicksAt(s, K, t, f)
  BY DEF Picks
<1>2. PICK n \in Nat : n = Len(t)
  OBVIOUS
<1>3. /\ \A a \in 1 .. n : f[a] \in K /\ t[a] = s[f[a]]
      /\ \A a, b \in 1 .. n : f[a] = f[b] => a = b
      /\ \A k \in K : \E a \in 1 .. n : f[a] = k
  BY <1>1, <1>2 DEF PicksAt
<1>4. ASSUME NEW a \in 1 .. n PROVE t[a].parent \in W /\ t[a].child \in W \ {p}
  <2>1. PICK k \in K : k = f[a] /\ t[a] = s[k]
    BY <1>3
  <2> QED
    BY <2>1
<1>5. ASSUME NEW a \in 1 .. n, NEW b \in 1 .. n, t[a].child = t[b].child PROVE a = b
  <2>1. f[a] \in 1 .. Len(s) /\ f[b] \in 1 .. Len(s) /\ s[f[a]].child = s[f[b]].child
    BY <1>3, <1>5
  <2>2. f[a] = f[b]
    BY <2>1 DEF IsTree
  <2> QED
    BY <1>3, <2>2
<1>6. ASSUME NEW S \in SUBSET W, p \in S,
             \A a \in 1 .. n : t[a].parent \in S => t[a].child \in S
      PROVE  S = W
  <2>1. \A k \in K : s[k].parent \in S => s[k].child \in S
    BY <1>3, <1>6
  <2> QED
    BY <1>6, <2>1 DEF HangsFrom
<1>7. Reached(t, W, p)
  BY <1>2, <1>6 DEF Reached
<1> QED
  BY <1>2, <1>4, <1>5, <1>7 DEF IsTree

\* CutApart: without bend i, what hangs from its child is a tree, and so is
\* the rest; between them they have every panel.
CutInTwo(s, V, root, i) ==
    LET child == s[i].child
        rest == (1 .. Len(s)) \ {i}
        moved == Below({child}, Picked(s, rest))
        kept == {k \in rest : s[k].parent \notin moved}
    IN  /\ moved \subseteq V
        /\ HasBends(Picked(s, kept)) /\ IsTree(Picked(s, kept), V \ moved, root)
        /\ HasBends(Picked(s, rest \ kept)) /\ IsTree(Picked(s, rest \ kept), moved, child)

\* A tree without one of its bends (CutApart).
LEMMA CutTrees ==
    ASSUME NEW s, HasBends(s), NEW V, NEW root, IsTree(s, V, root), NEW i \in 1 .. Len(s)
    PROVE  CutInTwo(s, V, root, i)
<1>1. PICK n \in Nat : n = Len(s)
  BY BendsAre
<1>2. PICK c : c = s[i].child
  OBVIOUS
<1> DEFINE rest == (1 .. n) \ {i}
<1>3. HasBends(Picked(s, rest)) /\ Picks(s, rest, Picked(s, rest))
  <2>1. rest \in SUBSET (1 .. Len(s))
    BY <1>1
  <2> QED
    BY <2>1, PickedBends
<1>4. PICK moved : moved = Below({c}, Picked(s, rest))
  OBVIOUS
<1>5. LeastFrom(s, rest, c, moved)
  BY <1>3, <1>4, BelowPicked, BendsAre
<1>6. /\ c \in moved
      /\ \A k \in rest : s[k].parent \in moved => s[k].child \in moved
      /\ \A R : HangsFrom(s, rest, c, R) => moved \subseteq R
  BY <1>5 DEF LeastFrom, HangsFrom
<1>7. /\ root \in V
      /\ \A k \in 1 .. n : s[k].parent \in V /\ s[k].child \in V \ {root}
      /\ \A k, l \in 1 .. n : s[k].child = s[l].child => k = l
      /\ \A S \in SUBSET V :
            (root \in S /\ \A k \in 1 .. n : s[k].parent \in S => s[k].child \in S) => S = V
  BY <1>1 DEF IsTree, Reached
<1>8. moved \subseteq V \ {root}
  <2>1. HangsFrom(s, rest, c, V \ {root})
    BY <1>1, <1>2, <1>7 DEF HangsFrom
  <2> QED
    BY <1>6, <2>1
<1> DEFINE kept == {k \in rest : s[k].parent \notin moved}
           gone == rest \ kept
<1>9. ASSUME NEW k \in kept PROVE s[k].child \notin moved
  <2>1. s[k].child # c
    BY <1>1, <1>2, <1>7
  <2>2. \A l \in rest : s[l].parent \in moved => s[l].child # s[k].child
    BY <1>7
  <2>3. HangsFrom(s, rest, c, moved \ {s[k].child})
    BY <1>6, <2>1, <2>2 DEF HangsFrom
  <2>4. moved \subseteq moved \ {s[k].child}
    BY <1>6, <2>3
  <2> QED
    BY <2>4
<1>10. ASSUME NEW S \in SUBSET (V \ moved), HangsFrom(s, kept, root, S) PROVE S = V \ moved
  <2>1. root \in S /\ \A k \in kept : s[k].parent \in S => s[k].child \in S
    BY <1>10 DEF HangsFrom
  <2>2. ASSUME NEW k \in 1 .. n, s[k].parent \in S \cup moved PROVE s[k].child \in S \cup moved
    <3>1. CASE k = i
      BY <1>2, <1>6, <3>1
    <3>2. CASE k \in rest /\ s[k].parent \in moved
      BY <1>6, <3>2
    <3>3. CASE k \in rest /\ s[k].parent \notin moved
      BY <2>1, <2>2, <3>3
    <3> QED
      BY <3>1, <3>2, <3>3
  <2>3. S \cup moved \in SUBSET V /\ root \in S \cup moved
    BY <1>8, <2>1
  <2>4. S \cup moved = V
    BY <1>7, <2>2, <2>3
  <2> QED
    BY <2>4
<1>11. \A k \in gone : s[k].parent \in moved /\ s[k].child \in moved \ {c}
  <2>1. TAKE k \in gone
  <2>2. k \in rest /\ s[k].parent \in moved
    OBVIOUS
  <2>3. s[k].child # c
    BY <1>1, <1>2, <1>7, <2>2
  <2> QED
    BY <1>6, <2>2, <2>3
<1>12. ASSUME NEW S \in SUBSET moved, HangsFrom(s, gone, c, S) PROVE S = moved
  <2>1. c \in S /\ \A k \in gone : s[k].parent \in S => s[k].child \in S
    BY <1>12 DEF HangsFrom
  <2>2. HangsFrom(s, rest, c, S)
    BY <2>1 DEF HangsFrom
  <2>3. moved \subseteq S
    BY <1>6, <2>2
  <2> QED
    BY <2>3
<1>13. PICK K, G : K = kept /\ G = gone
  OBVIOUS
<1>14. K \in SUBSET (1 .. Len(s)) /\ G \in SUBSET (1 .. Len(s))
  BY <1>1, <1>13
<1>15. /\ HasBends(Picked(s, K)) /\ Picks(s, K, Picked(s, K)) /\ Len(Picked(s, K)) \in Nat
       /\ HasBends(Picked(s, G)) /\ Picks(s, G, Picked(s, G)) /\ Len(Picked(s, G)) \in Nat
  BY <1>14, PickedBends, BendsAre
<1>16. IsTree(Picked(s, K), V \ moved, root)
  <2>1. \A k \in K : s[k].parent \in V \ moved /\ s[k].child \in (V \ moved) \ {root}
    BY <1>7, <1>9, <1>13
  <2>2. \A S \in SUBSET (V \ moved) : HangsFrom(s, K, root, S) => S = V \ moved
    BY <1>10, <1>13
  <2>3. root \in V \ moved /\ V \ moved \in SUBSET V
    BY <1>7, <1>8
  <2> HIDE DEF kept, gone, rest
  <2> QED
    BY <1>14, <1>15, <2>1, <2>2, <2>3, PickedIsTree
<1>17. IsTree(Picked(s, G), moved, c)
  <2>1. \A k \in G : s[k].parent \in moved /\ s[k].child \in moved \ {c}
    BY <1>11, <1>13
  <2>2. \A S \in SUBSET moved : HangsFrom(s, G, c, S) => S = moved
    BY <1>12, <1>13
  <2>3. c \in moved /\ moved \in SUBSET V
    BY <1>6, <1>8
  <2> HIDE DEF kept, gone, rest
  <2> QED
    BY <1>14, <1>15, <2>1, <2>2, <2>3, PickedIsTree
<1>18. moved \subseteq V
  BY <1>8
<1> QED
  BY <1>1, <1>2, <1>4, <1>13, <1>15, <1>16, <1>17, <1>18 DEF CutInTwo

\* BendsOfBoth: two trees of different panels and a bend from a panel of the
\* one to the root of the other are one tree.
LEMMA JoinedTrees ==
    ASSUME NEW s, HasBends(s), NEW V, NEW root, IsTree(s, V, root),
           NEW t, HasBends(t), NEW W, NEW top, IsTree(t, W, top), V \cap W = {},
           NEW b, BendFields \subseteq DOMAIN b, b.parent \in V, b.child = top
    PROVE  /\ HasBends(Append(s \o t, b))
           /\ IsTree(Append(s \o t, b), V \cup W, root)
<1>1. PICK S : s \in Seq(S) /\ \A x \in S : BendFields \subseteq DOMAIN x
  BY DEF HasBends
<1>2. PICK T : t \in Seq(T) /\ \A x \in T : BendFields \subseteq DOMAIN x
  BY DEF HasBends
<1>3. PICK n \in Nat, m \in Nat : n = Len(s) /\ m = Len(t)
  BY <1>1, <1>2
<1>4. PICK U : U = S \cup T \cup {b}
  OBVIOUS
<1>5. s \in Seq(U) /\ t \in Seq(U) /\ b \in U /\ \A x \in U : BendFields \subseteq DOMAIN x
  BY <1>1, <1>2, <1>4
<1>6. PICK st : st = s \o t
  OBVIOUS
<1>7. /\ st \in Seq(U) /\ Len(st) = n + m
      /\ \A i \in 1 .. n : st[i] = s[i]
      /\ \A i \in 1 .. m : st[n + i] = t[i]
  BY <1>3, <1>5, <1>6
<1>8. PICK u : u = Append(st, b)
  OBVIOUS
<1>9. /\ u \in Seq(U) /\ Len(u) = n + m + 1 /\ u[n + m + 1] = b
      /\ \A i \in 1 .. n + m : u[i] = st[i]
  BY <1>5, <1>7, <1>8
<1>10. /\ \A i \in 1 .. n : u[i] = s[i]
       /\ \A i \in 1 .. m : u[n + i] = t[i]
  BY <1>7, <1>9
<1>11. HasBends(u)
  BY <1>5, <1>9 DEF HasBends
<1>12. /\ \A i \in 1 .. n : i \in 1 .. n + m + 1
       /\ \A i \in 1 .. m : n + i \in 1 .. n + m + 1
       /\ n + m + 1 \in 1 .. n + m + 1
       /\ \A k \in 1 .. n + m + 1 :
             k \in 1 .. n \/ (\E i \in 1 .. m : k = n + i) \/ k = n + m + 1
  <2>1. ASSUME NEW k \in 1 .. n + m + 1, k \notin 1 .. n, k # n + m + 1
        PROVE  \E i \in 1 .. m : k = n + i
    <3>1. k - n \in 1 .. m /\ k = n + (k - n)
      BY <2>1
    <3> QED
      BY <3>1
  <2> QED
    BY <2>1
<1>13. /\ root \in V
       /\ \A k \in 1 .. n : s[k].parent \in V /\ s[k].child \in V \ {root}
       /\ \A k, l \in 1 .. n : s[k].child = s[l].child => k = l
       /\ \A R \in SUBSET V :
            (root \in R /\ \A k \in 1 .. n : s[k].parent \in R => s[k].child \in R) => R = V
  BY <1>3 DEF IsTree, Reached
<1>14. /\ top \in W
       /\ \A k \in 1 .. m : t[k].parent \in W /\ t[k].child \in W \ {top}
       /\ \A k, l \in 1 .. m : t[k].child = t[l].child => k = l
       /\ \A R \in SUBSET W :
            (top \in R /\ \A k \in 1 .. m : t[k].parent \in R => t[k].child \in R) => R = W
  BY <1>3 DEF IsTree, Reached
<1>15. \A k \in 1 .. n + m + 1 : u[k].parent \in V \cup W /\ u[k].child \in (V \cup W) \ {root}
  <2>1. TAKE k \in 1 .. n + m + 1
  <2>2. CASE k \in 1 .. n
    BY <1>10, <1>13, <2>2
  <2>3. CASE \E i \in 1 .. m : k = n + i
    BY <1>10, <1>13, <1>14, <2>3
  <2>4. CASE k = n + m + 1
    BY <1>9, <1>13, <1>14, <2>4
  <2> QED
    BY <1>12, <2>2, <2>3, <2>4
<1>16. ASSUME NEW k \in 1 .. n + m + 1, NEW l \in 1 .. n + m + 1, u[k].child = u[l].child
       PROVE  k = l
  <2> DEFINE last == n + m + 1
             Second(j) == \E i \in 1 .. m : j = n + i
  <2>1. CASE k \in 1 .. n
    <3>1. u[k].child \in V
      BY <1>10, <1>13, <2>1
    <3>2. CASE l \in 1 .. n
      BY <1>10, <1>13, <1>16, <2>1, <3>2
    <3>3. CASE Second(l)
      BY <1>10, <1>14, <1>16, <3>1, <3>3
    <3>4. CASE l = last
      BY <1>9, <1>14, <1>16, <3>1, <3>4
    <3> QED
      BY <1>12, <3>2, <3>3, <3>4
  <2>2. CASE Second(k)
    <3>1. u[k].child \in W \ {top}
      BY <1>10, <1>14, <2>2
    <3>2. CASE l \in 1 .. n
      <4>1. u[l].child \in V
        BY <1>10, <1>13, <3>2
      <4> QED
        BY <1>16, <3>1, <4>1
    <3>3. CASE Second(l)
      <4>1. PICK i \in 1 .. m, j \in 1 .. m : k = n + i /\ l = n + j
        BY <2>2, <3>3
      <4>2. t[i].child = t[j].child
        BY <1>10, <1>16, <4>1
      <4> QED
        BY <1>14, <4>1, <4>2
    <3>4. CASE l = last
      BY <1>9, <1>16, <3>1, <3>4
    <3> QED
      BY <1>12, <3>2, <3>3, <3>4
  <2>3. CASE k = last
    <3>1. u[k].child = top /\ top \in W
      BY <1>9, <1>14, <2>3
    <3>2. CASE l \in 1 .. n
      <4>1. u[l].child \in V
        BY <1>10, <1>13, <3>2
      <4> QED
        BY <1>16, <3>1, <4>1
    <3>3. CASE Second(l)
      <4>1. PICK j \in 1 .. m : l = n + j
        BY <3>3
      <4>2. u[l].child = t[j].child
        BY <1>10, <4>1
      <4>3. t[j].child # top
        BY <1>14
      <4> QED
        BY <1>16, <3>1, <4>2, <4>3
    <3>4. CASE l = last
      BY <2>3, <3>4
    <3> QED
      BY <1>12, <3>2, <3>3, <3>4
  <2> QED
    BY <1>12, <2>1, <2>2, <2>3
<1>17. ASSUME NEW R \in SUBSET (V \cup W), root \in R,
              \A k \in 1 .. n + m + 1 : u[k].parent \in R => u[k].child \in R
       PROVE  R = V \cup W
  <2>1. R \cap V = V
    <3>1. \A k \in 1 .. n : s[k].parent \in R \cap V => s[k].child \in R \cap V
      BY <1>10, <1>12, <1>13, <1>17
    <3>2. root \in R \cap V /\ R \cap V \in SUBSET V
      BY <1>13, <1>17
    <3> QED
      BY <1>13, <3>1, <3>2
  <2>2. top \in R
    BY <1>9, <1>12, <1>17, <2>1
  <2>3. R \cap W = W
    <3>1. ASSUME NEW k \in 1 .. m, t[k].parent \in R \cap W PROVE t[k].child \in R \cap W
      <4>1. u[n + k] = t[k] /\ n + k \in 1 .. n + m + 1
        BY <1>10, <1>12
      <4>2. t[k].child \in R
        BY <1>17, <3>1, <4>1
      <4> QED
        BY <1>14, <4>2
    <3>2. top \in R \cap W /\ R \cap W \in SUBSET W
      BY <1>14, <2>2
    <3> QED
      BY <1>14, <3>1, <3>2
  <2> QED
    BY <2>1, <2>3
<1>18. Len(u) = n + m + 1 /\ root \in V \cup W
  BY <1>9, <1>13
<1>19. Reached(u, V \cup W, root)
  BY <1>17, <1>18 DEF Reached
<1>20. IsTree(u, V \cup W, root)
  BY <1>15, <1>16, <1>18, <1>19 DEF IsTree
<1> QED
  BY <1>6, <1>8, <1>11, <1>20
-----------------------------------------------------------------------------
\* The tools on parts: split, merge, cut, and what they call.

\* A part's graph, whose bends are a tree of the panels V.
TreeGraph(g, V) ==
    /\ {"root", "bends"} \subseteq DOMAIN g
    /\ HasBends(g.bends)
    /\ IsTree(g.bends, V, g.root)
IsPart(part) == \E g : part = Evaluated(g) /\ TreeGraph(g, Panels(g))
PanelsOf(part) == Panels(part.graph)

\* What every call keeps: each part is a tree, and no panel is in two parts.
TreesOf(all) ==
    /\ IsFiniteSet(DOMAIN all)
    /\ \A id \in DOMAIN all : IsPart(all[id])
    /\ \A id, other \in DOMAIN all : id # other => PanelsOf(all[id]) \cap PanelsOf(all[other]) = {}

PanelsIn(all) == UNION {PanelsOf(all[id]) : id \in DOMAIN all}

\* The id of a new part is that of no other, so a split puts no part in the
\* place of another.
LEMMA FreshIsNew ==
    ASSUME NEW S, IsFiniteSet(S)
    PROVE  Fresh(S) \notin S
<1>1. PICK c \in Nat : c = Cardinality(S)
  BY FS_CardinalityType
<1> DEFINE Free(n) == n \notin S /\ \A k \in 1 .. n - 1 : k \in S
           T == {m \in 0 .. c + 1 : \A k \in 1 .. m : k \in S}
<1>2. \E n \in 1 .. c + 1 : Free(n)
  <2>1. SUFFICES ASSUME \A n \in 1 .. c + 1 : ~ Free(n) PROVE FALSE
    OBVIOUS
  <2>2. 0 \in T
    OBVIOUS
  <2>3. ASSUME NEW m \in 0 .. c, m \in T PROVE m + 1 \in T
    <3>1. m + 1 \in 1 .. c + 1 /\ \A k \in 1 .. m : k \in S
      BY <2>3
    <3>2. m + 1 \in S
      <4>1. ~ Free(m + 1)
        BY <2>1, <3>1
      <4>2. 1 .. m + 1 - 1 = 1 .. m
        OBVIOUS
      <4> QED
        BY <3>1, <4>1, <4>2
    <3>3. \A k \in 1 .. m + 1 : k = m + 1 \/ k \in 1 .. m
      OBVIOUS
    <3> QED
      BY <3>1, <3>2, <3>3
  <2>4. c + 1 \in T
    <3> HIDE DEF T
    <3>1. \A m \in 0 .. c + 1 - 1 : m \in T => m + 1 \in T
      BY <2>3
    <3>2. \A m \in 0 .. c + 1 : m \in T
      BY <2>2, <3>1, Upward
    <3> QED
      BY <3>2
  <2>5. 1 .. c + 1 \in SUBSET S
    BY <2>4
  <2>6. Cardinality(1 .. c + 1) <= c
    BY <1>1, <2>5, FS_Subset
  <2>7. Cardinality(1 .. c + 1) = c + 1
    <3>1. 1 \in Int /\ c + 1 \in Int /\ ~ (1 > c + 1)
      OBVIOUS
    <3>2. Cardinality(1 .. c + 1) = c + 1 - 1 + 1
      BY <3>1, FS_Interval
    <3> QED
      BY <3>2
  <2> QED
    BY <2>6, <2>7
<1>3. Fresh(S) = CHOOSE n \in 1 .. c + 1 : Free(n)
  BY <1>1 DEF Fresh
<1>4. Free(Fresh(S))
  <2> HIDE DEF Free
  <2> QED
    BY <1>2, <1>3
<1> QED
  BY <1>4

\* The panels of a graph whose bends are a tree are those of the tree.
LEMMA TreeGraphPanels ==
    ASSUME NEW g, NEW V, TreeGraph(g, V)
    PROVE  Panels(g) = V /\ TreeGraph(g, Panels(g))
<1>1. PICK T : g.bends \in Seq(T)
  BY DEF TreeGraph, HasBends
<1>2. Panels(g) = V
  BY <1>1, PanelsOfTree DEF TreeGraph
<1> QED
  BY <1>2

\* A part is its graph and the layout of it.
LEMMA EvaluatedPart ==
    ASSUME NEW g
    PROVE  Evaluated(g).graph = g /\ Evaluated(g).layout = Evaluate(g)
BY DEF Evaluated

\* A tree of panels, evaluated, is a part of these panels.
LEMMA PartOfGraph ==
    ASSUME NEW g, NEW V, TreeGraph(g, V)
    PROVE  IsPart(Evaluated(g)) /\ PanelsOf(Evaluated(g)) = V
<1>1. Panels(g) = V /\ TreeGraph(g, Panels(g))
  BY TreeGraphPanels
<1>2. \E h : Evaluated(g) = Evaluated(h) /\ TreeGraph(h, Panels(h))
  BY <1>1
<1>3. IsPart(Evaluated(g))
  BY <1>2 DEF IsPart
<1> QED
  BY <1>1, <1>3, EvaluatedPart DEF PanelsOf

\* The graph of a part is a tree of its panels, and its layout is the
\* graph's.
LEMMA GraphOfPart ==
    ASSUME NEW part, IsPart(part)
    PROVE  TreeGraph(part.graph, PanelsOf(part)) /\ part.layout = Evaluate(part.graph)
<1>1. PICK g : part = Evaluated(g) /\ TreeGraph(g, Panels(g))
  BY DEF IsPart
<1> QED
  BY <1>1, EvaluatedPart DEF PanelsOf

\* A layout has the panels of its part.
LEMMA LayoutPanels ==
    ASSUME NEW part, IsPart(part), part.layout.ok
    PROVE  DOMAIN part.layout.panels = PanelsOf(part)
<1>1. TreeGraph(part.graph, PanelsOf(part)) /\ part.layout = Evaluate(part.graph)
  BY GraphOfPart
<1>2. PICK T : part.graph.bends \in Seq(T)
  BY <1>1 DEF TreeGraph, HasBends
<1> QED
  BY <1>1, <1>2, LayoutHangs DEF PanelsOf

\* The graph with other bends and, where it is given one, another root.
LEMMA OtherBends ==
    ASSUME NEW g, NEW V, TreeGraph(g, V), NEW outline, NEW bends
    PROVE  /\ [g EXCEPT !.outline = outline, !.bends = bends].root = g.root
           /\ [g EXCEPT !.outline = outline, !.bends = bends].bends = bends
           /\ {"root", "bends"} \subseteq DOMAIN [g EXCEPT !.outline = outline, !.bends = bends]
<1>1. "root" \in DOMAIN g /\ "bends" \in DOMAIN g
  BY DEF TreeGraph
<1>2. PICK g1 : g1 = [g EXCEPT !.outline = outline]
  OBVIOUS
<1>3. g1.root = g.root /\ DOMAIN g1 = DOMAIN g
  BY <1>1, <1>2
<1>4. PICK g2 : g2 = [g1 EXCEPT !.bends = bends]
  OBVIOUS
<1>5. g2.root = g.root /\ g2.bends = bends /\ DOMAIN g2 = DOMAIN g
  BY <1>1, <1>3, <1>4
<1>6. [g EXCEPT !.outline = outline, !.bends = bends]
        = [[g EXCEPT !.outline = outline] EXCEPT !.bends = bends]
  OBVIOUS
<1>7. [g EXCEPT !.outline = outline, !.bends = bends] = g2
  BY <1>2, <1>4, <1>6
<1> QED
  BY <1>1, <1>5, <1>7

\* The graph with another root as well, where it is.
LEMMA OtherRoot ==
    ASSUME NEW g, NEW V, TreeGraph(g, V), NEW outline, NEW bends, NEW root, NEW anchor
    PROVE  LET to == [g EXCEPT !.outline = outline, !.root = root, !.bends = bends,
                               !.anchor = anchor]
           IN  to.root = root /\ to.bends = bends /\ {"root", "bends"} \subseteq DOMAIN to
<1>1. "root" \in DOMAIN g /\ "bends" \in DOMAIN g
  BY DEF TreeGraph
<1>2. PICK g1 : g1 = [g EXCEPT !.outline = outline]
  OBVIOUS
<1>3. DOMAIN g1 = DOMAIN g
  BY <1>2
<1>4. PICK g2 : g2 = [g1 EXCEPT !.root = root]
  OBVIOUS
<1>5. g2.root = root /\ DOMAIN g2 = DOMAIN g
  BY <1>1, <1>3, <1>4
<1>6. PICK g3 : g3 = [g2 EXCEPT !.bends = bends]
  OBVIOUS
<1>7. g3.root = root /\ g3.bends = bends /\ DOMAIN g3 = DOMAIN g
  BY <1>1, <1>5, <1>6
<1>8. PICK g4 : g4 = [g3 EXCEPT !.anchor = anchor]
  OBVIOUS
<1>9. g4.root = root /\ g4.bends = bends /\ DOMAIN g4 = DOMAIN g
  BY <1>1, <1>7, <1>8
<1>10. [g EXCEPT !.outline = outline, !.root = root, !.bends = bends, !.anchor = anchor]
         = [[[[g EXCEPT !.outline = outline] EXCEPT !.root = root] EXCEPT !.bends = bends]
              EXCEPT !.anchor = anchor]
  OBVIOUS
<1>11. [g EXCEPT !.outline = outline, !.root = root, !.bends = bends, !.anchor = anchor] = g4
  BY <1>2, <1>4, <1>6, <1>8, <1>10
<1> QED
  BY <1>1, <1>9, <1>11

\* A split: the parts after it are trees of the same panels, none of the old
\* ones is gone, and where it succeeds the new one is there.
SplitWell(all, split) ==
    /\ TreesOf(split.parts) /\ PanelsIn(split.parts) = PanelsIn(all)
    /\ DOMAIN all \subseteq DOMAIN split.parts
    /\ split.ok => split.child \in DOMAIN split.parts

\* A split that is refused leaves the parts.
LEMMA UnsplitWell ==
    ASSUME NEW all, TreesOf(all)
    PROVE  SplitWell(all, Unsplittable(all))
<1>1. PICK split : split = Unsplittable(all)
  OBVIOUS
<1>2. split.parts = all /\ split.ok = FALSE
  BY <1>1 DEF Unsplittable
<1> QED
  BY <1>1, <1>2 DEF SplitWell

\* Two parts that share out the panels of a third, put in its place, leave
\* the parts trees of the same panels.
LEMMA SeparatedWell ==
    ASSUME NEW all, TreesOf(all), NEW id \in DOMAIN all, NEW newId, newId \notin DOMAIN all,
           NEW old, NEW new,
           IsPart(old), IsPart(new), PanelsOf(old) \cap PanelsOf(new) = {},
           PanelsOf(old) \cup PanelsOf(new) = PanelsOf(all[id])
    PROVE  SplitWell(all, Separated(all, id, newId, old, new))
<1>1. PICK split : split = Separated(all, id, newId, old, new)
  OBVIOUS
<1>2. CASE ~ Grounds(old.layout) \/ ~ Grounds(new.layout)
  <2>1. split = Unsplittable(all)
    BY <1>1, <1>2 DEF Separated
  <2> QED
    BY <1>1, <2>1, UnsplitWell
<1>3. CASE ~ (~ Grounds(old.layout) \/ ~ Grounds(new.layout))
  <2>1. PICK f, h, to : /\ f = [n \in {id} |-> old]
                        /\ h = Beside([n \in {newId} |-> new], all)
                        /\ to = Beside(f, h)
    OBVIOUS
  <2>2. split = [ok |-> TRUE, child |-> newId, parts |-> to]
    BY <1>1, <1>3, <2>1 DEF Separated
  <2>3. /\ DOMAIN h = DOMAIN all \cup {newId}
        /\ h[newId] = new
        /\ \A n \in DOMAIN all : n # newId => h[n] = all[n]
    BY <2>1 DEF Beside
  <2>4. /\ DOMAIN to = DOMAIN all \cup {newId}
        /\ to[id] = old
        /\ \A n \in DOMAIN to : n # id => to[n] = h[n]
    BY <2>1, <2>3 DEF Beside
  <2>5. \A n \in DOMAIN to : \/ n = id /\ to[n] = old
                             \/ n # id /\ n = newId /\ to[n] = new
                             \/ n # id /\ n \in DOMAIN all /\ to[n] = all[n]
    BY <2>3, <2>4
  <2>6. \A n \in DOMAIN to : IsPart(to[n])
    BY <2>5 DEF TreesOf
  <2>7. \A n \in DOMAIN all : n # id => PanelsOf(all[n]) \cap PanelsOf(all[id]) = {}
    BY DEF TreesOf
  <2>8. ASSUME NEW n \in DOMAIN to, NEW m \in DOMAIN to, n # m
        PROVE  PanelsOf(to[n]) \cap PanelsOf(to[m]) = {}
    <3>1. CASE n = id
      BY <2>4, <2>5, <2>7, <2>8, <3>1
    <3>2. CASE m = id
      BY <2>4, <2>5, <2>7, <2>8, <3>2
    <3>3. CASE n # id /\ m # id
      <4>1. CASE n \in DOMAIN all /\ to[n] = all[n] /\ m \in DOMAIN all /\ to[m] = all[m]
        BY <2>8, <4>1 DEF TreesOf
      <4>2. CASE n \in DOMAIN all /\ to[n] = all[n] /\ to[m] = new
        BY <2>7, <3>3, <4>2
      <4>3. CASE m \in DOMAIN all /\ to[m] = all[m] /\ to[n] = new
        BY <2>7, <3>3, <4>3
      <4> QED
        BY <2>5, <2>8, <3>3, <4>1, <4>2, <4>3
    <3> QED
      BY <3>1, <3>2, <3>3
  <2>9. TreesOf(to)
    <3>1. IsFiniteSet(DOMAIN to)
      BY <2>4, FS_AddElement DEF TreesOf
    <3> QED
      BY <2>6, <2>8, <3>1 DEF TreesOf
  <2>11. PanelsIn(to) = PanelsIn(all)
    <3>1. newId # id /\ to[newId] = new
      BY <2>3, <2>4
    <3>2. ASSUME NEW x \in PanelsIn(to) PROVE x \in PanelsIn(all)
      BY <2>5, <3>2 DEF PanelsIn
    <3>3. ASSUME NEW x \in PanelsIn(all) PROVE x \in PanelsIn(to)
      <4>1. PICK n \in DOMAIN all : x \in PanelsOf(all[n])
        BY <3>3 DEF PanelsIn
      <4>2. CASE n = id
        <5>1. x \in PanelsOf(to[id]) \/ x \in PanelsOf(to[newId])
          BY <2>4, <3>1, <4>1, <4>2
        <5> QED
          BY <2>4, <5>1 DEF PanelsIn
      <4>3. CASE n # id
        <5>1. n \in DOMAIN to /\ to[n] = all[n]
          BY <2>3, <2>4, <4>3
        <5> QED
          BY <4>1, <5>1 DEF PanelsIn
      <4> QED
        BY <4>2, <4>3
    <3> QED
      BY <3>2, <3>3
  <2>10. split.parts = to /\ split.child = newId
    BY <2>2
  <2> QED
    BY <1>1, <2>4, <2>9, <2>10, <2>11 DEF SplitWell
<1> QED
  BY <1>2, <1>3

\* Taking a part apart at any of its bends leaves trees.
LEMMA CutApartWell ==
    ASSUME NEW all, TreesOf(all), NEW id \in DOMAIN all, NEW i \in Bends(all[id].graph), NEW cut
    PROVE  SplitWell(all, CutApart(all, id, i, cut))
<1>1. PICK g, V, s : g = all[id].graph /\ V = PanelsOf(all[id]) /\ s = g.bends
  OBVIOUS
<1>2. TreeGraph(g, V)
  BY <1>1, GraphOfPart DEF TreesOf
<1>3. HasBends(s) /\ IsTree(s, V, g.root) /\ i \in 1 .. Len(s)
  BY <1>1, <1>2 DEF TreeGraph, Bends
<1>4. CutInTwo(s, V, g.root, i)
  BY <1>3, CutTrees
<1>5. PICK child, rest, moved, kept :
         /\ child = s[i].child
         /\ rest = (1 .. Len(s)) \ {i}
         /\ moved = Below({child}, Picked(s, rest))
         /\ kept = {k \in rest : s[k].parent \notin moved}
  OBVIOUS
<1>6. /\ moved \subseteq V
      /\ HasBends(Picked(s, kept)) /\ IsTree(Picked(s, kept), V \ moved, g.root)
      /\ HasBends(Picked(s, rest \ kept)) /\ IsTree(Picked(s, rest \ kept), moved, child)
  BY <1>4, <1>5 DEF CutInTwo
<1>7. CASE ~ cut.ok
  <2>1. CutApart(all, id, i, cut) = Unsplittable(all)
    BY <1>7 DEF CutApart
  <2> QED
    BY <2>1, UnsplitWell
<1>8. CASE cut.ok
  <2>1. PICK ours, theirs, anchor, newId :
           /\ ours = Picked(s, kept) /\ theirs = Picked(s, rest \ kept)
           /\ anchor = all[id].layout.panels[child].pose
           /\ newId = Fresh(DOMAIN all)
    OBVIOUS
  <2>2. PICK old, new :
           /\ old = [g EXCEPT !.outline = cut.parent, !.bends = ours]
           /\ new = [g EXCEPT !.outline = cut.child, !.root = child, !.bends = theirs,
                              !.anchor = anchor]
    OBVIOUS
  <2>3. CutApart(all, id, i, cut) = Separated(all, id, newId, Evaluated(old), Evaluated(new))
    <3>1. Bends(g) = 1 .. Len(s)
      BY <1>1 DEF Bends
    <3> QED
      BY <1>1, <1>5, <1>8, <2>1, <2>2, <3>1 DEF CutApart
  <2>4. old.root = g.root /\ old.bends = ours /\ {"root", "bends"} \subseteq DOMAIN old
    BY <1>2, <2>2, OtherBends
  <2>5. new.root = child /\ new.bends = theirs /\ {"root", "bends"} \subseteq DOMAIN new
    BY <1>2, <2>2, OtherRoot
  <2>6. TreeGraph(old, V \ moved) /\ TreeGraph(new, moved)
    BY <1>6, <2>1, <2>4, <2>5 DEF TreeGraph
  <2>7. /\ IsPart(Evaluated(old)) /\ PanelsOf(Evaluated(old)) = V \ moved
        /\ IsPart(Evaluated(new)) /\ PanelsOf(Evaluated(new)) = moved
    BY <2>6, PartOfGraph
  <2>8. /\ PanelsOf(Evaluated(old)) \cap PanelsOf(Evaluated(new)) = {}
        /\ PanelsOf(Evaluated(old)) \cup PanelsOf(Evaluated(new)) = PanelsOf(all[id])
    BY <1>1, <1>6, <2>7
  <2>9. newId \notin DOMAIN all
    BY <2>1, FreshIsNew DEF TreesOf
  <2> QED
    BY <2>3, <2>7, <2>8, <2>9, SeparatedWell
<1> QED
  BY <1>7, <1>8

\* So does cutting a part along a bend, on either side of it.
LEMMA PiecesWell ==
    ASSUME NEW all, TreesOf(all), NEW id \in DOMAIN all, NEW i \in Bends(all[id].graph), NEW keep
    PROVE  SplitWell(all, Pieces(all, id, i, keep))
<1>1. PICK cut : cut = LET g == all[id].graph
                           b == g.bends[i]
                       IN  SplitOutline(b, g.thickness, keep,
                                        Points(all[id].layout.panels[b.child].raw),
                                        GroundLine(g.outline, b.a, b.b))
  OBVIOUS
<1>2. \/ Pieces(all, id, i, keep) = Unsplittable(all)
      \/ Pieces(all, id, i, keep) = CutApart(all, id, i, cut)
  BY <1>1 DEF Pieces
<1> QED
  BY <1>2, UnsplitWell, CutApartWell

\* One turn of splitPartByAllBends: the piece at the end of the worklist.
WorkStep(d, keep) ==
    IF ~ d.ok \/ d.work = <<>> THEN d
    ELSE IF d.parts[Last(d.work)].graph.bends = <<>> THEN [d EXCEPT !.work = Front(@)]
    ELSE OnTheWorklist(Pieces(d.parts, Last(d.work), 1, keep), d.work)
IsWork(id, keep, upTo) ==
    LET most == 2 * Len(parts[id].graph.bends) + 1
    IN  /\ upTo[0] = [ok |-> TRUE, parts |-> parts, work |-> <<id>>]
        /\ \A k \in 1 .. most : upTo[k] = WorkStep(upTo[k - 1], keep)
        /\ AllPieces(id, keep) = upTo[most]

\* There is the worklist after each of its turns.
LEMMA WorkOf ==
    ASSUME NEW id, NEW keep, Len(parts[id].graph.bends) \in Nat
    PROVE  \E upTo : IsWork(id, keep, upTo)
<1> DEFINE n == 2 * Len(parts[id].graph.bends) + 1
           base == [ok |-> TRUE, parts |-> parts, work |-> <<id>>]
           WorkedUpTo(m, f) ==
               f = [i \in 0 .. m |-> IF i = 0 THEN base ELSE WorkStep(f[i - 1], keep)]
           S == {m \in 0 .. n : \E f : WorkedUpTo(m, f)}
<1>1. n \in Nat
  OBVIOUS
<1>2. 0 \in S
  <2> HIDE DEF base
  <2> DEFINE f == [i \in 0 .. 0 |-> base]
  <2>1. WorkedUpTo(0, f)
    OBVIOUS
  <2>2. \E h : WorkedUpTo(0, h)
    <3> HIDE DEF WorkedUpTo, f
    <3> QED
      BY <2>1
  <2> HIDE DEF WorkedUpTo
  <2> QED
    BY <1>1, <2>2
<1>3. ASSUME NEW m \in 0 .. n - 1, m \in S PROVE m + 1 \in S
  <2>1. PICK f : WorkedUpTo(m, f)
    BY <1>3
  <2> HIDE DEF base
  <2> DEFINE h == [i \in 0 .. m + 1 |-> IF i = m + 1 THEN WorkStep(f[m], keep) ELSE f[i]]
  <2>2. ASSUME NEW i \in 0 .. m + 1
        PROVE  h[i] = IF i = 0 THEN base ELSE WorkStep(h[i - 1], keep)
    <3>1. CASE i = m + 1
      <4>1. h[i] = WorkStep(f[m], keep) /\ h[i - 1] = f[m] /\ i # 0
        BY <3>1
      <4> QED
        BY <3>1, <4>1
    <3>2. CASE i \in 0 .. m
      <4>1. f[i] = IF i = 0 THEN base ELSE WorkStep(f[i - 1], keep)
        BY <2>1, <3>2
      <4>2. h[i] = f[i] /\ (i # 0 => h[i - 1] = f[i - 1])
        BY <3>2
      <4> QED
        BY <4>1, <4>2
    <3> QED
      BY <3>1, <3>2
  <2>3. WorkedUpTo(m + 1, h)
    <3>1. h = [i \in 0 .. m + 1 |-> h[i]]
      OBVIOUS
    <3> HIDE DEF h
    <3> QED
      BY <2>2, <3>1
  <2> HIDE DEF WorkedUpTo, h
  <2>4. \E k : WorkedUpTo(m + 1, k)
    BY <2>3
  <2> QED
    BY <1>1, <1>3, <2>4
<1>4. n \in S
  <2> HIDE DEF S, n
  <2>1. \A i \in 0 .. n : i \in S
    BY <1>1, <1>2, <1>3, Upward
  <2> QED
    BY <1>1, <2>1
<1> DEFINE upTo == CHOOSE f : WorkedUpTo(n, f)
<1>5. WorkedUpTo(n, upTo)
  BY <1>4
<1>6. AllPieces(id, keep) = upTo[n]
  BY DEF AllPieces, WorkStep
<1> HIDE DEF upTo
<1>7. upTo[0] = base /\ \A i \in 1 .. n : upTo[i] = WorkStep(upTo[i - 1], keep)
  <2> HIDE DEF base, n
  <2> QED
    BY <1>1, <1>5
<1>8. IsWork(id, keep, upTo)
  BY <1>6, <1>7 DEF IsWork
<1> QED
  BY <1>8

\* The worklist holds parts, all of them trees of the panels V.
WorkWell(d, V) ==
    /\ "work" \in DOMAIN d
    /\ TreesOf(d.parts) /\ PanelsIn(d.parts) = V
    /\ d.work \in Seq(DOMAIN d.parts)

\* The last of a list, and the list without it.
LEMMA LastAndFront ==
    ASSUME NEW D, NEW work \in Seq(D), work # <<>>
    PROVE  Last(work) \in D /\ Front(work) \in Seq(D)
<1>1. PICK n \in Nat : n = Len(work)
  OBVIOUS
<1>2. n # 0
  BY <1>1
<1>3. n \in 1 .. n
  BY <1>2
<1>4. work[n] \in D
  BY <1>1, <1>3
<1>5. SubSeq(work, 1, n - 1) \in Seq(D)
  <2>1. \A i \in 1 .. n - 1 : work[i] \in D
    BY <1>1
  <2> QED
    BY <1>1, <1>2, <2>1
<1> QED
  BY <1>1, <1>4, <1>5 DEF Last, Front

\* A turn of the worklist leaves trees of the same panels.
LEMMA WorkStepWell ==
    ASSUME NEW d, NEW V, WorkWell(d, V), NEW keep
    PROVE  WorkWell(WorkStep(d, keep), V)
<1>1. CASE ~ d.ok \/ d.work = <<>>
  BY <1>1 DEF WorkStep
<1>2. CASE ~ (~ d.ok \/ d.work = <<>>)
  <2>1. PICK D, last, front : D = DOMAIN d.parts /\ last = Last(d.work) /\ front = Front(d.work)
    OBVIOUS
  <2>2. d.work \in Seq(D) /\ d.work # <<>> /\ TreesOf(d.parts) /\ "work" \in DOMAIN d
        /\ PanelsIn(d.parts) = V
    BY <1>2, <2>1 DEF WorkWell
  <2>3. last \in D /\ front \in Seq(D)
    BY <2>1, <2>2, LastAndFront
  <2>4. CASE d.parts[last].graph.bends = <<>>
    <3>1. PICK after : after = [d EXCEPT !.work = front]
      OBVIOUS
    <3>2. after.work = front /\ after.parts = d.parts /\ "work" \in DOMAIN after
      BY <2>2, <3>1
    <3>3. WorkStep(d, keep) = after
      BY <1>2, <2>1, <2>4, <3>1 DEF WorkStep
    <3>4. WorkWell(after, V)
      BY <2>1, <2>2, <2>3, <3>2 DEF WorkWell
    <3> QED
      BY <3>3, <3>4
  <2>5. CASE d.parts[last].graph.bends # <<>>
    <3>1. 1 \in Bends(d.parts[last].graph)
      <4>1. HasBends(d.parts[last].graph.bends)
        BY <2>1, <2>2, <2>3, GraphOfPart DEF TreesOf, TreeGraph
      <4>2. PICK T : d.parts[last].graph.bends \in Seq(T)
        BY <4>1 DEF HasBends
      <4> QED
        BY <2>5, <4>2 DEF Bends
    <3>2. PICK split : split = Pieces(d.parts, last, 1, keep)
      OBVIOUS
    <3>3. SplitWell(d.parts, split)
      BY <2>1, <2>2, <2>3, <3>1, <3>2, PiecesWell
    <3>4. PICK after : after = OnTheWorklist(split, d.work)
      OBVIOUS
    <3>5. WorkStep(d, keep) = after
      BY <1>2, <2>1, <2>5, <3>2, <3>4 DEF WorkStep
    <3>6. /\ after.parts = split.parts /\ "work" \in DOMAIN after
          /\ after.work = IF split.ok THEN Append(d.work, split.child) ELSE d.work
      BY <3>4 DEF OnTheWorklist
    <3>7. after.work \in Seq(DOMAIN split.parts)
      <4>1. PICK E : E = DOMAIN split.parts
        OBVIOUS
      <4>2. D \subseteq E /\ (split.ok => split.child \in E)
        BY <2>1, <3>3, <4>1 DEF SplitWell
      <4>3. PICK work \in Seq(E) : work = d.work
        BY <2>2, <4>2
      <4>4. CASE split.ok
        <5>1. PICK c \in E : c = split.child
          BY <4>2, <4>4
        <5>2. Append(work, c) \in Seq(E)
          OBVIOUS
        <5> QED
          BY <3>6, <4>1, <4>3, <4>4, <5>1, <5>2
      <4>5. CASE ~ split.ok
        BY <3>6, <4>1, <4>3, <4>5
      <4> QED
        BY <4>4, <4>5
    <3>8. WorkWell(after, V)
      BY <2>2, <3>3, <3>6, <3>7 DEF WorkWell, SplitWell
    <3> QED
      BY <3>5, <3>8
  <2> QED
    BY <2>4, <2>5
<1> QED
  BY <1>1, <1>2

\* And so does splitPartByAllBends, however many bends there are.
LEMMA AllPiecesWell ==
    ASSUME TreesOf(parts), NEW id \in DOMAIN parts, NEW keep
    PROVE  /\ TreesOf(AllPieces(id, keep).parts)
           /\ PanelsIn(AllPieces(id, keep).parts) = PanelsIn(parts)
<1>1. Len(parts[id].graph.bends) \in Nat
  BY GraphOfPart, BendsAre DEF TreesOf, TreeGraph
<1>2. PICK upTo : IsWork(id, keep, upTo)
  BY <1>1, WorkOf
<1>3. PICK most \in Nat : most = 2 * Len(parts[id].graph.bends) + 1
  BY <1>1
<1>4. /\ upTo[0] = [ok |-> TRUE, parts |-> parts, work |-> <<id>>]
      /\ \A k \in 1 .. most : upTo[k] = WorkStep(upTo[k - 1], keep)
      /\ AllPieces(id, keep) = upTo[most]
  BY <1>2, <1>3 DEF IsWork
<1> DEFINE S == {k \in 0 .. most : WorkWell(upTo[k], PanelsIn(parts))}
<1>5. 0 \in S
  <2>1. PICK d : d = upTo[0]
    OBVIOUS
  <2>2. "work" \in DOMAIN d /\ d.parts = parts /\ d.work = <<id>>
    BY <1>4, <2>1
  <2>3. WorkWell(d, PanelsIn(parts))
    BY <2>2 DEF WorkWell
  <2> QED
    BY <1>3, <2>1, <2>3
<1>6. ASSUME NEW m \in 0 .. most - 1, m \in S PROVE m + 1 \in S
  <2>1. PICK k \in 1 .. most : k = m + 1 /\ m = k - 1
    BY <1>3
  <2>2. WorkWell(upTo[k - 1], PanelsIn(parts))
    BY <1>6, <2>1
  <2>3. WorkWell(upTo[k], PanelsIn(parts))
    BY <1>4, <2>2, WorkStepWell
  <2> QED
    BY <1>3, <2>1, <2>3
<1>7. most \in S
  <2> HIDE DEF S
  <2>1. \A k \in 0 .. most : k \in S
    BY <1>3, <1>5, <1>6, Upward
  <2> QED
    BY <1>3, <2>1
<1> QED
  BY <1>4, <1>7 DEF WorkWell

\* A bend flipped joins the panels it joined,
LEMMA FlippedBend ==
    ASSUME NEW b, BendFields \subseteq DOMAIN b
    PROVE  /\ Flipped(b).parent = b.parent /\ Flipped(b).child = b.child
           /\ DOMAIN Flipped(b) = DOMAIN b
<1>1. "parent" \in DOMAIN b /\ "child" \in DOMAIN b
  BY DEF BendFields
<1>2. PICK p, q, turns, concave :
         Flipped(b) = [b EXCEPT !.a = p, !.b = q, !.turns = turns, !.concave = concave]
  BY DEF Flipped
<1>3. PICK h1 : h1 = [b EXCEPT !.a = p]
  OBVIOUS
<1>4. h1.parent = b.parent /\ h1.child = b.child /\ DOMAIN h1 = DOMAIN b
  BY <1>1, <1>3
<1>5. PICK h2 : h2 = [h1 EXCEPT !.b = q]
  OBVIOUS
<1>6. h2.parent = b.parent /\ h2.child = b.child /\ DOMAIN h2 = DOMAIN b
  BY <1>1, <1>4, <1>5
<1>7. PICK h3 : h3 = [h2 EXCEPT !.turns = turns]
  OBVIOUS
<1>8. h3.parent = b.parent /\ h3.child = b.child /\ DOMAIN h3 = DOMAIN b
  BY <1>1, <1>6, <1>7
<1>9. PICK h4 : h4 = [h3 EXCEPT !.concave = concave]
  OBVIOUS
<1>10. h4.parent = b.parent /\ h4.child = b.child /\ DOMAIN h4 = DOMAIN b
  BY <1>1, <1>8, <1>9
<1>11. [b EXCEPT !.a = p, !.b = q, !.turns = turns, !.concave = concave]
         = [[[[b EXCEPT !.a = p] EXCEPT !.b = q] EXCEPT !.turns = turns] EXCEPT !.concave = concave]
  OBVIOUS
<1>12. Flipped(b) = h4
  BY <1>2, <1>3, <1>5, <1>7, <1>9, <1>11
<1> QED
  BY <1>10, <1>12

\* and so does one that is moved with its sheet.
LEMMA CarriedBend ==
    ASSUME NEW b, BendFields \subseteq DOMAIN b, NEW r
    PROVE  /\ Carried(b, r).parent = b.parent /\ Carried(b, r).child = b.child
           /\ DOMAIN Carried(b, r) = DOMAIN b
<1>1. "parent" \in DOMAIN b /\ "child" \in DOMAIN b
  BY DEF BendFields
<1>2. PICK p, q : Carried(b, r) = [b EXCEPT !.a = p, !.b = q]
  BY DEF Carried
<1>3. PICK h1 : h1 = [b EXCEPT !.a = p]
  OBVIOUS
<1>4. h1.parent = b.parent /\ h1.child = b.child /\ DOMAIN h1 = DOMAIN b
  BY <1>1, <1>3
<1>5. PICK h2 : h2 = [h1 EXCEPT !.b = q]
  OBVIOUS
<1>6. h2.parent = b.parent /\ h2.child = b.child /\ DOMAIN h2 = DOMAIN b
  BY <1>1, <1>4, <1>5
<1>7. [b EXCEPT !.a = p, !.b = q] = [[b EXCEPT !.a = p] EXCEPT !.b = q]
  OBVIOUS
<1> QED
  BY <1>2, <1>3, <1>5, <1>6, <1>7

\* A map over the bends that keeps what each of them joins keeps the tree.
LEMMA MappedTree ==
    ASSUME NEW s, HasBends(s), NEW V, NEW root, IsTree(s, V, root), NEW f,
           f = [i \in 1 .. Len(s) |-> f[i]],
           \A i \in 1 .. Len(s) : /\ f[i].parent = s[i].parent /\ f[i].child = s[i].child
                                  /\ DOMAIN f[i] = DOMAIN s[i]
    PROVE  HasBends(Made(f)) /\ IsTree(Made(f), V, root)
<1>1. PICK n \in Nat : n = Len(s) /\ \A i \in 1 .. n : BendFields \subseteq DOMAIN s[i]
  BY BendsAre
<1>2. f = [i \in 1 .. n |-> f[i]] /\ \A i \in 1 .. n : BendFields \subseteq DOMAIN f[i]
  BY <1>1
<1>3. Made(f) = f /\ HasBends(f) /\ Len(f) = n
  BY <1>2, MadeBends
<1>4. IsTree(f, V, root)
  BY <1>1, <1>3, SameEndsSameTree
<1> QED
  BY <1>3, <1>4

\* A part turned over is a tree of the same panels,
LEMMA FlippedTree ==
    ASSUME NEW g, NEW V, TreeGraph(g, V)
    PROVE  TreeGraph(FlipPart(g), V)
<1>1. "root" \in DOMAIN g /\ "bends" \in DOMAIN g
  BY DEF TreeGraph
<1>2. PICK outline, polygons, circles, bends, anchor :
         /\ bends = Made(FlippedAll(g.bends))
         /\ FlipPart(g) = [g EXCEPT !.outline = outline, !.polygonHoles = polygons,
                                    !.circleHoles = circles, !.bends = bends, !.anchor = anchor]
  BY DEF FlipPart
<1>3. PICK g1 : g1 = [g EXCEPT !.outline = outline]
  OBVIOUS
<1>4. g1.root = g.root /\ DOMAIN g1 = DOMAIN g
  BY <1>1, <1>3
<1>5. PICK g2 : g2 = [g1 EXCEPT !.polygonHoles = polygons]
  OBVIOUS
<1>6. g2.root = g.root /\ DOMAIN g2 = DOMAIN g
  BY <1>1, <1>4, <1>5
<1>7. PICK g3 : g3 = [g2 EXCEPT !.circleHoles = circles]
  OBVIOUS
<1>8. g3.root = g.root /\ DOMAIN g3 = DOMAIN g
  BY <1>1, <1>6, <1>7
<1>9. PICK g4 : g4 = [g3 EXCEPT !.bends = bends]
  OBVIOUS
<1>10. g4.root = g.root /\ g4.bends = bends /\ DOMAIN g4 = DOMAIN g
  BY <1>1, <1>8, <1>9
<1>11. PICK g5 : g5 = [g4 EXCEPT !.anchor = anchor]
  OBVIOUS
<1>12. g5.root = g.root /\ g5.bends = bends /\ DOMAIN g5 = DOMAIN g
  BY <1>1, <1>10, <1>11
<1>13. [g EXCEPT !.outline = outline, !.polygonHoles = polygons, !.circleHoles = circles,
                 !.bends = bends, !.anchor = anchor]
         = [[[[[g EXCEPT !.outline = outline] EXCEPT !.polygonHoles = polygons]
                EXCEPT !.circleHoles = circles] EXCEPT !.bends = bends] EXCEPT !.anchor = anchor]
  OBVIOUS
<1>14. FlipPart(g) = g5
  BY <1>2, <1>3, <1>5, <1>7, <1>9, <1>11, <1>13
<1>15. PICK s : s = g.bends /\ HasBends(s) /\ IsTree(s, V, g.root)
  BY DEF TreeGraph
<1>16. PICK n \in Nat : n = Len(s) /\ \A i \in 1 .. n : BendFields \subseteq DOMAIN s[i]
  BY <1>15, BendsAre
<1>17. PICK f : f = FlippedAll(s)
  OBVIOUS
<1>18. f = [i \in 1 .. n |-> Flipped(s[i])]
  BY <1>16, <1>17 DEF FlippedAll
<1>19. f = [i \in 1 .. n |-> f[i]] /\ \A i \in 1 .. n : f[i] = Flipped(s[i])
  BY <1>18
<1>20. \A i \in 1 .. n : /\ f[i].parent = s[i].parent /\ f[i].child = s[i].child
                         /\ DOMAIN f[i] = DOMAIN s[i]
  BY <1>16, <1>19, FlippedBend
<1>21. HasBends(Made(f)) /\ IsTree(Made(f), V, g.root)
  BY <1>15, <1>16, <1>19, <1>20, MappedTree
<1>22. bends = Made(f)
  BY <1>2, <1>15, <1>17
<1> QED
  BY <1>1, <1>12, <1>14, <1>21, <1>22 DEF TreeGraph

\* and so is one that is moved.
LEMMA MovedTree ==
    ASSUME NEW g, NEW V, TreeGraph(g, V), NEW r
    PROVE  TreeGraph(Moved(g, r), V)
<1>1. "root" \in DOMAIN g /\ "bends" \in DOMAIN g
  BY DEF TreeGraph
<1>2. PICK s : s = g.bends /\ HasBends(s) /\ IsTree(s, V, g.root)
  BY DEF TreeGraph
<1>3. PICK n \in Nat : n = Len(s) /\ \A i \in 1 .. n : BendFields \subseteq DOMAIN s[i]
  BY <1>2, BendsAre
<1>4. PICK f : f = [i \in 1 .. n |-> Carried(s[i], r)]
  OBVIOUS
<1>5. f = [i \in 1 .. n |-> f[i]] /\ \A i \in 1 .. n : f[i] = Carried(s[i], r)
  BY <1>4
<1>6. \A i \in 1 .. n : /\ f[i].parent = s[i].parent /\ f[i].child = s[i].child
                        /\ DOMAIN f[i] = DOMAIN s[i]
  BY <1>3, <1>5, CarriedBend
<1>7. HasBends(Made(f)) /\ IsTree(Made(f), V, g.root)
  BY <1>2, <1>3, <1>5, <1>6, MappedTree
<1>8. PICK bends, polygons, circles :
         /\ bends = Made(f)
         /\ Moved(g, r) = [g EXCEPT !.bends = bends, !.polygonHoles = polygons, !.circleHoles = circles]
  BY <1>2, <1>3, <1>4 DEF Moved
<1>9. PICK g1 : g1 = [g EXCEPT !.bends = bends]
  OBVIOUS
<1>10. g1.root = g.root /\ g1.bends = bends /\ DOMAIN g1 = DOMAIN g
  BY <1>1, <1>9
<1>11. PICK g2 : g2 = [g1 EXCEPT !.polygonHoles = polygons]
  OBVIOUS
<1>12. g2.root = g.root /\ g2.bends = bends /\ DOMAIN g2 = DOMAIN g
  BY <1>1, <1>10, <1>11
<1>13. PICK g3 : g3 = [g2 EXCEPT !.circleHoles = circles]
  OBVIOUS
<1>14. g3.root = g.root /\ g3.bends = bends /\ DOMAIN g3 = DOMAIN g
  BY <1>1, <1>12, <1>13
<1>15. [g EXCEPT !.bends = bends, !.polygonHoles = polygons, !.circleHoles = circles]
         = [[[g EXCEPT !.bends = bends] EXCEPT !.polygonHoles = polygons] EXCEPT !.circleHoles = circles]
  OBVIOUS
<1>16. Moved(g, r) = g3
  BY <1>8, <1>9, <1>11, <1>13, <1>15
<1> QED
  BY <1>1, <1>7, <1>8, <1>14, <1>16 DEF TreeGraph

\* A seam is between a panel of the one part and a panel of the other.
LEMMA SeamPanels ==
    ASSUME NEW outlineA, NEW panelsA, NEW outlineB, NEW panelsB,
           NEW seam \in DetectContact(outlineA, panelsA, outlineB, panelsB)
    PROVE  seam.a \in DOMAIN panelsA /\ seam.b \in DOMAIN panelsB
<1>1. PICK p, q, flipped, turns, aStart, aEnd, bStart, bEnd :
         /\ p \in DOMAIN panelsA /\ q \in DOMAIN panelsB
         /\ seam = [a |-> p, b |-> q, flipped |-> flipped, turns |-> turns,
                    aStart |-> aStart, aEnd |-> aEnd, bStart |-> bStart, bEnd |-> bEnd]
  BY DEF DetectContact
<1> QED
  BY <1>1

\* Two trees and the bend of a seam between them are one tree.
LEMMA JoinedGraph ==
    ASSUME NEW A, NEW V, TreeGraph(A, V), NEW C, NEW W, TreeGraph(C, W), V \cap W = {},
           NEW seam, seam.a \in V, seam.b \in W, NEW r, NEW radius
    PROVE  TreeGraph(Joined(A, C, seam, r, radius), V \cup W)
<1>1. "root" \in DOMAIN A /\ "bends" \in DOMAIN A /\ HasBends(A.bends) /\ IsTree(A.bends, V, A.root)
  BY DEF TreeGraph
<1>2. HasBends(C.bends) /\ IsTree(C.bends, W, C.root)
  BY DEF TreeGraph
<1>3. PICK turned : turned = RerootAt(C.bends, C.root, seam.b)
  OBVIOUS
<1>4. HasBends(turned) /\ IsTree(turned, W, seam.b)
  BY <1>2, <1>3, RerootedBends
<1>5. PICK b : b = SeamBend(seam, r.hinge, radius)
  OBVIOUS
<1>6. BendFields \subseteq DOMAIN b /\ b.parent = seam.a /\ b.child = seam.b
  BY <1>5 DEF SeamBend, BendFields
<1>7. PICK bends : bends = Append(A.bends \o turned, b)
  OBVIOUS
<1>8. HasBends(bends) /\ IsTree(bends, V \cup W, A.root)
  BY <1>1, <1>4, <1>6, <1>7, JoinedTrees
<1>9. PICK outline, polygons, circles :
         Joined(A, C, seam, r, radius)
           = [A EXCEPT !.outline = outline, !.bends = bends, !.polygonHoles = polygons,
                       !.circleHoles = circles]
  BY <1>3, <1>5, <1>7 DEF Joined, BendsOfBoth
<1>10. PICK g1 : g1 = [A EXCEPT !.outline = outline]
  OBVIOUS
<1>11. g1.root = A.root /\ DOMAIN g1 = DOMAIN A
  BY <1>1, <1>10
<1>12. PICK g2 : g2 = [g1 EXCEPT !.bends = bends]
  OBVIOUS
<1>13. g2.root = A.root /\ g2.bends = bends /\ DOMAIN g2 = DOMAIN A
  BY <1>1, <1>11, <1>12
<1>14. PICK g3 : g3 = [g2 EXCEPT !.polygonHoles = polygons]
  OBVIOUS
<1>15. g3.root = A.root /\ g3.bends = bends /\ DOMAIN g3 = DOMAIN A
  BY <1>1, <1>13, <1>14
<1>16. PICK g4 : g4 = [g3 EXCEPT !.circleHoles = circles]
  OBVIOUS
<1>17. g4.root = A.root /\ g4.bends = bends /\ DOMAIN g4 = DOMAIN A
  BY <1>1, <1>15, <1>16
<1>18. [A EXCEPT !.outline = outline, !.bends = bends, !.polygonHoles = polygons,
                 !.circleHoles = circles]
         = [[[[A EXCEPT !.outline = outline] EXCEPT !.bends = bends]
               EXCEPT !.polygonHoles = polygons] EXCEPT !.circleHoles = circles]
  OBVIOUS
<1>19. Joined(A, C, seam, r, radius) = g4
  BY <1>9, <1>10, <1>12, <1>14, <1>16, <1>18
<1> QED
  BY <1>1, <1>8, <1>17, <1>19 DEF TreeGraph

\* The parts with one of them put in the place of others, whose panels it has.
LEMMA MergedWell ==
    ASSUME TreesOf(parts), NEW a \in DOMAIN parts, NEW b \in DOMAIN parts, a # b, NEW part,
           IsPart(part), PanelsOf(part) = PanelsOf(parts[a]) \cup PanelsOf(parts[b])
    PROVE  LET to == [id \in DOMAIN parts \ {b} |-> IF id = a THEN part ELSE parts[id]]
           IN  TreesOf(to) /\ PanelsIn(to) = PanelsIn(parts)
<1>1. PICK to : to = [id \in DOMAIN parts \ {b} |-> IF id = a THEN part ELSE parts[id]]
  OBVIOUS
<1>2. /\ DOMAIN to = DOMAIN parts \ {b}
      /\ to[a] = part
      /\ \A id \in DOMAIN to : id # a => to[id] = parts[id]
  BY <1>1
<1>3. \A id \in DOMAIN to : IsPart(to[id])
  BY <1>2 DEF TreesOf
<1>4. /\ \A id \in DOMAIN parts : id # a => PanelsOf(parts[id]) \cap PanelsOf(parts[a]) = {}
      /\ \A id \in DOMAIN parts : id # b => PanelsOf(parts[id]) \cap PanelsOf(parts[b]) = {}
  BY DEF TreesOf
<1>5. ASSUME NEW id \in DOMAIN to, NEW other \in DOMAIN to, id # other
      PROVE  PanelsOf(to[id]) \cap PanelsOf(to[other]) = {}
  <2>1. id \in DOMAIN parts /\ other \in DOMAIN parts /\ id # b /\ other # b
    BY <1>2
  <2>2. CASE id = a
    <3>1. to[id] = part /\ to[other] = parts[other] /\ other # a
      BY <1>2, <1>5, <2>2
    <3> QED
      BY <1>4, <2>1, <3>1
  <2>3. CASE other = a
    <3>1. to[other] = part /\ to[id] = parts[id] /\ id # a
      BY <1>2, <1>5, <2>3
    <3> QED
      BY <1>4, <2>1, <3>1
  <2>4. CASE id # a /\ other # a
    BY <1>2, <1>5, <2>1, <2>4 DEF TreesOf
  <2> QED
    BY <2>2, <2>3, <2>4
<1>6. TreesOf(to)
  <2>1. IsFiniteSet(DOMAIN to)
    BY <1>2, FS_RemoveElement DEF TreesOf
  <2> QED
    BY <1>3, <1>5, <2>1 DEF TreesOf
<1>7. PanelsIn(to) = PanelsIn(parts)
  <2>1. ASSUME NEW x \in PanelsIn(to) PROVE x \in PanelsIn(parts)
    BY <1>2, <2>1 DEF PanelsIn
  <2>2. ASSUME NEW x \in PanelsIn(parts) PROVE x \in PanelsIn(to)
    <3>1. PICK n \in DOMAIN parts : x \in PanelsOf(parts[n])
      BY <2>2 DEF PanelsIn
    <3>2. CASE n = a \/ n = b
      <4>1. a \in DOMAIN to /\ x \in PanelsOf(to[a])
        BY <1>2, <3>1, <3>2
      <4> QED
        BY <4>1 DEF PanelsIn
    <3>3. CASE n # a /\ n # b
      <4>1. n \in DOMAIN to /\ to[n] = parts[n]
        BY <1>2, <3>3
      <4> QED
        BY <3>1, <4>1 DEF PanelsIn
    <3> QED
      BY <3>2, <3>3
  <2> QED
    BY <2>1, <2>2
<1> QED
  BY <1>1, <1>6, <1>7

\* Merging two parts leaves trees of the same panels (mergePartsWithBend).
LEMMA MergeWell ==
    ASSUME TreesOf(parts), NEW a \in DOMAIN parts, NEW b \in DOMAIN parts, NEW radius, a # b,
           parts[a].layout.ok, parts[b].layout.ok, MergePartsWithBend(a, b, radius)
    PROVE  TreesOf(parts') /\ PanelsIn(parts') = PanelsIn(parts)
<1>1. PICK A, V, W : A = parts[a].graph /\ V = PanelsOf(parts[a]) /\ W = PanelsOf(parts[b])
  OBVIOUS
<1>2. TreeGraph(A, V) /\ TreeGraph(parts[b].graph, W) /\ V \cap W = {}
  BY <1>1, GraphOfPart DEF TreesOf
<1>3. DOMAIN parts[a].layout.panels = V /\ DOMAIN parts[b].layout.panels = W
  BY <1>1, LayoutPanels DEF TreesOf
<1>4. PICK seam, B, r :
         /\ seam \in DetectContact(A.outline, parts[a].layout.panels,
                                   parts[b].graph.outline, parts[b].layout.panels)
         /\ B = IF seam.flipped THEN FlipPart(parts[b].graph) ELSE parts[b].graph
         /\ parts' = [id \in DOMAIN parts \ {b} |->
                     IF id = a THEN Evaluated(Joined(A, Moved(B, r), seam, r, radius))
                     ELSE parts[id]]
  BY <1>1 DEF MergePartsWithBend
<1>5. seam.a \in V /\ seam.b \in W
  BY <1>3, <1>4, SeamPanels
<1>6. TreeGraph(B, W)
  BY <1>2, <1>4, FlippedTree
<1>7. PICK C : C = Moved(B, r)
  OBVIOUS
<1>8. TreeGraph(C, W)
  BY <1>6, <1>7, MovedTree
<1>9. PICK J : J = Joined(A, C, seam, r, radius)
  OBVIOUS
<1>10. TreeGraph(J, V \cup W)
  BY <1>2, <1>5, <1>8, <1>9, JoinedGraph
<1>11. PICK part : part = Evaluated(J)
  OBVIOUS
<1>12. IsPart(part) /\ PanelsOf(part) = PanelsOf(parts[a]) \cup PanelsOf(parts[b])
  BY <1>1, <1>10, <1>11, PartOfGraph
<1>13. parts' = [id \in DOMAIN parts \ {b} |-> IF id = a THEN part ELSE parts[id]]
  BY <1>4, <1>7, <1>9, <1>11
<1> QED
  BY <1>12, <1>13, MergedWell

\* A part with another graph of the same tree.
LEMMA ReplacedWell ==
    ASSUME TreesOf(parts), NEW id \in DOMAIN parts, NEW g, TreeGraph(g, PanelsOf(parts[id]))
    PROVE  LET to == [parts EXCEPT ![id] = Evaluated(g)]
           IN  TreesOf(to) /\ PanelsIn(to) = PanelsIn(parts)
<1>1. PICK part : part = Evaluated(g)
  OBVIOUS
<1>2. IsPart(part) /\ PanelsOf(part) = PanelsOf(parts[id])
  BY <1>1, PartOfGraph
<1>3. PICK to : to = [parts EXCEPT ![id] = part]
  OBVIOUS
<1>4. /\ DOMAIN to = DOMAIN parts /\ to[id] = part
      /\ \A n \in DOMAIN to : n # id => to[n] = parts[n]
  BY <1>3
<1>5. \A n \in DOMAIN to : IsPart(to[n]) /\ PanelsOf(to[n]) = PanelsOf(parts[n])
  BY <1>2, <1>4 DEF TreesOf
<1>6. TreesOf(to)
  BY <1>4, <1>5 DEF TreesOf
<1>7. PanelsIn(to) = PanelsIn(parts)
  BY <1>4, <1>5 DEF PanelsIn
<1> QED
  BY <1>1, <1>3, <1>6, <1>7

\* Cutting a hole leaves the tree, and the layout is made anew (cutPanel).
LEMMA CutCircleWell ==
    ASSUME TreesOf(parts), NEW id \in DOMAIN parts, NEW hole, NEW named,
           CutCircle(id, hole, named)
    PROVE  TreesOf(parts') /\ PanelsIn(parts') = PanelsIn(parts)
<1>1. PICK g, V, holes : /\ g = parts[id].graph /\ V = PanelsOf(parts[id])
                         /\ holes = g.circleHoles \cup {hole}
  OBVIOUS
<1>2. TreeGraph(g, V)
  BY <1>1, GraphOfPart DEF TreesOf
<1>3. PICK to : to = [g EXCEPT !.circleHoles = holes]
  OBVIOUS
<1>4. to.root = g.root /\ to.bends = g.bends /\ DOMAIN to = DOMAIN g
  BY <1>2, <1>3 DEF TreeGraph
<1>5. TreeGraph(to, V)
  BY <1>2, <1>4 DEF TreeGraph
<1>6. parts' = [parts EXCEPT ![id] = Evaluated(to)]
  BY <1>1, <1>3 DEF CutCircle
<1> QED
  BY <1>1, <1>5, <1>6, ReplacedWell

\* The same for a hole with corners.
LEMMA CutPolygonWell ==
    ASSUME TreesOf(parts), NEW id \in DOMAIN parts, NEW ring, NEW named,
           CutPolygon(id, ring, named)
    PROVE  TreesOf(parts') /\ PanelsIn(parts') = PanelsIn(parts)
<1>1. PICK g, V, holes : /\ g = parts[id].graph /\ V = PanelsOf(parts[id])
                         /\ holes = g.polygonHoles \cup {Clockwise(ring)}
  OBVIOUS
<1>2. TreeGraph(g, V)
  BY <1>1, GraphOfPart DEF TreesOf
<1>3. PICK to : to = [g EXCEPT !.polygonHoles = holes]
  OBVIOUS
<1>4. to.root = g.root /\ to.bends = g.bends /\ DOMAIN to = DOMAIN g
  BY <1>2, <1>3 DEF TreeGraph
<1>5. TreeGraph(to, V)
  BY <1>2, <1>4 DEF TreeGraph
<1>6. parts' = [parts EXCEPT ![id] = Evaluated(to)]
  BY <1>1, <1>3 DEF CutPolygon
<1> QED
  BY <1>1, <1>5, <1>6, ReplacedWell

\* The sheets' bends are trees, whichever panel is the root.
SheetTree(sheet) ==
    /\ HasBends(sheet.bends)
    /\ \E V : /\ IsTree(sheet.bends, V, sheet.bends[1].parent)
              /\ UNION {{b.parent, b.child} : b \in Range(sheet.bends)} \subseteq V

\* A bend between two panels of a sheet.
LEMMA HingeParts ==
    ASSUME NEW id, NEW parent, NEW child, NEW a, NEW b
    PROVE  /\ Hinge(id, parent, child, a, b).parent = parent
           /\ Hinge(id, parent, child, a, b).child = child
           /\ BendFields \subseteq DOMAIN Hinge(id, parent, child, a, b)
BY DEF Hinge, BendFields

\* A sheet with one bend is a tree,
LEMMA SheetOfOne ==
    ASSUME NEW sheet, NEW x, sheet.bends = <<x>>, BendFields \subseteq DOMAIN x,
           x.parent # x.child
    PROVE  SheetTree(sheet)
<1> DEFINE V == {x.parent, x.child}
<1>1. PICK s : s = <<x>> /\ s = sheet.bends
  OBVIOUS
<1>2. Len(s) = 1 /\ s[1] = x /\ s \in Seq({x})
  BY <1>1
<1>3. HasBends(s)
  BY <1>2 DEF HasBends
<1>4. Reached(s, V, x.parent)
  BY <1>2 DEF Reached
<1>5. IsTree(s, V, x.parent)
  BY <1>2, <1>4 DEF IsTree
<1>6. Range(s) = {x}
  BY <1>2 DEF Range
<1> QED
  BY <1>1, <1>2, <1>3, <1>5, <1>6 DEF SheetTree
-----------------------------------------------------------------------------
\* The parts the runs begin with, and all that the tools make of them.

\* one with a second bend to a third panel,
LEMMA SheetOfTwo ==
    ASSUME NEW sheet, NEW x, NEW y, sheet.bends = <<x, y>>,
           BendFields \subseteq DOMAIN x, BendFields \subseteq DOMAIN y,
           x.parent # x.child, y.parent \in {x.parent, x.child}, y.child \notin {x.parent, x.child}
    PROVE  SheetTree(sheet)
<1> DEFINE V == {x.parent, x.child, y.child}
<1>1. PICK s : s = <<x, y>> /\ s = sheet.bends
  OBVIOUS
<1>2. Len(s) = 2 /\ s[1] = x /\ s[2] = y /\ s \in Seq({x, y})
  BY <1>1
<1>3. HasBends(s)
  BY <1>2 DEF HasBends
<1>4. \A i \in 1 .. 2 : i = 1 \/ i = 2
  OBVIOUS
<1>5. Reached(s, V, x.parent)
  <2>1. SUFFICES ASSUME NEW S \in SUBSET V, x.parent \in S,
                        \A i \in 1 .. Len(s) : s[i].parent \in S => s[i].child \in S
                 PROVE  S = V
    BY DEF Reached
  <2>2. 1 \in 1 .. Len(s) /\ 2 \in 1 .. Len(s)
    BY <1>2
  <2>3. x.child \in S
    BY <1>2, <2>1, <2>2
  <2>4. y.child \in S
    BY <1>2, <2>1, <2>2, <2>3
  <2> QED
    BY <2>1, <2>3, <2>4
<1>6. IsTree(s, V, x.parent)
  <2>1. \A i \in 1 .. Len(s) : s[i].parent \in V /\ s[i].child \in V \ {x.parent}
    BY <1>2, <1>4
  <2>2. \A i, j \in 1 .. Len(s) : s[i].child = s[j].child => i = j
    BY <1>2, <1>4
  <2> QED
    BY <1>5, <2>1, <2>2 DEF IsTree
<1>7. \A b \in Range(s) : b = x \/ b = y
  BY <1>2, <1>4 DEF Range
<1>8. UNION {{b.parent, b.child} : b \in Range(s)} \subseteq V
  BY <1>7
<1> QED
  BY <1>1, <1>2, <1>3, <1>6, <1>8 DEF SheetTree

\* and one with four flaps about a panel.
LEMMA SheetOfFour ==
    ASSUME NEW sheet, NEW x, NEW y, NEW z, NEW w, sheet.bends = <<x, y, z, w>>,
           \A b \in {x, y, z, w} : BendFields \subseteq DOMAIN b /\ b.parent = x.parent,
           x.child # x.parent, y.child \notin {x.parent, x.child},
           z.child \notin {x.parent, x.child, y.child},
           w.child \notin {x.parent, x.child, y.child, z.child}
    PROVE  SheetTree(sheet)
<1> DEFINE V == {x.parent, x.child, y.child, z.child, w.child}
<1>1. PICK s : s = <<x, y, z, w>> /\ s = sheet.bends
  OBVIOUS
<1>2. Len(s) = 4 /\ s[1] = x /\ s[2] = y /\ s[3] = z /\ s[4] = w /\ s \in Seq({x, y, z, w})
  BY <1>1
<1>3. HasBends(s)
  BY <1>2 DEF HasBends
<1>4. \A i \in 1 .. 4 : i = 1 \/ i = 2 \/ i = 3 \/ i = 4
  OBVIOUS
<1>5. Reached(s, V, x.parent)
  <2>1. SUFFICES ASSUME NEW S \in SUBSET V, x.parent \in S,
                        \A i \in 1 .. Len(s) : s[i].parent \in S => s[i].child \in S
                 PROVE  S = V
    BY DEF Reached
  <2>2. 1 \in 1 .. Len(s) /\ 2 \in 1 .. Len(s) /\ 3 \in 1 .. Len(s) /\ 4 \in 1 .. Len(s)
    BY <1>2
  <2>3. x.child \in S /\ y.child \in S /\ z.child \in S /\ w.child \in S
    BY <1>2, <2>1, <2>2
  <2> QED
    BY <2>1, <2>3
<1>6. IsTree(s, V, x.parent)
  <2>1. \A i \in 1 .. Len(s) : s[i].parent \in V /\ s[i].child \in V \ {x.parent}
    BY <1>2, <1>4
  <2>2. \A i, j \in 1 .. Len(s) : s[i].child = s[j].child => i = j
    BY <1>2, <1>4
  <2> QED
    BY <1>5, <2>1, <2>2 DEF IsTree
<1>7. \A b \in Range(s) : b \in {x, y, z, w}
  BY <1>2, <1>4 DEF Range
<1>8. UNION {{b.parent, b.child} : b \in Range(s)} \subseteq V
  BY <1>7
<1> QED
  BY <1>1, <1>2, <1>3, <1>6, <1>8 DEF SheetTree

\* Every sheet is one of these.
LEMMA SheetsAreTrees ==
    ASSUME NEW sheet \in Sheets
    PROVE  SheetTree(sheet)
<1>1. "west" # "mid" /\ "west" # "east" /\ "west" # "north" /\ "west" # "south"
      /\ "mid" # "east" /\ "mid" # "north" /\ "mid" # "south"
      /\ "east" # "north" /\ "east" # "south" /\ "north" # "south" /\ "wide" # "flap"
  OBVIOUS
<1>2. CASE sheet = Strip
  <2>1. PICK x, y : /\ x = Hinge(1, "west", "mid", <<10, 12>>, <<10, -2>>)
                    /\ y = Hinge(2, "mid", "east", <<20, 10>>, <<20, 0>>)
    OBVIOUS
  <2>2. sheet.bends = <<x, y>>
    BY <1>2, <2>1 DEF Strip
  <2>3. /\ x.parent = "west" /\ x.child = "mid" /\ BendFields \subseteq DOMAIN x
        /\ y.parent = "mid" /\ y.child = "east" /\ BendFields \subseteq DOMAIN y
    BY <2>1, HingeParts
  <2> QED
    BY <1>1, <2>2, <2>3, SheetOfTwo
<1>3. CASE sheet = Corner
  <2>1. PICK x, y : /\ x = Hinge(1, "mid", "east", <<10, 10>>, <<10, 0>>)
                    /\ y = Hinge(2, "mid", "north", <<0, 10>>, <<10, 10>>)
    OBVIOUS
  <2>2. sheet.bends = <<x, y>>
    BY <1>3, <2>1 DEF Corner
  <2>3. /\ x.parent = "mid" /\ x.child = "east" /\ BendFields \subseteq DOMAIN x
        /\ y.parent = "mid" /\ y.child = "north" /\ BendFields \subseteq DOMAIN y
    BY <2>1, HingeParts
  <2> QED
    BY <1>1, <2>2, <2>3, SheetOfTwo
<1>4. CASE sheet = Tee
  <2>1. PICK x : x = Hinge(1, "wide", "flap", <<8, 10>>, <<22, 10>>)
    OBVIOUS
  <2>2. sheet.bends = <<x>>
    BY <1>4, <2>1 DEF Tee
  <2>3. x.parent = "wide" /\ x.child = "flap" /\ BendFields \subseteq DOMAIN x
    BY <2>1, HingeParts
  <2> QED
    BY <1>1, <2>2, <2>3, SheetOfOne
<1>5. CASE sheet = Cross
  <2>1. PICK x, y, z, w : /\ x = Hinge(1, "mid", "north", <<10, 20>>, <<20, 20>>)
                          /\ y = Hinge(2, "mid", "east", <<20, 20>>, <<20, 10>>)
                          /\ z = Hinge(3, "mid", "south", <<20, 10>>, <<10, 10>>)
                          /\ w = Hinge(4, "mid", "west", <<10, 10>>, <<10, 20>>)
    OBVIOUS
  <2>2. sheet.bends = <<x, y, z, w>>
    BY <1>5, <2>1 DEF Cross
  <2>3. /\ x.parent = "mid" /\ x.child = "north" /\ BendFields \subseteq DOMAIN x
        /\ y.parent = "mid" /\ y.child = "east" /\ BendFields \subseteq DOMAIN y
        /\ z.parent = "mid" /\ z.child = "south" /\ BendFields \subseteq DOMAIN z
        /\ w.parent = "mid" /\ w.child = "west" /\ BendFields \subseteq DOMAIN w
    BY <2>1, HingeParts
  <2> QED
    BY <1>1, <2>2, <2>3, SheetOfFour
<1> QED
  BY <1>2, <1>3, <1>4, <1>5 DEF Sheets

\* Its bends join what they joined when they are given an angle and a radius.
LEMMA BentParts ==
    ASSUME NEW h, NEW turns, NEW radius
    PROVE  /\ Bent(h, turns, radius).parent = h.parent /\ Bent(h, turns, radius).child = h.child
           /\ BendFields \subseteq DOMAIN Bent(h, turns, radius)
BY DEF Bent, BendFields

\* A part made of a sheet is a tree, rooted at any of its panels.
LEMMA PartsOfSheets ==
    ASSUME NEW sheet \in Sheets, NEW turns, NEW radius, NEW thickness, NEW holed,
           NEW root \in UNION {{b.parent, b.child} : b \in Range(sheet.bends)}
    PROVE  \E V : TreeGraph(PartOf(sheet, turns, radius, thickness, root, holed), V)
<1>1. PICK s, top : s = sheet.bends /\ top = s[1].parent
  OBVIOUS
<1>2. PICK V : IsTree(s, V, top) /\ root \in V
  BY <1>1, SheetsAreTrees DEF SheetTree
<1>3. HasBends(s)
  BY <1>1, SheetsAreTrees DEF SheetTree
<1>4. PICK n \in Nat : n = Len(s)
  BY <1>3, BendsAre
<1>5. PICK f : f = [i \in 1 .. n |-> Bent(s[i], turns[i], radius)]
  OBVIOUS
<1>6. f = [i \in 1 .. n |-> f[i]] /\ \A i \in 1 .. n : f[i] = Bent(s[i], turns[i], radius)
  BY <1>5
<1>7. \A i \in 1 .. n : /\ f[i].parent = s[i].parent /\ f[i].child = s[i].child
                        /\ BendFields \subseteq DOMAIN f[i]
  BY <1>6, BentParts
<1>8. Made(f) = f /\ HasBends(f) /\ Len(f) = n
  BY <1>6, <1>7, MadeBends
<1>9. IsTree(f, V, top)
  BY <1>2, <1>4, <1>7, <1>8, SameEndsSameTree
<1>10. PICK bends : bends = RerootAt(f, top, root)
  OBVIOUS
<1>11. HasBends(bends) /\ IsTree(bends, V, root)
  BY <1>2, <1>8, <1>9, <1>10, RerootedBends
<1>12. PICK g : g = PartOf(sheet, turns, radius, thickness, root, holed)
  OBVIOUS
<1>13. PICK polygons, circles :
          g = [root |-> root, outline |-> sheet.outline, bends |-> bends, thickness |-> thickness,
               anchor |-> Identity, polygonHoles |-> polygons, circleHoles |-> circles]
  BY <1>1, <1>4, <1>5, <1>8, <1>10, <1>12 DEF PartOf
<1>14. g.root = root /\ g.bends = bends /\ {"root", "bends"} \subseteq DOMAIN g
  BY <1>13
<1>15. TreeGraph(g, V)
  BY <1>11, <1>14 DEF TreeGraph
<1> QED
  BY <1>12, <1>15

\* The parts begin as trees.
LEMMA TreesFromTheStart == Init => TreesOf(parts)
<1>1. SUFFICES ASSUME Init PROVE TreesOf(parts)
  OBVIOUS
<1>2. PICK sheet, turns, radius, thickness, holed, root :
         /\ sheet \in Sheets /\ root \in UNION {{b.parent, b.child} : b \in Range(sheet.bends)}
         /\ parts = [id \in {1} |-> Evaluated(PartOf(sheet, turns, radius, thickness, root, holed))]
  BY <1>1 DEF Init
<1>3. PICK g : g = PartOf(sheet, turns, radius, thickness, root, holed)
  OBVIOUS
<1>4. PICK V : TreeGraph(g, V)
  BY <1>2, <1>3, PartsOfSheets
<1>5. IsPart(Evaluated(g))
  BY <1>4, PartOfGraph
<1>6. DOMAIN parts = {1} /\ parts[1] = Evaluated(g)
  BY <1>2, <1>3
<1> QED
  BY <1>5, <1>6, FS_Singleton DEF TreesOf

\* And every call leaves them trees of the same panels.
LEMMA CallsKeepTrees ==
    TreesOf(parts) /\ [Next]_vars => TreesOf(parts') /\ PanelsIn(parts') = PanelsIn(parts)
<1>1. SUFFICES ASSUME TreesOf(parts), [Next]_vars
                   PROVE TreesOf(parts') /\ PanelsIn(parts') = PanelsIn(parts)
  OBVIOUS
<1>2. ASSUME NEW id \in DOMAIN parts, NEW keep, NEW i \in Bends(parts[id].graph),
             SplitPartAtBend(id, i, keep)
      PROVE  TreesOf(parts') /\ PanelsIn(parts') = PanelsIn(parts)
  <2>1. SplitWell(parts, Pieces(parts, id, i, keep))
    BY <1>1, PiecesWell
  <2>2. parts' = Pieces(parts, id, i, keep).parts
    BY <1>2 DEF SplitPartAtBend
  <2> QED
    BY <2>1, <2>2 DEF SplitWell
<1>3. ASSUME NEW id \in DOMAIN parts, NEW keep, SplitPartByAllBends(id, keep)
      PROVE  TreesOf(parts') /\ PanelsIn(parts') = PanelsIn(parts)
  <2>1. /\ TreesOf(AllPieces(id, keep).parts)
        /\ PanelsIn(AllPieces(id, keep).parts) = PanelsIn(parts)
    BY <1>1, AllPiecesWell
  <2>2. parts' = AllPieces(id, keep).parts
    BY <1>3 DEF SplitPartByAllBends
  <2> QED
    BY <2>1, <2>2
<1>4. ASSUME NEW a \in DOMAIN parts, NEW b \in DOMAIN parts, NEW radius, a # b,
             parts[a].layout.ok, parts[b].layout.ok, MergePartsWithBend(a, b, radius)
      PROVE  TreesOf(parts') /\ PanelsIn(parts') = PanelsIn(parts)
  BY <1>1, <1>4, MergeWell
<1>5. ASSUME NEW id \in DOMAIN parts, NEW hole, NEW named, CutCircle(id, hole, named)
      PROVE  TreesOf(parts') /\ PanelsIn(parts') = PanelsIn(parts)
  BY <1>1, <1>5, CutCircleWell
<1>6. ASSUME NEW id \in DOMAIN parts, NEW ring, NEW named, CutPolygon(id, ring, named)
      PROVE  TreesOf(parts') /\ PanelsIn(parts') = PanelsIn(parts)
  BY <1>1, <1>6, CutPolygonWell
<1>7. CASE Next
  BY <1>2, <1>3, <1>4, <1>5, <1>6, <1>7 DEF Next
<1>8. CASE UNCHANGED vars
  BY <1>1, <1>8 DEF vars
<1> QED
  BY <1>1, <1>7, <1>8

\* Which is what PartsAreTrees says, and more: the layouts are those of the
\* graphs.
LEMMA TreesArePartsAsTrees == TreesOf(parts) => PartsAreTrees
<1>1. SUFFICES ASSUME TreesOf(parts) PROVE PartsAreTrees
  OBVIOUS
<1>2. ASSUME NEW id \in DOMAIN parts
      PROVE  /\ ValidateTree(parts[id].graph) = "none"
             /\ parts[id].layout.ok => Hangs(parts[id].graph, parts[id].layout)
  <2>1. PICK g : g = parts[id].graph
    OBVIOUS
  <2>2. TreeGraph(g, Panels(g)) /\ parts[id].layout = Evaluate(g)
    BY <1>1, <2>1, GraphOfPart DEF TreesOf, PanelsOf
  <2>3. PICK T : g.bends \in Seq(T)
    BY <2>2 DEF TreeGraph, HasBends
  <2>4. ValidateTree(g) = "none"
    BY <2>2, <2>3, TreeIsValid DEF TreeGraph
  <2>5. Evaluate(g).ok => Hangs(g, Evaluate(g))
    BY <2>3, EvaluatedPartsHang
  <2> QED
    BY <2>1, <2>2, <2>4, <2>5
<1>3. \A id, other \in DOMAIN parts :
         id # other => Panels(parts[id].graph) \cap Panels(parts[other].graph) = {}
  BY <1>1 DEF TreesOf, PanelsOf
<1> QED
  BY <1>2, <1>3 DEF PartsAreTrees

\* So it holds whatever the tools have done.
LEMMA PartsAreAlwaysTrees == Spec => []TreesOf(parts)
<1>1. Init => TreesOf(parts)
  BY TreesFromTheStart
<1>2. TreesOf(parts) /\ [Next]_vars => TreesOf(parts)'
  <2>1. TreesOf(parts)' <=> TreesOf(parts')
    BY DEF TreesOf
  <2> QED
    BY <2>1, CallsKeepTrees
<1> QED
  BY <1>1, <1>2, PTL DEF Spec

\* Every part that splitPartAtBend, splitPartByAllBends, mergePartsWithBend
\* and cutPanel make is a tree of panels that passes validateTree, and no
\* panel is in two parts: whatever the thickness and the radii of the bends,
\* and however many calls are made.
THEOREM PartsStayTrees == Spec => []PartsAreTrees
<1>1. TreesOf(parts) => PartsAreTrees
  BY TreesArePartsAsTrees
<1> QED
  BY <1>1, PartsAreAlwaysTrees, PTL

\* No call loses a panel or makes one: not a split that is refused halfway
\* through the bends of splitPartByAllBends, not mergePartsWithBend, which
\* deletes a part, nor splitPartAtBend, which numbers a new one.
THEOREM PanelsAreKept == Spec => [][AllPanels' = AllPanels]_vars
<1>1. TreesOf(parts) /\ [Next]_vars => AllPanels' = AllPanels
  <2>1. AllPanels = PanelsIn(parts) /\ AllPanels' = PanelsIn(parts')
    BY DEF AllPanels, PanelsIn, PanelsOf
  <2> QED
    BY <2>1, CallsKeepTrees
<1> QED
  BY <1>1, PartsAreAlwaysTrees, PTL DEF Spec
-----------------------------------------------------------------------------
\* Rerooting the parts there are.

\* A part that could not be laid out has no panels placed.
LEMMA FailedHasNone ==
    ASSUME NEW g, ~ Evaluate(g).ok
    PROVE  \A p : p \notin DOMAIN Evaluate(g).panels
<1>1. \A code : DOMAIN Failed(code).panels = {}
  BY DEF Failed
<1>2. \A walk, region : LaidOut(walk, region).ok \/ \E code : LaidOut(walk, region) = Failed(code)
  BY DEF LaidOut
<1>3. Evaluate(g) = EvaluateOn(g, EnsureHingeVertices(g)) \/ \E code : Evaluate(g) = Failed(code)
  BY DEF Evaluate
<1>4. \E walk, region : EvaluateOn(g, EnsureHingeVertices(g)) = LaidOut(walk, region)
  BY DEF EvaluateOn, Regions
<1>5. \E code : Evaluate(g) = Failed(code)
  BY <1>2, <1>3, <1>4
<1> QED
  BY <1>1, <1>5

\* What a tree of panels that can be laid out looks like rerooted at any panel
\* of it, where that panel is.
LEMMA RerootedLeft ==
    ASSUME NEW part, IsPart(part), GraphOnTheGrid(part.graph),
           NEW p \in DOMAIN part.layout.panels
    PROVE  LET rerooted == Rerooted(part.graph, p, part.layout.panels[p].pose)
           IN  RerootedInPlace(part.graph, part.layout, p, rerooted, Evaluate(rerooted))
<1>1. PICK g, layout : g = part.graph /\ layout = part.layout
  OBVIOUS
<1>2. TreeGraph(g, Panels(g)) /\ layout = Evaluate(g) /\ p \in DOMAIN layout.panels
  BY <1>1, GraphOfPart DEF PanelsOf
<1>3. g \in Graphs(Int, Panels(g)) /\ HingesOnTheGrid(g) /\ RunsAsDrawn(g)
  BY <1>1 DEF GraphOnTheGrid
<1>4. PICK T : T = BendsOf(Int, Panels(g)) /\ g.bends \in Seq(T) /\ g.outline \in Seq(Plane)
  BY <1>3 DEF Graphs
<1>5. ValidateTree(g) = "none"
  BY <1>2, <1>4, TreeIsValid DEF TreeGraph
<1>6. layout.ok
  BY <1>2, FailedHasNone
<1>7. p \in Panels(g) /\ layout.panels[p].pose \in Poses
  BY <1>2, <1>3, <1>6, PosesOfLayout
<1>8. PICK anchor, to, after :
         /\ anchor \in Poses /\ anchor = layout.panels[p].pose
         /\ to = Rerooted(g, p, anchor) /\ after = Evaluate(to)
  BY <1>7
<1>9. ValidateTree(to) = "none"
  BY <1>3, <1>5, <1>7, <1>8, RerootStaysATree
<1>10. /\ to \in Graphs(Int, Panels(g)) /\ to.outline = g.outline
       /\ to.bends = SwappedOn(g.bends, PathUp(g.bends, g.root, p))
  BY <1>3, <1>7, <1>8, RerootedIs
<1>11. EnsureHingeVertices(to).hinges
         = BackwardsOn(EnsureHingeVertices(g).hinges, PathUp(g.bends, g.root, p))
  BY <1>3, <1>7, <1>8, HingesOfRerooted
<1>12. ASSUME after.ok
       PROVE  /\ Hangs(to, after)
              /\ DOMAIN after.panels = DOMAIN layout.panels
              /\ \A q \in DOMAIN after.panels : after.panels[q].pose = layout.panels[q].pose
  <2>1. PICK U : to.bends \in Seq(U)
    BY <1>10 DEF Graphs
  <2>2. Hangs(to, after)
    BY <1>8, <1>12, <2>1, EvaluatedPartsHang
  <2>3. /\ DOMAIN after.panels = DOMAIN layout.panels
        /\ \A q \in DOMAIN after.panels : after.panels[q].pose = layout.panels[q].pose
    BY <1>2, <1>3, <1>6, <1>7, <1>8, <1>12, RerootLeavesThePanels
  <2> QED
    BY <2>2, <2>3
<1>13. RerootedInPlace(g, layout, p, to, after)
  BY <1>9, <1>11, <1>12 DEF RerootedInPlace
<1> QED
  BY <1>1, <1>8, <1>13

\* Every part there is, rerooted at any panel of it.
RerootKeeps ==
    \A id \in DOMAIN parts : \A p \in DOMAIN parts[id].layout.panels :
        LET rerooted == Rerooted(parts[id].graph, p, parts[id].layout.panels[p].pose)
        IN  RerootedInPlace(parts[id].graph, parts[id].layout, p, rerooted, Evaluate(rerooted))

\* As long as the parts keep to the grid, a part rooted at any of its panels,
\* and anchored where that panel is, passes validateTree, has every hinge it
\* had, those on the way to the new root backwards, and if it can be laid out
\* has every panel where it was (rerootPart).
THEOREM RerootKeepsThePlaces == Spec => [](PartsOnTheGrid => RerootKeeps)
<1>1. TreesOf(parts) => (PartsOnTheGrid => RerootKeeps)
  BY RerootedLeft DEF TreesOf, PartsOnTheGrid, RerootKeeps
<1>2. Spec => []TreesOf(parts)
  BY PartsAreAlwaysTrees
<1> QED
  BY <1>1, <1>2, PTL
-----------------------------------------------------------------------------
\* A part turned over (FlipPart).

\* A bend flipped has its points mirrored and the other way round.
LEMMA FlippedInBends ==
    ASSUME NEW Id, NEW Panel, NEW b \in BendsOf(Id, Panel)
    PROVE  /\ Flipped(b) \in BendsOf(Id, Panel)
           /\ Flipped(b).a = Mirrored(b.b) /\ Flipped(b).b = Mirrored(b.a)
<1>1. Mirrored(b.a) \in Plane /\ Mirrored(b.b) \in Plane
  BY DEF BendsOf, Plane, Mirrored
<1>2. /\ Flipped(b).turns = -b.turns /\ Flipped(b).turns \in {1, -1}
      /\ Flipped(b).concave = OutsideIn(b) /\ OutsideIn(b) \in {"yes", "no"}
  BY DEF Flipped, BendsOf, OutsideIn
<1> QED
  BY <1>1, <1>2 DEF BendsOf, Flipped

\* A part turned over: its bends flipped, its anchor turned with it.
LEMMA FlippedIs ==
    ASSUME NEW Id, NEW Panel, NEW g \in Graphs(Id, Panel)
    PROVE  /\ FlipPart(g).root = g.root /\ FlipPart(g).thickness = g.thickness
           /\ FlipPart(g).bends = FlippedAll(g.bends)
           /\ FlipPart(g).bends \in Seq(BendsOf(Id, Panel))
           /\ FlipPart(g).outline = MirroredRing(g.outline)
           /\ FlipPart(g).anchor = Compose(g.anchor, TurnedOver(g.thickness))
<1>1. /\ g.bends \in Seq(BendsOf(Id, Panel)) /\ g.root \in Panel
      /\ DOMAIN g = {"root", "outline", "bends", "thickness", "anchor", "polygonHoles", "circleHoles"}
  BY DEF Graphs
<1>2. PICK n, T, s : n \in Nat /\ n = Len(g.bends) /\ T = BendsOf(Id, Panel) /\ s = g.bends
                     /\ s \in Seq(T) /\ n = Len(s)
  BY <1>1
<1>3. \A i \in 1 .. n : s[i] \in T
  BY <1>2, ElementOfSeq
<1>4. \A b \in T : Flipped(b) \in T
  BY <1>2, FlippedInBends
<1>5. FlippedAll(s) = [i \in 1 .. n |-> Flipped(s[i])]
  BY <1>2 DEF FlippedAll
<1>6. FlippedAll(s) \in Seq(T) /\ Len(FlippedAll(s)) = n
  <2>1. PICK f : f = [i \in 1 .. n |-> Flipped(s[i])]
    OBVIOUS
  <2>2. f \in [1 .. n -> T]
    BY <1>3, <1>4, <2>1
  <2>3. n \in Nat
    BY <1>2
  <2>4. f \in Seq(T) /\ Len(f) = n
    BY <2>2, <2>3
  <2> QED
    BY <1>5, <2>1, <2>4
<1>7. Made(FlippedAll(s)) = FlippedAll(s)
  BY <1>6, ConcatEmptySeq DEF Made
<1>8. PICK outline, polygons, circles, bends, anchor :
         /\ outline = MirroredRing(g.outline) /\ bends = Made(FlippedAll(s))
         /\ anchor = Compose(g.anchor, TurnedOver(g.thickness))
         /\ FlipPart(g) = [g EXCEPT !.outline = outline, !.polygonHoles = polygons,
                                    !.circleHoles = circles, !.bends = bends, !.anchor = anchor]
  BY <1>2 DEF FlipPart
<1>9. PICK g1 : g1 = [g EXCEPT !.outline = outline]
  OBVIOUS
<1>10. PICK g2 : g2 = [g1 EXCEPT !.polygonHoles = polygons]
  OBVIOUS
<1>11. PICK g3 : g3 = [g2 EXCEPT !.circleHoles = circles]
  OBVIOUS
<1>12. PICK g4 : g4 = [g3 EXCEPT !.bends = bends]
  OBVIOUS
<1>13. PICK g5 : g5 = [g4 EXCEPT !.anchor = anchor]
  OBVIOUS
<1>14. FlipPart(g) = g5
  <2>1. [g EXCEPT !.outline = outline, !.polygonHoles = polygons, !.circleHoles = circles,
                  !.bends = bends, !.anchor = anchor]
          = [[[[[g EXCEPT !.outline = outline] EXCEPT !.polygonHoles = polygons]
                 EXCEPT !.circleHoles = circles] EXCEPT !.bends = bends] EXCEPT !.anchor = anchor]
    OBVIOUS
  <2> QED
    BY <1>8, <1>9, <1>10, <1>11, <1>12, <1>13, <2>1
<1>15. g1.root = g.root /\ g1.thickness = g.thickness /\ g1.outline = outline /\ DOMAIN g1 = DOMAIN g
  BY <1>1, <1>9
<1>16. g2.root = g.root /\ g2.thickness = g.thickness /\ g2.outline = outline /\ DOMAIN g2 = DOMAIN g
  BY <1>1, <1>10, <1>15
<1>17. g3.root = g.root /\ g3.thickness = g.thickness /\ g3.outline = outline /\ DOMAIN g3 = DOMAIN g
  BY <1>1, <1>11, <1>16
<1>18. /\ g4.root = g.root /\ g4.thickness = g.thickness /\ g4.outline = outline
       /\ g4.bends = bends /\ DOMAIN g4 = DOMAIN g
  BY <1>1, <1>12, <1>17
<1>19. /\ g5.root = g.root /\ g5.thickness = g.thickness /\ g5.outline = outline
       /\ g5.bends = bends /\ g5.anchor = anchor
  BY <1>1, <1>13, <1>18
<1> QED
  BY <1>2, <1>6, <1>7, <1>8, <1>14, <1>19

\* The panels of a part turned over, each turned over where it is.
LEMMA FlipLeavesThePanels ==
    ASSUME NEW Id, NEW Panel, NEW g \in Graphs(Id, Panel), Evaluate(g).ok, HingesOnTheGrid(g),
           EnsureHingeVertices(FlipPart(g)).hinges = HingesFlipped(EnsureHingeVertices(g).hinges),
           Panels(FlipPart(g)) = Panels(g),
           NEW after, after = Evaluate(FlipPart(g)), after.ok
    PROVE  /\ DOMAIN after.panels = DOMAIN Evaluate(g).panels
           /\ \A p \in DOMAIN after.panels :
                after.panels[p].pose = Compose(Evaluate(g).panels[p].pose, TurnedOver(g.thickness))
<1>1. PICK V, root, bends, thickness, hinges, layout :
         /\ V = Panels(g) /\ root = g.root /\ bends = g.bends /\ thickness = g.thickness
         /\ hinges = EnsureHingeVertices(g).hinges /\ layout = Evaluate(g)
  OBVIOUS
<1>2. g.bends \in Seq(BendsOf(Id, Panel)) /\ g.root \in Panel /\ g.thickness \in Int /\ g.anchor \in Poses
  BY DEF Graphs
<1>3. bends \in Seq(BendsOf(Id, Panel)) /\ thickness \in Int
      /\ hinges \in [1 .. Len(bends) -> Hinges]
  BY <1>1, <1>2 DEF HingesOnTheGrid
<1>4. PICK pose : pose = [q \in V |-> layout.panels[q].pose]
  OBVIOUS
<1>5. /\ DOMAIN layout.panels = V /\ IsTree(bends, V, root) /\ layout.panels[root].pose = g.anchor
      /\ PosedBy(bends, thickness, hinges, pose)
  BY <1>1, <1>2, <1>4, LayoutHangs
<1>6. root \in V /\ Reached(bends, V, root)
  BY <1>5 DEF IsTree
<1>7. bends \in Seq(BendsOf(Id, V))
  BY <1>1, PosesOfLayout
<1>8. pose[root] = g.anchor /\ pose[root] \in Poses
  BY <1>2, <1>4, <1>5, <1>6
<1>9. PICK to : to = FlipPart(g)
  OBVIOUS
<1>10. /\ to.root = root /\ to.thickness = thickness /\ to.bends = FlippedAll(bends)
       /\ to.bends \in Seq(BendsOf(Id, Panel))
       /\ to.anchor = Compose(g.anchor, TurnedOver(thickness))
  BY <1>1, <1>9, FlippedIs
<1>11. PICK other : other = [q \in V |-> after.panels[q].pose]
  OBVIOUS
<1>12. /\ DOMAIN after.panels = V /\ after.panels[root].pose = to.anchor
       /\ PosedBy(FlippedAll(bends), thickness, HingesFlipped(hinges), other)
  <2>1. PICK T : to.bends \in Seq(T)
    BY <1>10
  <2>2. /\ DOMAIN after.panels = Panels(to)
        /\ after.panels[to.root].pose = to.anchor
        /\ PosedBy(to.bends, to.thickness, EnsureHingeVertices(to).hinges,
                   [q \in Panels(to) |-> after.panels[q].pose])
    BY <1>9, <2>1, LayoutHangs
  <2>3. Panels(to) = V /\ EnsureHingeVertices(to).hinges = HingesFlipped(hinges)
    BY <1>1, <1>9
  <2> QED
    BY <1>10, <1>11, <2>2, <2>3
<1>13. other[root] = Compose(pose[root], TurnedOver(thickness))
  BY <1>6, <1>8, <1>10, <1>11, <1>12
<1>14. \A q \in V : other[q] = Compose(pose[q], TurnedOver(thickness))
  BY <1>3, <1>5, <1>6, <1>7, <1>8, <1>12, <1>13, FlippedPoses
<1> QED
  BY <1>1, <1>4, <1>5, <1>11, <1>12, <1>14
-----------------------------------------------------------------------------
\* Points that are inserted in a ring (InsertAfter).

\* Where an index is when something is inserted after i, and where it was.
Past(i, k) == IF k <= i THEN k ELSE k + 1
Prior(i, k) == IF k <= i THEN k ELSE k - 1

\* The ring t is the ring with a point inserted after i.
Inserts(ring, i, p, t) ==
    /\ t \in Seq(Plane) /\ Len(t) = Len(ring) + 1
    /\ \A k \in 1 .. Len(ring) + 1 :
          t[k] = IF k <= i THEN ring[k] ELSE IF k = i + 1 THEN p ELSE ring[k - 1]

\* Inserting a point moves the vertices behind it by one.
LEMMA Inserted ==
    ASSUME NEW ring \in Seq(Plane), NEW i \in 1 .. Len(ring), NEW p \in Plane
    PROVE  Inserts(ring, i, p, InsertAfter(ring, i, p))
<1>1. PICK n, t : n \in Nat /\ n = Len(ring) /\ t = InsertAfter(ring, i, p)
  OBVIOUS
<1>2. PICK before, after : before = SubSeq(ring, 1, i) /\ after = SubSeq(ring, i + 1, n)
  OBVIOUS
<1>3. /\ before \in Seq(Plane) /\ after \in Seq(Plane) /\ Len(before) = i /\ Len(after) = n - i
      /\ \A k \in 1 .. i : before[k] = ring[k]
      /\ \A k \in 1 .. n - i : after[k] = ring[i + k]
  BY <1>1, <1>2
<1>4. PICK s : s = before \o <<p>>
  OBVIOUS
<1>5. s \in Seq(Plane) /\ Len(s) = i + 1 /\ s[i + 1] = p /\ \A k \in 1 .. i : s[k] = ring[k]
  BY <1>3, <1>4
<1>6. t = s \o after
  BY <1>1, <1>2, <1>4 DEF InsertAfter
<1>7. /\ t \in Seq(Plane) /\ Len(t) = n + 1
      /\ \A k \in 1 .. n + 1 : t[k] = IF k <= i + 1 THEN s[k] ELSE after[k - (i + 1)]
  <2>1. i + 1 \in Nat /\ (i + 1) + (n - i) = n + 1 /\ n - i \in Nat
    BY <1>1
  <2>2. PICK m \in Nat, l \in Nat : m = i + 1 /\ l = n - i /\ m + l = n + 1
    BY <2>1
  <2>3. Len(s) = m /\ Len(after) = l
    BY <1>3, <1>5, <2>2
  <2>4. /\ s \o after \in Seq(Plane) /\ Len(s \o after) = m + l
        /\ \A k \in 1 .. m + l : (s \o after)[k] = IF k <= m THEN s[k] ELSE after[k - m]
    <3>1. /\ s \o after \in Seq(Plane) /\ Len(s \o after) = Len(s) + Len(after)
          /\ \A k \in 1 .. Len(s) + Len(after) :
                (s \o after)[k] = IF k <= Len(s) THEN s[k] ELSE after[k - Len(s)]
      BY <1>3, <1>5, ConcatProperties, Zenon
    <3> QED
      BY <2>3, <3>1, Zenon
  <2> QED
    BY <1>6, <2>2, <2>4
<1>8. ASSUME NEW k \in 1 .. n + 1
      PROVE  t[k] = IF k <= i THEN ring[k] ELSE IF k = i + 1 THEN p ELSE ring[k - 1]
  <2>1. CASE k <= i
    BY <1>1, <1>5, <1>7, <2>1
  <2>2. CASE k = i + 1
    BY <1>1, <1>5, <1>7, <2>2
  <2>3. CASE k > i + 1
    <3>1. k - (i + 1) \in 1 .. n - i /\ i + (k - (i + 1)) = k - 1
      BY <1>1, <2>3
    <3>2. ~ (k <= i + 1) /\ ~ (k <= i) /\ k # i + 1
      BY <1>1, <2>3
    <3>3. t[k] = after[k - (i + 1)]
      BY <1>7, <3>2
    <3> QED
      BY <1>3, <3>1, <3>2, <3>3
  <2>4. k <= i \/ k = i + 1 \/ k > i + 1
    BY <1>1
  <2> QED
    BY <2>1, <2>2, <2>3, <2>4
<1> QED
  BY <1>1, <1>7, <1>8 DEF Inserts

\* An edge that a point is inserted on becomes two, the others stay.
InsertsOn(ring, i, p, t) ==
    /\ Edge(t, i) = <<Edge(ring, i)[1], p>>
    /\ Edge(t, i + 1) = <<p, Edge(ring, i)[2]>>
    /\ \A k \in (1 .. Len(ring) + 1) \ {i, i + 1} : Edge(t, k) = Edge(ring, Prior(i, k))

\* What the edges of a ring are with a point inserted on one of them.
LEMMA InsertedEdges ==
    ASSUME NEW ring \in Seq(Plane), NEW i \in 1 .. Len(ring), NEW p \in Plane
    PROVE  InsertsOn(ring, i, p, InsertAfter(ring, i, p))
<1>1. PICK n, t : n \in Nat /\ n = Len(ring) /\ t = InsertAfter(ring, i, p)
  OBVIOUS
<1>2. /\ t \in Seq(Plane) /\ Len(t) = n + 1
      /\ \A k \in 1 .. n + 1 : t[k] = IF k <= i THEN ring[k] ELSE IF k = i + 1 THEN p ELSE ring[k - 1]
  BY <1>1, Inserted DEF Inserts
<1>3. \A m \in Nat : \A k \in 1 .. m : After(k, m) = IF k = m THEN 1 ELSE k + 1
  BY AfterIs
<1>4. /\ \A k \in 1 .. n : Edge(ring, k) = <<ring[k], ring[IF k = n THEN 1 ELSE k + 1]>>
      /\ \A k \in 1 .. n + 1 : Edge(t, k) = <<t[k], t[IF k = n + 1 THEN 1 ELSE k + 1]>>
  <2>1. \A k \in 1 .. n : After(k, n) = IF k = n THEN 1 ELSE k + 1
    BY <1>1, <1>3
  <2>2. n + 1 \in Nat
    BY <1>1
  <2>3. \A k \in 1 .. n + 1 : After(k, n + 1) = IF k = n + 1 THEN 1 ELSE k + 1
    BY <1>3, <2>2
  <2> QED
    BY <1>1, <1>2, <2>1, <2>3 DEF Edge
<1>5. Edge(t, i) = <<ring[i], p>>
  BY <1>1, <1>2, <1>4, SMTT(30)
<1>6. Edge(t, i + 1) = <<p, ring[IF i = n THEN 1 ELSE i + 1]>>
  <2>1. CASE i = n
    BY <1>1, <1>2, <1>4, <2>1
  <2>2. CASE i < n
    BY <1>1, <1>2, <1>4, <2>2
  <2> QED
    BY <1>1, <2>1, <2>2
<1>7. ASSUME NEW k \in (1 .. n + 1) \ {i, i + 1} PROVE Edge(t, k) = Edge(ring, Prior(i, k))
  <2>1. CASE k < i
    <3>1. Prior(i, k) = k /\ k \in 1 .. n /\ k # n /\ k # n + 1 /\ k + 1 <= i
      BY <1>1, <2>1 DEF Prior
    <3>2. Edge(ring, k) = <<ring[k], ring[k + 1]>> /\ Edge(t, k) = <<t[k], t[k + 1]>>
      BY <1>1, <1>4, <3>1
    <3>3. t[k] = ring[k] /\ t[k + 1] = ring[k + 1]
      BY <1>1, <1>2, <2>1
    <3> QED
      BY <3>1, <3>2, <3>3
  <2>2. CASE k > i + 1 /\ k < n + 1
    <3>1. Prior(i, k) = k - 1 /\ k - 1 \in 1 .. n /\ k - 1 # n /\ (k - 1) + 1 = k
      BY <1>1, <2>2 DEF Prior
    <3>2. Edge(ring, k - 1) = <<ring[k - 1], ring[k]>>
      BY <1>4, <3>1
    <3>3. t[k] = ring[k - 1] /\ t[k + 1] = ring[k]
      BY <1>1, <1>2, <2>2
    <3>4. Edge(t, k) = <<t[k], t[k + 1]>>
      BY <1>1, <1>4, <2>2
    <3> QED
      BY <3>1, <3>2, <3>3, <3>4
  <2>3. CASE k > i + 1 /\ k = n + 1
    <3>1. Prior(i, k) = n /\ n \in 1 .. n /\ k - 1 = n /\ 1 <= i
      BY <1>1, <2>3 DEF Prior
    <3>2. Edge(ring, n) = <<ring[n], ring[1]>> /\ Edge(t, k) = <<t[k], t[1]>>
      BY <1>1, <1>4, <2>3, <3>1
    <3>3. t[k] = ring[n] /\ t[1] = ring[1]
      BY <1>1, <1>2, <2>3, <3>1
    <3> QED
      BY <3>1, <3>2, <3>3
  <2>4. k < i \/ (k > i + 1 /\ k < n + 1) \/ (k > i + 1 /\ k = n + 1)
    BY <1>1
  <2> QED
    BY <2>1, <2>2, <2>3, <2>4
<1> QED
  BY <1>1, <1>4, <1>5, <1>6, <1>7 DEF InsertsOn

\* Two points can be inserted in either order.
LEMMA InsertsCommute ==
    ASSUME NEW ring \in Seq(Plane), NEW i \in 1 .. Len(ring), NEW j \in 1 .. Len(ring), i < j,
           NEW p \in Plane, NEW q \in Plane
    PROVE  InsertAfter(InsertAfter(ring, j, q), i, p) = InsertAfter(InsertAfter(ring, i, p), j + 1, q)
<1>1. PICK n \in Nat : n = Len(ring)
  OBVIOUS
<1>2. PICK s, t : s = InsertAfter(ring, j, q) /\ t = InsertAfter(ring, i, p)
  OBVIOUS
<1>3. /\ s \in Seq(Plane) /\ Len(s) = n + 1
      /\ \A k \in 1 .. n + 1 : s[k] = IF k <= j THEN ring[k] ELSE IF k = j + 1 THEN q ELSE ring[k - 1]
  <2>1. Inserts(ring, j, q, s) /\ Inserts(ring, i, p, t)
    BY <1>2, Inserted
  <2> QED
    BY <1>1, <2>1 DEF Inserts
<1>4. /\ t \in Seq(Plane) /\ Len(t) = n + 1
      /\ \A k \in 1 .. n + 1 : t[k] = IF k <= i THEN ring[k] ELSE IF k = i + 1 THEN p ELSE ring[k - 1]
  <2>1. Inserts(ring, j, q, s) /\ Inserts(ring, i, p, t)
    BY <1>2, Inserted
  <2> QED
    BY <1>1, <2>1 DEF Inserts
<1>5. PICK x, y : x = InsertAfter(s, i, p) /\ y = InsertAfter(t, j + 1, q)
  OBVIOUS
<1>6. /\ x \in Seq(Plane) /\ Len(x) = n + 2
      /\ \A k \in 1 .. n + 2 : x[k] = IF k <= i THEN s[k] ELSE IF k = i + 1 THEN p ELSE s[k - 1]
  <2>1. i \in 1 .. Len(s) /\ (n + 1) + 1 = n + 2
    BY <1>1, <1>3
  <2>2. Inserts(s, i, p, x)
    BY <1>3, <1>5, <2>1, Inserted
  <2> QED
    BY <1>3, <2>1, <2>2 DEF Inserts
<1>7. /\ y \in Seq(Plane) /\ Len(y) = n + 2
      /\ \A k \in 1 .. n + 2 :
            y[k] = IF k <= j + 1 THEN t[k] ELSE IF k = (j + 1) + 1 THEN q ELSE t[k - 1]
  <2>1. j + 1 \in 1 .. Len(t) /\ (n + 1) + 1 = n + 2
    BY <1>1, <1>4
  <2>2. Inserts(t, j + 1, q, y)
    BY <1>4, <1>5, <2>1, Inserted
  <2> QED
    BY <1>4, <2>1, <2>2 DEF Inserts
<1>8. ASSUME NEW k \in 1 .. n + 2 PROVE x[k] = y[k]
  <2>1. CASE k <= i
    BY <1>1, <1>3, <1>4, <1>6, <1>7, <2>1
  <2>2. CASE k = i + 1
    BY <1>1, <1>3, <1>4, <1>6, <1>7, <2>2
  <2>3. CASE k > i + 1 /\ k <= j + 1
    BY <1>1, <1>3, <1>4, <1>6, <1>7, <2>3
  <2>4. CASE k = j + 2
    BY <1>1, <1>3, <1>4, <1>6, <1>7, <2>4, SMTT(30)
  <2>5. CASE k > j + 2
    <3>1. x[k] = s[k - 1] /\ y[k] = t[k - 1]
      BY <1>1, <1>6, <1>7, <2>5
    <3>2. PICK l \in 1 .. n + 1 : l = k - 1 /\ l > j + 1 /\ l > i + 1
      BY <1>1, <2>5
    <3>3. s[l] = ring[l - 1] /\ t[l] = ring[l - 1]
      BY <1>1, <1>3, <1>4, <3>2
    <3> QED
      BY <3>1, <3>2, <3>3
  <2>6. k <= i \/ k = i + 1 \/ (k > i + 1 /\ k <= j + 1) \/ k = j + 2 \/ k > j + 2
    BY <1>1
  <2> QED
    BY <2>1, <2>2, <2>3, <2>4, <2>5, <2>6
<1>9. x = y
  BY <1>1, <1>6, <1>7, <1>8
<1> QED
  BY <1>2, <1>5, <1>9
-----------------------------------------------------------------------------
\* A ring and its mirror image, which runs the other way.

\* The ring s runs round what r runs round, mirrored and the other way: e takes
\* every edge of r to its image, d takes it back.
Matching(r, s, e, d) ==
    /\ r \in Seq(Plane) /\ s \in Seq(Plane) /\ Len(s) = Len(r)
    /\ \A i \in 1 .. Len(r) : e[i] \in 1 .. Len(r) /\ d[e[i]] = i
    /\ \A i \in 1 .. Len(r) : d[i] \in 1 .. Len(r) /\ e[d[i]] = i
    /\ \A i \in 1 .. Len(r) : Edge(s, e[i]) = HingeFlipped(Edge(r, i))
MirrorImages(r, s) == \E e, d : Matching(r, s, e, d)

\* The matching when a point has been inserted on edge i and its image.
Threaded(e, i, n) ==
    [k \in 1 .. n + 1 |-> IF k = i + 1 THEN e[i] ELSE IF k = i THEN e[i] + 1
                          ELSE Past(e[i], e[Prior(i, k)])]

TakesBack(e, d, n, k) == e[k] \in 1 .. n /\ d[e[k]] = k

\* The matching with a point inserted goes there and back too.
LEMMA ThreadedBack ==
    ASSUME NEW n \in Nat, NEW e, NEW d, NEW i \in 1 .. n,
           \A k \in 1 .. n : e[k] \in 1 .. n /\ d[e[k]] = k,
           NEW k \in 1 .. n + 1
    PROVE  TakesBack(Threaded(e, i, n), Threaded(d, e[i], n), n + 1, k)
<1>1. PICK j \in 1 .. n : j = e[i] /\ d[j] = i
  OBVIOUS
<1>2. PICK to, from : to = Threaded(e, i, n) /\ from = Threaded(d, j, n)
  OBVIOUS
<1>3. to[k] = IF k = i + 1 THEN j ELSE IF k = i THEN j + 1 ELSE Past(j, e[Prior(i, k)])
  BY <1>1, <1>2 DEF Threaded
<1>4. \A m \in 1 .. n + 1 :
         from[m] = IF m = j + 1 THEN i ELSE IF m = j THEN i + 1 ELSE Past(i, d[Prior(j, m)])
  BY <1>1, <1>2 DEF Threaded
<1>5. CASE k = i + 1
  <2>1. to[k] = j /\ j \in 1 .. n + 1 /\ j # j + 1
    BY <1>3, <1>5
  <2> QED
    BY <1>1, <1>2, <1>4, <1>5, <2>1 DEF TakesBack
<1>6. CASE k = i
  <2>1. k # i + 1 /\ j + 1 \in 1 .. n + 1
    BY <1>6
  <2>2. to[k] = j + 1
    BY <1>3, <1>6, <2>1
  <2> QED
    BY <1>1, <1>2, <1>4, <1>6, <2>1, <2>2 DEF TakesBack
<1>7. CASE k # i /\ k # i + 1
  <2>1. PICK x \in 1 .. n : x = Prior(i, k) /\ x # i /\ Past(i, x) = k
    BY <1>7 DEF Prior, Past
  <2>2. PICK y \in 1 .. n : y = e[x] /\ d[y] = x /\ y # j
    BY <1>1, <2>1
  <2>3. PICK m \in 1 .. n + 1 : m = Past(j, y) /\ m # j /\ m # j + 1 /\ Prior(j, m) = y
    BY <2>2 DEF Prior, Past
  <2>4. to[k] = m
    BY <1>3, <1>7, <2>1, <2>2, <2>3
  <2>5. from[m] = k
    BY <1>4, <2>1, <2>2, <2>3
  <2> QED
    BY <1>1, <1>2, <2>4, <2>5 DEF TakesBack
<1> QED
  BY <1>5, <1>6, <1>7

\* A point on an edge and its image on the edge's image, inserted, leave the
\* rings images of each other.
LEMMA InsertsMatch ==
    ASSUME NEW r, NEW s, NEW e, NEW d, Matching(r, s, e, d), NEW i \in 1 .. Len(r), NEW p \in Plane
    PROVE  Matching(InsertAfter(r, i, p), InsertAfter(s, e[i], Mirrored(p)),
                    Threaded(e, i, Len(r)), Threaded(d, e[i], Len(r)))
<1>1. PICK n \in Nat : /\ n = Len(r) /\ n = Len(s) /\ r \in Seq(Plane) /\ s \in Seq(Plane)
                       /\ \A k \in 1 .. n : e[k] \in 1 .. n /\ d[e[k]] = k
                       /\ \A k \in 1 .. n : d[k] \in 1 .. n /\ e[d[k]] = k
                       /\ \A k \in 1 .. n : Edge(s, e[k]) = HingeFlipped(Edge(r, k))
  BY DEF Matching
<1>2. PICK j \in 1 .. n, q \in Plane : j = e[i] /\ d[j] = i /\ q = Mirrored(p)
  <2>1. Mirrored(p) \in Plane
    BY TurnedOverParts
  <2> QED
    BY <1>1, <2>1
<1>3. PICK t, u : t = InsertAfter(r, i, p) /\ u = InsertAfter(s, j, q)
  OBVIOUS
<1>4. t \in Seq(Plane) /\ u \in Seq(Plane) /\ Len(t) = n + 1 /\ Len(u) = n + 1
  <2>1. Inserts(r, i, p, t) /\ Inserts(s, j, q, u)
    BY <1>1, <1>3, Inserted
  <2> QED
    BY <1>1, <2>1 DEF Inserts
<1>5. PICK to, from : to = Threaded(e, i, n) /\ from = Threaded(d, j, n)
  OBVIOUS
<1>6. \A k \in 1 .. n + 1 : to[k] \in 1 .. n + 1 /\ from[to[k]] = k
  <2>1. \A k \in 1 .. n + 1 : TakesBack(Threaded(e, i, n), Threaded(d, e[i], n), n + 1, k)
    BY <1>1, ThreadedBack
  <2> QED
    BY <1>2, <1>5, <2>1 DEF TakesBack
<1>7. \A k \in 1 .. n + 1 : from[k] \in 1 .. n + 1 /\ to[from[k]] = k
  <2>1. e[d[i]] = i /\ i = d[j]
    BY <1>1, <1>2
  <2>2. to = Threaded(e, d[j], n)
    BY <1>2, <1>5
  <2>3. \A k \in 1 .. n + 1 : TakesBack(Threaded(d, j, n), Threaded(e, d[j], n), n + 1, k)
    BY <1>1, ThreadedBack
  <2> QED
    BY <1>5, <2>2, <2>3 DEF TakesBack
<1>8. /\ Edge(t, i) = <<Edge(r, i)[1], p>> /\ Edge(t, i + 1) = <<p, Edge(r, i)[2]>>
      /\ \A k \in (1 .. n + 1) \ {i, i + 1} : Edge(t, k) = Edge(r, Prior(i, k))
  <2>1. InsertsOn(r, i, p, t) /\ InsertsOn(s, j, q, u)
    BY <1>1, <1>3, InsertedEdges
  <2> QED
    BY <1>1, <2>1 DEF InsertsOn
<1>9. /\ Edge(u, j) = <<Edge(s, j)[1], q>> /\ Edge(u, j + 1) = <<q, Edge(s, j)[2]>>
      /\ \A k \in (1 .. n + 1) \ {j, j + 1} : Edge(u, k) = Edge(s, Prior(j, k))
  <2>1. InsertsOn(r, i, p, t) /\ InsertsOn(s, j, q, u)
    BY <1>1, <1>3, InsertedEdges
  <2> QED
    BY <1>1, <2>1 DEF InsertsOn
<1>10. /\ Edge(s, j)[1] = Mirrored(Edge(r, i)[2])
       /\ Edge(s, j)[2] = Mirrored(Edge(r, i)[1])
  <2>1. Edge(s, j) = HingeFlipped(Edge(r, i))
    BY <1>1, <1>2
  <2> QED
    BY <2>1 DEF HingeFlipped
<1>11. ASSUME NEW k \in 1 .. n + 1 PROVE Edge(u, to[k]) = HingeFlipped(Edge(t, k))
  <2>1. to[k] = IF k = i + 1 THEN j ELSE IF k = i THEN j + 1 ELSE Past(j, e[Prior(i, k)])
    BY <1>2, <1>5 DEF Threaded
  <2>2. CASE k = i + 1
    <3>1. to[k] = j
      BY <2>1, <2>2
    <3> QED
      BY <1>2, <1>8, <1>9, <1>10, <2>2, <3>1 DEF HingeFlipped
  <2>3. CASE k = i
    <3>1. to[k] = j + 1
      BY <1>1, <2>1, <2>3
    <3> QED
      BY <1>2, <1>8, <1>9, <1>10, <2>3, <3>1 DEF HingeFlipped
  <2>4. CASE k # i /\ k # i + 1
    <3>1. PICK x \in 1 .. n : x = Prior(i, k) /\ x # i
      BY <1>1, <2>4 DEF Prior
    <3>2. PICK y \in 1 .. n : y = e[x] /\ y # j
      BY <1>1, <1>2, <3>1
    <3>3. PICK m \in 1 .. n + 1 : m = Past(j, y) /\ m # j /\ m # j + 1 /\ Prior(j, m) = y
      BY <1>2, <3>2 DEF Prior, Past
    <3>4. to[k] = m
      BY <2>1, <2>4, <3>1, <3>2, <3>3
    <3>5. Edge(u, m) = Edge(s, y)
      BY <1>9, <3>3
    <3>6. Edge(t, k) = Edge(r, x)
      BY <1>8, <2>4, <3>1
    <3>7. Edge(s, y) = HingeFlipped(Edge(r, x))
      BY <1>1, <3>2
    <3> QED
      BY <3>4, <3>5, <3>6, <3>7
  <2> QED
    BY <2>2, <2>3, <2>4
<1>12. Matching(t, u, to, from)
  BY <1>4, <1>6, <1>7, <1>11 DEF Matching
<1> QED
  BY <1>1, <1>2, <1>3, <1>5, <1>12

\* The images of two edges, in the order of the mirrored ring.
LEMMA TwoInsertsMatch ==
    ASSUME NEW r, NEW s, NEW e, NEW d, Matching(r, s, e, d),
           NEW i \in 1 .. Len(r), NEW j \in 1 .. Len(r), i < j, NEW p \in Plane, NEW q \in Plane
    PROVE  /\ e[i] < e[j] =>
                MirrorImages(InsertAfter(InsertAfter(r, j, q), i, p),
                             InsertAfter(InsertAfter(s, e[j], Mirrored(q)), e[i], Mirrored(p)))
           /\ e[j] < e[i] =>
                MirrorImages(InsertAfter(InsertAfter(r, j, q), i, p),
                             InsertAfter(InsertAfter(s, e[i], Mirrored(p)), e[j], Mirrored(q)))
           /\ e[i] < e[j] \/ e[j] < e[i]
<1>1. PICK n \in Nat : /\ n = Len(r) /\ n = Len(s) /\ r \in Seq(Plane) /\ s \in Seq(Plane)
                       /\ \A k \in 1 .. n : e[k] \in 1 .. n /\ d[e[k]] = k
  BY DEF Matching
<1>2. PICK x \in 1 .. n, y \in 1 .. n : x = e[i] /\ y = e[j]
  BY <1>1
<1>3. x < y \/ y < x
  <2>1. x # y
    BY <1>1, <1>2
  <2> QED
    BY <2>1
<1>4. PICK pm \in Plane, qm \in Plane : pm = Mirrored(p) /\ qm = Mirrored(q)
  BY TurnedOverParts
<1>5. PICK t, u, to, from : /\ t = InsertAfter(r, j, q) /\ u = InsertAfter(s, y, qm)
                            /\ to = Threaded(e, j, n) /\ from = Threaded(d, y, n)
  OBVIOUS
<1>6. Matching(t, u, to, from)
  BY <1>1, <1>2, <1>4, <1>5, InsertsMatch
<1>7. Len(t) = n + 1
  <2>1. Inserts(r, j, q, t)
    BY <1>1, <1>5, Inserted
  <2> QED
    BY <1>1, <2>1 DEF Inserts
<1>8. i \in 1 .. Len(t)
  BY <1>1, <1>7
<1>9. MirrorImages(InsertAfter(t, i, p), InsertAfter(u, to[i], pm))
  <2>1. Matching(InsertAfter(t, i, p), InsertAfter(u, to[i], pm),
                 Threaded(to, i, Len(t)), Threaded(from, to[i], Len(t)))
    BY <1>4, <1>6, <1>8, InsertsMatch
  <2> QED
    BY <2>1 DEF MirrorImages
<1>10. to[i] = Past(y, x)
  <2>1. i \in 1 .. n + 1 /\ i # j + 1 /\ i # j /\ Prior(j, i) = i
    BY <1>1 DEF Prior
  <2> QED
    BY <1>2, <1>5, <2>1 DEF Threaded
<1>11. CASE x < y
  <2>1. to[i] = x
    BY <1>10, <1>11 DEF Past
  <2>2. MirrorImages(InsertAfter(InsertAfter(r, j, q), i, p),
                     InsertAfter(InsertAfter(s, y, qm), x, pm))
    BY <1>5, <1>9, <2>1
  <2>3. ~ (y < x)
    BY <1>11
  <2> QED
    BY <1>2, <1>4, <1>11, <2>2, <2>3
<1>12. CASE y < x
  <2>1. to[i] = x + 1
    BY <1>10, <1>12 DEF Past
  <2>2. InsertAfter(InsertAfter(s, x, pm), y, qm) = InsertAfter(InsertAfter(s, y, qm), x + 1, pm)
    BY <1>1, <1>12, InsertsCommute
  <2>3. MirrorImages(InsertAfter(InsertAfter(r, j, q), i, p),
                     InsertAfter(InsertAfter(s, x, pm), y, qm))
    BY <1>5, <1>9, <2>1, <2>2
  <2>4. ~ (x < y)
    BY <1>12
  <2> QED
    BY <1>2, <1>4, <1>12, <2>3, <2>4
<1> QED
  BY <1>3, <1>11, <1>12
-----------------------------------------------------------------------------
\* A hinge and its mirror image, each on its own ring.

\* Mirrored, with its ends swapped, a line has its left side where it was.
LEMMA SidesFlip ==
    ASSUME NEW a \in Plane, NEW b \in Plane, NEW p \in Plane
    PROVE  /\ Side(Mirrored(b), Mirrored(a), Mirrored(p)) = Side(a, b, p)
           /\ OnSegment(Mirrored(p), Mirrored(b), Mirrored(a)) <=> OnSegment(p, a, b)
           /\ Square2(Sub2(Mirrored(p), Mirrored(b))) = Square2(Sub2(p, b))
<1>1. PICK a1 \in Int, a2 \in Int, b1 \in Int, b2 \in Int, p1 \in Int, p2 \in Int :
          a = <<a1, a2>> /\ b = <<b1, b2>> /\ p = <<p1, p2>>
  BY DEF Plane
<1>2. Mirrored(a) = <<-a1, a2>> /\ Mirrored(b) = <<-b1, b2>> /\ Mirrored(p) = <<-p1, p2>>
  BY <1>1 DEF Mirrored
<1>3. /\ Side(a, b, p) = (b1 - a1) * (p2 - a2) - (b2 - a2) * (p1 - a1)
      /\ Side(Mirrored(b), Mirrored(a), Mirrored(p))
           = ((-a1) - (-b1)) * (p2 - b2) - (a2 - b2) * ((-p1) - (-b1))
  BY <1>1, <1>2 DEF Side, Cross2, Sub2
<1>4. ((-a1) - (-b1)) * (p2 - b2) - (a2 - b2) * ((-p1) - (-b1))
        = (b1 - a1) * (p2 - a2) - (b2 - a2) * (p1 - a1)
  OBVIOUS
<1>5. Side(Mirrored(b), Mirrored(a), Mirrored(p)) = Side(a, b, p)
  BY <1>3, <1>4
<1>6. \A x, y \in Int : /\ Least(-y, -x) = - Most(x, y) /\ Most(-y, -x) = - Least(x, y)
                        /\ Least(y, x) = Least(x, y) /\ Most(y, x) = Most(x, y)
                        /\ Least(x, y) \in Int /\ Most(x, y) \in Int
  BY DEF Least, Most
<1>7. PICK l1 \in Int, m1 \in Int, l2 \in Int, m2 \in Int :
         /\ l1 = Least(a1, b1) /\ m1 = Most(a1, b1) /\ l2 = Least(a2, b2) /\ m2 = Most(a2, b2)
         /\ Least(-b1, -a1) = -m1 /\ Most(-b1, -a1) = -l1
         /\ Least(b2, a2) = l2 /\ Most(b2, a2) = m2
  <2>1. /\ Least(-b1, -a1) = - Most(a1, b1) /\ Most(-b1, -a1) = - Least(a1, b1)
        /\ Least(a1, b1) \in Int /\ Most(a1, b1) \in Int
    BY <1>6
  <2>2. /\ Least(b2, a2) = Least(a2, b2) /\ Most(b2, a2) = Most(a2, b2)
        /\ Least(a2, b2) \in Int /\ Most(a2, b2) \in Int
    BY <1>6
  <2> QED
    BY <2>1, <2>2
<1>8. OnSegment(p, a, b) <=> /\ Side(a, b, p) = 0
                             /\ l1 <= p1 /\ p1 <= m1 /\ l2 <= p2 /\ p2 <= m2
  BY <1>1, <1>7 DEF OnSegment
<1>9. OnSegment(Mirrored(p), Mirrored(b), Mirrored(a))
        <=> /\ Side(a, b, p) = 0
            /\ -m1 <= -p1 /\ -p1 <= -l1 /\ l2 <= p2 /\ p2 <= m2
  BY <1>2, <1>5, <1>7 DEF OnSegment
<1>10. OnSegment(Mirrored(p), Mirrored(b), Mirrored(a)) <=> OnSegment(p, a, b)
  BY <1>8, <1>9
<1>11. /\ Square2(Sub2(p, b)) = (p1 - b1) * (p1 - b1) + (p2 - b2) * (p2 - b2)
       /\ Square2(Sub2(Mirrored(p), Mirrored(b)))
            = ((-p1) - (-b1)) * ((-p1) - (-b1)) + (p2 - b2) * (p2 - b2)
  BY <1>1, <1>2 DEF Square2, Dot2, Sub2
<1>12. ((-p1) - (-b1)) * ((-p1) - (-b1)) = (p1 - b1) * (p1 - b1)
  OBVIOUS
<1> QED
  BY <1>5, <1>10, <1>11, <1>12

\* Where an edge along one axis crosses a hinge along the other.
CrossesAt(e, f, a, b) == IF a[1] = b[1] THEN <<a[1], e[2]>> ELSE <<e[1], a[2]>>

\* An edge and a hinge, each along an axis, cross in a point of both.
LEMMA CrossingOnAxes ==
    ASSUME NEW a \in Plane, NEW b \in Plane, NEW e \in Plane, NEW f \in Plane,
           AlongAnAxis(<<a, b>>), AlongAnAxis(<<e, f>>), Side(a, b, e) * Side(a, b, f) < 0
    PROVE  /\ LineIntersect2(e, Sub2(f, e), a, Sub2(b, a)) = CrossesAt(e, f, a, b)
           /\ a[1] = b[1] => e[2] = f[2]
           /\ a[1] # b[1] => a[2] = b[2] /\ e[1] = f[1]
<1>1a. PICK a1 \in Int, a2 \in Int, b1 \in Int, b2 \in Int : a = <<a1, a2>> /\ b = <<b1, b2>>
  BY DEF Plane
<1>1b. PICK e1 \in Int, e2 \in Int, f1 \in Int, f2 \in Int : e = <<e1, e2>> /\ f = <<f1, f2>>
  BY DEF Plane
<1>1. a = <<a1, a2>> /\ b = <<b1, b2>> /\ e = <<e1, e2>> /\ f = <<f1, f2>>
  BY <1>1a, <1>1b
<1>2. (a1 = b1 \/ a2 = b2) /\ (e1 = f1 \/ e2 = f2)
  BY <1>1 DEF AlongAnAxis
<1>3. /\ Side(a, b, e) = (b1 - a1) * (e2 - a2) - (b2 - a2) * (e1 - a1)
      /\ Side(a, b, f) = (b1 - a1) * (f2 - a2) - (b2 - a2) * (f1 - a1)
  BY <1>1 DEF Side, Cross2, Sub2
<1>4. \A k \in Int : ~ (k * k < 0)
  OBVIOUS
<1>5. CASE a1 = b1
  <2>1. PICK k \in Int, u \in Int, v \in Int : k = b2 - a2 /\ u = e1 - a1 /\ v = f1 - a1
    OBVIOUS
  <2>2. b1 - a1 = 0
    BY <1>5
  <2>3. PICK x \in Int, y \in Int : x = -(k * u) /\ y = -(k * v)
    OBVIOUS
  <2>4. Side(a, b, e) = x /\ Side(a, b, f) = y
    BY <1>3, <2>1, <2>2, <2>3
  <2>5. x # y
    BY <1>4, <2>4
  <2>6. k # 0 /\ u # v
    BY <2>3, <2>5
  <2>7. e1 # f1 /\ e2 = f2
    BY <1>2, <2>1, <2>6
  <2>8. PICK den \in Int, w \in Int : den = (f1 - e1) * k /\ den # 0 /\ w = a1 - e1
    BY <2>6, <2>7
  <2>9. Cross2(Sub2(f, e), Sub2(b, a)) = den
    <3>1. Cross2(Sub2(f, e), Sub2(b, a)) = (f1 - e1) * (b2 - a2) - (f2 - e2) * (b1 - a1)
      BY <1>1 DEF Cross2, Sub2
    <3> QED
      BY <2>1, <2>2, <2>8, <3>1
  <2>10. Cross2(Sub2(a, e), Sub2(b, a)) = w * k
    <3>1. Cross2(Sub2(a, e), Sub2(b, a)) = (a1 - e1) * (b2 - a2) - (a2 - e2) * (b1 - a1)
      BY <1>1 DEF Cross2, Sub2
    <3> QED
      BY <2>1, <2>2, <2>8, <3>1
  <2>11. Sub2(f, e)[1] = f1 - e1 /\ Sub2(f, e)[2] = 0
    BY <1>1, <2>7 DEF Sub2
  <2>12. (f1 - e1) * (w * k) = w * den /\ 0 * (w * k) = 0 * den
    BY <2>8
  <2>13. Quotient(w * den, den) = w /\ Quotient(0 * den, den) = 0
    <3>1. \A k1 \in Int : Quotient(k1 * den, den) = k1
      BY <2>8, QuotientIs
    <3> QED
      BY <3>1
  <2>14. LineIntersect2(e, Sub2(f, e), a, Sub2(b, a)) = <<e1 + w, e2 + 0>>
    BY <1>1, <2>8, <2>9, <2>10, <2>11, <2>12, <2>13 DEF LineIntersect2
  <2>15. e1 + w = a1 /\ e2 + 0 = e2
    BY <2>8
  <2> QED
    BY <1>1, <1>5, <2>7, <2>14, <2>15 DEF CrossesAt
<1>6. CASE a1 # b1
  <2>1. PICK k \in Int, u \in Int, v \in Int : k = b1 - a1 /\ u = e2 - a2 /\ v = f2 - a2
    OBVIOUS
  <2>2. b2 - a2 = 0 /\ a2 = b2
    BY <1>2, <1>6
  <2>3. PICK x \in Int, y \in Int : x = k * u /\ y = k * v
    OBVIOUS
  <2>4. Side(a, b, e) = x /\ Side(a, b, f) = y
    BY <1>3, <2>1, <2>2, <2>3
  <2>5. x # y
    BY <1>4, <2>4
  <2>6. k # 0 /\ u # v
    BY <2>3, <2>5
  <2>7. e2 # f2 /\ e1 = f1
    BY <1>2, <2>1, <2>6
  <2>8. PICK den \in Int, w \in Int : den = -((f2 - e2) * k) /\ den # 0 /\ w = a2 - e2
    BY <2>6, <2>7
  <2>9. Cross2(Sub2(f, e), Sub2(b, a)) = den
    <3>1. Cross2(Sub2(f, e), Sub2(b, a)) = (f1 - e1) * (b2 - a2) - (f2 - e2) * (b1 - a1)
      BY <1>1 DEF Cross2, Sub2
    <3> QED
      BY <2>1, <2>2, <2>8, <3>1
  <2>10. Cross2(Sub2(a, e), Sub2(b, a)) = -(w * k)
    <3>1. Cross2(Sub2(a, e), Sub2(b, a)) = (a1 - e1) * (b2 - a2) - (a2 - e2) * (b1 - a1)
      BY <1>1 DEF Cross2, Sub2
    <3> QED
      BY <2>1, <2>2, <2>8, <3>1
  <2>11. Sub2(f, e)[1] = 0 /\ Sub2(f, e)[2] = f2 - e2
    BY <1>1, <2>7 DEF Sub2
  <2>12. (f2 - e2) * (-(w * k)) = w * den /\ 0 * (-(w * k)) = 0 * den
    BY <2>8
  <2>13. Quotient(w * den, den) = w /\ Quotient(0 * den, den) = 0
    <3>1. \A k1 \in Int : Quotient(k1 * den, den) = k1
      BY <2>8, QuotientIs
    <3> QED
      BY <3>1
  <2>14. LineIntersect2(e, Sub2(f, e), a, Sub2(b, a)) = <<e1 + 0, e2 + w>>
    BY <1>1, <2>8, <2>9, <2>10, <2>11, <2>12, <2>13 DEF LineIntersect2
  <2>15. e2 + w = a2 /\ e1 + 0 = e1
    BY <2>8
  <2> QED
    BY <1>1, <1>6, <2>2, <2>7, <2>14, <2>15 DEF CrossesAt
<1> QED
  BY <1>5, <1>6

\* The mirrored edge is crossed in the mirrored point, which is on its axis.
LEMMA CrossingFlips ==
    ASSUME NEW a \in Plane, NEW b \in Plane, NEW e \in Plane, NEW f \in Plane,
           AlongAnAxis(<<a, b>>), AlongAnAxis(<<e, f>>), Side(a, b, e) * Side(a, b, f) < 0,
           NEW p, p = LineIntersect2(e, Sub2(f, e), a, Sub2(b, a))
    PROVE  /\ p \in Plane /\ AlongAnAxis(<<e, p>>) /\ AlongAnAxis(<<p, f>>)
           /\ LineIntersect2(Mirrored(f), Sub2(Mirrored(e), Mirrored(f)),
                             Mirrored(b), Sub2(Mirrored(a), Mirrored(b))) = Mirrored(p)
<1>1a. PICK a1 \in Int, a2 \in Int, b1 \in Int, b2 \in Int : a = <<a1, a2>> /\ b = <<b1, b2>>
  BY DEF Plane
<1>1b. PICK e1 \in Int, e2 \in Int, f1 \in Int, f2 \in Int : e = <<e1, e2>> /\ f = <<f1, f2>>
  BY DEF Plane
<1>1. a = <<a1, a2>> /\ b = <<b1, b2>> /\ e = <<e1, e2>> /\ f = <<f1, f2>>
  BY <1>1a, <1>1b
<1>2. /\ p = CrossesAt(e, f, a, b)
      /\ a1 = b1 => e2 = f2
      /\ a1 # b1 => a2 = b2 /\ e1 = f1
  BY <1>1, CrossingOnAxes
<1>3. PICK A \in Plane, B \in Plane, E \in Plane, F \in Plane :
         A = Mirrored(a) /\ B = Mirrored(b) /\ E = Mirrored(e) /\ F = Mirrored(f)
  BY TurnedOverParts
<1>4. A = <<-a1, a2>> /\ B = <<-b1, b2>> /\ E = <<-e1, e2>> /\ F = <<-f1, f2>>
  BY <1>1, <1>3 DEF Mirrored
<1>5. AlongAnAxis(<<B, A>>) /\ AlongAnAxis(<<F, E>>)
  <2>1. (a1 = b1 \/ a2 = b2) /\ (e1 = f1 \/ e2 = f2)
    BY <1>1 DEF AlongAnAxis
  <2> QED
    BY <1>4, <2>1 DEF AlongAnAxis
<1>6. Side(B, A, F) * Side(B, A, E) < 0
  <2>1. PICK x \in Int, y \in Int : x = Side(a, b, e) /\ y = Side(a, b, f)
    BY SideSwaps
  <2>2. Side(B, A, F) = y /\ Side(B, A, E) = x
    BY <1>3, <2>1, SidesFlip
  <2>3. x * y < 0 /\ x * y = y * x
    BY <2>1
  <2> QED
    BY <2>2, <2>3
<1>7. LineIntersect2(F, Sub2(E, F), B, Sub2(A, B)) = CrossesAt(F, E, B, A)
  BY <1>5, <1>6, CrossingOnAxes
<1>8. CASE a1 = b1
  <2>1. p = <<a1, e2>> /\ e2 = f2 /\ CrossesAt(F, E, B, A) = <<-b1, f2>>
    BY <1>1, <1>2, <1>4, <1>8 DEF CrossesAt
  <2>2. Mirrored(p) = <<-a1, e2>>
    BY <2>1 DEF Mirrored
  <2>3. p \in Plane /\ AlongAnAxis(<<e, p>>) /\ AlongAnAxis(<<p, f>>)
    BY <1>1, <2>1 DEF AlongAnAxis, Plane
  <2> QED
    BY <1>3, <1>7, <1>8, <2>1, <2>2, <2>3
<1>9. CASE a1 # b1
  <2>1. -b1 # -a1
    BY <1>9
  <2>2. p = <<e1, a2>> /\ e1 = f1 /\ a2 = b2 /\ CrossesAt(F, E, B, A) = <<-f1, b2>>
    BY <1>1, <1>2, <1>4, <1>9, <2>1 DEF CrossesAt
  <2>3. Mirrored(p) = <<-e1, a2>>
    BY <2>2 DEF Mirrored
  <2>4. p \in Plane /\ AlongAnAxis(<<e, p>>) /\ AlongAnAxis(<<p, f>>)
    BY <1>1, <2>2 DEF AlongAnAxis, Plane
  <2> QED
    BY <1>3, <1>7, <2>2, <2>3, <2>4
<1> QED
  BY <1>8, <1>9

\* Of two points one is strictly nearer to b: mirrored, and taken in either
\* order, they are found in the opposite order from there.
LEMMA OrderedFlips ==
    ASSUME NEW p \in Plane, NEW q \in Plane, NEW a \in Plane, NEW b \in Plane,
           ~ NearerFirst(Ordered(p, q, a)[1], Ordered(p, q, a)[2], b)
    PROVE  /\ Ordered(Mirrored(p), Mirrored(q), Mirrored(b)) = HingeFlipped(Ordered(p, q, a))
           /\ Ordered(Mirrored(q), Mirrored(p), Mirrored(b)) = HingeFlipped(Ordered(p, q, a))
<1>1. PICK P \in Plane, Q \in Plane, B \in Plane :
         P = Mirrored(p) /\ Q = Mirrored(q) /\ B = Mirrored(b)
  BY TurnedOverParts
<1>2. PICK x \in Int, y \in Int : x = Square2(Sub2(p, b)) /\ y = Square2(Sub2(q, b))
  BY DEF Square2, Dot2, Sub2, Plane
<1>3. x = Square2(Sub2(P, B)) /\ y = Square2(Sub2(Q, B))
  BY <1>1, <1>2, SidesFlip
<1>4. CASE NearerFirst(p, q, a)
  <2>1. Ordered(p, q, a) = <<p, q>>
    BY <1>4 DEF Ordered
  <2>2. ~ (x <= y)
    BY <1>2, <2>1 DEF NearerFirst
  <2>3. ~ NearerFirst(P, Q, B) /\ NearerFirst(Q, P, B)
    BY <1>2, <1>3, <2>2 DEF NearerFirst
  <2> QED
    BY <1>1, <2>1, <2>3 DEF Ordered, HingeFlipped
<1>5. CASE ~ NearerFirst(p, q, a)
  <2>1. Ordered(p, q, a) = <<q, p>>
    BY <1>5 DEF Ordered
  <2>2. ~ (y <= x)
    BY <1>2, <2>1 DEF NearerFirst
  <2>3. ~ NearerFirst(Q, P, B) /\ NearerFirst(P, Q, B)
    BY <1>2, <1>3, <2>2 DEF NearerFirst
  <2> QED
    BY <1>1, <2>1, <2>3 DEF Ordered, HingeFlipped
<1> QED
  BY <1>4, <1>5
-----------------------------------------------------------------------------
\* Which edges and vertices Grounded comes upon, on the ring and on its
\* image.

\* e and d take the indices of one set to those of the other and back.
Paired(S, T, e, d) ==
    /\ \A i \in S : e[i] \in T /\ d[e[i]] = i
    /\ \A j \in T : d[j] \in S /\ e[d[j]] = j

\* Sets that are paired have as many elements.
LEMMA PairedNumber ==
    ASSUME NEW n \in Nat, NEW S \in SUBSET (1 .. n), NEW T, NEW e, NEW d, Paired(S, T, e, d)
    PROVE  Cardinality(T) = Cardinality(S)
<1>1. IsFiniteSet(S)
  <2>1. IsFiniteSet(1 .. n)
    BY FS_Interval
  <2> QED
    BY <2>1, FS_Subset
<1>2. PICK f : f = [i \in S |-> e[i]]
  OBVIOUS
<1>3. f \in [S -> T]
  BY <1>2 DEF Paired
<1>4. \A i, j \in S : f[i] = f[j] => i = j
  BY <1>2 DEF Paired
<1>5. \A j \in T : \E i \in S : f[i] = j
  BY <1>2 DEF Paired
<1>6. f \in Bijection(S, T)
  BY <1>3, <1>4, <1>5 DEF Bijection, Injection, Surjection, IsInjective
<1>7. ExistsBijection(S, T)
  BY <1>6 DEF ExistsBijection
<1> QED
  BY <1>1, <1>7, FS_Bijection

\* A set of two numbers has no others.
LEMMA TwoOf ==
    ASSUME NEW n \in Nat, NEW S \in SUBSET (1 .. n), Cardinality(S) = 2,
           NEW i \in S, NEW j \in S, i # j
    PROVE  S = {i, j}
<1>1. IsFiniteSet(S)
  <2>1. IsFiniteSet(1 .. n)
    BY FS_Interval
  <2> QED
    BY <2>1, FS_Subset
<1>2. PICK U : U = S \ {i}
  OBVIOUS
<1>3. IsFiniteSet(U) /\ Cardinality(U) = 1
  <2>1. IsFiniteSet(S \ {i}) /\ Cardinality(S \ {i}) = IF i \in S THEN Cardinality(S) - 1 ELSE Cardinality(S)
    BY <1>1, FS_RemoveElement, Zenon
  <2> QED
    BY <1>2, <2>1
<1>4. PICK W : W = U \ {j}
  OBVIOUS
<1>5. IsFiniteSet(W) /\ Cardinality(W) = 0
  <2>1. IsFiniteSet(U \ {j}) /\ Cardinality(U \ {j}) = IF j \in U THEN Cardinality(U) - 1 ELSE Cardinality(U)
    BY <1>3, FS_RemoveElement, Zenon
  <2>2. j \in U
    BY <1>2
  <2> QED
    BY <1>3, <1>4, <2>1, <2>2
<1>6. W = {}
  BY <1>5, FS_EmptySet
<1> QED
  BY <1>2, <1>4, <1>6

\* The pair of the images, the smaller first.
LEMMA PairOfImages ==
    ASSUME NEW n \in Nat, NEW S \in SUBSET (1 .. n), NEW T \in SUBSET (1 .. n), NEW e, NEW d,
           Paired(S, T, e, d), Cardinality(S) = 2
    PROVE  LET i == Pair(S)[1]
               j == Pair(S)[2]
           IN  /\ e[i] < e[j] => Pair(T)[1] = e[i] /\ Pair(T)[2] = e[j]
               /\ e[j] < e[i] => Pair(T)[1] = e[j] /\ Pair(T)[2] = e[i]
<1>1. PICK i \in S, j \in S : i = Pair(S)[1] /\ j = Pair(S)[2] /\ i < j
  BY PairOf
<1>2. Cardinality(T) = 2
  BY PairedNumber
<1>3. PICK k \in T, l \in T : k = Pair(T)[1] /\ l = Pair(T)[2] /\ k < l
  BY <1>2, PairOf
<1>4. i # j /\ k # l
  BY <1>1, <1>3
<1>5. PICK x \in T, y \in T : x = e[i] /\ y = e[j] /\ x # y
  <2>1. e[i] \in T /\ d[e[i]] = i /\ e[j] \in T /\ d[e[j]] = j
    BY DEF Paired
  <2>2. e[i] # e[j]
    BY <1>4, <2>1
  <2> QED
    BY <2>1, <2>2
<1>6. T = {x, y}
  BY <1>2, <1>5, TwoOf
<1>7. k \in 1 .. n /\ l \in 1 .. n /\ x \in 1 .. n /\ y \in 1 .. n
  OBVIOUS
<1>8. (k = x /\ l = y) \/ (k = y /\ l = x)
  BY <1>4, <1>6
<1>9. x < y => k = x /\ l = y
  BY <1>3, <1>7, <1>8
<1>10. y < x => k = y /\ l = x
  BY <1>3, <1>7, <1>8
<1> QED
  BY <1>1, <1>3, <1>5, <1>9, <1>10

\* Mirrored twice, a point is where it was.
LEMMA MirroredBack ==
    ASSUME NEW p \in Plane, NEW q \in Plane, Mirrored(p) = Mirrored(q)
    PROVE  p = q
<1>1. PICK x \in Int, y \in Int, u \in Int, v \in Int : p = <<x, y>> /\ q = <<u, v>>
  BY DEF Plane
<1>2. -x = -u /\ y = v
  BY <1>1 DEF Mirrored
<1> QED
  BY <1>1, <1>2

\* A point that is somewhere on the ring is first somewhere.
LEMMA FirstAtSomewhere ==
    ASSUME NEW ring \in Seq(Plane), NEW p
    PROVE  FirstAt(ring, p) # 0 <=> \E i \in 1 .. Len(ring) : ring[i] = p
<1>1. PICK n \in Nat : n = Len(ring)
  OBVIOUS
<1>2. PICK T : T = {i \in 1 .. n : ring[i] = p}
  OBVIOUS
<1>3. CASE T = {}
  <2>1. ~ \E i \in 1 .. n : ring[i] = p
    BY <1>2, <1>3
  <2>2. FirstAt(ring, p) = 0
    BY <1>1, <2>1 DEF FirstAt
  <2> QED
    BY <1>1, <2>1, <2>2
<1>4. CASE T # {}
  <2>1. \E i \in 1 .. n : ring[i] = p
    BY <1>2, <1>4
  <2>2. T \in SUBSET Nat
    BY <1>1, <1>2
  <2>3. PICK m \in T : \A k \in T : m <= k
    BY <1>4, <2>2, LeastNumber
  <2>4. m \in 1 .. n /\ ring[m] = p /\ \A j \in 1 .. m - 1 : ring[j] # p
    <3>1. ASSUME NEW j \in 1 .. m - 1, ring[j] = p PROVE FALSE
      <4>1. m \in 1 .. n
        BY <1>2
      <4>2. j \in 1 .. n /\ j < m
        BY <1>1, <4>1
      <4>3. j \in T
        BY <1>2, <3>1, <4>2
      <4> QED
        BY <2>3, <4>1, <4>2, <4>3
    <3> QED
      BY <1>2, <3>1
  <2>5. FirstAt(ring, p) \in 1 .. n
    BY <1>1, <2>1, <2>4 DEF FirstAt
  <2> QED
    BY <1>1, <2>1, <2>5
<1> QED
  BY <1>3, <1>4

\* Every vertex of the ring, as the end of the image of the edge it begins.
VerticesMatch(r, s, v, w) ==
    /\ Paired(1 .. Len(r), 1 .. Len(r), v, w)
    /\ \A i \in 1 .. Len(r) : s[v[i]] = Mirrored(r[i])

\* A ring and its image have such a pairing of their vertices.
LEMMA MatchingVertices ==
    ASSUME NEW r, NEW s, NEW e, NEW d, Matching(r, s, e, d)
    PROVE  \E v, w : VerticesMatch(r, s, v, w)
<1>1. PICK n \in Nat : /\ n = Len(r) /\ n = Len(s) /\ r \in Seq(Plane) /\ s \in Seq(Plane)
                       /\ \A k \in 1 .. n : e[k] \in 1 .. n /\ d[e[k]] = k
                       /\ \A k \in 1 .. n : d[k] \in 1 .. n /\ e[d[k]] = k
                       /\ \A k \in 1 .. n : Edge(s, e[k]) = HingeFlipped(Edge(r, k))
  BY DEF Matching
<1>2. \A i \in 1 .. n : After(i, n) = IF i = n THEN 1 ELSE i + 1
  BY AfterIs
<1> DEFINE next(i) == IF i = n THEN 1 ELSE i + 1
           last(j) == IF j = 1 THEN n ELSE j - 1
<1>3. PICK v, w : v = [i \in 1 .. n |-> next(e[i])] /\ w = [j \in 1 .. n |-> d[last(j)]]
  OBVIOUS
<1>4. \A i \in 1 .. n : /\ next(i) \in 1 .. n /\ last(next(i)) = i
                        /\ last(i) \in 1 .. n /\ next(last(i)) = i
  BY <1>1
<1>5. ASSUME NEW i \in 1 .. n
      PROVE  /\ v[i] \in 1 .. n /\ w[v[i]] = i /\ w[i] \in 1 .. n /\ v[w[i]] = i
             /\ s[v[i]] = Mirrored(r[i])
  <2> HIDE DEF next, last
  <2>1. PICK j \in 1 .. n : j = e[i] /\ d[j] = i
    BY <1>1
  <2>2. v[i] = next(j) /\ next(j) \in 1 .. n /\ last(next(j)) = j
    BY <1>3, <1>4, <2>1
  <2>3. w[v[i]] = i
    BY <1>3, <2>1, <2>2
  <2>4. PICK k \in 1 .. n : k = last(i) /\ next(k) = i
    BY <1>4
  <2>5. w[i] = d[k] /\ d[k] \in 1 .. n /\ e[d[k]] = k
    BY <1>1, <1>3, <2>4
  <2>6. v[w[i]] = i
    BY <1>3, <2>4, <2>5
  <2>7. Edge(s, j)[2] = Mirrored(Edge(r, i)[1])
    BY <1>1, <2>1 DEF HingeFlipped
  <2>8. Edge(s, j)[2] = s[next(j)] /\ Edge(r, i)[1] = r[i]
    BY <1>1, <1>2 DEF Edge, next
  <2> QED
    BY <2>2, <2>3, <2>5, <2>6, <2>7, <2>8
<1>6. VerticesMatch(r, s, v, w)
  BY <1>1, <1>5 DEF VerticesMatch, Paired
<1> QED
  BY <1>6

\* The hinge crosses the images of the edges it crosses, and no others.
LEMMA MatchingCrossings ==
    ASSUME NEW r, NEW s, NEW e, NEW d, Matching(r, s, e, d), NEW a \in Plane, NEW b \in Plane
    PROVE  Paired(Crossings(r, a, b), Crossings(s, Mirrored(b), Mirrored(a)), e, d)
<1>1. PICK n \in Nat : /\ n = Len(r) /\ n = Len(s) /\ r \in Seq(Plane) /\ s \in Seq(Plane)
                       /\ \A k \in 1 .. n : e[k] \in 1 .. n /\ d[e[k]] = k
                       /\ \A k \in 1 .. n : d[k] \in 1 .. n /\ e[d[k]] = k
                       /\ \A k \in 1 .. n : Edge(s, e[k]) = HingeFlipped(Edge(r, k))
  BY DEF Matching
<1>2. PICK A, B, S, T : /\ A = Mirrored(a) /\ B = Mirrored(b)
                        /\ S = Crossings(r, a, b) /\ T = Crossings(s, B, A)
  OBVIOUS
<1>3. ASSUME NEW i \in 1 .. n PROVE i \in S <=> e[i] \in T
  <2>1. PICK x \in Plane, y \in Plane : x = Edge(r, i)[1] /\ y = Edge(r, i)[2]
    BY <1>1, PointOfRing
  <2>2. Edge(s, e[i])[1] = Mirrored(y) /\ Edge(s, e[i])[2] = Mirrored(x)
    BY <1>1, <2>1 DEF HingeFlipped
  <2>3. PICK k \in Int, l \in Int : k = Side(a, b, x) /\ l = Side(a, b, y)
    BY SideSwaps
  <2>4. Side(B, A, Mirrored(y)) = l /\ Side(B, A, Mirrored(x)) = k
    BY <1>2, <2>3, SidesFlip
  <2>5. i \in S <=> k * l < 0
    BY <1>1, <1>2, <2>1, <2>3 DEF Crossings
  <2>6. e[i] \in T <=> l * k < 0
    BY <1>1, <1>2, <2>2, <2>4 DEF Crossings
  <2>7. k * l = l * k
    BY <2>3
  <2> QED
    BY <2>5, <2>6, <2>7
<1>4. S \subseteq 1 .. n /\ T \subseteq 1 .. n
  BY <1>1, <1>2 DEF Crossings
<1>5. Paired(S, T, e, d)
  BY <1>1, <1>3, <1>4 DEF Paired
<1> QED
  BY <1>2, <1>5

\* And it runs through the images of the vertices it runs through.
LEMMA MatchingOnLine ==
    ASSUME NEW r \in Seq(Plane), NEW s \in Seq(Plane), Len(s) = Len(r),
           NEW v, NEW w, VerticesMatch(r, s, v, w), NEW a \in Plane, NEW b \in Plane
    PROVE  Paired(OnLine(r, a, b), OnLine(s, Mirrored(b), Mirrored(a)), v, w)
<1>1. PICK n \in Nat : /\ n = Len(r) /\ n = Len(s) /\ Paired(1 .. n, 1 .. n, v, w)
                       /\ \A i \in 1 .. n : s[v[i]] = Mirrored(r[i])
  BY DEF VerticesMatch
<1>2. PICK A, B, S, T : /\ A = Mirrored(a) /\ B = Mirrored(b)
                        /\ S = OnLine(r, a, b) /\ T = OnLine(s, B, A)
  OBVIOUS
<1>3. ASSUME NEW i \in 1 .. n PROVE i \in S <=> v[i] \in T
  <2>1. PICK x \in Plane : x = r[i]
    BY <1>1, PointOfRing
  <2>2. OnSegment(Mirrored(x), B, A) <=> OnSegment(x, a, b)
    BY <1>2, SidesFlip
  <2>3. v[i] \in 1 .. n /\ s[v[i]] = Mirrored(x)
    BY <1>1, <2>1 DEF Paired
  <2>4. i \in S <=> OnSegment(x, a, b)
    BY <1>1, <1>2, <2>1 DEF OnLine
  <2>5. v[i] \in T <=> OnSegment(Mirrored(x), B, A)
    BY <1>1, <1>2, <2>3 DEF OnLine
  <2> QED
    BY <2>2, <2>4, <2>5
<1>4. S \subseteq 1 .. n /\ T \subseteq 1 .. n
  BY <1>1, <1>2 DEF OnLine
<1>5. Paired(S, T, v, w)
  BY <1>1, <1>3, <1>4 DEF Paired
<1> QED
  BY <1>2, <1>5

\* A point is found on the ring where its image is found on the ring's image.
LEMMA MatchingFirst ==
    ASSUME NEW r \in Seq(Plane), NEW s \in Seq(Plane), Len(s) = Len(r),
           NEW v, NEW w, VerticesMatch(r, s, v, w), NEW p \in Plane
    PROVE  FirstAt(s, Mirrored(p)) # 0 <=> FirstAt(r, p) # 0
<1>1. PICK n \in Nat : /\ n = Len(r) /\ n = Len(s) /\ Paired(1 .. n, 1 .. n, v, w)
                       /\ \A i \in 1 .. n : s[v[i]] = Mirrored(r[i])
  BY DEF VerticesMatch
<1>2. FirstAt(r, p) # 0 <=> \E i \in 1 .. n : r[i] = p
  BY <1>1, FirstAtSomewhere
<1>3. FirstAt(s, Mirrored(p)) # 0 <=> \E i \in 1 .. n : s[i] = Mirrored(p)
  BY <1>1, FirstAtSomewhere
<1>4. ASSUME NEW i \in 1 .. n, r[i] = p PROVE \E j \in 1 .. n : s[j] = Mirrored(p)
  BY <1>1, <1>4 DEF Paired
<1>5. ASSUME NEW j \in 1 .. n, s[j] = Mirrored(p) PROVE \E i \in 1 .. n : r[i] = p
  <2>1. PICK i \in 1 .. n : i = w[j] /\ v[i] = j
    BY <1>1 DEF Paired
  <2>2. r[i] \in Plane
    BY <1>1
  <2>3. Mirrored(r[i]) = Mirrored(p)
    BY <1>1, <1>5, <2>1
  <2>4. r[i] = p
    BY <2>2, <2>3, MirroredBack
  <2> QED
    BY <2>4
<1> QED
  BY <1>2, <1>3, <1>4, <1>5
-----------------------------------------------------------------------------
\* What Grounded inserts, on the ring and on its image.

\* A point inserted on an edge, on its axis, leaves the ring on the axes.
LEMMA InsertOnAxes ==
    ASSUME NEW ring \in Seq(Plane), OnAxes(ring), NEW i \in 1 .. Len(ring), NEW p \in Plane,
           AlongAnAxis(<<Edge(ring, i)[1], p>>), AlongAnAxis(<<p, Edge(ring, i)[2]>>)
    PROVE  OnAxes(InsertAfter(ring, i, p))
<1>1. PICK n, t : n \in Nat /\ n = Len(ring) /\ t = InsertAfter(ring, i, p)
  OBVIOUS
<1>2. InsertsOn(ring, i, p, t) /\ Inserts(ring, i, p, t)
  BY <1>1, Inserted, InsertedEdges
<1>3. Len(t) = n + 1
  BY <1>1, <1>2 DEF Inserts
<1>4. ASSUME NEW k \in 1 .. n + 1 PROVE AlongAnAxis(Edge(t, k))
  <2>1. CASE k = i \/ k = i + 1
    BY <1>2, <2>1 DEF InsertsOn
  <2>2. CASE k # i /\ k # i + 1
    <3>1. PICK x \in 1 .. n : x = Prior(i, k)
      BY <1>1, <2>2 DEF Prior
    <3>2. Edge(t, k) = Edge(ring, x)
      BY <1>1, <1>2, <2>2, <3>1 DEF InsertsOn
    <3> QED
      BY <1>1, <3>1, <3>2 DEF OnAxes
  <2> QED
    BY <2>1, <2>2
<1> QED
  BY <1>1, <1>3, <1>4 DEF OnAxes

\* Two crossing points inserted, the later one first.
LEMMA TwoOnAxes ==
    ASSUME NEW ring \in Seq(Plane), OnAxes(ring),
           NEW i \in 1 .. Len(ring), NEW j \in 1 .. Len(ring), i < j, NEW p \in Plane, NEW q \in Plane,
           AlongAnAxis(<<Edge(ring, i)[1], p>>), AlongAnAxis(<<p, Edge(ring, i)[2]>>),
           AlongAnAxis(<<Edge(ring, j)[1], q>>), AlongAnAxis(<<q, Edge(ring, j)[2]>>)
    PROVE  OnAxes(InsertAfter(InsertAfter(ring, j, q), i, p))
<1>1. PICK n, t : n \in Nat /\ n = Len(ring) /\ t = InsertAfter(ring, j, q)
  OBVIOUS
<1>2. InsertsOn(ring, j, q, t) /\ Inserts(ring, j, q, t)
  BY <1>1, Inserted, InsertedEdges
<1>3. Len(t) = n + 1 /\ t \in Seq(Plane) /\ i \in 1 .. Len(t)
  BY <1>1, <1>2 DEF Inserts
<1>4. Edge(t, i) = Edge(ring, i)
  <2>1. Prior(j, i) = i /\ i \in (1 .. n + 1) \ {j, j + 1}
    BY <1>1 DEF Prior
  <2> QED
    BY <1>1, <1>2, <2>1 DEF InsertsOn
<1>5. OnAxes(t)
  BY <1>1, InsertOnAxes
<1> QED
  BY <1>1, <1>3, <1>4, <1>5, InsertOnAxes

\* What Grounded does with the crossing of one edge and of its image.
CrossedBoth(r, s, e, a, b, i, p) ==
    /\ p \in Plane /\ p = CrossingPoint(r, i, a, b)
    /\ CrossingPoint(s, e[i], Mirrored(b), Mirrored(a)) = Mirrored(p)
    /\ AlongAnAxis(<<Edge(r, i)[1], p>>) /\ AlongAnAxis(<<p, Edge(r, i)[2]>>)

\* Where the hinge crosses an edge its image crosses the image of the edge,
\* in the image of the point; inserted there, both points leave the rings
\* images of each other.
LEMMA CrossingOfBoth ==
    ASSUME NEW r, NEW s, NEW e, NEW d, Matching(r, s, e, d), OnAxes(r),
           NEW a \in Plane, NEW b \in Plane, AlongAnAxis(<<a, b>>), NEW i \in Crossings(r, a, b)
    PROVE  CrossedBoth(r, s, e, a, b, i, CrossingPoint(r, i, a, b))
<1>1. i \in 1 .. Len(r) /\ r \in Seq(Plane) /\ Side(a, b, Edge(r, i)[1]) * Side(a, b, Edge(r, i)[2]) < 0
  BY DEF Crossings, Matching
<1>2. PICK x \in Plane, y \in Plane : x = Edge(r, i)[1] /\ y = Edge(r, i)[2]
  BY <1>1, PointOfRing
<1>3. Edge(r, i) = <<x, y>>
  BY <1>2 DEF Edge
<1>4. AlongAnAxis(<<x, y>>)
  BY <1>1, <1>3 DEF OnAxes
<1>5. Edge(s, e[i])[1] = Mirrored(y) /\ Edge(s, e[i])[2] = Mirrored(x)
  BY <1>1, <1>2 DEF Matching, HingeFlipped
<1>6. PICK p : p = CrossingPoint(r, i, a, b)
  OBVIOUS
<1>7. p = LineIntersect2(x, Sub2(y, x), a, Sub2(b, a))
  BY <1>2, <1>6 DEF CrossingPoint
<1>8. /\ p \in Plane /\ AlongAnAxis(<<x, p>>) /\ AlongAnAxis(<<p, y>>)
      /\ LineIntersect2(Mirrored(y), Sub2(Mirrored(x), Mirrored(y)),
                        Mirrored(b), Sub2(Mirrored(a), Mirrored(b))) = Mirrored(p)
  BY <1>1, <1>2, <1>4, <1>7, CrossingFlips
<1>9. CrossingPoint(s, e[i], Mirrored(b), Mirrored(a)) = Mirrored(p)
  BY <1>5, <1>8 DEF CrossingPoint
<1> QED
  BY <1>2, <1>6, <1>8, <1>9 DEF CrossedBoth

\* The hinge that is grounded on both rings.
FoundBoth(r, s, a, b) ==
    LET found == Grounded(r, a, b)
        image == Grounded(s, Mirrored(b), Mirrored(a))
    IN  /\ image.hinge = HingeFlipped(found.hinge)
        /\ MirrorImages(found.ring, image.ring)
        /\ OnAxes(found.ring)

\* What Grounded finds for a bend on a ring it finds, mirrored, for the bend
\* flipped on the ring's image, and leaves the rings images of each other, if
\* the hinge runs the way the bend is drawn.
LEMMA GroundedFlips ==
    ASSUME NEW r, NEW s, MirrorImages(r, s), OnAxes(r),
           NEW a \in Plane, NEW b \in Plane, AlongAnAxis(<<a, b>>),
           ~ NearerFirst(Grounded(r, a, b).hinge[1], Grounded(r, a, b).hinge[2], b)
    PROVE  FoundBoth(r, s, a, b)
<1>1. PICK e, d : Matching(r, s, e, d)
  BY DEF MirrorImages
<1>2. PICK n \in Nat : n = Len(r) /\ n = Len(s) /\ r \in Seq(Plane) /\ s \in Seq(Plane)
  BY <1>1 DEF Matching
<1>3. PICK A \in Plane, B \in Plane : A = Mirrored(a) /\ B = Mirrored(b)
  BY TurnedOverParts
<1>4. PICK v, w : VerticesMatch(r, s, v, w)
  BY <1>1, MatchingVertices
<1>5. PICK across, along, over, through :
         /\ across = Crossings(r, a, b) /\ along = OnLine(r, a, b)
         /\ over = Crossings(s, B, A) /\ through = OnLine(s, B, A)
  OBVIOUS
<1>6. /\ across \in SUBSET (1 .. n) /\ along \in SUBSET (1 .. n)
      /\ over \in SUBSET (1 .. n) /\ through \in SUBSET (1 .. n)
  BY <1>2, <1>5 DEF Crossings, OnLine
<1>7. Paired(across, over, e, d) /\ Paired(along, through, v, w)
  BY <1>1, <1>2, <1>3, <1>4, <1>5, MatchingCrossings, MatchingOnLine
<1>8. Cardinality(over) = Cardinality(across) /\ Cardinality(through) = Cardinality(along)
  BY <1>2, <1>6, <1>7, PairedNumber
<1>9. (FirstAt(s, A) # 0 <=> FirstAt(r, a) # 0) /\ (FirstAt(s, B) # 0 <=> FirstAt(r, b) # 0)
  BY <1>2, <1>3, <1>4, MatchingFirst
<1>10. HingeFlipped(<<a, b>>) = <<B, A>>
  BY <1>3 DEF HingeFlipped
<1>11. PICK found, image : found = Grounded(r, a, b) /\ image = Grounded(s, B, A)
  OBVIOUS
<1>12. CASE FirstAt(r, a) # 0 \/ FirstAt(r, b) # 0
  <2>1. found = [ring |-> r, hinge |-> <<a, b>>]
    BY <1>11, <1>12 DEF Grounded
  <2>2. image = [ring |-> s, hinge |-> <<B, A>>]
    BY <1>9, <1>11, <1>12 DEF Grounded
  <2> QED
    BY <1>3, <1>10, <1>11, <2>1, <2>2 DEF FoundBoth
<1>13. CASE ~ (FirstAt(r, a) # 0 \/ FirstAt(r, b) # 0) /\ Cardinality(across) = 2
  <2>1. PICK i \in across, j \in across : i = Pair(across)[1] /\ j = Pair(across)[2] /\ i < j
    BY <1>2, <1>6, <1>13, PairOf
  <2>2. PICK p \in Plane, q \in Plane : CrossedBoth(r, s, e, a, b, i, p) /\ CrossedBoth(r, s, e, a, b, j, q)
    <3>1. ASSUME NEW k \in across PROVE \E p \in Plane : CrossedBoth(r, s, e, a, b, k, p)
      <4>1. CrossedBoth(r, s, e, a, b, k, CrossingPoint(r, k, a, b))
        BY <1>1, <1>5, CrossingOfBoth
      <4> QED
        BY <4>1 DEF CrossedBoth
    <3> QED
      BY <3>1
  <2>3. found = [ring |-> InsertAfter(InsertAfter(r, j, q), i, p), hinge |-> Ordered(p, q, a)]
    <3>1. p = CrossingPoint(r, i, a, b) /\ q = CrossingPoint(r, j, a, b)
      BY <2>2 DEF CrossedBoth
    <3> QED
      BY <1>5, <1>11, <1>13, <2>1, <3>1 DEF Grounded
  <2>4. found.hinge = Ordered(p, q, a) /\ found.ring = InsertAfter(InsertAfter(r, j, q), i, p)
    BY <2>3
  <2>5. PICK P \in Plane, Q \in Plane : P = Mirrored(p) /\ Q = Mirrored(q)
    BY TurnedOverParts
  <2>6. Ordered(P, Q, B) = HingeFlipped(found.hinge) /\ Ordered(Q, P, B) = HingeFlipped(found.hinge)
    BY <1>3, <1>11, <2>4, <2>5, OrderedFlips
  <2>7. CrossingPoint(s, e[i], B, A) = P /\ CrossingPoint(s, e[j], B, A) = Q
    BY <1>3, <2>2, <2>5 DEF CrossedBoth
  <2>8. i \in 1 .. Len(r) /\ j \in 1 .. Len(r)
    BY <1>2, <1>6
  <2>9. OnAxes(found.ring)
    BY <1>2, <2>1, <2>2, <2>4, <2>8, TwoOnAxes DEF CrossedBoth
  <2>10. PICK k, l : k = Pair(over)[1] /\ l = Pair(over)[2]
    OBVIOUS
  <2>11. image = [ring |-> InsertAfter(InsertAfter(s, l, CrossingPoint(s, l, B, A)),
                                       k, CrossingPoint(s, k, B, A)),
                  hinge |-> Ordered(CrossingPoint(s, k, B, A), CrossingPoint(s, l, B, A), B)]
    BY <1>5, <1>8, <1>9, <1>11, <1>13, <2>10 DEF Grounded
  <2>12. \/ e[i] < e[j] /\ k = e[i] /\ l = e[j]
         \/ e[j] < e[i] /\ k = e[j] /\ l = e[i]
    <3>1. /\ e[i] < e[j] => k = e[i] /\ l = e[j]
          /\ e[j] < e[i] => k = e[j] /\ l = e[i]
      BY <1>2, <1>6, <1>7, <1>13, <2>1, <2>10, PairOfImages
    <3>2. e[i] < e[j] \/ e[j] < e[i]
      BY <1>1, <2>1, <2>8, TwoInsertsMatch
    <3> QED
      BY <3>1, <3>2
  <2>13. CASE e[i] < e[j] /\ k = e[i] /\ l = e[j]
    <3>1. image = [ring |-> InsertAfter(InsertAfter(s, e[j], Q), e[i], P), hinge |-> Ordered(P, Q, B)]
      BY <2>7, <2>11, <2>13
    <3>2. MirrorImages(found.ring, InsertAfter(InsertAfter(s, e[j], Q), e[i], P))
      BY <1>1, <2>1, <2>4, <2>5, <2>8, <2>13, TwoInsertsMatch
    <3> QED
      BY <1>3, <1>11, <2>6, <2>9, <3>1, <3>2 DEF FoundBoth
  <2>14. CASE e[j] < e[i] /\ k = e[j] /\ l = e[i]
    <3>1. image = [ring |-> InsertAfter(InsertAfter(s, e[i], P), e[j], Q), hinge |-> Ordered(Q, P, B)]
      BY <2>7, <2>11, <2>14
    <3>2. MirrorImages(found.ring, InsertAfter(InsertAfter(s, e[i], P), e[j], Q))
      BY <1>1, <2>1, <2>4, <2>5, <2>8, <2>14, TwoInsertsMatch
    <3> QED
      BY <1>3, <1>11, <2>6, <2>9, <3>1, <3>2 DEF FoundBoth
  <2> QED
    BY <2>12, <2>13, <2>14
<1>14. CASE ~ (FirstAt(r, a) # 0 \/ FirstAt(r, b) # 0) /\ Cardinality(across) # 2
            /\ Cardinality(along) = 2
  <2>1. PICK i \in along, j \in along : i = Pair(along)[1] /\ j = Pair(along)[2] /\ i < j
    BY <1>2, <1>6, <1>14, PairOf
  <2>2. PICK p \in Plane, q \in Plane : p = r[i] /\ q = r[j]
    BY <1>2, <1>6, PointOfRing
  <2>3. found = [ring |-> r, hinge |-> Ordered(p, q, a)]
    BY <1>5, <1>11, <1>14, <2>1, <2>2 DEF Grounded
  <2>4. found.hinge = Ordered(p, q, a) /\ found.ring = r
    BY <2>3
  <2>5. PICK P \in Plane, Q \in Plane : P = Mirrored(p) /\ Q = Mirrored(q)
    BY TurnedOverParts
  <2>6. Ordered(P, Q, B) = HingeFlipped(found.hinge) /\ Ordered(Q, P, B) = HingeFlipped(found.hinge)
    BY <1>3, <1>11, <2>4, <2>5, OrderedFlips
  <2>7. s[v[i]] = P /\ s[v[j]] = Q
    BY <1>2, <1>4, <1>6, <2>2, <2>5 DEF VerticesMatch
  <2>8. PICK k, l : k = Pair(through)[1] /\ l = Pair(through)[2]
    OBVIOUS
  <2>9. image = [ring |-> s, hinge |-> Ordered(s[k], s[l], B)]
    BY <1>5, <1>8, <1>9, <1>11, <1>14, <2>8 DEF Grounded
  <2>10. (k = v[i] /\ l = v[j]) \/ (k = v[j] /\ l = v[i])
    <3>1. /\ v[i] < v[j] => k = v[i] /\ l = v[j]
          /\ v[j] < v[i] => k = v[j] /\ l = v[i]
      BY <1>2, <1>6, <1>7, <1>14, <2>1, <2>8, PairOfImages
    <3>2. v[i] < v[j] \/ v[j] < v[i]
      <4>1. v[i] \in 1 .. n /\ v[j] \in 1 .. n /\ w[v[i]] = i /\ w[v[j]] = j
        BY <1>6, <1>7 DEF Paired
      <4>2. i # j
        BY <1>6, <2>1
      <4>3. v[i] # v[j]
        BY <4>1, <4>2
      <4> QED
        BY <4>1, <4>3
    <3> QED
      BY <3>1, <3>2
  <2>11. image.hinge = HingeFlipped(found.hinge) /\ image.ring = s
    BY <2>6, <2>7, <2>9, <2>10
  <2> QED
    BY <1>3, <1>11, <2>4, <2>11 DEF FoundBoth
<1>15. CASE ~ (FirstAt(r, a) # 0 \/ FirstAt(r, b) # 0) /\ Cardinality(across) # 2
            /\ Cardinality(along) # 2
  <2>1. found = [ring |-> r, hinge |-> <<a, b>>]
    BY <1>5, <1>11, <1>15 DEF Grounded
  <2>2. image = [ring |-> s, hinge |-> <<B, A>>]
    BY <1>5, <1>8, <1>9, <1>11, <1>15 DEF Grounded
  <2> QED
    BY <1>3, <1>10, <1>11, <2>1, <2>2 DEF FoundBoth
<1> QED
  BY <1>12, <1>13, <1>14, <1>15
-----------------------------------------------------------------------------
\* The hinges of a part turned over, and its panels.

\* The mirrored ring, point by point.
LEMMA MirroredRingIs ==
    ASSUME NEW ring \in Seq(Plane)
    PROVE  /\ MirroredRing(ring) \in Seq(Plane) /\ Len(MirroredRing(ring)) = Len(ring)
           /\ \A k \in 1 .. Len(ring) : MirroredRing(ring)[k] = Mirrored(ring[Len(ring) + 1 - k])
<1>1. PICK n \in Nat : n = Len(ring)
  OBVIOUS
<1>2. PICK f : f = [i \in 1 .. n |-> Mirrored(ring[i])]
  OBVIOUS
<1>3. \A i \in 1 .. n : Mirrored(ring[i]) \in Plane
  <2>1. \A i \in 1 .. n : ring[i] \in Plane
    BY <1>1
  <2> QED
    BY <2>1, TurnedOverParts
<1>4. f \in Seq(Plane) /\ Len(f) = n
  BY <1>1, <1>2, <1>3
<1>5. Made(f) = f
  BY <1>4, ConcatEmptySeq DEF Made
<1>6. PICK s : s = MirroredRing(ring)
  OBVIOUS
<1>7. s = [k \in 1 .. n |-> f[(n - k) + 1]]
  BY <1>1, <1>2, <1>4, <1>5, <1>6 DEF MirroredRing, Reverse
<1>8. ASSUME NEW k \in 1 .. n PROVE s[k] = Mirrored(ring[n + 1 - k]) /\ s[k] \in Plane
  <2>1. (n - k) + 1 \in 1 .. n /\ (n - k) + 1 = n + 1 - k
    BY <1>1
  <2> QED
    BY <1>2, <1>3, <1>7, <2>1
<1>9. s \in Seq(Plane) /\ Len(s) = n
  BY <1>1, <1>7, <1>8
<1> QED
  BY <1>1, <1>6, <1>8, <1>9

\* The outline of a part turned over runs round the other way.
LEMMA OutlineFlips ==
    ASSUME NEW ring \in Seq(Plane)
    PROVE  MirrorImages(ring, MirroredRing(ring))
<1>1. PICK n, s : n \in Nat /\ n = Len(ring) /\ s = MirroredRing(ring)
  OBVIOUS
<1>2. s \in Seq(Plane) /\ Len(s) = n /\ \A k \in 1 .. n : s[k] = Mirrored(ring[n + 1 - k])
  BY <1>1, MirroredRingIs
<1>3. \A i \in 1 .. n : After(i, n) = IF i = n THEN 1 ELSE i + 1
  BY <1>1, AfterIs
<1>4. PICK e : e = [i \in 1 .. n |-> IF i = n THEN n ELSE n - i]
  OBVIOUS
<1>5. ASSUME NEW i \in 1 .. n PROVE e[i] \in 1 .. n /\ e[e[i]] = i
  <2>1. CASE i = n
    <3>1. e[i] = n /\ n \in 1 .. n
      BY <1>4, <2>1
    <3> QED
      BY <1>4, <2>1, <3>1
  <2>2. CASE i # n
    <3>1. n - i \in 1 .. n /\ n - i # n /\ n - (n - i) = i
      BY <1>1, <2>2
    <3>2. e[i] = n - i
      BY <1>4, <2>2
    <3> QED
      BY <1>4, <3>1, <3>2
  <2> QED
    BY <2>1, <2>2
<1>6. ASSUME NEW i \in 1 .. n PROVE Edge(s, e[i]) = HingeFlipped(Edge(ring, i))
  <2>1. \A k \in 1 .. n : Edge(s, k) = <<s[k], s[IF k = n THEN 1 ELSE k + 1]>>
    BY <1>2, <1>3 DEF Edge
  <2>2. Edge(ring, i) = <<ring[i], ring[IF i = n THEN 1 ELSE i + 1]>>
    BY <1>1, <1>3 DEF Edge
  <2>3. CASE i = n
    <3>1. e[i] = n /\ n \in 1 .. n /\ 1 \in 1 .. n /\ n + 1 - n = 1 /\ n + 1 - 1 = n
      BY <1>1, <1>4, <2>3
    <3>2. s[n] = Mirrored(ring[1]) /\ s[1] = Mirrored(ring[n])
      BY <1>2, <3>1
    <3> QED
      BY <2>1, <2>2, <2>3, <3>1, <3>2 DEF HingeFlipped
  <2>4. CASE i # n
    <3>1. n - i \in 1 .. n /\ n - i # n
      BY <1>1, <2>4
    <3>2. PICK k \in 1 .. n : k = n - i /\ k # n
      BY <3>1
    <3>3. e[i] = k
      BY <1>4, <2>4, <3>2
    <3>4. k + 1 \in 1 .. n
      BY <1>1, <3>2
    <3>5. n + 1 - k = i + 1 /\ n + 1 - (k + 1) = i
      BY <1>1, <3>2
    <3>6. s[k] = Mirrored(ring[n + 1 - k]) /\ s[k + 1] = Mirrored(ring[n + 1 - (k + 1)])
      BY <1>2, <3>2, <3>4
    <3>7. s[k] = Mirrored(ring[i + 1]) /\ s[k + 1] = Mirrored(ring[i])
      BY <3>5, <3>6
    <3> QED
      BY <2>1, <2>2, <2>4, <3>2, <3>3, <3>7 DEF HingeFlipped
  <2> QED
    BY <2>3, <2>4
<1>7. Matching(ring, s, e, e)
  BY <1>1, <1>2, <1>5, <1>6 DEF Matching
<1> QED
  BY <1>1, <1>7 DEF MirrorImages

\* Bend after bend, the hinges that are found on a part turned over are the
\* hinges it had, each mirrored and the other way round, though the ring is
\* mirrored, runs the other way and is searched from another vertex
\* (FlipPart, ensureHingeVertices).
THEOREM HingesOfFlipped ==
    ASSUME NEW g, GraphOnTheGrid(g)
    PROVE  EnsureHingeVertices(FlipPart(g)).hinges = HingesFlipped(EnsureHingeVertices(g).hinges)
<1>1. /\ g \in Graphs(Int, Panels(g)) /\ OnAxes(g.outline) /\ RunsAsDrawn(g)
      /\ \A b \in Range(g.bends) : AlongAnAxis(<<b.a, b.b>>)
  BY DEF GraphOnTheGrid
<1>2. PICK n, T, other : /\ n \in Nat /\ n = Len(g.bends) /\ T = BendsOf(Int, Panels(g))
                         /\ other = FlipPart(g) /\ g.bends \in Seq(T) /\ g.outline \in Seq(Plane)
  BY <1>1 DEF Graphs
<1>3. \A i \in 1 .. n : /\ g.bends[i] \in T /\ g.bends[i].a \in Plane /\ g.bends[i].b \in Plane
                        /\ AlongAnAxis(<<g.bends[i].a, g.bends[i].b>>)
  <2>1. ASSUME NEW i \in 1 .. n
        PROVE  /\ g.bends[i] \in T /\ g.bends[i].a \in Plane /\ g.bends[i].b \in Plane
               /\ AlongAnAxis(<<g.bends[i].a, g.bends[i].b>>)
    <3>1. g.bends[i] \in Range(g.bends)
      BY <1>2 DEF Range
    <3> QED
      BY <1>1, <1>2, <3>1, BendsJoin
  <2> QED
    BY <2>1
<1>4. /\ other.bends \in Seq(T) /\ Len(other.bends) = n
      /\ \A i \in 1 .. n : other.bends[i] = Flipped(g.bends[i])
      /\ other.outline = MirroredRing(g.outline)
  <2>1. other.bends = FlippedAll(g.bends) /\ other.bends \in Seq(T) /\ other.outline = MirroredRing(g.outline)
    BY <1>1, <1>2, FlippedIs
  <2> QED
    BY <1>2, <2>1 DEF FlippedAll
<1>5. \A i \in 1 .. n : /\ other.bends[i].a = Mirrored(g.bends[i].b)
                        /\ other.bends[i].b = Mirrored(g.bends[i].a)
  BY <1>2, <1>3, <1>4, FlippedInBends
<1>6. BendsDrawn(g.bends) /\ BendsDrawn(other.bends)
  <2>1. \A i \in 1 .. n : Mirrored(g.bends[i].a) \in Plane /\ Mirrored(g.bends[i].b) \in Plane
    <3>1. \A p \in Plane : Mirrored(p) \in Plane
      BY TurnedOverParts
    <3> QED
      BY <1>3, <3>1
  <2>2. BendsDrawn(g.bends)
    BY <1>2, <1>3 DEF BendsDrawn
  <2>3. BendsDrawn(other.bends)
    BY <1>4, <1>5, <2>1 DEF BendsDrawn
  <2> QED
    BY <2>2, <2>3
<1>7. other.outline \in Seq(Plane)
  BY <1>2, <1>4, MirroredRingIs
<1>8. PICK u : IsGrounding(g, u)
  BY <1>2, GroundingOf
<1>9. PICK v : IsGrounding(other, v)
  BY <1>4, GroundingOf
<1>10. \A k \in 0 .. n : GroundedSoFar(g, u, k)
  BY <1>2, <1>6, <1>8, GroundingSoFar
<1>11. \A k \in 0 .. n : GroundedSoFar(other, v, k)
  BY <1>4, <1>6, <1>7, <1>9, GroundingSoFar
<1>12. PICK hinges : hinges = EnsureHingeVertices(g).hinges /\ hinges = u[n].hinges
  BY <1>2, <1>8 DEF IsGrounding
<1>13. EnsureHingeVertices(other).hinges = v[n].hinges
  BY <1>4, <1>9 DEF IsGrounding
<1>14. \A i \in 1 .. n : hinges[i] = Grounded(u[i - 1].ring, g.bends[i].a, g.bends[i].b).hinge
  <2>1. GroundedSoFar(g, u, n)
    BY <1>2, <1>10
  <2> QED
    BY <1>12, <2>1 DEF GroundedSoFar
<1>15. \A i \in 1 .. n : v[n].hinges[i] = Grounded(v[i - 1].ring, other.bends[i].a, other.bends[i].b).hinge
  <2>1. GroundedSoFar(other, v, n)
    BY <1>2, <1>11
  <2> QED
    BY <2>1 DEF GroundedSoFar
<1> DEFINE Alike(k) == MirrorImages(u[k].ring, v[k].ring) /\ OnAxes(u[k].ring)
           S == {k \in 0 .. n : Alike(k)}
<1>16. ASSUME NEW i \in 1 .. n, Alike(i - 1)
       PROVE  Alike(i) /\ v[n].hinges[i] = HingeFlipped(hinges[i])
  <2>1. PICK ring, image : ring = u[i - 1].ring /\ image = v[i - 1].ring
    OBVIOUS
  <2>2. PICK a \in Plane, b \in Plane : a = g.bends[i].a /\ b = g.bends[i].b /\ AlongAnAxis(<<a, b>>)
    BY <1>3
  <2>3. u[i].ring = Grounded(ring, a, b).ring /\ hinges[i] = Grounded(ring, a, b).hinge
    <3>1. u[i] = GroundStep(g, u[i - 1], i)
      BY <1>2, <1>8 DEF IsGrounding
    <3> QED
      BY <1>14, <2>1, <2>2, <3>1 DEF GroundStep
  <2>4. /\ v[i].ring = Grounded(image, Mirrored(b), Mirrored(a)).ring
        /\ v[n].hinges[i] = Grounded(image, Mirrored(b), Mirrored(a)).hinge
    <3>1. v[i] = GroundStep(other, v[i - 1], i)
      BY <1>4, <1>9 DEF IsGrounding
    <3> QED
      BY <1>5, <1>15, <2>1, <2>2, <3>1 DEF GroundStep
  <2>5. ~ NearerFirst(Grounded(ring, a, b).hinge[1], Grounded(ring, a, b).hinge[2], b)
    BY <1>1, <1>2, <1>12, <2>2, <2>3 DEF RunsAsDrawn
  <2>6. MirrorImages(ring, image) /\ OnAxes(ring)
    BY <1>16, <2>1
  <2>7. FoundBoth(ring, image, a, b)
    BY <2>2, <2>5, <2>6, GroundedFlips
  <2> QED
    BY <2>3, <2>4, <2>7 DEF FoundBoth
<1>17. Alike(0)
  <2>1. u[0].ring = g.outline /\ v[0].ring = MirroredRing(g.outline)
    BY <1>4, <1>8, <1>9 DEF IsGrounding
  <2> QED
    BY <1>1, <1>2, <2>1, OutlineFlips
<1>18. \A k \in 0 .. n : k \in S
  <2>1. 0 \in S
    BY <1>2, <1>17
  <2>2. ASSUME NEW k \in 0 .. n - 1, k \in S PROVE k + 1 \in S
    <3>1. PICK i \in 1 .. n : i = k + 1 /\ i - 1 = k
      BY <1>2
    <3>2. Alike(i - 1)
      BY <2>2, <3>1
    <3>3. Alike(i)
      BY <1>16, <3>2
    <3> QED
      BY <1>2, <3>1, <3>3
  <2> HIDE DEF S
  <2> QED
    BY <1>2, <2>1, <2>2, Upward
<1>19. \A i \in 1 .. n : v[n].hinges[i] = HingeFlipped(hinges[i])
  <2>1. TAKE i \in 1 .. n
  <2>2. i - 1 \in S
    BY <1>2, <1>18
  <2>3. Alike(i - 1)
    BY <2>2
  <2> QED
    BY <1>16, <2>3
<1>20. hinges \in Seq(Plane \X Plane) /\ Len(hinges) = n
  <2>1. n \in 0 .. n
    BY <1>2
  <2>2. GroundedSoFar(g, u, n)
    BY <1>10, <2>1
  <2> QED
    BY <1>12, <2>2 DEF GroundedSoFar
<1>21. v[n].hinges \in Seq(Plane \X Plane) /\ Len(v[n].hinges) = n
  <2>1. n \in 0 .. n
    BY <1>2
  <2>2. GroundedSoFar(other, v, n)
    BY <1>11, <2>1
  <2> QED
    BY <2>2 DEF GroundedSoFar
<1>22. v[n].hinges = [i \in 1 .. n |-> HingeFlipped(hinges[i])]
  <2>1. PICK found, H : found = v[n].hinges /\ H = Plane \X Plane
    OBVIOUS
  <2>2. found \in Seq(H) /\ Len(found) = n
    BY <1>21, <2>1
  <2>3. found = [i \in 1 .. n |-> found[i]]
    BY <2>2
  <2>4. \A i \in 1 .. n : found[i] = HingeFlipped(hinges[i])
    BY <1>19, <2>1
  <2> QED
    BY <2>1, <2>3, <2>4
<1>23. DOMAIN hinges = 1 .. n
  BY <1>20
<1> QED
  BY <1>2, <1>12, <1>13, <1>22, <1>23 DEF HingesFlipped

\* What a part that has been laid out looks like turned over.
LEMMA FlippedLeft ==
    ASSUME NEW part, IsPart(part), GraphOnTheGrid(part.graph), part.layout.ok
    PROVE  FlippedInPlace(part.graph, part.layout, FlipPart(part.graph), Evaluate(FlipPart(part.graph)))
<1>1. PICK g, layout : g = part.graph /\ layout = part.layout
  OBVIOUS
<1>2. TreeGraph(g, Panels(g)) /\ layout = Evaluate(g) /\ layout.ok
  BY <1>1, GraphOfPart DEF PanelsOf
<1>3. g \in Graphs(Int, Panels(g)) /\ HingesOnTheGrid(g)
  BY <1>1 DEF GraphOnTheGrid
<1>4. Panels(FlipPart(g)) = Panels(g)
  BY <1>2, FlippedTree, TreeGraphPanels
<1>5. EnsureHingeVertices(FlipPart(g)).hinges = HingesFlipped(EnsureHingeVertices(g).hinges)
  BY <1>1, HingesOfFlipped
<1>6. PICK to, after : to = FlipPart(g) /\ after = Evaluate(to)
  OBVIOUS
<1>7. ASSUME after.ok
      PROVE  /\ Hangs(to, after)
             /\ DOMAIN after.panels = DOMAIN layout.panels
             /\ \A q \in DOMAIN after.panels :
                  after.panels[q].pose = Compose(layout.panels[q].pose, TurnedOver(g.thickness))
  <2>1. PICK U : to.bends \in Seq(U)
    BY <1>3, <1>6, FlippedIs
  <2>2. Hangs(to, after)
    BY <1>6, <1>7, <2>1, EvaluatedPartsHang
  <2>3. /\ DOMAIN after.panels = DOMAIN layout.panels
        /\ \A q \in DOMAIN after.panels :
             after.panels[q].pose = Compose(layout.panels[q].pose, TurnedOver(g.thickness))
    BY <1>2, <1>3, <1>4, <1>5, <1>6, <1>7, FlipLeavesThePanels
  <2> QED
    BY <2>2, <2>3
<1>8. EnsureHingeVertices(to).hinges = HingesFlipped(EnsureHingeVertices(g).hinges)
  BY <1>5, <1>6
<1>9. FlippedInPlace(g, layout, to, after)
  BY <1>7, <1>8 DEF FlippedInPlace
<1> QED
  BY <1>1, <1>6, <1>9

\* Every part that has been laid out, turned over.
FlipKeeps ==
    \A id \in {n \in DOMAIN parts : parts[n].layout.ok} :
        FlippedInPlace(parts[id].graph, parts[id].layout, FlipPart(parts[id].graph),
                       Evaluate(FlipPart(parts[id].graph)))

\* As long as the parts keep to the grid, a part that has been laid out,
\* turned over, has every hinge it had, mirrored, and if it can be laid out
\* has all its panels, each turned over where it was (FlipPart).
THEOREM FlipKeepsThePlaces == Spec => [](PartsOnTheGrid => FlipKeeps)
<1>1. TreesOf(parts) => (PartsOnTheGrid => FlipKeeps)
  BY FlippedLeft DEF TreesOf, PartsOnTheGrid, FlipKeeps
<1>2. Spec => []TreesOf(parts)
  BY PartsAreAlwaysTrees
<1> QED
  BY <1>1, <1>2, PTL
=============================================================================
