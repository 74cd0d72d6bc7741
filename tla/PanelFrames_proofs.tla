------------------------- MODULE PanelFrames_proofs -------------------------
(***************************************************************************)
(* Rerooting a part and turning it over move no panel, the arc of a bend  *)
(* begins and ends at the walls, what a panel takes into space it gives   *)
(* back, and a plane shares out every panel it meets: for every position, *)
(* size, thickness and radius, and for every tree of bends and every ring *)
(* of points.                                                             *)
(*                                                                        *)
(* The first part is about motions that keep the grid. Everything follows *)
(* from three facts: they keep products and cross products of vectors     *)
(* (DotKept, CrossKept), a motion is known by where it takes the points   *)
(* (SameMotion), and turning about a moved axis is the turn about the     *)
(* axis before the motion (TurnMoved).                                    *)
(*                                                                        *)
(* The last part is about the area of a ring that a line is laid through. *)
(* What ClipPositive keeps is the ring with every point that is not       *)
(* within drawn back to the line (ClipArea), and what the two sides of    *)
(* the line have, drawn back, adds up to the ring (SidesShare).           *)
(***************************************************************************)
EXTENDS PointMapping, TLAPS, WellFoundedInduction, SequenceTheorems

Zero == <<0, 0, 0>>
-----------------------------------------------------------------------------
\* Vectors and points under a motion.

LEMMA UnitsInSpace == Units \subseteq Space /\ Zero \in Space
BY DEF Units, Space, Zero

LEMMA PoseParts ==
    ASSUME NEW T \in Poses
    PROVE  /\ T = [r |-> T.r, t |-> T.t] /\ T.r = <<T.r[1], T.r[2], T.r[3]>>
           /\ T.r[1] \in Units /\ T.r[2] \in Units /\ T.r[3] \in Units /\ T.t \in Space
BY DEF Poses, Rotations

LEMMA VectorSums ==
    ASSUME NEW u \in Space, NEW v \in Space
    PROVE  /\ Add3(u, v) \in Space /\ Sub3(u, v) \in Space /\ Cross3(u, v) \in Space
           /\ Dot3(u, v) \in Int /\ Dot3(u, v) = Dot3(v, u)
           /\ Add3(u, Sub3(v, u)) = v /\ Sub3(Add3(v, u), u) = v
BY DEF Space, Add3, Sub3, Cross3, Dot3

LEMMA SumAssociates ==
    \A u \in Space, v \in Space, w \in Space : Add3(u, Add3(v, w)) = Add3(Add3(u, v), w)
BY DEF Space, Add3

LEMMA SumCancels ==
    \A u \in Space, v \in Space, w \in Space : Sub3(Add3(u, w), Add3(v, w)) = Sub3(u, v)
BY DEF Space, Add3, Sub3

LEMMA InSpace ==
    ASSUME NEW T \in Poses, NEW v \in Space
    PROVE  ApplyVector(T, v) \in Space /\ Apply(T, v) \in Space
BY DEF Poses, Rotations, Units, Space, Dot3, Add3, ApplyVector, Apply

LEMMA UnitKept ==
    ASSUME NEW T \in Poses, NEW d \in Units
    PROVE  ApplyVector(T, d) \in Units
BY DEF Poses, Rotations, Units, Space, Dot3, Cross3, ApplyVector

LEMMA DotKept ==
    ASSUME NEW T \in Poses, NEW d \in Units, NEW v \in Space
    PROVE  Dot3(ApplyVector(T, d), ApplyVector(T, v)) = Dot3(d, v)
BY SMTT(60) DEF Poses, Rotations, Units, Space, Dot3, Cross3, ApplyVector

LEMMA CrossKept ==
    ASSUME NEW T \in Poses, NEW d \in Units, NEW v \in Space
    PROVE  Cross3(ApplyVector(T, d), ApplyVector(T, v)) = ApplyVector(T, Cross3(d, v))
BY SMTT(60) DEF Poses, Rotations, Units, Space, Dot3, Cross3, ApplyVector

LEMMA Linear ==
    ASSUME NEW T \in Poses, NEW v \in Space, NEW w \in Space
    PROVE  /\ ApplyVector(T, Add3(v, w)) = Add3(ApplyVector(T, v), ApplyVector(T, w))
           /\ ApplyVector(T, Sub3(v, w)) = Sub3(ApplyVector(T, v), ApplyVector(T, w))
<1>1. \A d \in Units : /\ Dot3(d, Add3(v, w)) = Dot3(d, v) + Dot3(d, w)
                       /\ Dot3(d, Sub3(v, w)) = Dot3(d, v) - Dot3(d, w)
  BY DEF Units, Space, Dot3, Sub3, Add3
<1> QED
  BY <1>1, PoseParts DEF ApplyVector, Add3, Sub3

\* The difference of two points is moved as a vector.
LEMMA DifferenceMoved ==
    ASSUME NEW T \in Poses, NEW p \in Space, NEW q \in Space
    PROVE  Sub3(Apply(T, p), Apply(T, q)) = ApplyVector(T, Sub3(p, q))
<1>1. ApplyVector(T, p) \in Space /\ ApplyVector(T, q) \in Space /\ T.t \in Space
  BY InSpace, PoseParts
<1>2. Sub3(Apply(T, p), Apply(T, q)) = Sub3(ApplyVector(T, p), ApplyVector(T, q))
  BY <1>1, SumCancels DEF Apply
<1> QED
  BY <1>2, Linear

\* A motion is known by where it takes the points.
LEMMA SameMotion ==
    ASSUME NEW S \in Poses, NEW T \in Poses, \A p \in Space : Apply(S, p) = Apply(T, p)
    PROVE  S = T
<1>1. S.t = T.t
  <2>1. \A U \in Poses : Apply(U, Zero) = U.t
    <3> TAKE U \in Poses
    <3>1. ApplyVector(U, Zero) = Zero
      BY PoseParts DEF Units, ApplyVector, Dot3, Zero
    <3> QED
      BY <3>1, PoseParts DEF Apply, Add3, Space, Zero
  <2> QED
    BY <2>1, UnitsInSpace
<1>2. /\ Apply(S, <<1, 0, 0>>) = Apply(T, <<1, 0, 0>>)
      /\ Apply(S, <<0, 1, 0>>) = Apply(T, <<0, 1, 0>>)
      /\ Apply(S, <<0, 0, 1>>) = Apply(T, <<0, 0, 1>>)
  BY DEF Space
<1>3. S.r = T.r
  BY <1>1, <1>2 DEF Poses, Rotations, Units, Space, Dot3, ApplyVector, Apply, Add3
<1> QED
  BY <1>1, <1>3 DEF Poses
-----------------------------------------------------------------------------
\* Inverse3 and Compose.

Back(T) == [r |-> <<Column(T, 1), Column(T, 2), Column(T, 3)>>, t |-> Zero]

LEMMA BackIsPose == \A T \in Poses : Back(T) \in Poses
BY SMTT(60) DEF Back, Poses, Rotations, Units, Space, Zero, Dot3, Cross3, Column

LEMMA BackUndoes ==
    ASSUME NEW T \in Poses, NEW v \in Space
    PROVE  /\ ApplyVector(Back(T), ApplyVector(T, v)) = v
           /\ ApplyVector(T, ApplyVector(Back(T), v)) = v
BY SMTT(60) DEF Back, Poses, Rotations, Units, Space, Dot3, Cross3, Column, ApplyVector

\* A row vector times a motion is the motion back on it.
LEMMA RowsMoved ==
    ASSUME NEW T \in Poses, NEW u \in Units
    PROVE  /\ <<Dot3(u, Column(T, 1)), Dot3(u, Column(T, 2)), Dot3(u, Column(T, 3))>>
                  = ApplyVector(Back(T), u)
           /\ \A v \in Space : Dot3(ApplyVector(Back(T), u), v) = Dot3(u, ApplyVector(T, v))
<1>1. Back(T) \in Poses /\ u \in Space
  BY BackIsPose, UnitsInSpace
<1>2. Column(T, 1) \in Space /\ Column(T, 2) \in Space /\ Column(T, 3) \in Space
  BY <1>1, PoseParts, UnitsInSpace DEF Back
<1>3. ASSUME NEW v \in Space
      PROVE  Dot3(ApplyVector(Back(T), u), v) = Dot3(u, ApplyVector(T, v))
  BY <1>1, BackUndoes, DotKept, InSpace
<1>4. ApplyVector(Back(T), u) = <<Dot3(Column(T, 1), u), Dot3(Column(T, 2), u), Dot3(Column(T, 3), u)>>
  BY DEF ApplyVector, Back
<1> QED
  BY <1>1, <1>2, <1>3, <1>4, VectorSums

LEMMA ComposeParts ==
    ASSUME NEW S \in Poses, NEW T \in Poses
    PROVE  Compose(S, T) = [r |-> <<ApplyVector(Back(T), S.r[1]), ApplyVector(Back(T), S.r[2]),
                                    ApplyVector(Back(T), S.r[3])>>,
                            t |-> Apply(S, T.t)]
BY PoseParts, RowsMoved DEF Compose

LEMMA ComposeIsPose == \A S, T \in Poses : Compose(S, T) \in Poses
<1> SUFFICES ASSUME NEW S \in Poses, NEW T \in Poses PROVE Compose(S, T) \in Poses
  OBVIOUS
<1>1. PICK u \in Units, v \in Units : S.r = <<u, v, Cross3(u, v)>> /\ Dot3(u, v) = 0
  BY DEF Poses, Rotations
<1>2. Back(T) \in Poses /\ u \in Space /\ v \in Space
  BY BackIsPose, UnitsInSpace
<1>3. Cross3(u, v) \in Units /\ Apply(S, T.t) \in Space
  BY <1>1, PoseParts, InSpace
<1>4. <<ApplyVector(Back(T), u), ApplyVector(Back(T), v), ApplyVector(Back(T), Cross3(u, v))>> \in Rotations
  BY <1>1, <1>2, <1>3, UnitKept, DotKept, CrossKept DEF Rotations
<1> QED
  BY <1>1, <1>3, <1>4, ComposeParts DEF Poses

LEMMA ApplyCompose ==
    ASSUME NEW S \in Poses, NEW T \in Poses, NEW p \in Space
    PROVE  Apply(Compose(S, T), p) = Apply(S, Apply(T, p))
<1>1. \A v \in Space : ApplyVector(Compose(S, T), v) = ApplyVector(S, ApplyVector(T, v))
  <2> TAKE v \in Space
  <2>1. \A u \in Units : Dot3(ApplyVector(Back(T), u), v) = Dot3(u, ApplyVector(T, v))
    BY RowsMoved
  <2> QED
    BY <2>1, ComposeParts, PoseParts DEF ApplyVector
<1>2. /\ ApplyVector(T, p) \in Space /\ T.t \in Space /\ S.t \in Space
      /\ ApplyVector(S, ApplyVector(T, p)) \in Space /\ ApplyVector(S, T.t) \in Space
  BY InSpace, PoseParts
<1>3. Apply(Compose(S, T), p) = Add3(ApplyVector(S, ApplyVector(T, p)), Add3(ApplyVector(S, T.t), S.t))
  BY <1>1, ComposeParts DEF Apply
<1>4. Apply(S, Apply(T, p)) = Add3(Add3(ApplyVector(S, ApplyVector(T, p)), ApplyVector(S, T.t)), S.t)
  BY <1>2, Linear DEF Apply
<1> QED
  BY <1>2, <1>3, <1>4, SumAssociates

LEMMA ComposeAssociates ==
    ASSUME NEW S \in Poses, NEW T \in Poses, NEW U \in Poses
    PROVE  Compose(Compose(S, T), U) = Compose(S, Compose(T, U))
<1>1. /\ Compose(S, T) \in Poses /\ Compose(T, U) \in Poses
      /\ Compose(Compose(S, T), U) \in Poses /\ Compose(S, Compose(T, U)) \in Poses
  BY ComposeIsPose
<1>2. \A p \in Space : Apply(Compose(Compose(S, T), U), p) = Apply(Compose(S, Compose(T, U)), p)
  BY <1>1, ApplyCompose, InSpace
<1> QED
  BY <1>1, <1>2, SameMotion

LEMMA InverseUndoes ==
    ASSUME NEW T \in Poses, NEW p \in Space
    PROVE  /\ Apply(Inverse3(T), p) \in Space
           /\ Apply(Inverse3(T), Apply(T, p)) = p /\ Apply(T, Apply(Inverse3(T), p)) = p
<1>1. Inverse3(T) = [Back(T) EXCEPT !.t = ApplyVector(Back(T), Sub3(Zero, T.t))]
  BY DEF Inverse3, Back, Zero
<1>2. Back(T) \in Poses /\ T.t \in Space /\ Sub3(Zero, T.t) \in Space
  BY BackIsPose, PoseParts, UnitsInSpace, VectorSums
<1>3. ASSUME NEW q \in Space PROVE Apply(Inverse3(T), q) = ApplyVector(Back(T), Sub3(q, T.t))
  <2>1. Apply(Inverse3(T), q) = Add3(ApplyVector(Back(T), q), ApplyVector(Back(T), Sub3(Zero, T.t)))
    BY <1>1 DEF Apply, ApplyVector, Back
  <2>2. Add3(q, Sub3(Zero, T.t)) = Sub3(q, T.t)
    BY <1>2 DEF Space, Add3, Sub3, Zero
  <2> QED
    BY <1>2, <2>1, <2>2, Linear
<1>4. Sub3(p, T.t) \in Space /\ Apply(T, p) \in Space /\ Sub3(Apply(T, p), T.t) = ApplyVector(T, p)
  BY <1>2, VectorSums, InSpace DEF Apply
<1>5. Apply(T, ApplyVector(Back(T), Sub3(p, T.t))) = p
  <2>1. ApplyVector(T, ApplyVector(Back(T), Sub3(p, T.t))) = Sub3(p, T.t)
    BY <1>4, BackUndoes
  <2>2. Add3(Sub3(p, T.t), T.t) = p
    BY <1>2 DEF Space, Add3, Sub3
  <2> QED
    BY <2>1, <2>2 DEF Apply
<1>6. Apply(Inverse3(T), p) \in Space
  BY <1>2, <1>3, <1>4, InSpace
<1> QED
  BY <1>3, <1>4, <1>5, <1>6, BackUndoes
-----------------------------------------------------------------------------
\* Turning about an axis.

Quarters == {<<1, 0>>, <<0, 1>>, <<-1, 0>>, <<0, -1>>}
LEMMA Quarter == \A n \in Int : <<Cos(n), Sin(n)>> \in Quarters
BY DEF Cos, Sin, Quarters

\* Rodrigues' formula, of the vector v.
TurnedBy(d, v, n) ==
    LET along == Dot3(d, v) * (1 - Cos(n))
        round == Cross3(d, v)
    IN  <<Cos(n) * v[1] + along * d[1] + Sin(n) * round[1],
          Cos(n) * v[2] + along * d[2] + Sin(n) * round[2],
          Cos(n) * v[3] + along * d[3] + Sin(n) * round[3]>>

TurnMatrix(d, c, s) ==
    <<<<c + d[1] * d[1] * (1 - c), d[1] * d[2] * (1 - c) - s * d[3],
        d[1] * d[3] * (1 - c) + s * d[2]>>,
      <<d[2] * d[1] * (1 - c) + s * d[3], c + d[2] * d[2] * (1 - c),
        d[2] * d[3] * (1 - c) - s * d[1]>>,
      <<d[3] * d[1] * (1 - c) - s * d[2], d[3] * d[2] * (1 - c) + s * d[1],
        c + d[3] * d[3] * (1 - c)>>>>

LEMMA TurnRows ==
    ASSUME NEW o \in Space, NEW d \in Units, NEW n \in Int
    PROVE  RotationAboutAxis(o, d, n).r = TurnMatrix(d, Cos(n), Sin(n))
<1>1. Cos(n) \in Int /\ Sin(n) \in Int /\ d[1] \in Int /\ d[2] \in Int /\ d[3] \in Int
  BY Quarter DEF Units, Quarters
<1> QED
  BY <1>1 DEF RotationAboutAxis, TurnMatrix

LEMMA TurnParts ==
    ASSUME NEW o \in Space, NEW d \in Units, NEW n \in Int
    PROVE  /\ RotationAboutAxis(o, d, n) \in Poses
           /\ \A v \in Space : ApplyVector(RotationAboutAxis(o, d, n), v) = TurnedBy(d, v, n)
           /\ RotationAboutAxis(o, d, n).t
                = Sub3(o, ApplyVector(RotationAboutAxis(o, d, n), o))
<1> DEFINE c == Cos(n)
           s == Sin(n)
           R == RotationAboutAxis(o, d, n)
           about == [r |-> R.r, t |-> Zero]
<1>1. <<c, s>> \in Quarters
  BY Quarter
<1>2. R.r = TurnMatrix(d, c, s)
  BY TurnRows
<1>3. R = [r |-> R.r, t |-> Sub3(o, ApplyVector(about, o))]
  BY DEF RotationAboutAxis, Zero
<1>4. \A v \in Space : ApplyVector(about, v) = ApplyVector(R, v)
  BY DEF ApplyVector
<1> HIDE DEF c, s, R, about
<1>5. R.r \in Rotations
  BY <1>1, <1>2 DEF Rotations, Units, Quarters, Dot3, Cross3, TurnMatrix
<1>6. about \in Poses
  BY <1>5, UnitsInSpace DEF Poses, about
<1>7. R \in Poses
  <2>1. Sub3(o, ApplyVector(about, o)) \in Space
    BY <1>6, InSpace, VectorSums
  <2> QED
    BY <1>3, <1>5, <2>1 DEF Poses
<1>8. ASSUME NEW v \in Space PROVE ApplyVector(R, v) = TurnedBy(d, v, n)
  <2>1. TurnedBy(d, v, n) = <<c * v[1] + Dot3(d, v) * (1 - c) * d[1] + s * Cross3(d, v)[1],
                              c * v[2] + Dot3(d, v) * (1 - c) * d[2] + s * Cross3(d, v)[2],
                              c * v[3] + Dot3(d, v) * (1 - c) * d[3] + s * Cross3(d, v)[3]>>
    BY DEF TurnedBy, c, s
  <2> QED
    BY <1>1, <1>2, <2>1 DEF ApplyVector, Dot3, Cross3, Units, Quarters, Space, TurnMatrix
<1> QED
  BY <1>3, <1>4, <1>7, <1>8 DEF R

LEMMA TurnAbout ==
    ASSUME NEW o \in Space, NEW d \in Units, NEW n \in Int, NEW p \in Space
    PROVE  Apply(RotationAboutAxis(o, d, n), p)
             = Add3(o, ApplyVector(RotationAboutAxis(o, d, n), Sub3(p, o)))
<1> DEFINE R == RotationAboutAxis(o, d, n)
<1>1. R \in Poses /\ R.t = Sub3(o, ApplyVector(R, o))
  BY TurnParts
<1> HIDE DEF R
<1>2. ApplyVector(R, p) \in Space /\ ApplyVector(R, o) \in Space
  BY <1>1, InSpace
<1>3. ApplyVector(R, Sub3(p, o)) = Sub3(ApplyVector(R, p), ApplyVector(R, o))
  BY <1>1, Linear
<1>4. \A u \in Space, v \in Space : Add3(u, Sub3(o, v)) = Add3(o, Sub3(u, v))
  BY DEF Space, Add3, Sub3
<1>5. Apply(R, p) = Add3(o, ApplyVector(R, Sub3(p, o)))
  BY <1>1, <1>2, <1>3, <1>4 DEF Apply
<1> QED
  BY <1>5 DEF R

LEMMA TurnAround ==
    ASSUME NEW o \in Space, NEW d \in Units, NEW n \in Int, NEW p \in Space
    PROVE  Apply(RotationAboutAxis(o, d, n), p) = Add3(o, TurnedBy(d, Sub3(p, o), n))
BY TurnAbout, TurnParts, VectorSums

LEMMA PointPlusVector ==
    ASSUME NEW T \in Poses, NEW p \in Space, NEW v \in Space
    PROVE  Apply(T, Add3(p, v)) = Add3(Apply(T, p), ApplyVector(T, v))
<1>1. ApplyVector(T, p) \in Space /\ ApplyVector(T, v) \in Space /\ T.t \in Space
  BY InSpace, PoseParts
<1>2. \A x \in Space, y \in Space, z \in Space : Add3(Add3(x, y), z) = Add3(Add3(x, z), y)
  BY DEF Space, Add3
<1> QED
  BY <1>1, <1>2, Linear DEF Apply

\* Turning about a moved axis moves as turning about the axis did before.
LEMMA TurnMoved ==
    ASSUME NEW T \in Poses, NEW o \in Space, NEW d \in Units, NEW n \in Int
    PROVE  Compose(RotationAboutAxis(Apply(T, o), ApplyVector(T, d), n), T)
             = Compose(T, RotationAboutAxis(o, d, n))
<1> DEFINE R == RotationAboutAxis(o, d, n)
           M == RotationAboutAxis(Apply(T, o), ApplyVector(T, d), n)
<1>1. R \in Poses /\ M \in Poses
  BY TurnParts, InSpace, UnitKept
<1>2. ASSUME NEW v \in Space
      PROVE  ApplyVector(M, ApplyVector(T, v)) = ApplyVector(T, ApplyVector(R, v))
  <2> DEFINE e == ApplyVector(T, d)
             w == ApplyVector(T, v)
             x == Cross3(d, v)
  <2>1. e \in Units /\ w \in Space /\ d \in Space /\ x \in Space /\ Apply(T, o) \in Space
    BY UnitsInSpace, UnitKept, InSpace, VectorSums
  <2>2. Dot3(e, w) = Dot3(d, v) /\ Cross3(e, w) = ApplyVector(T, x)
    BY DotKept, CrossKept
  <2>3. ApplyVector(M, w) = TurnedBy(e, w, n) /\ ApplyVector(R, v) = TurnedBy(d, v, n)
    BY <2>1, TurnParts
  <2>4. PICK a \in Int, b \in Int, c \in Int :
            a = Cos(n) /\ b = Dot3(d, v) * (1 - Cos(n)) /\ c = Sin(n)
    <3>1. Cos(n) \in Int /\ Sin(n) \in Int
      BY Quarter DEF Quarters
    <3>2. Dot3(d, v) \in Int
      BY <2>1, VectorSums
    <3> QED
      BY <3>1, <3>2
  <2> DEFINE sum(f, g, h) == <<a * f[1] + b * g[1] + c * h[1], a * f[2] + b * g[2] + c * h[2],
                               a * f[3] + b * g[3] + c * h[3]>>
  <2>5. TurnedBy(d, v, n) = sum(v, d, x) /\ TurnedBy(e, w, n) = sum(w, e, ApplyVector(T, x))
    BY <2>2, <2>4 DEF TurnedBy
  <2> HIDE DEF x
  <2>6. ASSUME NEW r \in Units
        PROVE  Dot3(r, sum(v, d, x)) = a * Dot3(r, v) + b * Dot3(r, d) + c * Dot3(r, x)
    BY <2>1 DEF Units, Space, Dot3
  <2>7. ApplyVector(T, sum(v, d, x)) = sum(w, e, ApplyVector(T, x))
    BY <2>6, PoseParts DEF ApplyVector
  <2> QED
    BY <2>3, <2>5, <2>7
<1>3. ASSUME NEW p \in Space PROVE Apply(Compose(M, T), p) = Apply(Compose(T, R), p)
  <2> DEFINE v == Sub3(p, o)
  <2>1. v \in Space /\ Apply(T, o) \in Space /\ Apply(T, p) \in Space /\ ApplyVector(T, d) \in Units
    BY VectorSums, InSpace, UnitKept
  <2>2. ApplyVector(R, v) \in Space
    BY <1>1, <2>1, InSpace
  <2>3. Apply(M, Apply(T, p)) = Add3(Apply(T, o), ApplyVector(M, Sub3(Apply(T, p), Apply(T, o))))
    BY <2>1, TurnAbout
  <2>4. ApplyVector(M, Sub3(Apply(T, p), Apply(T, o))) = ApplyVector(T, ApplyVector(R, v))
    BY <1>2, <2>1, DifferenceMoved
  <2>5. Apply(T, Apply(R, p)) = Add3(Apply(T, o), ApplyVector(T, ApplyVector(R, v)))
    BY <2>2, TurnAbout, PointPlusVector
  <2> QED
    BY <1>1, <2>3, <2>4, <2>5, ApplyCompose
<1>4. Compose(M, T) \in Poses /\ Compose(T, R) \in Poses
  BY <1>1, ComposeIsPose
<1> QED
  BY <1>3, <1>4, SameMotion
-----------------------------------------------------------------------------
\* One bend.

\* The way a hinge points, and the fold seen from the parent.
Way(h) == <<Sgn(h[2][1] - h[1][1]), Sgn(h[2][2] - h[1][2]), 0>>
LocalFold(b, thickness, h) ==
    RotationAboutAxis(At(h[1], SharpZ(b, thickness)), Way(h), b.turns)

LEMMA WayIsUnit == \A h \in Hinges : Way(h) \in Units
BY DEF Way, Hinges, Plane, Units, Sgn

LEMMA AtInSpace == \A p \in Plane, z \in Int : At(p, z) \in Space
BY DEF At, Plane, Space

LEMMA SharpZInt ==
    ASSUME NEW Id, NEW Panel, NEW b \in BendsOf(Id, Panel), NEW thickness \in Int
    PROVE  SharpZ(b, thickness) \in Int /\ b.turns \in Int
BY DEF SharpZ, BendsOf

LEMMA AxisMoved ==
    ASSUME NEW T \in Poses, NEW h \in Hinges, NEW z \in Int
    PROVE  Axis(T, h, z) = ApplyVector(T, Way(h))
<1> DEFINE v == Sub3(At(h[2], z), At(h[1], z))
<1>1. Axis(T, h, z) = Normalize3(ApplyVector(T, v))
  BY AtInSpace, DifferenceMoved DEF Axis, Hinges
<1>2. \A r \in Units : Sgn(Dot3(r, v)) = Dot3(r, Way(h))
  <2>1. PICK x \in Int, y \in Int : x = h[2][1] - h[1][1] /\ y = h[2][2] - h[1][2]
    BY DEF Hinges, Plane
  <2>2. v = <<x, y, 0>> /\ Way(h) = <<Sgn(x), Sgn(y), 0>> /\ (x = 0 \/ y = 0)
    BY <2>1 DEF Hinges, Plane, Way, Sub3, At
  <2> HIDE DEF v
  <2> QED
    BY <2>2 DEF Units, Sgn, Dot3
<1> HIDE DEF v
<1> QED
  BY <1>1, <1>2, PoseParts DEF ApplyVector, Normalize3

\* The child is the parent's frame turned in its own coordinates.
LEMMA FoldIsLocal ==
    ASSUME NEW Id, NEW Panel, NEW b \in BendsOf(Id, Panel), NEW thickness \in Int,
           NEW h \in Hinges, NEW T \in Poses
    PROVE  /\ LocalFold(b, thickness, h) \in Poses
           /\ Compose(WorldFold(b, thickness, h, T), T) = Compose(T, LocalFold(b, thickness, h))
<1>1. At(h[1], SharpZ(b, thickness)) \in Space /\ Way(h) \in Units /\ b.turns \in Int
  BY SharpZInt, AtInSpace, WayIsUnit DEF Hinges
<1>2. Axis(T, h, SharpZ(b, thickness)) = ApplyVector(T, Way(h))
  BY SharpZInt, AxisMoved
<1> QED
  BY <1>1, <1>2, TurnParts, TurnMoved DEF WorldFold, LocalFold

\* Turning back the other way round, and turning what lies along the axis.
LEMMA TurnBack ==
    ASSUME NEW d \in Units, NEW e \in Units, e = Sub3(Zero, d), NEW n \in Int, NEW v \in Space
    PROVE  TurnedBy(d, TurnedBy(e, v, n), n) = v
<1> DEFINE R == RotationAboutAxis(Zero, d, n)
           B == RotationAboutAxis(Zero, e, n)
<1>1. B.r = <<Column(R, 1), Column(R, 2), Column(R, 3)>>
  <2>1. B.r = TurnMatrix(e, Cos(n), Sin(n)) /\ R.r = TurnMatrix(d, Cos(n), Sin(n))
    BY TurnRows, UnitsInSpace
  <2>2. /\ d[1] \in Int /\ d[2] \in Int /\ d[3] \in Int /\ Cos(n) \in Int /\ Sin(n) \in Int
        /\ e[1] = -d[1] /\ e[2] = -d[2] /\ e[3] = -d[3]
    BY Quarter DEF Units, Quarters, Sub3, Zero
  <2> HIDE DEF R, B
  <2> QED
    BY <2>1, <2>2 DEF TurnMatrix, Column
<1>2. R \in Poses /\ ApplyVector(B, v) = TurnedBy(e, v, n) /\ B \in Poses
  BY TurnParts, UnitsInSpace
<1>3. ApplyVector(B, v) = ApplyVector(Back(R), v)
  BY <1>1 DEF ApplyVector, Back
<1>4. ApplyVector(R, ApplyVector(B, v)) = v
  BY <1>2, <1>3, BackUndoes
<1>5. ApplyVector(R, ApplyVector(B, v)) = TurnedBy(d, ApplyVector(B, v), n)
  BY <1>2, InSpace, TurnParts, UnitsInSpace
<1> QED
  BY <1>2, <1>4, <1>5

Stretched(k, d) == <<k * d[1], k * d[2], k * d[3]>>
LEMMA TurnAlong ==
    ASSUME NEW d \in Units, NEW n \in Int, NEW k \in Int
    PROVE  Stretched(k, d) \in Space /\ TurnedBy(d, Stretched(k, d), n) = Stretched(k, d)
<1>1. PICK c \in {-1, 0, 1}, s \in {-1, 0, 1} : c = Cos(n) /\ s = Sin(n)
  BY Quarter DEF Quarters
<1> QED
  BY <1>1 DEF TurnedBy, Units, Space, Dot3, Cross3, Stretched

\* Folding back about the same line the other way round undoes the fold.
LEMMA FoldUndone ==
    ASSUME NEW o \in Space, NEW d \in Units, NEW n \in Int, NEW k \in Int, NEW p \in Space,
           NEW q \in Space, q = Add3(o, Stretched(k, d)), NEW e \in Units, e = Sub3(Zero, d)
    PROVE  Apply(RotationAboutAxis(o, d, n), Apply(RotationAboutAxis(q, e, n), p)) = p
<1> DEFINE R == RotationAboutAxis(o, d, n)
           B == RotationAboutAxis(q, e, n)
           v == Sub3(p, q)
           w == ApplyVector(B, v)
           m == Stretched(k, d)
<1>1. R \in Poses /\ B \in Poses /\ v \in Space /\ w \in Space /\ m \in Space
  BY TurnParts, VectorSums, InSpace, TurnAlong
<1>2. ApplyVector(R, w) = v /\ ApplyVector(R, m) = m
  BY <1>1, TurnParts, TurnBack, TurnAlong
<1>3. Apply(B, p) = Add3(q, w) /\ Add3(q, w) \in Space
  <2>1. Apply(B, p) = Add3(q, w)
    BY TurnAbout
  <2> QED
    BY <1>1, <2>1, VectorSums
<1>4. Apply(R, Add3(q, w)) = Add3(o, ApplyVector(R, Sub3(Add3(q, w), o)))
  BY <1>3, TurnAbout
<1> HIDE DEF R, B, w, m
<1>5. Sub3(Add3(q, w), o) = Add3(m, w)
  BY <1>1 DEF Space, Add3, Sub3, m
<1>6. ApplyVector(R, Add3(m, w)) = Add3(m, v)
  BY <1>1, <1>2, Linear
<1>7. Add3(o, Add3(m, v)) = p
  BY <1>1 DEF Space, Add3, Sub3, m
<1> QED
  BY <1>3, <1>4, <1>5, <1>6, <1>7 DEF R, B

\* Turning the other way about the axis read the other way.
LEMMA SameTurn ==
    ASSUME NEW o \in Space, NEW d \in Units, NEW n \in Int, NEW k \in Int, NEW m \in Int, m = -n,
           NEW q \in Space, q = Add3(o, Stretched(k, d)), NEW e \in Units, e = Sub3(Zero, d)
    PROVE  RotationAboutAxis(q, e, m) = RotationAboutAxis(o, d, n)
<1> DEFINE R == RotationAboutAxis(o, d, n)
           Q == RotationAboutAxis(q, e, m)
           x == Stretched(k, d)
<1>1. R \in Poses /\ Q \in Poses /\ x \in Space /\ ApplyVector(R, x) = x
  <2>1. x \in Space /\ TurnedBy(d, x, n) = x
    BY TurnAlong
  <2>2. R \in Poses /\ Q \in Poses
    BY TurnParts
  <2>3. ApplyVector(R, x) = TurnedBy(d, x, n)
    BY <2>1, TurnParts
  <2> QED
    BY <2>1, <2>2, <2>3
<1>2. Q.r = R.r
  <2>1. Q.r = TurnMatrix(e, Cos(m), Sin(m)) /\ R.r = TurnMatrix(d, Cos(n), Sin(n))
    BY TurnRows
  <2>2. Cos(m) = Cos(n) /\ Sin(m) = -Sin(n)
    BY DEF Cos, Sin
  <2>3. /\ d[1] \in Int /\ d[2] \in Int /\ d[3] \in Int /\ Cos(n) \in Int /\ Sin(n) \in Int
        /\ e[1] = -d[1] /\ e[2] = -d[2] /\ e[3] = -d[3]
    BY Quarter DEF Units, Quarters, Sub3, Zero
  <2> HIDE DEF R, Q
  <2> QED
    BY <2>1, <2>2, <2>3 DEF TurnMatrix
<1>3. ASSUME NEW p \in Space PROVE Apply(Q, p) = Apply(R, p)
  <2>1. Apply(Q, p) = Add3(q, ApplyVector(Q, Sub3(p, q)))
    BY TurnAbout
  <2>2. Apply(R, p) = Add3(o, ApplyVector(R, Sub3(p, o)))
    BY TurnAbout
  <2>3. ApplyVector(Q, Sub3(p, q)) = ApplyVector(R, Sub3(p, q))
    BY <1>2 DEF ApplyVector
  <2> HIDE DEF R, Q, x
  <2>4. Sub3(p, q) = Sub3(Sub3(p, o), x) /\ Sub3(p, o) \in Space
    BY <1>1 DEF Space, Add3, Sub3, x
  <2>5. ApplyVector(R, Sub3(p, q)) = Sub3(ApplyVector(R, Sub3(p, o)), x)
    BY <1>1, <2>4, Linear
  <2>6. ApplyVector(R, Sub3(p, o)) \in Space
    BY <1>1, <2>4, InSpace
  <2>7. \A v \in Space : Add3(q, Sub3(v, x)) = Add3(o, v)
    BY <1>1 DEF Space, Add3, Sub3, x
  <2> QED
    BY <2>1, <2>2, <2>3, <2>5, <2>6, <2>7
<1> QED
  BY <1>1, <1>3, SameMotion

\* The hinge read the other way: its other end is on the same line.
LEMMA HingeTurned ==
    ASSUME NEW h \in Hinges, NEW z \in Int
    PROVE  /\ Backwards(h) \in Hinges /\ Way(Backwards(h)) = Sub3(Zero, Way(h))
           /\ \E k \in Int : At(h[2], z) = Add3(At(h[1], z), Stretched(k, Way(h)))
<1>1. PICK x \in Int, y \in Int, i \in Int, j \in Int :
          h = <<<<x, y>>, <<i, j>>>> /\ (x = i \/ y = j) /\ h[1] # h[2]
  BY DEF Hinges, Plane
<1>2. Backwards(h) \in Hinges
  BY DEF Backwards, Hinges, Plane
<1>3. Way(Backwards(h)) = Sub3(Zero, Way(h))
  BY <1>1 DEF Backwards, Way, Sgn, Sub3, Zero
<1>4. PICK k \in Int : k = Sgn(i - x) * (i - x) + Sgn(j - y) * (j - y)
  BY <1>1 DEF Sgn
<1>5. At(h[2], z) = Add3(At(h[1], z), Stretched(k, Way(h)))
  BY <1>1, <1>4 DEF At, Add3, Stretched, Way, Sgn
<1> QED
  BY <1>2, <1>3, <1>5

\* Swapping a bend: the child's frame folds back to the parent's.
LEMMA SwapFoldsBack ==
    ASSUME NEW Id, NEW Panel, NEW b \in BendsOf(Id, Panel), NEW thickness \in Int,
           NEW h \in Hinges, NEW T \in Poses, NEW C, C = Compose(WorldFold(b, thickness, h, T), T)
    PROVE  Compose(WorldFold(Swapped(b), thickness, Backwards(h), C), C) = T
<1> DEFINE z == SharpZ(b, thickness)
           L == LocalFold(b, thickness, h)
           M == LocalFold(Swapped(b), thickness, Backwards(h))
<1>1. Swapped(b) \in BendsOf(Id, Panel) /\ Swapped(b).turns = b.turns
      /\ SharpZ(Swapped(b), thickness) = z
  BY DEF Swapped, BendsOf, SharpZ, BottomIsConcave
<1>2. L \in Poses /\ M \in Poses /\ C = Compose(T, L) /\ C \in Poses
  BY <1>1, FoldIsLocal, HingeTurned, ComposeIsPose
<1>3. Compose(WorldFold(Swapped(b), thickness, Backwards(h), C), C) = Compose(C, M)
  BY <1>1, <1>2, FoldIsLocal, HingeTurned
<1>4. ASSUME NEW p \in Space PROVE Apply(L, Apply(M, p)) = p
  <2>1. z \in Int /\ b.turns \in Int /\ Way(h) \in Units /\ Way(Backwards(h)) \in Units
        /\ At(h[1], z) \in Space /\ At(h[2], z) \in Space
    BY SharpZInt, WayIsUnit, HingeTurned, AtInSpace DEF Hinges
  <2>2. M = RotationAboutAxis(At(h[2], z), Way(Backwards(h)), b.turns)
    BY <1>1 DEF LocalFold, Backwards
  <2>3. PICK k \in Int : At(h[2], z) = Add3(At(h[1], z), Stretched(k, Way(h)))
    BY <2>1, HingeTurned
  <2>4. Way(Backwards(h)) = Sub3(Zero, Way(h))
    BY <2>1, HingeTurned
  <2> QED
    BY <2>1, <2>2, <2>3, <2>4, FoldUndone DEF LocalFold
<1>5. ASSUME NEW p \in Space PROVE Apply(Compose(C, M), p) = Apply(T, p)
  BY <1>2, <1>4, ApplyCompose, InSpace
<1> QED
  BY <1>2, <1>3, <1>5, ComposeIsPose, SameMotion

\* Turning the sheet over: the flipped bend, from the parent turned over, is
\* the fold of the bend, turned over.

LEMMA TurnedOverParts ==
    ASSUME NEW thickness \in Int
    PROVE  /\ TurnedOver(thickness) \in Poses
           /\ \A p \in Plane : Mirrored(p) \in Plane
           /\ \A p \in Plane, z \in Int :
                 Apply(TurnedOver(thickness), At(Mirrored(p), thickness - z)) = At(p, z)
           /\ \A v \in Space : ApplyVector(TurnedOver(thickness), v) = <<-v[1], v[2], -v[3]>>
<1>1. TurnedOver(thickness) \in Poses
  BY DEF TurnedOver, Poses, Rotations, Units, Space, Dot3, Cross3
<1>2. \A v \in Space : ApplyVector(TurnedOver(thickness), v) = <<-v[1], v[2], -v[3]>>
  BY DEF TurnedOver, ApplyVector, Dot3, Space
<1>3. \A p \in Plane, z \in Int :
         Apply(TurnedOver(thickness), At(Mirrored(p), thickness - z)) = At(p, z)
  <2> TAKE p \in Plane, z \in Int
  <2>1. PICK x \in Int, y \in Int : p = <<x, y>>
    BY DEF Plane
  <2>2. At(Mirrored(p), thickness - z) = <<-x, y, thickness - z>>
    BY <2>1 DEF At, Mirrored
  <2>3. ApplyVector(TurnedOver(thickness), <<-x, y, thickness - z>>) = <<x, y, -(thickness - z)>>
    BY <1>2 DEF Space
  <2>4. Apply(TurnedOver(thickness), <<-x, y, thickness - z>>) = <<x, y, z>>
    BY <2>3 DEF TurnedOver, Apply, Add3
  <2> QED
    BY <2>1, <2>2, <2>4 DEF At
<1> QED
  BY <1>1, <1>2, <1>3 DEF Mirrored, Plane

LEMMA FlipFolds ==
    ASSUME NEW Id, NEW Panel, NEW b \in BendsOf(Id, Panel), NEW thickness \in Int,
           NEW h \in Hinges, NEW T \in Poses,
           NEW F, F = Compose(T, TurnedOver(thickness))
    PROVE  Compose(WorldFold(Flipped(b), thickness, HingeFlipped(h), F), F)
             = Compose(Compose(WorldFold(b, thickness, h, T), T), TurnedOver(thickness))
<1> DEFINE M == TurnedOver(thickness)
           z == SharpZ(b, thickness)
           L == LocalFold(b, thickness, h)
           N == LocalFold(Flipped(b), thickness, HingeFlipped(h))
<1>1. /\ Flipped(b) \in BendsOf(Id, Panel) /\ Flipped(b).turns = -b.turns
      /\ SharpZ(Flipped(b), thickness) = thickness - z
  <2>1. Mirrored(b.a) \in Plane /\ Mirrored(b.b) \in Plane
    BY DEF BendsOf, Plane, Mirrored
  <2>2. /\ Flipped(b).turns = -b.turns /\ Flipped(b).turns \in {1, -1}
        /\ Flipped(b).concave = OutsideIn(b) /\ OutsideIn(b) \in {"yes", "no"}
    BY DEF Flipped, BendsOf, OutsideIn
  <2>3. Flipped(b) \in BendsOf(Id, Panel)
    BY <2>1, <2>2 DEF BendsOf, Flipped
  <2>4. BottomIsConcave(Flipped(b)) <=> ~ BottomIsConcave(b)
    BY <2>2 DEF BottomIsConcave, OutsideIn
  <2> QED
    BY <2>2, <2>3, <2>4 DEF SharpZ
<1>2. HingeFlipped(h) \in Hinges /\ Way(HingeFlipped(h)) \in Units
      /\ ApplyVector(M, Way(HingeFlipped(h))) = Sub3(Zero, Way(h))
  <2>1. PICK x \in Int, y \in Int, i \in Int, j \in Int :
            h = <<<<x, y>>, <<i, j>>>> /\ (x = i \/ y = j) /\ ~ (x = i /\ y = j)
    BY DEF Hinges, Plane
  <2>2. HingeFlipped(h) = <<<<-i, j>>, <<-x, y>>>>
    BY <2>1 DEF HingeFlipped, Mirrored
  <2>3. HingeFlipped(h) \in Hinges
    BY <2>1, <2>2 DEF Hinges, Plane
  <2>4. Way(HingeFlipped(h)) = <<Sgn(i - x), Sgn(y - j), 0>> /\ Way(h) = <<Sgn(i - x), Sgn(j - y), 0>>
    BY <2>1, <2>2 DEF Way, Sgn
  <2>5. Way(HingeFlipped(h)) \in Units
    BY <2>3, WayIsUnit
  <2> QED
    BY <2>1, <2>3, <2>4, <2>5, TurnedOverParts, UnitsInSpace DEF Sub3, Zero, Sgn
<1>3. M \in Poses /\ F \in Poses /\ L \in Poses /\ N \in Poses
  BY <1>1, <1>2, TurnedOverParts, ComposeIsPose, FoldIsLocal
<1>4. Compose(M, N) = Compose(L, M)
  <2>1. z \in Int /\ b.turns \in Int /\ Way(h) \in Units /\ h[1] \in Plane /\ h[2] \in Plane
    BY SharpZInt, WayIsUnit DEF Hinges
  <2>2. At(h[1], z) \in Space /\ At(h[2], z) \in Space
    BY <2>1, AtInSpace
  <2>3. N = RotationAboutAxis(At(Mirrored(h[2]), thickness - z), Way(HingeFlipped(h)), -b.turns)
    BY <1>1 DEF LocalFold, HingeFlipped
  <2>4. /\ Apply(M, At(Mirrored(h[2]), thickness - z)) = At(h[2], z)
        /\ At(Mirrored(h[2]), thickness - z) \in Space /\ -b.turns \in Int
    <3> HIDE DEF z
    <3>1. thickness - z \in Int /\ -b.turns \in Int
      BY <2>1
    <3>2. Mirrored(h[2]) \in Plane
      BY <2>1, TurnedOverParts
    <3>3. At(Mirrored(h[2]), thickness - z) \in Space
      BY <3>1, <3>2, AtInSpace
    <3> QED
      BY <2>1, <3>1, <3>3, TurnedOverParts
  <2>5. Compose(RotationAboutAxis(At(h[2], z), Sub3(Zero, Way(h)), -b.turns), M) = Compose(M, N)
    BY <1>2, <1>3, <2>3, <2>4, TurnMoved
  <2>6. Sub3(Zero, Way(h)) \in Units
    BY HingeTurned, WayIsUnit, <2>1
  <2>7. PICK k \in Int : At(h[2], z) = Add3(At(h[1], z), Stretched(k, Way(h)))
    BY <2>1, HingeTurned
  <2>8. RotationAboutAxis(At(h[2], z), Sub3(Zero, Way(h)), -b.turns) = L
    BY <2>1, <2>2, <2>4, <2>6, <2>7, SameTurn DEF LocalFold
  <2> QED
    BY <2>5, <2>8
<1>5. Compose(WorldFold(Flipped(b), thickness, HingeFlipped(h), F), F) = Compose(F, N)
  BY <1>1, <1>2, <1>3, FoldIsLocal
<1>6. Compose(F, N) = Compose(Compose(T, L), M)
  BY <1>3, <1>4, ComposeAssociates
<1> QED
  BY <1>5, <1>6, FoldIsLocal
-----------------------------------------------------------------------------
\* The parts.

LEMMA BendParts ==
    ASSUME NEW Id, NEW Panel, NEW bends \in Seq(BendsOf(Id, Panel)),
           NEW hinges \in [1 .. Len(bends) -> Hinges], NEW i \in 1 .. Len(bends)
    PROVE  /\ bends[i] \in BendsOf(Id, Panel) /\ hinges[i] \in Hinges
           /\ bends[i].parent \in Panel /\ bends[i].child \in Panel
<1>1. bends[i] \in BendsOf(Id, Panel)
  OBVIOUS
<1> QED
  BY <1>1 DEF BendsOf

\* A fold takes rigid motions to rigid motions, so the walk has no others.
LEMMA PosesAreRigid ==
    ASSUME NEW Id, NEW Panel, NEW bends \in Seq(BendsOf(Id, Panel)), NEW thickness \in Int,
           NEW hinges \in [1 .. Len(bends) -> Hinges],
           NEW root \in Panel, Reached(bends, Panel, root),
           NEW pose, pose[root] \in Poses, PosedBy(bends, thickness, hinges, pose)
    PROVE  \A p \in Panel : pose[p] \in Poses
<1> DEFINE S == {p \in Panel : pose[p] \in Poses}
<1>1. ASSUME NEW i \in 1 .. Len(bends), bends[i].parent \in S PROVE bends[i].child \in S
  <2>1. bends[i] \in BendsOf(Id, Panel) /\ hinges[i] \in Hinges /\ bends[i].child \in Panel
    BY BendParts
  <2>2. pose[bends[i].child]
          = Compose(pose[bends[i].parent], LocalFold(bends[i], thickness, hinges[i]))
    BY <1>1, <2>1, FoldIsLocal DEF PosedBy
  <2>3. LocalFold(bends[i], thickness, hinges[i]) \in Poses
    BY <1>1, <2>1, FoldIsLocal
  <2> QED
    BY <1>1, <2>1, <2>2, <2>3, ComposeIsPose
<1>2. S = Panel
  BY <1>1 DEF Reached
<1> QED
  BY <1>2

\* Two walks over one tree that start at the same pose end at the same poses.
LEMMA PosesAreUnique ==
    ASSUME NEW bends, NEW Panel, \A i \in 1 .. Len(bends) : bends[i].child \in Panel,
           NEW thickness, NEW hinges, NEW root, Reached(bends, Panel, root), root \in Panel,
           NEW pose, PosedBy(bends, thickness, hinges, pose),
           NEW other, PosedBy(bends, thickness, hinges, other), other[root] = pose[root]
    PROVE  \A p \in Panel : other[p] = pose[p]
<1> DEFINE S == {p \in Panel : other[p] = pose[p]}
<1>1. \A i \in 1 .. Len(bends) : bends[i].parent \in S => bends[i].child \in S
  BY DEF PosedBy
<1>2. S = Panel
  BY <1>1 DEF Reached
<1> QED
  BY <1>2

\* Rerooting moves nothing: whichever bends of a part are swapped, if its
\* panels are all reached from some other root, then the walk from there,
\* begun where that panel was, puts every panel where it was (RerootAt, and
\* the pose walk of Evaluate; "the bend angle is unchanged", evaluator.hpp).
THEOREM RerootMovesNothing ==
    ASSUME NEW Id, NEW Panel, NEW bends \in Seq(BendsOf(Id, Panel)), NEW thickness \in Int,
           NEW hinges \in [1 .. Len(bends) -> Hinges],
           NEW root \in Panel, Reached(bends, Panel, root),
           NEW pose, pose[root] \in Poses, PosedBy(bends, thickness, hinges, pose),
           NEW path, NEW newRoot \in Panel, Reached(SwappedOn(bends, path), Panel, newRoot),
           NEW other, other[newRoot] = pose[newRoot],
           PosedBy(SwappedOn(bends, path), thickness, BackwardsOn(hinges, path), other)
    PROVE  \A p \in Panel : other[p] = pose[p]
<1> DEFINE swapped == SwappedOn(bends, path)
           turned == BackwardsOn(hinges, path)
<1>1. Len(swapped) = Len(bends) /\ Len(bends) \in Nat
  BY DEF SwappedOn
<1>2. ASSUME NEW i \in 1 .. Len(bends)
      PROVE  /\ swapped[i].child \in Panel
             /\ pose[swapped[i].child]
                  = Compose(WorldFold(swapped[i], thickness, turned[i], pose[swapped[i].parent]),
                            pose[swapped[i].parent])
  <2> DEFINE b == bends[i]
             h == hinges[i]
  <2>1. b \in BendsOf(Id, Panel) /\ h \in Hinges /\ b.parent \in Panel /\ b.child \in Panel
    BY BendParts
  <2>2. pose[b.child] = Compose(WorldFold(b, thickness, h, pose[b.parent]), pose[b.parent])
    BY DEF PosedBy
  <2>3. pose[b.parent] \in Poses
    BY <2>1, PosesAreRigid
  <2>4. CASE i \in path
    <3>1. swapped[i] = Swapped(b) /\ turned[i] = Backwards(h)
      BY <2>4 DEF SwappedOn, BackwardsOn
    <3>2. Swapped(b).parent = b.child /\ Swapped(b).child = b.parent
      BY <2>1 DEF Swapped, BendsOf
    <3>3. Compose(WorldFold(Swapped(b), thickness, Backwards(h), pose[b.child]), pose[b.child])
            = pose[b.parent]
      BY <2>1, <2>2, <2>3, SwapFoldsBack
    <3> QED
      BY <2>1, <3>1, <3>2, <3>3
  <2>5. CASE i \notin path
    <3>1. swapped[i] = b /\ turned[i] = h
      BY <2>5 DEF SwappedOn, BackwardsOn
    <3> QED
      BY <2>1, <2>2, <3>1
  <2> QED
    BY <2>4, <2>5
<1>3. PosedBy(swapped, thickness, turned, pose)
  BY <1>1, <1>2 DEF PosedBy
<1>4. \A i \in 1 .. Len(swapped) : swapped[i].child \in Panel
  BY <1>1, <1>2
<1> HIDE DEF swapped, turned
<1>5. Reached(swapped, Panel, newRoot) /\ PosedBy(swapped, thickness, turned, other)
  BY DEF swapped, turned
<1> QED
  BY <1>3, <1>4, <1>5, PosesAreUnique

\* Every panel turned over with the root.
LEMMA FlippedPoses ==
    ASSUME NEW Id, NEW Panel, NEW bends \in Seq(BendsOf(Id, Panel)), NEW thickness \in Int,
           NEW hinges \in [1 .. Len(bends) -> Hinges],
           NEW root \in Panel, Reached(bends, Panel, root),
           NEW pose, pose[root] \in Poses, PosedBy(bends, thickness, hinges, pose),
           NEW other, other[root] = Compose(pose[root], TurnedOver(thickness)),
           PosedBy(FlippedAll(bends), thickness, HingesFlipped(hinges), other)
    PROVE  \A p \in Panel : other[p] = Compose(pose[p], TurnedOver(thickness))
<1> DEFINE flipped == FlippedAll(bends)
           over == HingesFlipped(hinges)
           M == TurnedOver(thickness)
           S == {p \in Panel : other[p] = Compose(pose[p], M)}
<1>1. Len(flipped) = Len(bends) /\ Len(bends) \in Nat /\ PosedBy(flipped, thickness, over, other)
  BY DEF FlippedAll
<1>2. \A p \in Panel : pose[p] \in Poses
  BY PosesAreRigid
<1>3. ASSUME NEW i \in 1 .. Len(bends), bends[i].parent \in S PROVE bends[i].child \in S
  <2> DEFINE b == bends[i]
             h == hinges[i]
  <2>1. b \in BendsOf(Id, Panel) /\ h \in Hinges /\ b.parent \in Panel /\ b.child \in Panel
    BY BendParts
  <2>2. pose[b.child] = Compose(WorldFold(b, thickness, h, pose[b.parent]), pose[b.parent])
    BY DEF PosedBy
  <2>3. flipped[i] = Flipped(b) /\ over[i] = HingeFlipped(h)
    BY DEF FlippedAll, HingesFlipped
  <2>4. Flipped(b).parent = b.parent /\ Flipped(b).child = b.child
    BY <2>1 DEF Flipped, BendsOf
  <2> HIDE DEF flipped, over
  <2>5. other[b.child] = Compose(WorldFold(Flipped(b), thickness, HingeFlipped(h), other[b.parent]),
                                 other[b.parent])
    BY <1>1, <2>3, <2>4 DEF PosedBy
  <2>6. other[b.parent] = Compose(pose[b.parent], M) /\ pose[b.parent] \in Poses
    BY <1>2, <1>3, <2>1
  <2>7. other[b.child] = Compose(pose[b.child], M)
    BY <2>1, <2>2, <2>5, <2>6, FlipFolds
  <2> QED
    BY <2>1, <2>7
<1>4. S = Panel
  <2>1. root \in S
    OBVIOUS
  <2> QED
    BY <1>3, <2>1 DEF Reached
<1> QED
  BY <1>4

\* Turning a part over moves nothing: with every bend flipped and the root
\* turned over where it is, every point of every panel is where it was, what
\* was its upper face being the lower one (FlipPart).
THEOREM FlipMovesNothing ==
    ASSUME NEW Id, NEW Panel, NEW bends \in Seq(BendsOf(Id, Panel)), NEW thickness \in Int,
           NEW hinges \in [1 .. Len(bends) -> Hinges],
           NEW root \in Panel, Reached(bends, Panel, root),
           NEW pose, pose[root] \in Poses, PosedBy(bends, thickness, hinges, pose),
           NEW other, other[root] = Compose(pose[root], TurnedOver(thickness)),
           PosedBy(FlippedAll(bends), thickness, HingesFlipped(hinges), other)
    PROVE  \A p \in Panel, q \in Plane, z \in Int :
              Apply(other[p], At(Mirrored(q), thickness - z)) = Apply(pose[p], At(q, z))
<1>1. \A p \in Panel : other[p] = Compose(pose[p], TurnedOver(thickness))
  BY FlippedPoses
<1>2. \A p \in Panel : pose[p] \in Poses
  BY PosesAreRigid
<1>3. ASSUME NEW p \in Panel, NEW q \in Plane, NEW z \in Int
      PROVE  Apply(other[p], At(Mirrored(q), thickness - z)) = Apply(pose[p], At(q, z))
  <2>1. /\ other[p] = Compose(pose[p], TurnedOver(thickness))
        /\ pose[p] \in Poses /\ TurnedOver(thickness) \in Poses
    BY <1>1, <1>2, TurnedOverParts
  <2>2. At(Mirrored(q), thickness - z) \in Space
    BY TurnedOverParts, AtInSpace
  <2>3. Apply(TurnedOver(thickness), At(Mirrored(q), thickness - z)) = At(q, z)
    BY TurnedOverParts
  <2> QED
    BY <2>1, <2>2, <2>3, ApplyCompose
<1> QED
  BY <1>3

\* The axis of the arc and the axis the child turns about, seen from the
\* parent: the wall of the parent that is swept about the first is the wall of
\* the child that is turned about the second.
LEMMA ArcEndsAtTheWall ==
    ASSUME NEW Id, NEW Panel, NEW b \in BendsOf(Id, Panel), NEW thickness \in Int,
           NEW h \in Hinges, NEW m \in Hinges,
           m = <<Add2(h[1], Offset(b, h)), Add2(h[2], Offset(b, h))>>,
           NEW k \in {1, 2}, NEW z \in Int
    PROVE  /\ Add2(h[k], Offset(b, h)) \in Plane /\ Sub2(h[k], Offset(b, h)) \in Plane
           /\ PivotZ(b, thickness) \in Int
           /\ Way(m) = Way(h)
           /\ Apply(RotationAboutAxis(At(m[1], PivotZ(b, thickness)), Way(h), b.turns),
                    At(Add2(h[k], Offset(b, h)), z))
                = Apply(LocalFold(b, thickness, h), At(Sub2(h[k], Offset(b, h)), z))
<1>1. PICK x1 \in Int, y1 \in Int, x2 \in Int, y2 \in Int :
          h = <<<<x1, y1>>, <<x2, y2>>>> /\ (x1 = x2 \/ y1 = y2) /\ ~ (x1 = x2 /\ y1 = y2)
  BY DEF Hinges, Plane
<1>2. PICK dx \in {-1, 0, 1}, dy \in {-1, 0, 1} : dx = Sgn(x2 - x1) /\ dy = Sgn(y2 - y1)
  BY DEF Sgn
<1>3. Way(h) = <<dx, dy, 0>> /\ NLeft(h[1], h[2]) = <<-dy, dx>> /\ dx * dy = 0 /\ dx * dx + dy * dy = 1
  BY <1>1, <1>2 DEF Way, NLeft, Sgn, Sub2
<1>4. PICK s \in Int : s = Setback(b)
  BY DEF Setback, BendsOf
<1>5. PICK i \in Int, j \in Int : i = s * (-dy) /\ j = s * dx
  OBVIOUS
<1>6. Offset(b, h) = <<i, j>>
  BY <1>3, <1>4, <1>5 DEF Offset, Scaled2
<1>7. PICK x \in Int, y \in Int : h[k] = <<x, y>>
  BY <1>1
<1>8. Add2(h[k], Offset(b, h)) = <<x + i, y + j>> /\ Sub2(h[k], Offset(b, h)) = <<x - i, y - j>>
  BY <1>6, <1>7 DEF Add2, Sub2
<1>9. m = <<<<x1 + i, y1 + j>>, <<x2 + i, y2 + j>>>>
  BY <1>1, <1>6 DEF Add2
<1>10. Way(m) = Way(h)
  BY <1>1, <1>9 DEF Way
<1>11. PICK pz \in Int, sz \in Int : pz = PivotZ(b, thickness) /\ sz = SharpZ(b, thickness)
  BY DEF PivotZ, SharpZ, BottomRadius, BendsOf
<1>12. PICK n \in {1, -1} : n = b.turns
  BY DEF BendsOf
<1>13. s = n * (sz - pz)
  BY <1>4, <1>11, <1>12 DEF Setback, PivotZ, SharpZ, BottomRadius, BendsOf
<1>14. ASSUME NEW v \in Space
       PROVE  TurnedBy(Way(h), v, n)
                = <<(dx * v[1] + dy * v[2]) * dx + n * (dy * v[3]),
                    (dx * v[1] + dy * v[2]) * dy - n * (dx * v[3]),
                    n * (dx * v[2] - dy * v[1])>>
  <2>1. Cos(n) = 0 /\ Sin(n) = n
    BY DEF Cos, Sin
  <2> QED
    BY <1>3, <2>1 DEF TurnedBy, Dot3, Cross3, Space
<1>15. /\ Way(h) \in Units /\ n \in Int
       /\ <<x1 + i, y1 + j, pz>> \in Space /\ <<x1, y1, sz>> \in Space
       /\ <<x + i, y + j, z>> \in Space /\ <<x - i, y - j, z>> \in Space
       /\ <<x - x1, y - y1, z - pz>> \in Space
       /\ <<x - i - x1, y - j - y1, z - sz>> \in Space
  BY WayIsUnit DEF Space
<1>16. Apply(RotationAboutAxis(<<x1 + i, y1 + j, pz>>, Way(h), n), <<x + i, y + j, z>>)
         = Add3(<<x1 + i, y1 + j, pz>>, TurnedBy(Way(h), <<x - x1, y - y1, z - pz>>, n))
  <2>1. Sub3(<<x + i, y + j, z>>, <<x1 + i, y1 + j, pz>>) = <<x - x1, y - y1, z - pz>>
    BY DEF Sub3
  <2> QED
    BY <1>15, <2>1, TurnAround
<1>17. Apply(RotationAboutAxis(<<x1, y1, sz>>, Way(h), n), <<x - i, y - j, z>>)
         = Add3(<<x1, y1, sz>>, TurnedBy(Way(h), <<x - i - x1, y - j - y1, z - sz>>, n))
  <2>1. Sub3(<<x - i, y - j, z>>, <<x1, y1, sz>>) = <<x - i - x1, y - j - y1, z - sz>>
    BY DEF Sub3
  <2> QED
    BY <1>15, <2>1, TurnAround
<1>18. Add3(<<x1 + i, y1 + j, pz>>, TurnedBy(Way(h), <<x - x1, y - y1, z - pz>>, n))
         = Add3(<<x1, y1, sz>>, TurnedBy(Way(h), <<x - i - x1, y - j - y1, z - sz>>, n))
  <2>1. PICK u \in Int, v \in Int, w \in Int : u = x - x1 /\ v = y - y1 /\ w = z - pz
    OBVIOUS
  <2>2. PICK q \in Int : q = sz - pz /\ s = n * q
    BY <1>13
  <2>3. /\ <<x - x1, y - y1, z - pz>> = <<u, v, w>> /\ <<u, v, w>> \in Space
        /\ <<x - i - x1, y - j - y1, z - sz>> = <<u - i, v - j, w - q>>
        /\ <<u - i, v - j, w - q>> \in Space
    BY <2>1, <2>2 DEF Space
  <2>4. TurnedBy(Way(h), <<u, v, w>>, n)
          = <<(dx * u + dy * v) * dx + n * (dy * w), (dx * u + dy * v) * dy - n * (dx * w),
              n * (dx * v - dy * u)>>
    BY <1>14, <2>3
  <2>5. TurnedBy(Way(h), <<u - i, v - j, w - q>>, n)
          = <<(dx * (u - i) + dy * (v - j)) * dx + n * (dy * (w - q)),
              (dx * (u - i) + dy * (v - j)) * dy - n * (dx * (w - q)),
              n * (dx * (v - j) - dy * (u - i))>>
    BY <1>14, <2>3
  <2>6. /\ i + ((dx * u + dy * v) * dx + n * (dy * w))
             = (dx * (u - i) + dy * (v - j)) * dx + n * (dy * (w - q))
        /\ j + ((dx * u + dy * v) * dy - n * (dx * w))
             = (dx * (u - i) + dy * (v - j)) * dy - n * (dx * (w - q))
        /\ pz + n * (dx * v - dy * u) = sz + n * (dx * (v - j) - dy * (u - i))
    BY <1>3, <1>5, <2>2
  <2> QED
    BY <2>3, <2>4, <2>5, <2>6 DEF Add3
<1>19. At(m[1], pz) = <<x1 + i, y1 + j, pz>> /\ At(h[1], sz) = <<x1, y1, sz>>
       /\ At(<<x + i, y + j>>, z) = <<x + i, y + j, z>>
       /\ At(<<x - i, y - j>>, z) = <<x - i, y - j, z>>
  BY <1>1, <1>9 DEF At
<1>20. <<x + i, y + j>> \in Plane /\ <<x - i, y - j>> \in Plane
  BY DEF Plane
<1> QED
  BY <1>8, <1>10, <1>11, <1>12, <1>16, <1>17, <1>18, <1>19, <1>20 DEF LocalFold

\* A bend's arc begins at the wall of the parent and ends at the wall of the
\* child, at every height: swept about the axis of the bridge, the point where
\* BuildBendCuts ends the parent is the point where it begins the child.  The
\* two are computed apart, from the signed setback and from the angle.
THEOREM BridgeSpansTheBend ==
    ASSUME NEW Id, NEW Panel, NEW b \in BendsOf(Id, Panel), NEW g, g.thickness \in Int,
           NEW h \in Hinges, NEW T \in Poses, NEW shift,
           NEW f, f = Folded(g, b, h, T, shift), NEW k \in {1, 2}, NEW z \in Int
    PROVE  Apply(RotationAboutAxis(f.origin, f.axis, f.turns),
                 Apply(T, At(Add2(h[k], Offset(b, h)), z)))
             = Apply(f.childPose, At(Sub2(h[k], Offset(b, h)), z))
<1> DEFINE thickness == g.thickness
           m == <<Add2(h[1], Offset(b, h)), Add2(h[2], Offset(b, h))>>
           pz == PivotZ(b, thickness)
           R == RotationAboutAxis(At(m[1], pz), Way(h), b.turns)
           p == At(Add2(h[k], Offset(b, h)), z)
           q == At(Sub2(h[k], Offset(b, h)), z)
<1>1. m \in Hinges
  <2>1. PICK i \in Int, j \in Int : Offset(b, h) = <<i, j>>
    <3>1. Setback(b) \in Int
      BY DEF Setback, BendsOf
    <3>2. PICK u \in Int, v \in Int : NLeft(h[1], h[2]) = <<u, v>>
      BY DEF NLeft, Hinges, Plane, Sgn, Sub2
    <3> QED
      BY <3>1, <3>2 DEF Offset, Scaled2
  <2> QED
    BY <2>1 DEF Hinges, Plane, Add2
<1>2. /\ f.origin = Apply(T, At(m[1], pz)) /\ f.axis = Axis(T, m, pz) /\ f.turns = b.turns
      /\ f.childPose = Compose(WorldFold(b, thickness, h, T), T)
  BY DEF Folded
<1>3. /\ Add2(h[k], Offset(b, h)) \in Plane /\ Sub2(h[k], Offset(b, h)) \in Plane
      /\ pz \in Int /\ Way(m) = Way(h)
      /\ Apply(R, p) = Apply(LocalFold(b, thickness, h), q)
  BY <1>1, ArcEndsAtTheWall
<1>4. p \in Space /\ q \in Space /\ At(m[1], pz) \in Space /\ Way(h) \in Units /\ b.turns \in Int
  BY <1>1, <1>3, AtInSpace, WayIsUnit, SharpZInt DEF Hinges
<1>5. Axis(T, m, pz) = ApplyVector(T, Way(h))
  BY <1>1, <1>3, AxisMoved
<1> HIDE DEF m, pz, p, q
<1>6. R \in Poses /\ RotationAboutAxis(f.origin, f.axis, f.turns) \in Poses
      /\ Compose(RotationAboutAxis(f.origin, f.axis, f.turns), T) = Compose(T, R)
  <2>1. f.origin = Apply(T, At(m[1], pz)) /\ f.axis = ApplyVector(T, Way(h)) /\ f.turns = b.turns
    BY <1>2, <1>5
  <2>2. f.origin \in Space /\ f.axis \in Units
    BY <1>4, <2>1, InSpace, UnitKept
  <2> QED
    BY <1>4, <2>1, <2>2, TurnParts, TurnMoved
<1> HIDE DEF R
<1>7. Apply(RotationAboutAxis(f.origin, f.axis, f.turns), Apply(T, p)) = Apply(T, Apply(R, p))
  BY <1>4, <1>6, ApplyCompose
<1>8. Apply(f.childPose, q) = Apply(T, Apply(LocalFold(b, thickness, h), q))
  BY <1>2, <1>4, FoldIsLocal, ApplyCompose
<1> QED
  BY <1>3, <1>7, <1>8 DEF p, q

\* What a panel takes into space it gives back, and what it is given it takes
\* to the same place: the flat point, its height, and no residual beside it
\* (MapPointToWorld and MapPointToFlat, on a panel).
THEOREM PanelsGivePointsBack ==
    ASSUME NEW panel, panel.pose \in Poses, panel.shift \in Plane
    PROVE  /\ \A p \in Plane, z \in Int :
                 /\ FlatOn(panel, PlacedOn(panel, p, z)) = p
                 /\ LocalOn(panel, PlacedOn(panel, p, z))[3] = z
           /\ \A x \in Space : PlacedOn(panel, FlatOn(panel, x), LocalOn(panel, x)[3]) = x
<1>1. ASSUME NEW p \in Plane, NEW z \in Int
      PROVE  LocalOn(panel, PlacedOn(panel, p, z)) = At(Sub2(p, panel.shift), z)
  <2>1. At(Sub2(p, panel.shift), z) \in Space
    BY DEF At, Sub2, Plane, Space
  <2> QED
    BY <2>1, InverseUndoes DEF LocalOn, PlacedOn
<1>2. \A p \in Plane, z \in Int : /\ FlatOn(panel, PlacedOn(panel, p, z)) = p
                                   /\ LocalOn(panel, PlacedOn(panel, p, z))[3] = z
  BY <1>1 DEF FlatOn, At, Sub2, Add2, Plane
<1>3. ASSUME NEW x \in Space
      PROVE  PlacedOn(panel, FlatOn(panel, x), LocalOn(panel, x)[3]) = x
  <2>1. PICK y \in Space : y = LocalOn(panel, x)
    BY InverseUndoes DEF LocalOn
  <2>2. At(Sub2(FlatOn(panel, x), panel.shift), y[3]) = y
    BY <2>1 DEF FlatOn, Sub2, Add2, At, Space, Plane
  <2>3. Apply(panel.pose, LocalOn(panel, x)) = x
    BY InverseUndoes DEF LocalOn
  <2> QED
    BY <2>1, <2>2, <2>3 DEF PlacedOn
<1> QED
  BY <1>2, <1>3

\* A plane meets a panel in the line that ComputeSplitByPlane clips it at: a
\* point of the flat pattern is as far above that line as the place the panel
\* takes it to is above the plane.
THEOREM PlaneMeetsThePanel ==
    ASSUME NEW panel, panel.pose \in Poses, panel.shift \in Plane,
           NEW n \in Space, NEW d \in Int, NEW p \in Plane
    PROVE  Above(LineOn(panel, n, d), p) = Dot3(n, PlacedOn(panel, p, 0)) - d
<1> DEFINE T == panel.pose
           u == Column(T, 1)
           v == Column(T, 2)
           t == T.t
<1>1. u \in Units /\ v \in Units /\ t \in Space
  BY BackIsPose, PoseParts DEF Back
<1>2. PICK x \in Int, y \in Int, i \in Int, j \in Int : p = <<x, y>> /\ panel.shift = <<i, j>>
  BY DEF Plane
<1>3. PlacedOn(panel, p, 0) = Add3(Add3(Stretched(x - i, u), Stretched(y - j, v)), t)
  <2>1. PICK k \in Int, l \in Int : k = x - i /\ l = y - j
    BY <1>2
  <2>2. PlacedOn(panel, p, 0) = Apply(T, <<k, l, 0>>)
    BY <1>2, <2>1 DEF PlacedOn, At, Sub2
  <2>3. ApplyVector(T, <<k, l, 0>>) = Add3(Stretched(k, u), Stretched(l, v))
    BY PoseParts DEF ApplyVector, Dot3, Add3, Stretched, Column, Units
  <2> QED
    BY <2>1, <2>2, <2>3 DEF Apply
<1> HIDE DEF T, u, v, t
<1>4. ASSUME NEW k \in Int, NEW e \in Units
      PROVE  /\ Stretched(k, e) \in Space
             /\ Dot3(n, e) \in Int /\ Dot3(n, Stretched(k, e)) = k * Dot3(n, e)
  <2>1. PICK n1 \in Int, n2 \in Int, n3 \in Int : n = <<n1, n2, n3>>
    BY DEF Space
  <2>2. PICK e1 \in Int, e2 \in Int, e3 \in Int : e = <<e1, e2, e3>>
    BY DEF Units
  <2>3. Stretched(k, e) = <<k * e1, k * e2, k * e3>>
    BY <2>2 DEF Stretched
  <2>4. n1 * (k * e1) + n2 * (k * e2) + n3 * (k * e3) = k * (n1 * e1 + n2 * e2 + n3 * e3)
    OBVIOUS
  <2> QED
    BY <2>1, <2>2, <2>3, <2>4 DEF Dot3, Space
<1>5. \A a \in Space, b \in Space : Add3(a, b) \in Space /\ Dot3(n, Add3(a, b)) = Dot3(n, a) + Dot3(n, b)
  <2>1. PICK n1 \in Int, n2 \in Int, n3 \in Int : n = <<n1, n2, n3>>
    BY DEF Space
  <2> QED
    BY <2>1 DEF Dot3, Add3, Space
<1>6. PICK k \in Int, l \in Int, c \in Int :
          k = Dot3(n, u) /\ l = Dot3(n, v) /\ c = Dot3(n, t)
  BY <1>1, <1>4, VectorSums
<1>7. Dot3(n, PlacedOn(panel, p, 0)) = (x - i) * k + (y - j) * l + c
  BY <1>1, <1>3, <1>4, <1>5, <1>6
<1>8. LineOn(panel, n, d) = [ab |-> <<k, l>>, c |-> d - c + (k * i + l * j)]
  BY <1>2, <1>6 DEF LineOn, Dot2, u, v, t, T
<1>9. Above(LineOn(panel, n, d), p) = k * x + l * y - (d - c + (k * i + l * j))
  BY <1>2, <1>8 DEF Above, Dot2
<1>10. (x - i) * k + (y - j) * l + c - d = k * x + l * y - (d - c + (k * i + l * j))
  OBVIOUS
<1> QED
  BY <1>7, <1>9, <1>10
-----------------------------------------------------------------------------
\* The area of a ring that a line is laid through. First sums, and functions
\* that are defined step after step. Induction is over sets: a set of numbers
\* with 0 in it, and with a number the next, has them all.

\* A set of numbers has a least one.
LEMMA LeastNumber ==
    ASSUME NEW T \in SUBSET Nat, T # {}
    PROVE  \E m \in T : \A k \in T : m <= k
<1>1. \E x \in T : \A y \in T : ~ (<<y, x>> \in {ss \in Nat \X Nat : ss[1] < ss[2]})
  <2>1. IsWellFoundedOn({ss \in Nat \X Nat : ss[1] < ss[2]}, Nat)
    BY NatLessThanWellFounded DEF OpToRel
  <2> QED
    BY <2>1, WFMin
<1>2. PICK x \in T : \A y \in T : ~ (<<y, x>> \in {ss \in Nat \X Nat : ss[1] < ss[2]})
  BY <1>1
<1>3. ASSUME NEW y \in T PROVE x <= y
  <2>1. <<y, x>> \in Nat \X Nat /\ <<y, x>>[1] = y /\ <<y, x>>[2] = x
    OBVIOUS
  <2>2. ~ (y < x)
    BY <1>2, <2>1
  <2> QED
    BY <2>2
<1> QED
  BY <1>3

\* What holds of 0, and of the next number with each, holds up to n.
LEMMA Upward ==
    ASSUME NEW n \in Nat, NEW S, 0 \in S, \A i \in 0 .. n - 1 : i \in S => i + 1 \in S
    PROVE  \A i \in 0 .. n : i \in S
<1> DEFINE T == (0 .. n) \ S
<1>1. SUFFICES ASSUME T # {} PROVE FALSE
  OBVIOUS
<1>2. PICK m \in T : \A k \in T : m <= k
  <2>1. T \in SUBSET Nat
    OBVIOUS
  <2> QED
    BY <1>1, <2>1, LeastNumber
<1>3. m - 1 \in 0 .. n - 1
  BY <1>2
<1> QED
  BY <1>2, <1>3
\* f begins at base, and each of its values is made of the one before.
Grows(f, n, base, step) == f[0] = base /\ \A i \in 1 .. n : f[i] = step[i][f[i - 1]]

\* A function that is defined step after step exists.
LEMMA StepByStep ==
    ASSUME NEW n \in Nat, NEW V, NEW base \in V, NEW step \in [1 .. n -> [V -> V]]
    PROVE  \E f \in [0 .. n -> V] : Grows(f, n, base, step)
<1> DEFINE Good(m, f) == \A i \in 0 .. m : f[i] = IF i = 0 THEN base ELSE step[i][f[i - 1]]
           S == {m \in 0 .. n : \E f \in [0 .. n -> V] : Good(m, f)}
<1>1. 0 \in S
  <2> DEFINE f == [i \in 0 .. n |-> base]
  <2>1. f \in [0 .. n -> V] /\ Good(0, f)
    OBVIOUS
  <2>2. 0 \in 0 .. n
    OBVIOUS
  <2> HIDE DEF f, Good
  <2> QED
    BY <2>1, <2>2
<1>2. ASSUME NEW m \in 0 .. n - 1, m \in S PROVE m + 1 \in S
  <2>1. PICK f \in [0 .. n -> V] : Good(m, f)
    BY <1>2
  <2> DEFINE g == [f EXCEPT ![m + 1] = step[m + 1][f[m]]]
  <2>2. m + 1 \in 1 .. n /\ m \in 0 .. n /\ f[m] \in V
    OBVIOUS
  <2>3. step[m + 1][f[m]] \in V
    BY <2>2
  <2>4. g \in [0 .. n -> V] /\ g[m + 1] = step[m + 1][f[m]] /\ \A i \in 0 .. m : g[i] = f[i]
    BY <2>2, <2>3
  <2>5. ASSUME NEW i \in 0 .. m + 1 PROVE g[i] = IF i = 0 THEN base ELSE step[i][g[i - 1]]
    <3>1. CASE i = m + 1
      BY <2>4, <3>1
    <3>2. CASE i # m + 1
      <4>1. i \in 0 .. m /\ (i # 0 => i - 1 \in 0 .. m)
        BY <3>2
      <4> QED
        BY <2>1, <2>4, <4>1
    <3> QED
      BY <3>1, <3>2
  <2>6. Good(m + 1, g)
    BY <2>5
  <2> HIDE DEF g, Good
  <2> QED
    BY <2>2, <2>4, <2>6
<1>3. n \in S
  <2> HIDE DEF S
  <2>1. \A i \in 0 .. n : i \in S
    BY <1>1, <1>2, Upward, Zenon
  <2> QED
    BY <2>1
<1>4. PICK f \in [0 .. n -> V] : Good(n, f)
  BY <1>3
<1>5. Grows(f, n, base, step)
  BY <1>4 DEF Grows
<1> QED
  BY <1>5
-----------------------------------------------------------------------------

\* The partial sums of n terms.
LEMMA TotalExists ==
    ASSUME NEW n \in Nat, NEW term, \A i \in 1 .. n : term[i] \in Int
    PROVE  \E f \in [0 .. n -> Int] :
              f = [i \in 0 .. n |-> IF i = 0 THEN 0 ELSE f[i - 1] + term[i]]
<1> DEFINE step == [i \in 1 .. n |-> [x \in Int |-> x + term[i]]]
<1>1. step \in [1 .. n -> [Int -> Int]]
  OBVIOUS
<1>2. PICK f \in [0 .. n -> Int] : Grows(f, n, 0, step)
  <2> HIDE DEF step
  <2>1. 0 \in Int
    OBVIOUS
  <2> QED
    BY <1>1, <2>1, StepByStep, Zenon
<1>3. ASSUME NEW i \in 0 .. n PROVE f[i] = IF i = 0 THEN 0 ELSE f[i - 1] + term[i]
  <2>1. i # 0 => i \in 1 .. n /\ f[i - 1] \in Int
    OBVIOUS
  <2>2. i # 0 => f[i] = step[i][f[i - 1]]
    BY <1>2, <2>1 DEF Grows
  <2>3. f[0] = 0
    BY <1>2 DEF Grows
  <2> QED
    BY <2>1, <2>2, <2>3
<1>4. f = [i \in 0 .. n |-> IF i = 0 THEN 0 ELSE f[i - 1] + term[i]]
  BY <1>3
<1> QED
  BY <1>4

\* A running sum of the terms ends at their total.
LEMMA TotalIs ==
    ASSUME NEW n \in Nat, NEW term, NEW F, F[0] = 0,
           \A i \in 1 .. n : term[i] \in Int /\ F[i] = F[i - 1] + term[i]
    PROVE  Total(term, n) = F[n]
<1> DEFINE f == CHOOSE f : f = [i \in 0 .. n |-> IF i = 0 THEN 0 ELSE f[i - 1] + term[i]]
<1>1. f = [i \in 0 .. n |-> IF i = 0 THEN 0 ELSE f[i - 1] + term[i]]
  <2>1. \E g : g = [i \in 0 .. n |-> IF i = 0 THEN 0 ELSE g[i - 1] + term[i]]
    <3>1. \E g \in [0 .. n -> Int] :
              g = [i \in 0 .. n |-> IF i = 0 THEN 0 ELSE g[i - 1] + term[i]]
      BY TotalExists
    <3> QED
      BY <3>1, Zenon
  <2> QED
    BY <2>1, Zenon
<1>2. Total(term, n) = f[n]
  BY DEF Total
<1> HIDE DEF f
<1> DEFINE S == {i \in 0 .. n : f[i] = F[i]}
<1>3. 0 \in S
  BY <1>1
<1>4. \A i \in 0 .. n - 1 : i \in S => i + 1 \in S
  BY <1>1
<1>5. n \in S
  <2> HIDE DEF S
  <2> QED
    BY <1>3, <1>4, Upward
<1> QED
  BY <1>2, <1>5

\* A total grows term by term.
LEMMA TotalSteps ==
    ASSUME NEW n \in Nat, NEW term, \A i \in 1 .. n : term[i] \in Int
    PROVE  /\ Total(term, 0) = 0
           /\ \A i \in 0 .. n : Total(term, i) \in Int
           /\ \A i \in 1 .. n : Total(term, i) = Total(term, i - 1) + term[i]
<1>1. PICK f \in [0 .. n -> Int] :
          f = [i \in 0 .. n |-> IF i = 0 THEN 0 ELSE f[i - 1] + term[i]]
  BY TotalExists
<1>2. f[0] = 0 /\ \A i \in 1 .. n : f[i] = f[i - 1] + term[i]
  BY <1>1
<1>3. ASSUME NEW i \in 0 .. n PROVE Total(term, i) = f[i]
  <2>1. i \in Nat /\ \A j \in 1 .. i : term[j] \in Int /\ f[j] = f[j - 1] + term[j]
    BY <1>2
  <2> QED
    BY <1>2, <2>1, TotalIs
<1> QED
  BY <1>2, <1>3

\* Equal terms have equal totals.
LEMMA TotalsEqual ==
    ASSUME NEW n \in Nat, NEW d, NEW e, \A i \in 1 .. n : d[i] \in Int /\ d[i] = e[i]
    PROVE  Total(d, n) = Total(e, n)
<1> DEFINE F == [i \in 0 .. n |-> Total(e, i)]
<1>1. /\ Total(e, 0) = 0
      /\ \A i \in 0 .. n : Total(e, i) \in Int
      /\ \A i \in 1 .. n : Total(e, i) = Total(e, i - 1) + e[i]
  BY TotalSteps
<1>2. F[0] = 0 /\ \A i \in 1 .. n : d[i] \in Int /\ F[i] = F[i - 1] + d[i]
  BY <1>1
<1>3. F[n] = Total(e, n)
  OBVIOUS
<1> HIDE DEF F
<1> QED
  BY <1>2, <1>3, TotalIs

\* The total of sums is the sum of the totals.
LEMMA TotalOfSums ==
    ASSUME NEW n \in Nat, NEW d, NEW e, NEW s,
           \A i \in 1 .. n : d[i] \in Int /\ e[i] \in Int /\ s[i] = d[i] + e[i]
    PROVE  Total(s, n) = Total(d, n) + Total(e, n)
<1> DEFINE F == [i \in 0 .. n |-> Total(d, i) + Total(e, i)]
<1>1. /\ Total(d, 0) = 0 /\ \A i \in 0 .. n : Total(d, i) \in Int
      /\ \A i \in 1 .. n : Total(d, i) = Total(d, i - 1) + d[i]
  BY TotalSteps
<1>2. /\ Total(e, 0) = 0 /\ \A i \in 0 .. n : Total(e, i) \in Int
      /\ \A i \in 1 .. n : Total(e, i) = Total(e, i - 1) + e[i]
  BY TotalSteps
<1>3. ASSUME NEW i \in 1 .. n PROVE s[i] \in Int /\ F[i] = F[i - 1] + s[i]
  <2>1. F[i] = Total(d, i) + Total(e, i) /\ F[i - 1] = Total(d, i - 1) + Total(e, i - 1)
    OBVIOUS
  <2>2. i - 1 \in 0 .. n /\ s[i] = d[i] + e[i] /\ d[i] \in Int /\ e[i] \in Int
    OBVIOUS
  <2>3. Total(d, i - 1) \in Int /\ Total(e, i - 1) \in Int
    BY <1>1, <1>2, <2>2
  <2>4. Total(d, i) = Total(d, i - 1) + d[i] /\ Total(e, i) = Total(e, i - 1) + e[i]
    BY <1>1, <1>2
  <2> QED
    BY <2>1, <2>2, <2>3, <2>4
<1>4. F[n] = Total(d, n) + Total(e, n) /\ F[0] = 0
  BY <1>1, <1>2
<1> HIDE DEF F
<1> QED
  BY <1>3, <1>4, TotalIs

\* Around a ring, what is gained is lost.
LEMMA AroundIsZero ==
    ASSUME NEW n \in Nat, NEW G, NEW d,
           \A i \in 1 .. n : G[i] \in Int /\ d[i] = G[After(i, n)] - G[i]
    PROVE  Total(d, n) = 0
<1>1. ASSUME NEW i \in 1 .. n
      PROVE  /\ After(i, n) = (IF i = n THEN 1 ELSE i + 1)
             /\ After(i, n) \in 1 .. n
  <2>1. n > 0 /\ (i = n => i % n = 0) /\ (i < n => i % n = i)
    OBVIOUS
  <2> QED
    BY <2>1 DEF After
<1>2. CASE n = 0
  BY <1>2, TotalSteps
<1>3. CASE n # 0
  <2> DEFINE F == [i \in 0 .. n |-> IF i = 0 THEN 0 ELSE G[After(i, n)] - G[1]]
  <2>1. ASSUME NEW i \in 1 .. n PROVE d[i] \in Int /\ F[i] = F[i - 1] + d[i]
    <3>1. CASE i = 1
      BY <1>1, <3>1
    <3>2. CASE i # 1
      <4>1. i - 1 \in 1 .. n /\ After(i - 1, n) = i
        BY <1>1, <3>2
      <4>2. d[i] = G[After(i, n)] - G[i] /\ G[i] \in Int /\ G[After(i, n)] \in Int /\ G[1] \in Int
        BY <1>1, <1>3
      <4>3. F[i] = G[After(i, n)] - G[1] /\ F[i - 1] = G[i] - G[1]
        BY <3>2, <4>1
      <4> HIDE DEF F
      <4> QED
        BY <4>2, <4>3
    <3> QED
      BY <3>1, <3>2
  <2>2. F[0] = 0 /\ F[n] = 0
    BY <1>1, <1>3
  <2> HIDE DEF F
  <2> QED
    BY <2>1, <2>2, TotalIs
<1> QED
  BY <1>2, <1>3
-----------------------------------------------------------------------------
\* The area of a ring, corner by corner (Points, DoubleArea).

\* The vertex after the last one is the first.
LEMMA AfterIs ==
    ASSUME NEW n \in Nat, NEW i \in 1 .. n
    PROVE  After(i, n) \in 1 .. n /\ After(i, n) = IF i = n THEN 1 ELSE i + 1
<1>1. n > 0 /\ (i = n => i % n = 0) /\ (i < n => i % n = i)
  OBVIOUS
<1> QED
  BY <1>1 DEF After

\* Exact division is exact.
LEMMA QuotientIs ==
    ASSUME NEW k \in Int, NEW b \in Int, b # 0
    PROVE  Quotient(k * b, b) = k
<1>1. ASSUME NEW m \in Nat, m # 0 PROVE (k * m) \div m = k
  <2>1. PICK N \in Int : N = k * m
    OBVIOUS
  <2>5. PICK q \in Int : q = N \div m
    BY <1>1
  <2>6. m * q <= N /\ N < m * q + m
    BY <1>1, <2>5
  <2>2. m * q <= k * m /\ k * m < m * (q + 1)
    BY <2>1, <2>6
  <2>3. CASE q >= k + 1
    <3>1. m * q >= m * (k + 1)
      BY <2>3
    <3>2. m * (k + 1) = k * m + m
      OBVIOUS
    <3> QED
      BY <1>1, <2>2, <3>1, <3>2
  <2>4. CASE q <= k - 1
    <3>1. m * (q + 1) <= m * k
      BY <2>4
    <3>2. m * k = k * m
      OBVIOUS
    <3> QED
      BY <2>2, <3>1, <3>2
  <2> QED
    BY <2>1, <2>3, <2>4, <2>5
<1>2. CASE b > 0
  <2>1. Sgn(b) * (k * b) = k * b /\ Sgn(b) * b = b
    BY <1>2 DEF Sgn
  <2> QED
    BY <1>1, <1>2, <2>1 DEF Quotient
<1>3. CASE b < 0
  <2>1. Sgn(b) * (k * b) = k * (-b) /\ Sgn(b) * b = -b
    BY <1>3 DEF Sgn
  <2> QED
    BY <1>1, <1>3, <2>1 DEF Quotient
<1> QED
  BY <1>2, <1>3
-----------------------------------------------------------------------------
\* The area of an open chain of points.
Twice(out) == [i \in 1 .. Len(out) - 1 |-> Cross2(out[i], out[i + 1])]
PathArea(out) == Total(Twice(out), Len(out) - 1)

\* Areas of triangles at the origin are integers, and turn with their
\* corners.
LEMMA Crosses ==
    \A p \in Plane, q \in Plane : Cross2(p, q) \in Int /\ Cross2(p, p) = 0 /\ Cross2(p, q) = -Cross2(q, p)
BY DEF Plane, Cross2

\* A chain grows by what its new point encloses with the last one.
LEMMA PathGrows ==
    ASSUME NEW out \in Seq(Plane), out # <<>>, NEW p \in Plane
    PROVE  /\ out \o <<p>> \in Seq(Plane) /\ Len(out \o <<p>>) = Len(out) + 1
           /\ (out \o <<p>>)[Len(out) + 1] = p
           /\ \A i \in 1 .. Len(out) : (out \o <<p>>)[i] = out[i]
           /\ PathArea(out) \in Int
           /\ PathArea(out \o <<p>>) = PathArea(out) + Cross2(out[Len(out)], p)
<1>1. PICK m \in Nat : m = Len(out) /\ m > 0 /\ m - 1 \in Nat
  OBVIOUS
<1>2. PICK new \in Seq(Plane) :
          /\ new = out \o <<p>> /\ Len(new) = m + 1
          /\ new[m + 1] = p /\ \A i \in 1 .. m : new[i] = out[i]
  <2>1. out \o <<p>> \in Seq(Plane) /\ Len(out \o <<p>>) = Len(out) + 1
    OBVIOUS
  <2>2. (out \o <<p>>)[Len(out) + 1] = p /\ \A i \in 1 .. Len(out) : (out \o <<p>>)[i] = out[i]
    OBVIOUS
  <2> QED
    BY <1>1, <2>1, <2>2
<1>3. ASSUME NEW i \in 1 .. m - 1
      PROVE  Twice(out)[i] \in Int /\ Twice(out)[i] = Twice(new)[i]
  <2>1. i \in 1 .. m /\ i + 1 \in 1 .. m /\ i \in 1 .. Len(out) - 1 /\ i \in 1 .. Len(new) - 1
    BY <1>1, <1>2
  <2>2. out[i] \in Plane /\ out[i + 1] \in Plane
    BY <1>1, <2>1
  <2>3. Twice(out)[i] = Cross2(out[i], out[i + 1]) /\ Twice(new)[i] = Cross2(new[i], new[i + 1])
    BY <2>1 DEF Twice
  <2> QED
    BY <1>2, <2>1, <2>2, <2>3, Crosses
<1>4. Twice(new)[m] = Cross2(out[m], p) /\ Twice(new)[m] \in Int
  <2>1. out[m] \in Plane /\ m \in 1 .. m /\ m \in 1 .. Len(new) - 1
    BY <1>1, <1>2
  <2>2. Twice(new)[m] = Cross2(new[m], new[m + 1])
    BY <2>1 DEF Twice
  <2> QED
    BY <1>2, <2>1, <2>2, Crosses
<1>5. \A i \in 1 .. m : Twice(new)[i] \in Int
  BY <1>1, <1>3, <1>4
<1>6. PathArea(new) = Total(Twice(new), m) /\ PathArea(out) = Total(Twice(out), m - 1)
  BY <1>1, <1>2 DEF PathArea
<1>7. Total(Twice(new), m) = Total(Twice(new), m - 1) + Twice(new)[m]
  <2>1. m \in 1 .. m
    BY <1>1
  <2> QED
    BY <1>5, <2>1, TotalSteps
<1>8. Total(Twice(out), m - 1) = Total(Twice(new), m - 1)
  BY <1>1, <1>3, TotalsEqual
<1>9. Total(Twice(out), m - 1) \in Int
  <2>1. m - 1 \in 0 .. m - 1
    BY <1>1
  <2> QED
    BY <1>1, <1>3, <2>1, TotalSteps
<1> QED
  BY <1>1, <1>2, <1>4, <1>6, <1>7, <1>8, <1>9

\* A single point encloses nothing.
LEMMA PathOfOne == ASSUME NEW p \in Plane PROVE PathArea(<<p>>) = 0
<1>1. Len(<<p>>) - 1 = 0 /\ 0 \in Nat
  OBVIOUS
<1>2. \A i \in 1 .. 0 : Twice(<<p>>)[i] \in Int
  OBVIOUS
<1>3. Total(Twice(<<p>>), 0) = 0
  BY <1>1, <1>2, TotalSteps
<1> QED
  BY <1>1, <1>3 DEF PathArea

\* A ring is its chain of points, closed.
LEMMA ClosedPath ==
    ASSUME NEW ring \in Seq(Plane), ring # <<>>
    PROVE  DoubleArea(ring) = PathArea(ring) + Cross2(ring[Len(ring)], ring[1])
<1>1. PICK n \in Nat : n = Len(ring) /\ n > 0 /\ n - 1 \in Nat
  OBVIOUS
<1>2. \A i \in 1 .. n : ring[i] \in Plane
  BY <1>1
<1> DEFINE around == [i \in 1 .. n |-> Cross2(ring[i], ring[After(i, n)])]
<1>3. ASSUME NEW i \in 1 .. n
      PROVE  /\ around[i] \in Int
             /\ i # n => around[i] = Twice(ring)[i]
             /\ i = n => around[i] = Cross2(ring[n], ring[1])
  <2>1. After(i, n) \in 1 .. n /\ After(i, n) = IF i = n THEN 1 ELSE i + 1
    BY AfterIs
  <2>2. around[i] = Cross2(ring[i], ring[After(i, n)])
    OBVIOUS
  <2>3. i # n => Twice(ring)[i] = Cross2(ring[i], ring[i + 1])
    BY <1>1 DEF Twice
  <2> HIDE DEF around
  <2> QED
    BY <1>2, <2>1, <2>2, <2>3, Crosses
<1>4. DoubleArea(ring) = Total(around, n)
  BY <1>1 DEF DoubleArea
<1> HIDE DEF around
<1>5. Total(around, n) = Total(around, n - 1) + around[n]
  <2>1. n \in 1 .. n
    BY <1>1
  <2> QED
    BY <1>3, <2>1, TotalSteps
<1>6. Total(around, n - 1) = Total(Twice(ring), n - 1)
  <2>1. \A i \in 1 .. n - 1 : around[i] \in Int /\ around[i] = Twice(ring)[i]
    BY <1>3
  <2> QED
    BY <1>1, <2>1, TotalsEqual
<1> QED
  BY <1>1, <1>3, <1>4, <1>5, <1>6 DEF PathArea

\* Nor does no point at all.
LEMMA EmptyArea == DoubleArea(<<>>) = 0
<1>1. Len(<<>>) = 0 /\ 0 \in Nat
  OBVIOUS
<1> DEFINE around == [i \in 1 .. 0 |-> Cross2(<<>>[i], <<>>[After(i, 0)])]
<1>2. DoubleArea(<<>>) = Total(around, 0)
  BY <1>1 DEF DoubleArea
<1>3. \A i \in 1 .. 0 : around[i] \in Int
  OBVIOUS
<1> HIDE DEF around
<1> QED
  BY <1>1, <1>2, <1>3, TotalSteps

\* A chain from a point before it.
LEMMA PathFrom ==
    ASSUME NEW s \in Seq(Plane), s # <<>>, NEW c \in Plane
    PROVE  /\ PathArea(<<c>> \o s) = Cross2(c, s[1]) + PathArea(s) /\ PathArea(s) \in Int
           /\ Len(<<c>> \o s) = Len(s) + 1 /\ (<<c>> \o s)[Len(s) + 1] = s[Len(s)]
           /\ s[1] \in Plane /\ s[Len(s)] \in Plane
<1>1. PICK m \in Nat : m = Len(s) /\ m > 0 /\ m - 1 \in Nat
  OBVIOUS
<1>2. PICK new \in Seq(Plane) :
          /\ new = <<c>> \o s /\ Len(new) = m + 1
          /\ new[1] = c /\ \A i \in 1 .. m : new[i + 1] = s[i]
  <2>1. <<c>> \o s \in Seq(Plane) /\ Len(<<c>> \o s) = Len(s) + 1
    OBVIOUS
  <2>2. (<<c>> \o s)[1] = c /\ \A i \in 1 .. Len(s) : (<<c>> \o s)[i + 1] = s[i]
    OBVIOUS
  <2> QED
    BY <1>1, <2>1, <2>2
<1>3. \A i \in 1 .. m : s[i] \in Plane
  BY <1>1
<1>4. ASSUME NEW i \in 1 .. m - 1
      PROVE  Twice(s)[i] \in Int /\ Twice(new)[i + 1] = Twice(s)[i]
  <2>1. /\ i \in 1 .. m /\ i + 1 \in 1 .. m /\ i \in 1 .. Len(s) - 1 /\ i + 1 \in 1 .. Len(new) - 1
    BY <1>1, <1>2
  <2>2. Twice(s)[i] = Cross2(s[i], s[i + 1]) /\ Twice(new)[i + 1] = Cross2(new[i + 1], new[(i + 1) + 1])
    BY <2>1 DEF Twice
  <2>3. new[i + 1] = s[i] /\ new[(i + 1) + 1] = s[i + 1]
    BY <1>2, <2>1
  <2>4. s[i] \in Plane /\ s[i + 1] \in Plane
    BY <1>3, <2>1
  <2> QED
    BY <2>2, <2>3, <2>4, Crosses
<1>5. Twice(new)[1] = Cross2(c, s[1]) /\ Twice(new)[1] \in Int
  <2>1. 1 \in 1 .. Len(new) - 1 /\ 1 \in 1 .. m
    BY <1>1, <1>2
  <2>2. Twice(new)[1] = Cross2(new[1], new[1 + 1])
    BY <2>1 DEF Twice
  <2>3. new[1 + 1] = s[1] /\ s[1] \in Plane
    BY <1>2, <1>3, <2>1
  <2> QED
    BY <1>2, <2>2, <2>3, Crosses
<1> DEFINE F == [i \in 0 .. m |-> IF i = 0 THEN 0 ELSE Cross2(c, s[1]) + Total(Twice(s), i - 1)]
<1>6. /\ Total(Twice(s), 0) = 0
      /\ \A i \in 0 .. m - 1 : Total(Twice(s), i) \in Int
      /\ \A i \in 1 .. m - 1 : Total(Twice(s), i) = Total(Twice(s), i - 1) + Twice(s)[i]
  BY <1>1, <1>4, TotalSteps
<1>7. ASSUME NEW i \in 1 .. m PROVE Twice(new)[i] \in Int /\ F[i] = F[i - 1] + Twice(new)[i]
  <2>1. CASE i = 1
    BY <1>5, <1>6, <2>1
  <2>2. CASE i # 1
    <3>1. PICK j \in 1 .. m - 1 : i = j + 1
      <4>1. i - 1 \in 1 .. m - 1 /\ i = (i - 1) + 1
        BY <2>2
      <4> QED
        BY <4>1
    <3>2. Twice(new)[i] = Twice(s)[j] /\ Twice(s)[j] \in Int
      BY <1>4, <3>1
    <3>3. F[i] = Cross2(c, s[1]) + Total(Twice(s), j) /\ F[i - 1] = Cross2(c, s[1]) + Total(Twice(s), j - 1)
      BY <3>1
    <3>4. Total(Twice(s), j) = Total(Twice(s), j - 1) + Twice(s)[j] /\ Total(Twice(s), j - 1) \in Int
      <4>1. j - 1 \in 0 .. m - 1
        OBVIOUS
      <4> QED
        BY <1>6, <4>1
    <3> HIDE DEF F
    <3> QED
      BY <1>5, <3>2, <3>3, <3>4
  <2> QED
    BY <2>1, <2>2
<1>8. F[0] = 0 /\ F[m] = Cross2(c, s[1]) + Total(Twice(s), m - 1)
  BY <1>1
<1>9. Total(Twice(new), m) = F[m]
  <2> HIDE DEF F
  <2> QED
    BY <1>7, <1>8, TotalIs
<1>10. PathArea(new) = Total(Twice(new), m) /\ PathArea(s) = Total(Twice(s), m - 1)
  BY <1>1, <1>2 DEF PathArea
<1> HIDE DEF F
<1> QED
  BY <1>1, <1>2, <1>3, <1>6, <1>8, <1>9, <1>10
-----------------------------------------------------------------------------
\* The line in which a plane meets a panel, and one edge of a ring at it.

\* The lines a plane of space can meet a panel in, none where it passes
\* beside the panel.
Lines == [ab : {<<0, 0>>, <<1, 0>>, <<-1, 0>>, <<0, 1>>, <<0, -1>>}, c : Int]
\* Where a point that is not within is drawn back to.
Foot(line, p) ==
    IF line.ab = <<0, 0>> THEN <<0, 0>> ELSE Sub2(p, Scaled2(Above(line, p), line.ab))
Base(line) ==
    IF line.ab = <<0, 0>> THEN {<<0, 0>>} ELSE {p \in Plane : Above(line, p) = 0}
Clamp(line, p) == IF Above(line, p) >= 0 THEN p ELSE Foot(line, p)

\* A line of the grid, by its coefficients.
LEMMA LineCases ==
    ASSUME NEW line \in Lines
    PROVE  \E c \in Int, a \in Int, b \in Int :
              /\ line.c = c /\ line.ab = <<a, b>>
              /\ \/ a = 0 /\ b = 0
                 \/ a = 0 /\ b \in {1, -1}
                 \/ b = 0 /\ a \in {1, -1}
BY DEF Lines

\* A point is drawn back to the line, one within it stays.
LEMMA FootOnBase ==
    ASSUME NEW line \in Lines, NEW p \in Plane
    PROVE  /\ Above(line, p) \in Int
           /\ Foot(line, p) \in Base(line) /\ Base(line) \subseteq Plane
           /\ Clamp(line, p) \in Plane
           /\ Above(line, p) < 0 => Clamp(line, p) \in Base(line)
<1>1. PICK c \in Int, a \in Int, b \in Int :
          /\ line.c = c /\ line.ab = <<a, b>>
          /\ \/ a = 0 /\ b = 0
             \/ a = 0 /\ b \in {1, -1}
             \/ b = 0 /\ a \in {1, -1}
  BY LineCases
<1>2. PICK x \in Int, y \in Int : p = <<x, y>>
  BY DEF Plane
<1>3. Above(line, p) = a * x + b * y - c
  BY <1>1, <1>2 DEF Above, Dot2
<1>4. Foot(line, p) \in Base(line)
  BY <1>1, <1>2 DEF Foot, Base, Above, Dot2, Sub2, Scaled2, Plane
<1>5. Base(line) \subseteq Plane
  BY DEF Base, Plane
<1> QED
  BY <1>1, <1>3, <1>4, <1>5 DEF Clamp

\* Points of one line enclose with the origin what their ends do.
LEMMA AlongTheBase ==
    ASSUME NEW line \in Lines, NEW p \in Base(line), NEW q \in Base(line), NEW r \in Base(line)
    PROVE  Cross2(p, q) + Cross2(q, r) = Cross2(p, r)
<1>1. PICK c \in Int, a \in Int, b \in Int :
          /\ line.c = c /\ line.ab = <<a, b>>
          /\ \/ a = 0 /\ b = 0
             \/ a = 0 /\ b \in {1, -1}
             \/ b = 0 /\ a \in {1, -1}
  BY LineCases
<1>2. CASE a = 0 /\ b = 0
  BY <1>1, <1>2 DEF Base, Cross2
<1>3. CASE ~ (a = 0 /\ b = 0)
  <2>1. /\ p \in Plane /\ q \in Plane /\ r \in Plane
        /\ Above(line, p) = 0 /\ Above(line, q) = 0 /\ Above(line, r) = 0
    BY <1>1, <1>3 DEF Base
  <2>2. PICK x1 \in Int, y1 \in Int : p = <<x1, y1>>
    BY <2>1 DEF Plane
  <2>3. PICK x2 \in Int, y2 \in Int : q = <<x2, y2>>
    BY <2>1 DEF Plane
  <2>4. PICK x3 \in Int, y3 \in Int : r = <<x3, y3>>
    BY <2>1 DEF Plane
  <2>5. /\ a * x1 + b * y1 = c /\ a * x2 + b * y2 = c /\ a * x3 + b * y3 = c
    BY <1>1, <2>1, <2>2, <2>3, <2>4 DEF Above, Dot2
  <2>6. \/ x1 = x2 /\ x2 = x3 
        \/ y1 = y2 /\ y2 = y3
    <3>1. CASE a = 0 /\ b \in {1, -1}
      BY <2>5, <3>1
    <3>2. CASE b = 0 /\ a \in {1, -1}
      BY <2>5, <3>2
    <3> QED
      BY <1>1, <1>3, <3>1, <3>2
  <2> QED
    BY <2>2, <2>3, <2>4, <2>6 DEF Cross2
<1> QED
  BY <1>2, <1>3

\* An edge that passes the line does so square to it.
LEMMA EdgeMeetsLine ==
    ASSUME NEW line \in Lines, NEW p \in Plane, NEW q \in Plane, AlongAnAxis(<<p, q>>),
           (Above(line, p) >= 0) # (Above(line, q) >= 0)
    PROVE  /\ Meeting(line, <<p, q>>) = Foot(line, p)
           /\ Foot(line, p) = Foot(line, q)
           /\ Above(line, Foot(line, p)) = 0
<1>1. PICK c \in Int, a \in Int, b \in Int :
          /\ line.c = c /\ line.ab = <<a, b>>
          /\ \/ a = 0 /\ b = 0
             \/ a = 0 /\ b \in {1, -1}
             \/ b = 0 /\ a \in {1, -1}
  BY LineCases
<1>2. PICK x \in Int, y \in Int : p = <<x, y>>
  BY DEF Plane
<1>3. PICK u \in Int, v \in Int : q = <<u, v>>
  BY DEF Plane
<1>4. Above(line, p) = a * x + b * y - c /\ Above(line, q) = a * u + b * v - c
  BY <1>1, <1>2, <1>3 DEF Above, Dot2
<1>5. x = u \/ y = v
  BY <1>2, <1>3 DEF AlongAnAxis
<1>6. ~ (a = 0 /\ b = 0)
  BY <1>4
<1>7. Foot(line, p) = <<x - (a * x + b * y - c) * a, y - (a * x + b * y - c) * b>>
  BY <1>1, <1>2, <1>4, <1>6 DEF Foot, Sub2, Scaled2
<1>8. Foot(line, q) = <<u - (a * u + b * v - c) * a, v - (a * u + b * v - c) * b>>
  BY <1>1, <1>3, <1>4, <1>6 DEF Foot, Sub2, Scaled2
<1>9. Meeting(line, <<p, q>>)
        = <<x + Quotient((u - x) * (a * x + b * y - c), (a * x + b * y - c) - (a * u + b * v - c)),
            y + Quotient((v - y) * (a * x + b * y - c), (a * x + b * y - c) - (a * u + b * v - c))>>
  BY <1>2, <1>3, <1>4 DEF Meeting
<1>10. \A b0 \in Int : b0 # 0 => Quotient(0, b0) = 0
  <2> TAKE b0 \in Int
  <2> HAVE b0 # 0
  <2>1. Quotient(0 * b0, b0) = 0
    BY QuotientIs
  <2> QED
    BY <2>1
<1>11. CASE a = 0 /\ b \in {1, -1}
  <2>1. x = u /\ y # v
    BY <1>4, <1>5, <1>11
  <2>2. PICK k \in Int, d \in Int : k = -b * (b * y - c) /\ d = b * y - b * v /\ d # 0
    BY <2>1, <1>11
  <2>3. /\ (a * x + b * y - c) - (a * u + b * v - c) = d
        /\ (u - x) * (a * x + b * y - c) = 0
        /\ (v - y) * (a * x + b * y - c) = k * d
    BY <1>11, <2>1, <2>2
  <2>4. Quotient(k * d, d) = k
    BY <2>2, QuotientIs
  <2>5. Meeting(line, <<p, q>>) = <<x, y + k>>
    BY <1>9, <1>10, <2>2, <2>3, <2>4
  <2>6. Foot(line, p) = <<x, y + k>> /\ Foot(line, q) = <<x, y + k>>
    BY <1>7, <1>8, <1>11, <2>1, <2>2
  <2>7. Above(line, <<x, y + k>>) = 0
    BY <1>1, <1>11, <2>2 DEF Above, Dot2
  <2> QED
    BY <2>5, <2>6, <2>7
<1>12. CASE b = 0 /\ a \in {1, -1}
  <2>1. y = v /\ x # u
    BY <1>4, <1>5, <1>12
  <2>2. PICK k \in Int, d \in Int : k = -a * (a * x - c) /\ d = a * x - a * u /\ d # 0
    BY <2>1, <1>12
  <2>3. /\ (a * x + b * y - c) - (a * u + b * v - c) = d
        /\ (v - y) * (a * x + b * y - c) = 0
        /\ (u - x) * (a * x + b * y - c) = k * d
    BY <1>12, <2>1, <2>2
  <2>4. Quotient(k * d, d) = k
    BY <2>2, QuotientIs
  <2>5. Meeting(line, <<p, q>>) = <<x + k, y>>
    BY <1>9, <1>10, <2>2, <2>3, <2>4
  <2>6. Foot(line, p) = <<x + k, y>> /\ Foot(line, q) = <<x + k, y>>
    BY <1>7, <1>8, <1>12, <2>1, <2>2
  <2>7. Above(line, <<x + k, y>>) = 0
    BY <1>1, <1>12, <2>2 DEF Above, Dot2
  <2> QED
    BY <2>5, <2>6, <2>7
<1> QED
  BY <1>1, <1>6, <1>11, <1>12

\* The corners that an edge gives, and what they add to a chain that ends
\* where the ones before it left off.
LEMMA CornersOf ==
    ASSUME NEW line \in Lines, NEW p \in Plane, NEW q \in Plane, AlongAnAxis(<<p, q>>)
    PROVE  /\ Above(line, p) >= 0 /\ Above(line, q) >= 0
                => Corners(line, <<p, q>>) = <<Clamp(line, p)>>
           /\ Above(line, p) >= 0 /\ Above(line, q) < 0
                => /\ Corners(line, <<p, q>>) = <<Clamp(line, p)>> \o <<Clamp(line, q)>>
                   /\ Above(line, Clamp(line, q)) = 0
           /\ Above(line, p) < 0 /\ Above(line, q) >= 0
                => Corners(line, <<p, q>>) = <<Clamp(line, p)>> /\ Above(line, Clamp(line, p)) = 0
           /\ Above(line, p) < 0 /\ Above(line, q) < 0 => Corners(line, <<p, q>>) = <<>>
<1>1. Corners(line, <<p, q>>)
        = (IF Above(line, p) >= 0 THEN <<p>> ELSE <<>>)
          \o (IF (Above(line, p) >= 0) # (Above(line, q) >= 0) THEN <<Meeting(line, <<p, q>>)>>
              ELSE <<>>)
  BY DEF Corners
<1>2. (Above(line, p) >= 0) # (Above(line, q) >= 0)
        => /\ Meeting(line, <<p, q>>) = Foot(line, p)
           /\ Foot(line, p) = Foot(line, q) /\ Above(line, Foot(line, p)) = 0
  BY EdgeMeetsLine
<1>3. \A a \in Plane : <<a>> \o <<>> = <<a>> /\ <<>> \o <<a>> = <<a>>
  OBVIOUS
<1>4. Foot(line, p) \in Plane /\ <<>> \o <<>> = <<>>
  BY FootOnBase
<1>5. Above(line, p) \in Int /\ Above(line, q) \in Int
  BY FootOnBase
<1>6. ASSUME Above(line, p) >= 0, Above(line, q) >= 0
      PROVE  Corners(line, <<p, q>>) = <<Clamp(line, p)>>
  BY <1>1, <1>3, <1>5, <1>6 DEF Clamp
<1>7. ASSUME Above(line, p) >= 0, Above(line, q) < 0
      PROVE  /\ Corners(line, <<p, q>>) = <<Clamp(line, p)>> \o <<Clamp(line, q)>>
             /\ Above(line, Clamp(line, q)) = 0
  <2>1. /\ Clamp(line, p) = p /\ Clamp(line, q) = Foot(line, q)
        /\ Above(line, Foot(line, q)) = 0 /\ Meeting(line, <<p, q>>) = Foot(line, q)
        /\ Corners(line, <<p, q>>) = <<p>> \o <<Meeting(line, <<p, q>>)>>
    BY <1>1, <1>2, <1>5, <1>7, SMTT(30) DEF Clamp
  <2> QED
    BY <1>5, <1>7, <2>1, Zenon
<1>8. ASSUME Above(line, p) < 0, Above(line, q) >= 0
      PROVE  Corners(line, <<p, q>>) = <<Clamp(line, p)>> /\ Above(line, Clamp(line, p)) = 0
  BY <1>1, <1>2, <1>3, <1>4, <1>5, <1>8 DEF Clamp
<1>9. ASSUME Above(line, p) < 0, Above(line, q) < 0 PROVE Corners(line, <<p, q>>) = <<>>
  BY <1>1, <1>4, <1>5, <1>9
<1> QED
  BY <1>6, <1>7, <1>8, <1>9
-----------------------------------------------------------------------------
\* The corners that ClipPositive has found after each edge.

\* The chain of the corners found so far, from where the first point of the
\* ring is drawn to: together with the way to p it is sum.
Chain(line, first, out) == <<Clamp(line, first)>> \o out
Final(s) == s[Len(s)]
Reaches(line, first, out, p, sum) ==
    LET chain == Chain(line, first, out)
    IN  /\ out \in Seq(Plane) /\ \A k \in 1 .. Len(out) : Above(line, out[k]) >= 0
        /\ PathArea(chain) + Cross2(Final(chain), Clamp(line, p)) = sum
        /\ Above(line, p) < 0 => Final(chain) \in Base(line)
        /\ Above(line, first) < 0 => out = <<>> \/ out[1] \in Base(line)
        /\ Above(line, first) >= 0 => out = <<>> \/ out[1] = first

\* A corner that is found makes the chain longer by one point.
LEMMA ChainGrows ==
    ASSUME NEW line \in Lines, NEW first \in Plane, NEW out \in Seq(Plane), NEW p \in Plane
    PROVE  LET chain == Chain(line, first, out)
               longer == Chain(line, first, out \o <<p>>)
           IN  /\ chain \in Seq(Plane) /\ Final(chain) \in Plane /\ PathArea(chain) \in Int
               /\ Final(longer) = p
               /\ PathArea(longer) = PathArea(chain) + Cross2(Final(chain), p)
<1>1. PICK c \in Plane : c = Clamp(line, first)
  BY FootOnBase
<1>2. PICK chain \in Seq(Plane) : chain = <<c>> \o out /\ chain # <<>> /\ Len(chain) = Len(out) + 1
  <2>1. <<c>> \o out \in Seq(Plane) /\ Len(<<c>> \o out) = Len(out) + 1 /\ Len(out) \in Nat
    OBVIOUS
  <2>2. <<c>> \o out # <<>>
    BY <2>1
  <2> QED
    BY <2>1, <2>2
<1>3. <<c>> \o (out \o <<p>>) = chain \o <<p>>
  <2>1. <<c>> \in Seq(Plane) /\ <<p>> \in Seq(Plane)
    OBVIOUS
  <2> QED
    BY <1>2, <2>1, ConcatAssociative
<1>4. /\ Len(chain \o <<p>>) = Len(chain) + 1
      /\ (chain \o <<p>>)[Len(chain) + 1] = p
      /\ PathArea(chain) \in Int
      /\ PathArea(chain \o <<p>>) = PathArea(chain) + Cross2(chain[Len(chain)], p)
  BY <1>2, PathGrows
<1>5. chain[Len(chain)] \in Plane
  BY <1>2
<1> QED
  BY <1>1, <1>2, <1>3, <1>4, <1>5 DEF Chain, Final

\* One edge after the other.
LEMMA ReachesOn ==
    ASSUME NEW line \in Lines, NEW first \in Plane, NEW p \in Plane, NEW q \in Plane,
           AlongAnAxis(<<p, q>>), NEW out, NEW sum \in Int, Reaches(line, first, out, p, sum),
           out = <<>> => p = first \/ (Above(line, p) < 0 /\ Above(line, first) < 0)
    PROVE  LET now == out \o Corners(line, <<p, q>>)
           IN  /\ Reaches(line, first, now, q, sum + Cross2(Clamp(line, p), Clamp(line, q)))
               /\ now = <<>> => Above(line, q) < 0 /\ Above(line, first) < 0
<1> DEFINE P == Clamp(line, p)
           Q == Clamp(line, q)
           chain == Chain(line, first, out)
           now == out \o Corners(line, <<p, q>>)
<1>1. P \in Plane /\ Q \in Plane /\ out \in Seq(Plane)
  BY FootOnBase DEF Reaches
<1>2. /\ chain \in Seq(Plane) /\ Final(chain) \in Plane /\ PathArea(chain) \in Int
      /\ Final(Chain(line, first, out \o <<P>>)) = P
      /\ PathArea(Chain(line, first, out \o <<P>>)) = PathArea(chain) + Cross2(Final(chain), P)
  BY <1>1, ChainGrows
<1>3. PathArea(chain) + Cross2(Final(chain), P) = sum
  BY DEF Reaches
<1>4. Above(line, p) \in Int /\ Above(line, q) \in Int
  BY FootOnBase
<1>5. Above(line, p) >= 0 => P = p
  BY DEF Clamp
<1>6. /\ \A k \in 1 .. Len(out) : Above(line, out[k]) >= 0
      /\ Above(line, first) < 0 => out = <<>> \/ out[1] \in Base(line)
      /\ Above(line, first) >= 0 => out = <<>> \/ out[1] = first
  BY DEF Reaches
<1>7. ASSUME NEW r \in Plane, NEW s \in Seq(Plane), \A k \in 1 .. Len(s) : Above(line, s[k]) >= 0,
             Above(line, r) >= 0
      PROVE  /\ s \o <<r>> \in Seq(Plane) /\ s \o <<r>> # <<>>
             /\ \A k \in 1 .. Len(s \o <<r>>) : Above(line, (s \o <<r>>)[k]) >= 0
             /\ s # <<>> => (s \o <<r>>)[1] = s[1]
             /\ s = <<>> => (s \o <<r>>)[1] = r
  <2>1. /\ s \o <<r>> \in Seq(Plane) /\ Len(s \o <<r>>) = Len(s) + 1 /\ Len(s) \in Nat
        /\ (s \o <<r>>)[Len(s) + 1] = r /\ \A i \in 1 .. Len(s) : (s \o <<r>>)[i] = s[i]
    <3>1. s = <<>> => s \o <<r>> = <<r>>
      OBVIOUS
    <3>2. s # <<>> => s \o <<r>> \in Seq(Plane) /\ Len(s \o <<r>>) = Len(s) + 1
                      /\ (s \o <<r>>)[Len(s) + 1] = r /\ \A i \in 1 .. Len(s) : (s \o <<r>>)[i] = s[i]
      BY PathGrows
    <3> QED
      BY <3>1, <3>2
  <2> QED
    BY <1>7, <2>1
<1>8. Cross2(P, Q) \in Int /\ Cross2(Q, Q) = 0 /\ Cross2(Final(chain), P) \in Int
  BY <1>1, <1>2, Crosses
<1>9. /\ Above(line, p) >= 0 /\ Above(line, q) >= 0 => Corners(line, <<p, q>>) = <<P>>
      /\ Above(line, p) >= 0 /\ Above(line, q) < 0 => Corners(line, <<p, q>>) = <<P>> \o <<Q>>
      /\ Above(line, p) >= 0 /\ Above(line, q) < 0 => Above(line, Q) = 0
      /\ Above(line, p) < 0 /\ Above(line, q) >= 0 => Corners(line, <<p, q>>) = <<P>>
      /\ Above(line, p) < 0 /\ Above(line, q) >= 0 => Above(line, P) = 0
      /\ Above(line, p) < 0 /\ Above(line, q) < 0 => Corners(line, <<p, q>>) = <<>>
  BY CornersOf
<1>10. (Above(line, p) < 0 => P \in Base(line)) /\ (Above(line, q) < 0 => Q \in Base(line))
  BY FootOnBase
<1>12. Above(line, p) < 0 => Final(chain) \in Base(line)
  BY DEF Reaches
<1>17. SUFFICES
          /\ now \in Seq(Plane) /\ \A k \in 1 .. Len(now) : Above(line, now[k]) >= 0
          /\ PathArea(Chain(line, first, now)) + Cross2(Final(Chain(line, first, now)), Q)
               = sum + Cross2(P, Q)
          /\ Above(line, q) < 0 => Final(Chain(line, first, now)) \in Base(line)
          /\ Above(line, first) < 0 => now = <<>> \/ now[1] \in Base(line)
          /\ Above(line, first) >= 0 => now = <<>> \/ now[1] = first
          /\ now = <<>> => Above(line, q) < 0 /\ Above(line, first) < 0
  BY DEF Reaches
<1>18. Above(line, first) \in Int
  BY FootOnBase
<1> HIDE DEF P, Q, chain, now
<1>13. CASE Above(line, p) >= 0 /\ Above(line, q) >= 0
  <2>1. now = out \o <<P>>
    BY <1>13, <1>9 DEF now
  <2>2. /\ now \in Seq(Plane) /\ now # <<>> /\ \A k \in 1 .. Len(now) : Above(line, now[k]) >= 0
        /\ out # <<>> => now[1] = out[1]
        /\ out = <<>> => now[1] = P
    BY <1>1, <1>5, <1>6, <1>7, <1>13, <2>1
  <2>3. out = <<>> => Above(line, first) >= 0 /\ P = first
    BY <1>4, <1>5, <1>13
  <2>4. PathArea(Chain(line, first, now)) + Cross2(Final(Chain(line, first, now)), Q)
          = sum + Cross2(P, Q)
    BY <1>2, <1>3, <1>8, <2>1
  <2> QED
    BY <1>4, <1>6, <1>13, <1>18, <2>2, <2>3, <2>4
<1>14. CASE Above(line, p) >= 0 /\ Above(line, q) < 0
  <2>1. now = (out \o <<P>>) \o <<Q>>
    <3>1. now = out \o (<<P>> \o <<Q>>)
      BY <1>14, <1>9 DEF now
    <3>2. <<P>> \in Seq(Plane) /\ <<Q>> \in Seq(Plane)
      BY <1>1
    <3> QED
      BY <1>1, <3>1, <3>2, ConcatAssociative
  <2> DEFINE mid == out \o <<P>>
  <2>2. /\ mid \in Seq(Plane) /\ mid # <<>> /\ \A k \in 1 .. Len(mid) : Above(line, mid[k]) >= 0
        /\ out # <<>> => mid[1] = out[1]
        /\ out = <<>> => mid[1] = P
    BY <1>1, <1>5, <1>6, <1>7, <1>14
  <2>3. Above(line, Q) >= 0
    BY <1>9, <1>14
  <2> HIDE DEF mid
  <2>4. /\ now \in Seq(Plane) /\ now # <<>> /\ \A k \in 1 .. Len(now) : Above(line, now[k]) >= 0
        /\ out # <<>> => now[1] = out[1]
        /\ out = <<>> => now[1] = P
    BY <1>1, <1>7, <2>1, <2>2, <2>3 DEF mid
  <2>5. out = <<>> => Above(line, first) >= 0 /\ P = first
    BY <1>4, <1>5, <1>14
  <2>6. /\ Final(Chain(line, first, now)) = Q
        /\ PathArea(Chain(line, first, now)) = PathArea(Chain(line, first, mid)) + Cross2(P, Q)
    <3>1. now = mid \o <<Q>>
      BY <2>1 DEF mid
    <3>2. /\ Final(Chain(line, first, mid \o <<Q>>)) = Q
          /\ PathArea(Chain(line, first, mid \o <<Q>>))
               = PathArea(Chain(line, first, mid)) + Cross2(Final(Chain(line, first, mid)), Q)
      BY <1>1, <2>2, ChainGrows
    <3>3. Final(Chain(line, first, mid)) = P
      BY <1>2 DEF mid
    <3> QED
      BY <3>1, <3>2, <3>3
  <2>7. PathArea(Chain(line, first, now)) + Cross2(Final(Chain(line, first, now)), Q)
          = sum + Cross2(P, Q)
    BY <1>2, <1>3, <1>8, <2>6 DEF mid
  <2> QED
    BY <1>4, <1>6, <1>10, <1>14, <1>18, <2>4, <2>5, <2>6, <2>7
<1>15. CASE Above(line, p) < 0 /\ Above(line, q) >= 0
  <2>1. now = out \o <<P>>
    BY <1>4, <1>15, <1>9 DEF now
  <2>2. Above(line, P) >= 0
    BY <1>9, <1>15
  <2>3. /\ now \in Seq(Plane) /\ now # <<>> /\ \A k \in 1 .. Len(now) : Above(line, now[k]) >= 0
        /\ out # <<>> => now[1] = out[1]
        /\ out = <<>> => now[1] = P
    BY <1>1, <1>6, <1>7, <2>1, <2>2
  <2>5. out = <<>> => Above(line, first) < 0
    BY <1>4, <1>15
  <2>4. PathArea(Chain(line, first, now)) + Cross2(Final(Chain(line, first, now)), Q)
          = sum + Cross2(P, Q)
    BY <1>2, <1>3, <1>8, <2>1
  <2> QED
    BY <1>4, <1>6, <1>10, <1>15, <1>18, <2>3, <2>4, <2>5
<1>16. CASE Above(line, p) < 0 /\ Above(line, q) < 0
  <2>1. now = out
    <3>1. Corners(line, <<p, q>>) = <<>>
      BY <1>9, <1>16
    <3> QED
      BY <1>1, <3>1, ConcatEmptySeq DEF now
  <2>2. Cross2(Final(chain), P) + Cross2(P, Q) = Cross2(Final(chain), Q)
    BY <1>10, <1>12, <1>16, AlongTheBase
  <2>3. PathArea(chain) + Cross2(Final(chain), Q) = sum + Cross2(P, Q)
    BY <1>1, <1>2, <1>3, <1>8, <2>2, Crosses
  <2>4. out = <<>> => Above(line, first) < 0
    BY <1>16
  <2> QED
    BY <1>1, <1>6, <1>12, <1>16, <2>1, <2>3, <2>4 DEF chain
<1> QED
  BY <1>4, <1>13, <1>14, <1>15, <1>16

\* What the edges of the ring, drawn back to the line, enclose.
Drawn(line, ring) ==
    [i \in 1 .. Len(ring) |-> Cross2(Clamp(line, ring[i]), Clamp(line, ring[After(i, Len(ring))]))]

\* Clipping keeps what is above the line, and encloses just that.
LEMMA ClipArea ==
    ASSUME NEW line \in Lines, NEW ring \in Seq(Plane), OnAxes(ring), Len(ring) >= 3
    PROVE  /\ ClipPositive(ring, line) \in Seq(Plane)
           /\ \A k \in 1 .. Len(ClipPositive(ring, line)) :
                 Above(line, ClipPositive(ring, line)[k]) >= 0
           /\ DoubleArea(ClipPositive(ring, line)) = Total(Drawn(line, ring), Len(ring))
<1>1. PICK n \in Nat : n = Len(ring) /\ n >= 3
  OBVIOUS
<1>2. ASSUME NEW i \in 1 .. n
      PROVE  /\ ring[i] \in Plane /\ ring[After(i, n)] \in Plane
             /\ Edge(ring, i) = <<ring[i], ring[After(i, n)]>>
             /\ AlongAnAxis(<<ring[i], ring[After(i, n)]>>)
  <2>1. After(i, n) \in 1 .. n
    BY AfterIs
  <2>2. Edge(ring, i) = <<ring[i], ring[After(i, n)]>>
    BY <1>1 DEF Edge
  <2>3. AlongAnAxis(Edge(ring, i))
    BY <1>1 DEF OnAxes
  <2> QED
    BY <1>1, <2>1, <2>2, <2>3
<1> DEFINE corners(i) == Corners(line, Edge(ring, i))
<1>3. ASSUME NEW i \in 1 .. n PROVE corners(i) \in Seq(Plane)
  <2> DEFINE p == ring[i]
             q == ring[After(i, n)]
  <2>1. p \in Plane /\ q \in Plane /\ AlongAnAxis(<<p, q>>) /\ corners(i) = Corners(line, <<p, q>>)
    BY <1>2
  <2>2. Clamp(line, p) \in Plane /\ Clamp(line, q) \in Plane
    BY <2>1, FootOnBase
  <2>3. Above(line, p) \in Int /\ Above(line, q) \in Int
    BY <2>1, FootOnBase
  <2> HIDE DEF p, q, corners
  <2>4. <<>> \in Seq(Plane)
       /\ \A a \in Plane, b \in Plane : <<a>> \in Seq(Plane) /\ <<a>> \o <<b>> \in Seq(Plane)
    OBVIOUS
  <2> QED
    <3>1. /\ Above(line, p) >= 0 /\ Above(line, q) >= 0
                => Corners(line, <<p, q>>) = <<Clamp(line, p)>>
          /\ Above(line, p) >= 0 /\ Above(line, q) < 0
                => Corners(line, <<p, q>>) = <<Clamp(line, p)>> \o <<Clamp(line, q)>>
          /\ Above(line, p) < 0 /\ Above(line, q) >= 0
                => Corners(line, <<p, q>>) = <<Clamp(line, p)>>
          /\ Above(line, p) < 0 /\ Above(line, q) < 0 => Corners(line, <<p, q>>) = <<>>
      BY <2>1, CornersOf
    <3>2. Corners(line, <<p, q>>) \in {<<Clamp(line, p)>>, <<Clamp(line, p)>> \o <<Clamp(line, q)>>, <<>>}
      <4>1. CASE Above(line, p) >= 0 /\ Above(line, q) >= 0
        BY <3>1, <4>1
      <4>2. CASE Above(line, p) >= 0 /\ Above(line, q) < 0
        BY <3>1, <4>2
      <4>3. CASE Above(line, p) < 0 /\ Above(line, q) >= 0
        BY <3>1, <4>3
      <4>4. CASE Above(line, p) < 0 /\ Above(line, q) < 0
        BY <3>1, <4>4
      <4>5. \/ Above(line, p) >= 0 /\ Above(line, q) >= 0
            \/ Above(line, p) >= 0 /\ Above(line, q) < 0
            \/ Above(line, p) < 0 /\ Above(line, q) >= 0
            \/ Above(line, p) < 0 /\ Above(line, q) < 0
        BY <2>3
      <4> QED
        BY <4>1, <4>2, <4>3, <4>4, <4>5, Zenon
    <3> QED
      BY <2>1, <2>2, <2>4, <3>2
<1> DEFINE step == [i \in 1 .. n |-> [s \in Seq(Plane) |-> s \o corners(i)]]
<1>4. step \in [1 .. n -> [Seq(Plane) -> Seq(Plane)]]
  <2> HIDE DEF corners
  <2>1. ASSUME NEW i \in 1 .. n, NEW s \in Seq(Plane) PROVE s \o corners(i) \in Seq(Plane)
    BY <1>3, ConcatProperties
  <2> QED
    BY <2>1
<1>5. \E f : f = [i \in 0 .. n |-> IF i = 0 THEN <<>> ELSE f[i - 1] \o corners(i)]
  <2>1. PICK f \in [0 .. n -> Seq(Plane)] : Grows(f, n, <<>>, step)
    <3>1. <<>> \in Seq(Plane)
      OBVIOUS
    <3> HIDE DEF step
    <3> QED
      BY <1>4, <3>1, StepByStep, Zenon
  <2>2. ASSUME NEW i \in 0 .. n PROVE f[i] = IF i = 0 THEN <<>> ELSE f[i - 1] \o corners(i)
    <3>1. i # 0 => i \in 1 .. n /\ f[i - 1] \in Seq(Plane)
      OBVIOUS
    <3>2. i # 0 => f[i] = step[i][f[i - 1]]
      BY <2>1, <3>1 DEF Grows
    <3>3. f[0] = <<>>
      BY <2>1 DEF Grows
    <3> HIDE DEF corners
    <3> QED
      BY <3>1, <3>2, <3>3
  <2> HIDE DEF corners
  <2>3. f = [i \in 0 .. n |-> IF i = 0 THEN <<>> ELSE f[i - 1] \o corners(i)]
    BY <2>2
  <2> QED
    BY <2>3
<1> DEFINE out == CHOOSE f : f = [i \in 0 .. n |-> IF i = 0 THEN <<>> ELSE f[i - 1] \o corners(i)]
<1>6. out = [i \in 0 .. n |-> IF i = 0 THEN <<>> ELSE out[i - 1] \o corners(i)]
  <2> HIDE DEF corners
  <2> QED
    BY <1>5, Zenon
<1>7. ClipPositive(ring, line) = out[n]
  BY <1>1 DEF ClipPositive
<1> HIDE DEF out
<1>8. out[0] = <<>> /\ \A i \in 1 .. n : out[i] = out[i - 1] \o corners(i)
  <2> HIDE DEF corners
  <2>1. ASSUME NEW i \in 0 .. n PROVE out[i] = IF i = 0 THEN <<>> ELSE out[i - 1] \o corners(i)
    BY <1>6
  <2>2. ASSUME NEW i \in 1 .. n PROVE out[i] = out[i - 1] \o corners(i)
    <3>1. i \in 0 .. n /\ i # 0
      OBVIOUS
    <3> QED
      BY <2>1, <3>1
  <2>3. out[0] = <<>>
    <3>1. 0 \in 0 .. n
      BY <1>1
    <3> QED
      BY <2>1, <3>1
  <2> QED
    BY <2>2, <2>3
<1> DEFINE drawn == Drawn(line, ring)
           at(i) == ring[After(i, n)]
           Good(i) == /\ Reaches(line, ring[1], out[i], at(i), Total(drawn, i))
                      /\ out[i] = <<>> => \/ i = 0
                                          \/ (Above(line, at(i)) < 0 /\ Above(line, ring[1]) < 0)
           S == {i \in 0 .. n : Good(i)}
<1>9. \A i \in 1 .. n : drawn[i] \in Int
  BY <1>1, <1>2, FootOnBase, Crosses DEF Drawn
<1>10. at(0) = ring[1] /\ ring[1] \in Plane
  BY <1>1 DEF After
<1>11. 0 \in S
  <2>1. Clamp(line, ring[1]) \in Plane
    BY <1>10, FootOnBase
  <2>2. Chain(line, ring[1], <<>>) = <<Clamp(line, ring[1])>>
    BY <2>1 DEF Chain
  <2>3. Final(<<Clamp(line, ring[1])>>) = Clamp(line, ring[1])
    BY DEF Final
  <2>4. PathArea(<<Clamp(line, ring[1])>>) = 0
    BY <2>1, PathOfOne
  <2>5. Total(drawn, 0) = 0
    BY <1>1, <1>9, TotalSteps
  <2> HIDE DEF at, drawn
  <2>6. Reaches(line, ring[1], <<>>, ring[1], 0)
    <3>1. <<>> \in Seq(Plane) /\ \A k \in 1 .. Len(<<>>) : Above(line, <<>>[k]) >= 0
      OBVIOUS
    <3>2. Above(line, ring[1]) < 0 => Clamp(line, ring[1]) \in Base(line)
      BY <1>10, FootOnBase
    <3>3. Cross2(Clamp(line, ring[1]), Clamp(line, ring[1])) = 0
      BY <2>1, Crosses
    <3> QED
      BY <2>2, <2>3, <2>4, <3>1, <3>2, <3>3 DEF Reaches
  <2> QED
    BY <1>1, <1>8, <1>10, <2>5, <2>6
<1>12. ASSUME NEW i \in 0 .. n - 1, i \in S PROVE i + 1 \in S
  <2>1. PICK j \in 1 .. n : j = i + 1
    OBVIOUS
  <2> DEFINE p == ring[j]
             q == ring[After(j, n)]
  <2>2. at(i) = p /\ at(j) = q
    <3>1. After(i, n) = j
      <4>1. i % n = i
        BY <1>1
      <4> QED
        BY <2>1, <4>1 DEF After
    <3> QED
      BY <3>1
  <2>3. p \in Plane /\ q \in Plane /\ AlongAnAxis(<<p, q>>) /\ corners(j) = Corners(line, <<p, q>>)
    BY <1>2
  <2>4. Total(drawn, j) = Total(drawn, i) + drawn[j] /\ Total(drawn, i) \in Int
    BY <1>1, <1>9, <2>1, TotalSteps, SMTT(30)
  <2>5. drawn[j] = Cross2(Clamp(line, p), Clamp(line, q))
    BY <1>1 DEF Drawn
  <2>6. out[j] = out[i] \o Corners(line, <<p, q>>)
    <3>1. out[j] = out[j - 1] \o corners(j) /\ j - 1 = i
      <4>1. j - 1 = i
        BY <2>1
      <4> HIDE DEF corners
      <4>2. out[j] = out[j - 1] \o corners(j)
        BY <1>8, Zenon
      <4> QED
        BY <4>1, <4>2
    <3> QED
      BY <2>3, <3>1
  <2>7. i = 0 => p = ring[1]
    BY <2>1
  <2> HIDE DEF at, drawn, p, q, corners
  <2>8. /\ Reaches(line, ring[1], out[i], p, Total(drawn, i))
        /\ out[i] = <<>> => p = ring[1] \/ (Above(line, p) < 0 /\ Above(line, ring[1]) < 0)
    BY <1>12, <2>2, <2>7
  <2>9. /\ Reaches(line, ring[1], out[j], q, Total(drawn, j))
        /\ out[j] = <<>> => Above(line, q) < 0 /\ Above(line, ring[1]) < 0
    BY <1>10, <2>3, <2>4, <2>5, <2>6, <2>8, ReachesOn
  <2>10. j \in S
    BY <2>2, <2>9
  <2> QED
    BY <2>1, <2>10
<1>13. Good(n)
  <2> HIDE DEF Good
  <2>1. \A i \in 0 .. n : i \in S
    <3> HIDE DEF S
    <3> QED
      BY <1>11, <1>12, Upward, Zenon
  <2> QED
    BY <2>1
<1> DEFINE clip == out[n]
           first == ring[1]
           C == Clamp(line, first)
           chain == Chain(line, first, clip)
<1>14. at(n) = first
  BY <1>1, AfterIs
<1>15. /\ clip \in Seq(Plane) /\ \A k \in 1 .. Len(clip) : Above(line, clip[k]) >= 0
       /\ PathArea(chain) + Cross2(Final(chain), C) = Total(drawn, n)
       /\ Above(line, first) < 0 => Final(chain) \in Base(line)
       /\ Above(line, first) < 0 => clip = <<>> \/ clip[1] \in Base(line)
       /\ Above(line, first) >= 0 => clip = <<>> \/ clip[1] = first
  BY <1>1, <1>13, <1>14 DEF Reaches
<1>16. C \in Plane /\ first \in Plane /\ Above(line, first) \in Int
  BY <1>10, FootOnBase
<1> HIDE DEF C, first, chain, drawn, at, Good, S, step, corners
<1>17. DoubleArea(clip) = Total(drawn, n)
  <2>1. CASE clip = <<>>
    <3>1. chain = <<C>>
      BY <1>16, <2>1 DEF Chain, C, chain
    <3>2. PathArea(chain) = 0 /\ Final(chain) = C /\ Cross2(C, C) = 0
      BY <1>16, <3>1, PathOfOne, Crosses DEF Final
    <3>3. DoubleArea(<<>>) = 0
      BY EmptyArea
    <3> QED
      BY <1>15, <2>1, <3>2, <3>3
  <2>2. CASE clip # <<>>
    <3>1. /\ PathArea(chain) = Cross2(C, clip[1]) + PathArea(clip)
          /\ Final(chain) = Final(clip) /\ Final(clip) \in Plane /\ clip[1] \in Plane
          /\ PathArea(clip) \in Int
      BY <1>15, <1>16, <2>2, PathFrom DEF Chain, Final, C, chain
    <3>2. DoubleArea(clip) = PathArea(clip) + Cross2(Final(clip), clip[1])
      BY <1>15, <2>2, ClosedPath DEF Final
    <3>3. Cross2(Final(clip), C) + Cross2(C, clip[1]) = Cross2(Final(clip), clip[1])
      <4>1. CASE Above(line, first) < 0
        <5>1. C \in Base(line) /\ Final(clip) \in Base(line) /\ clip[1] \in Base(line)
          BY <1>15, <1>16, <2>2, <3>1, <4>1, FootOnBase DEF C
        <5> QED
          BY <5>1, AlongTheBase
      <4>2. CASE Above(line, first) >= 0
        <5>1. clip[1] = C
          BY <1>15, <2>2, <4>2 DEF Clamp, C
        <5>2. Cross2(C, C) = 0 /\ Cross2(Final(clip), C) \in Int
          BY <1>16, <3>1, Crosses
        <5> QED
          BY <5>1, <5>2
      <4> QED
        BY <1>16, <4>1, <4>2
    <3> QED
      <4>1. PICK x \in Int, y \in Int, z \in Int :
                x = PathArea(clip) /\ y = Cross2(C, clip[1]) /\ z = Cross2(Final(clip), C)
        BY <1>16, <3>1, Crosses
      <4>2. y + x + z = Total(drawn, n)
        BY <1>15, <3>1, <4>1
      <4>3. DoubleArea(clip) = x + (z + y)
        BY <3>2, <3>3, <4>1
      <4> QED
        BY <4>2, <4>3
  <2> QED
    BY <2>1, <2>2
<1> QED
  BY <1>1, <1>7, <1>15, <1>17 DEF clip, drawn
-----------------------------------------------------------------------------
\* The two sides of a line (split_by_plane.cc).

\* The other side of a line has the same line for its border.
LEMMA NegatedLine ==
    ASSUME NEW line \in Lines
    PROVE  /\ Negated(line) \in Lines
           /\ \A p \in Plane : /\ Above(Negated(line), p) = -Above(line, p)
                               /\ Foot(Negated(line), p) = Foot(line, p)
           /\ Negated(line).ab = <<0, 0>> <=> line.ab = <<0, 0>>
<1>1. PICK c \in Int, a \in Int, b \in Int :
          /\ line.c = c /\ line.ab = <<a, b>>
          /\ \/ a = 0 /\ b = 0
             \/ a = 0 /\ b \in {1, -1}
             \/ b = 0 /\ a \in {1, -1}
  BY LineCases
<1>2. Negated(line) = [ab |-> <<-a, -b>>, c |-> -c]
  BY <1>1 DEF Negated, Scaled2
<1>3. Negated(line) \in Lines
  BY <1>1, <1>2 DEF Lines
<1>4. ASSUME NEW p \in Plane
      PROVE  Above(Negated(line), p) = -Above(line, p) /\ Foot(Negated(line), p) = Foot(line, p)
  <2>1. PICK x \in Int, y \in Int : p = <<x, y>>
    BY DEF Plane
  <2>2. PICK h \in Int : h = a * x + b * y - c
    OBVIOUS
  <2>3. Above(line, p) = h /\ Above(Negated(line), p) = -h
    BY <1>1, <1>2, <2>1, <2>2 DEF Above, Dot2
  <2>4. (-h) * (-a) = h * a /\ (-h) * (-b) = h * b
    OBVIOUS
  <2>5. <<-a, -b>> = <<0, 0>> <=> <<a, b>> = <<0, 0>>
    OBVIOUS
  <2> QED
    BY <1>1, <1>2, <2>1, <2>3, <2>4, <2>5 DEF Foot, Sub2, Scaled2
<1> QED
  BY <1>1, <1>2, <1>3, <1>4

\* The point where an edge passes the line lies on it.
LEMMA FootOnEdge ==
    ASSUME NEW line \in Lines, NEW p \in Plane, NEW q \in Plane, AlongAnAxis(<<p, q>>),
           (Above(line, p) >= 0) # (Above(line, q) >= 0)
    PROVE  Cross2(p, Foot(line, p)) + Cross2(Foot(line, p), q) = Cross2(p, q)
<1>1. PICK c \in Int, a \in Int, b \in Int :
          /\ line.c = c /\ line.ab = <<a, b>>
          /\ \/ a = 0 /\ b = 0
             \/ a = 0 /\ b \in {1, -1}
             \/ b = 0 /\ a \in {1, -1}
  BY LineCases
<1>2. PICK x \in Int, y \in Int : p = <<x, y>>
  BY DEF Plane
<1>3. PICK u \in Int, v \in Int : q = <<u, v>>
  BY DEF Plane
<1>4. Above(line, p) = a * x + b * y - c /\ Above(line, q) = a * u + b * v - c
  BY <1>1, <1>2, <1>3 DEF Above, Dot2
<1>5. x = u \/ y = v
  BY <1>2, <1>3 DEF AlongAnAxis
<1>6. ~ (a = 0 /\ b = 0)
  BY <1>4
<1>7. PICK m \in Int : m = a * x + b * y - c
  OBVIOUS
<1>8. Foot(line, p) = <<x - m * a, y - m * b>>
  BY <1>1, <1>2, <1>4, <1>6, <1>7 DEF Foot, Sub2, Scaled2
<1>9. CASE a = 0 /\ b \in {1, -1}
  <2>1. x = u
    BY <1>4, <1>5, <1>9
  <2>2. PICK w \in Int : w = y - m * b
    BY <1>9
  <2>3. Foot(line, p) = <<x, w>>
    BY <1>8, <1>9, <2>2
  <2>4. (x * w - y * x) + (x * v - w * x) = x * v - y * x
    OBVIOUS
  <2> QED
    BY <1>2, <1>3, <2>1, <2>3, <2>4 DEF Cross2
<1>10. CASE b = 0 /\ a \in {1, -1}
  <2>1. y = v
    BY <1>4, <1>5, <1>10
  <2>2. PICK w \in Int : w = x - m * a
    BY <1>10
  <2>3. Foot(line, p) = <<w, y>>
    BY <1>8, <1>10, <2>2
  <2>4. (x * y - y * w) + (w * y - y * u) = x * y - y * u
    OBVIOUS
  <2> QED
    BY <1>2, <1>3, <2>1, <2>3, <2>4 DEF Cross2
<1> QED
  BY <1>1, <1>6, <1>9, <1>10

\* What an edge encloses, drawn back to either side, is what it encloses and
\* what its ends do on the line.
LEMMA EdgeIsShared ==
    ASSUME NEW line \in Lines, line # [ab |-> <<0, 0>>, c |-> 0],
           NEW p \in Plane, NEW q \in Plane, AlongAnAxis(<<p, q>>)
    PROVE  Cross2(Clamp(line, p), Clamp(line, q))
             + Cross2(Clamp(Negated(line), p), Clamp(Negated(line), q))
           = Cross2(p, q) + Cross2(Foot(line, p), Foot(line, q))
<1> DEFINE P == Foot(line, p)
           Q == Foot(line, q)
           N == Negated(line)
<1>1. /\ Above(N, p) = -Above(line, p) /\ Above(N, q) = -Above(line, q)
      /\ Foot(N, p) = P /\ Foot(N, q) = Q
      /\ Above(line, p) \in Int /\ Above(line, q) \in Int
      /\ P \in Plane /\ Q \in Plane /\ P \in Base(line) /\ Q \in Base(line)
  BY NegatedLine, FootOnBase
<1>2. /\ Cross2(p, q) \in Int /\ Cross2(P, Q) \in Int /\ Cross2(p, p) = 0 /\ Cross2(P, P) = 0
      /\ Cross2(Q, Q) = 0
  BY <1>1, Crosses
<1>3. CASE line.ab = <<0, 0>>
  <2>1. /\ P = <<0, 0>> /\ Q = <<0, 0>>
        /\ Above(line, p) = Above(line, q) /\ Above(line, p) # 0
    <3>1. line.c \in Int /\ line.c # 0
      BY <1>3 DEF Lines
    <3>2. Above(line, p) = -line.c /\ Above(line, q) = -line.c
      BY <1>3, <3>1 DEF Above, Dot2, Plane
    <3> QED
      BY <1>3, <3>1, <3>2 DEF Foot
  <2>2. CASE Above(line, p) > 0
    <3>1. Clamp(line, p) = p /\ Clamp(line, q) = q /\ Clamp(N, p) = P /\ Clamp(N, q) = Q
      BY <1>1, <2>1, <2>2 DEF Clamp
    <3> QED
      BY <3>1
  <2>3. CASE Above(line, p) < 0
    <3>1. Clamp(line, p) = P /\ Clamp(line, q) = Q /\ Clamp(N, p) = p /\ Clamp(N, q) = q
      BY <1>1, <2>1, <2>3 DEF Clamp
    <3> QED
      BY <1>2, <3>1
  <2> QED
    BY <1>1, <2>1, <2>2, <2>3
<1>4. CASE line.ab # <<0, 0>>
  <2>1. /\ Above(line, p) = 0 => P = p
        /\ Above(line, q) = 0 => Q = q
    BY <1>4 DEF Foot, Sub2, Scaled2, Plane, Lines
  <2>2. CASE Above(line, p) >= 0 /\ Above(line, q) >= 0
    <3>1. Clamp(line, p) = p /\ Clamp(line, q) = q /\ Clamp(N, p) = P /\ Clamp(N, q) = Q
      BY <1>1, <2>1, <2>2 DEF Clamp
    <3> QED
      BY <3>1
  <2>3. CASE Above(line, p) < 0 /\ Above(line, q) < 0
    <3>1. Clamp(line, p) = P /\ Clamp(line, q) = Q /\ Clamp(N, p) = p /\ Clamp(N, q) = q
      BY <1>1, <2>3 DEF Clamp
    <3> QED
      BY <1>2, <3>1
  <2>4. CASE (Above(line, p) >= 0) # (Above(line, q) >= 0)
    <3>1. P = Q /\ Above(line, P) = 0
      BY <2>4, EdgeMeetsLine
    <3>2. Cross2(p, P) + Cross2(P, q) = Cross2(p, q)
      BY <2>4, FootOnEdge
    <3>3. CASE Above(line, p) >= 0 /\ Above(line, q) < 0
      <4>1. Clamp(line, p) = p /\ Clamp(line, q) = Q /\ Clamp(N, p) = P /\ Clamp(N, q) = q
        BY <1>1, <2>1, <3>3 DEF Clamp
      <4> QED
        BY <1>2, <3>1, <3>2, <4>1
    <3>4. CASE Above(line, p) < 0 /\ Above(line, q) >= 0
      <4>1. Clamp(line, p) = P /\ Clamp(line, q) = q /\ Clamp(N, p) = p /\ Clamp(N, q) = Q
        BY <1>1, <2>1, <3>4 DEF Clamp
      <4> QED
        BY <1>1, <1>2, <3>1, <3>2, <4>1, Crosses
    <3> QED
      BY <1>1, <2>4, <3>3, <3>4
  <2> QED
    BY <1>1, <2>2, <2>3, <2>4
<1> QED
  BY <1>3, <1>4

\* Fewer than three points enclose no area.
LEMMA SmallRings ==
    ASSUME NEW s \in Seq(Plane), Len(s) < 3
    PROVE  DoubleArea(s) = 0
<1>1. CASE s = <<>>
  BY <1>1, EmptyArea
<1>2. CASE Len(s) = 1
  <2>1. s = <<s[1]>> /\ s[1] \in Plane /\ s # <<>>
    BY <1>2
  <2>2. PathArea(s) = 0
    BY <2>1, PathOfOne
  <2>3. DoubleArea(s) = 0 + Cross2(s[1], s[1])
    BY <1>2, <2>1, <2>2, ClosedPath
  <2> QED
    BY <2>1, <2>3, Crosses
<1>3. CASE Len(s) = 2
  <2>1. PICK p \in Plane, q \in Plane : p = s[1] /\ q = s[2]
    BY <1>3
  <2>2. s = <<p>> \o <<q>> /\ s # <<>>
    BY <1>3, <2>1
  <2>3. <<p>> \in Seq(Plane) /\ <<p>> # <<>> /\ Len(<<p>>) = 1 /\ <<p>>[1] = p
    OBVIOUS
  <2>4. PathArea(s) = 0 + Cross2(p, q)
    <3>1. PathArea(<<p>>) = 0
      BY PathOfOne
    <3>2. PathArea(<<p>> \o <<q>>) = PathArea(<<p>>) + Cross2(<<p>>[Len(<<p>>)], q)
      BY <2>3, PathGrows
    <3> QED
      BY <2>2, <2>3, <3>1, <3>2
  <2>5. DoubleArea(s) = PathArea(s) + Cross2(q, p)
    BY <1>3, <2>1, <2>2, ClosedPath
  <2> QED
    BY <2>4, <2>5, Crosses
<1>4. Len(s) = 0 => s = <<>>
  OBVIOUS
<1>5. Len(s) = 0 \/ Len(s) = 1 \/ Len(s) = 2
  <2>1. PICK k \in Nat : k = Len(s) /\ k < 3
    OBVIOUS
  <2> QED
    BY <2>1
<1> QED
  BY <1>1, <1>2, <1>3, <1>4, <1>5, Zenon

\* The area of a ring as a total.
LEMMA AreaIs ==
    ASSUME NEW ring \in Seq(Plane), NEW n \in Nat, n = Len(ring),
           NEW d, \A i \in 1 .. n : d[i] = Cross2(ring[i], ring[After(i, n)])
    PROVE  DoubleArea(ring) = Total(d, n) /\ \A i \in 1 .. n : d[i] \in Int
<1> DEFINE e == [i \in 1 .. n |-> Cross2(ring[i], ring[After(i, n)])]
<1>1. ASSUME NEW i \in 1 .. n PROVE ring[i] \in Plane /\ ring[After(i, n)] \in Plane
  BY AfterIs
<1>2. \A i \in 1 .. n : d[i] \in Int /\ d[i] = e[i]
  BY <1>1, Crosses
<1>3. DoubleArea(ring) = Total(e, n)
  BY DEF DoubleArea
<1> HIDE DEF e
<1> QED
  BY <1>2, <1>3, TotalsEqual

\* Two rings whose edges enclose the same but for what their ends do.
LEMMA SameArea ==
    ASSUME NEW n \in Nat, NEW d, NEW e, NEW G,
           \A i \in 1 .. n : /\ d[i] \in Int /\ e[i] \in Int /\ G[i] \in Int
                             /\ d[i] = e[i] + (G[After(i, n)] - G[i])
    PROVE  Total(d, n) = Total(e, n)
<1> DEFINE f == [i \in 1 .. n |-> G[After(i, n)] - G[i]]
<1>1. \A i \in 1 .. n : f[i] \in Int /\ d[i] = e[i] + f[i]
  BY AfterIs
<1>2. \A i \in 1 .. n : G[i] \in Int /\ f[i] = G[After(i, n)] - G[i]
  OBVIOUS
<1> HIDE DEF f
<1>3. Total(f, n) = 0
  BY <1>2, AroundIsZero
<1>4. Total(d, n) = Total(e, n) + Total(f, n)
  BY <1>1, TotalOfSums
<1>5. Total(e, n) \in Int
  BY TotalSteps
<1> QED
  BY <1>3, <1>4, <1>5

\* A panel's ring as it was cut, and where the flat pattern has it.
LEMMA RingsOfPanel ==
    ASSUME NEW panel, OnTheGrid(panel)
    PROVE  /\ Points(panel.raw) \in Seq(Plane) /\ Len(Points(panel.raw)) = Len(panel.raw)
           /\ Flattened(panel) \in Seq(Plane) /\ Len(Flattened(panel)) = Len(panel.raw)
           /\ \A i \in 1 .. Len(panel.raw) :
                 Flattened(panel)[i] = Add2(Points(panel.raw)[i], panel.shift)
           /\ OnAxes(Flattened(panel))
<1>1. PICK n \in Nat : n = Len(panel.raw)
  BY DEF OnTheGrid
<1>2. ASSUME NEW i \in 1 .. n PROVE panel.raw[i].point \in Plane
  <2>1. PICK T : T = [point : Plane, bend : Int, step : BOOLEAN] /\ panel.raw \in Seq(T)
    BY DEF OnTheGrid
  <2>2. panel.raw[i] \in T
    BY <1>1, <2>1, ElementOfSeq
  <2>3. panel.raw[i] \in [point : Plane, bend : Int, step : BOOLEAN]
    BY <2>1, <2>2
  <2> QED
    BY <2>3
<1>3. panel.shift \in Plane
  BY DEF OnTheGrid
<1>4. \A a \in Plane : Add2(a, panel.shift) \in Plane
  BY <1>3 DEF Add2, Plane
<1> DEFINE R == [i \in 1 .. n |-> panel.raw[i].point]
           F == [i \in 1 .. n |-> Add2(panel.raw[i].point, panel.shift)]
<1>5. R \in Seq(Plane) /\ F \in Seq(Plane) /\ Len(R) = n /\ Len(F) = n
  BY <1>2, <1>4
<1>6. Points(panel.raw) = R \o <<>> /\ Flattened(panel) = F \o <<>>
  BY <1>1 DEF Points, Flattened, Made
<1>7. Points(panel.raw) = R /\ Flattened(panel) = F
  <2> HIDE DEF R, F
  <2> QED
    BY <1>5, <1>6, ConcatEmptySeq
<1>8. ASSUME NEW i \in 1 .. n PROVE AlongAnAxis(<<F[i], F[After(i, n)]>>)
  <2>1. After(i, n) \in 1 .. n
    BY AfterIs
  <2>2. AlongAnAxis(<<panel.raw[i].point, panel.raw[After(i, n)].point>>)
    BY <1>1 DEF OnTheGrid
  <2>3. PICK a \in Plane, b \in Plane : a = panel.raw[i].point /\ b = panel.raw[After(i, n)].point
    BY <1>2, <2>1
  <2>4. F[i] = Add2(a, panel.shift) /\ F[After(i, n)] = Add2(b, panel.shift)
    BY <2>1, <2>3
  <2>5. AlongAnAxis(<<a, b>>) => AlongAnAxis(<<Add2(a, panel.shift), Add2(b, panel.shift)>>)
    BY <1>3 DEF AlongAnAxis, Add2, Plane
  <2> QED
    BY <2>2, <2>3, <2>4, <2>5
<1>9. OnAxes(F)
  BY <1>5, <1>8 DEF OnAxes, Edge
<1> QED
  BY <1>1, <1>5, <1>7, <1>9

\* The bend allowances before a panel move its region and keep its area.
LEMMA ShiftKeepsArea ==
    ASSUME NEW panel, OnTheGrid(panel)
    PROVE  DoubleArea(Flattened(panel)) = DoubleArea(Points(panel.raw))
<1>1. PICK n \in Nat, R \in Seq(Plane), F \in Seq(Plane) :
          /\ R = Points(panel.raw) /\ F = Flattened(panel) /\ Len(R) = n /\ Len(F) = n
          /\ \A i \in 1 .. n : F[i] = Add2(R[i], panel.shift)
  <2>1. Len(panel.raw) \in Nat
    BY DEF OnTheGrid
  <2> QED
    BY <2>1, RingsOfPanel
<1>2. panel.shift \in Plane
  BY DEF OnTheGrid
<1> DEFINE d == [i \in 1 .. n |-> Cross2(F[i], F[After(i, n)])]
           e == [i \in 1 .. n |-> Cross2(R[i], R[After(i, n)])]
           G == [i \in 1 .. n |-> Cross2(panel.shift, R[i])]
<1>3. ASSUME NEW i \in 1 .. n
      PROVE  /\ d[i] \in Int /\ e[i] \in Int /\ G[i] \in Int
             /\ d[i] = e[i] + (G[After(i, n)] - G[i])
  <2>1. After(i, n) \in 1 .. n
    BY AfterIs
  <2>2. PICK a \in Plane, b \in Plane, s \in Plane :
            a = R[i] /\ b = R[After(i, n)] /\ s = panel.shift
    BY <1>1, <1>2, <2>1
  <2>3. /\ d[i] = Cross2(Add2(a, s), Add2(b, s)) /\ e[i] = Cross2(a, b)
        /\ G[i] = Cross2(s, a) /\ G[After(i, n)] = Cross2(s, b)
    BY <1>1, <2>1, <2>2
  <2>4. /\ Add2(a, s) \in Plane /\ Add2(b, s) \in Plane
        /\ Cross2(Add2(a, s), Add2(b, s)) = Cross2(a, b) + (Cross2(s, b) - Cross2(s, a))
    <3>1. PICK a1 \in Int, a2 \in Int : a = <<a1, a2>>
      BY DEF Plane
    <3>2. PICK b1 \in Int, b2 \in Int : b = <<b1, b2>>
      BY DEF Plane
    <3>3. PICK s1 \in Int, s2 \in Int : s = <<s1, s2>>
      BY DEF Plane
    <3>4. (a1 + s1) * (b2 + s2) - (a2 + s2) * (b1 + s1)
            = (a1 * b2 - a2 * b1) + ((s1 * b2 - s2 * b1) - (s1 * a2 - s2 * a1))
      OBVIOUS
    <3> QED
      BY <3>1, <3>2, <3>3, <3>4 DEF Cross2, Add2, Plane
  <2> HIDE DEF d, e, G
  <2> QED
    BY <2>3, <2>4, Crosses
<1>4. DoubleArea(F) = Total(d, n) /\ DoubleArea(R) = Total(e, n)
  <2>1. /\ \A i \in 1 .. n : d[i] = Cross2(F[i], F[After(i, n)])
        /\ \A i \in 1 .. n : e[i] = Cross2(R[i], R[After(i, n)])
    OBVIOUS
  <2> HIDE DEF d, e
  <2> QED
    BY <1>1, <2>1, AreaIs
<1> HIDE DEF d, e, G
<1>5. Total(d, n) = Total(e, n)
  BY <1>3, SameArea
<1> QED
  BY <1>1, <1>4, <1>5

\* The two sides of a line share out a ring.
LEMMA SidesShare ==
    ASSUME NEW line \in Lines, line # [ab |-> <<0, 0>>, c |-> 0],
           NEW ring \in Seq(Plane), OnAxes(ring), Len(ring) >= 3
    PROVE  DoubleArea(ClipPositive(ring, line)) + DoubleArea(ClipPositive(ring, Negated(line)))
             = DoubleArea(ring)
<1> DEFINE N == Negated(line)
           here == Drawn(line, ring)
           there == Drawn(N, ring)
<1>1. PICK n \in Nat : n = Len(ring) /\ n >= 3
  OBVIOUS
<1>2. N \in Lines
  BY NegatedLine
<1>3. /\ DoubleArea(ClipPositive(ring, line)) = Total(here, n)
      /\ DoubleArea(ClipPositive(ring, N)) = Total(there, n)
  BY <1>1, <1>2, ClipArea
<1>4. PICK O \in Base(line) : O = Foot(line, ring[1])
  BY <1>1, FootOnBase
<1> DEFINE both == [i \in 1 .. n |-> here[i] + there[i]]
           e == [i \in 1 .. n |-> Cross2(ring[i], ring[After(i, n)])]
           G == [i \in 1 .. n |-> Cross2(O, Foot(line, ring[i]))]
<1>5. ASSUME NEW i \in 1 .. n
      PROVE  /\ here[i] \in Int /\ there[i] \in Int /\ e[i] \in Int /\ G[i] \in Int
             /\ both[i] = here[i] + there[i] /\ both[i] \in Int
             /\ both[i] = e[i] + (G[After(i, n)] - G[i])
  <2>1. After(i, n) \in 1 .. n
    BY AfterIs
  <2>2. PICK p \in Plane, q \in Plane : p = ring[i] /\ q = ring[After(i, n)]
    BY <1>1, <2>1
  <2>3. AlongAnAxis(<<p, q>>)
    <3>1. Edge(ring, i) = <<p, q>>
      BY <1>1, <2>2 DEF Edge
    <3> QED
      BY <1>1, <3>1 DEF OnAxes
  <2>4. /\ here[i] = Cross2(Clamp(line, p), Clamp(line, q))
        /\ there[i] = Cross2(Clamp(N, p), Clamp(N, q))
        /\ e[i] = Cross2(p, q)
        /\ G[i] = Cross2(O, Foot(line, p)) /\ G[After(i, n)] = Cross2(O, Foot(line, q))
        /\ both[i] = here[i] + there[i]
    BY <1>1, <2>1, <2>2 DEF Drawn
  <2>5. here[i] + there[i] = Cross2(p, q) + Cross2(Foot(line, p), Foot(line, q))
    BY <2>3, <2>4, EdgeIsShared
  <2>6. /\ Foot(line, p) \in Base(line) /\ Foot(line, q) \in Base(line) /\ Base(line) \subseteq Plane
        /\ Clamp(line, p) \in Plane /\ Clamp(line, q) \in Plane
        /\ Clamp(N, p) \in Plane /\ Clamp(N, q) \in Plane
    BY <1>2, FootOnBase
  <2>7. Cross2(O, Foot(line, p)) + Cross2(Foot(line, p), Foot(line, q)) = Cross2(O, Foot(line, q))
    BY <2>6, AlongTheBase
  <2>8. /\ here[i] \in Int /\ there[i] \in Int /\ e[i] \in Int /\ G[i] \in Int
        /\ G[After(i, n)] \in Int /\ Cross2(Foot(line, p), Foot(line, q)) \in Int
    BY <2>4, <2>6, Crosses
  <2> HIDE DEF both, e, G, here, there
  <2> QED
    BY <2>4, <2>5, <2>7, <2>8
<1>6. DoubleArea(ring) = Total(e, n)
  <2>1. \A i \in 1 .. n : e[i] = Cross2(ring[i], ring[After(i, n)])
    OBVIOUS
  <2> HIDE DEF e
  <2> QED
    BY <1>1, <2>1, AreaIs
<1> HIDE DEF both, e, G, here, there
<1>7. Total(both, n) = Total(here, n) + Total(there, n)
  BY <1>5, TotalOfSums
<1>8. Total(both, n) = Total(e, n)
  BY <1>5, SameArea
<1> QED
  BY <1>3, <1>6, <1>7, <1>8

\* A plane along the axes meets a panel of the grid in a line of the grid, or
\* not at all.
LEMMA LinesOfPanels ==
    ASSUME NEW panel, panel.pose \in Poses, panel.shift \in Plane, NEW n \in Units, NEW d \in Int
    PROVE  LineOn(panel, n, d) \in Lines
<1> DEFINE u == Column(panel.pose, 1)
           v == Column(panel.pose, 2)
<1>1. u \in Units /\ v \in Units /\ Dot3(u, v) = 0
  <2>1. Back(panel.pose) \in Poses
    BY BackIsPose
  <2> QED
    BY <2>1 DEF Back, Poses, Rotations
<1> HIDE DEF u, v
<1>2. <<Dot3(n, u), Dot3(n, v)>> \in {<<0, 0>>, <<1, 0>>, <<-1, 0>>, <<0, 1>>, <<0, -1>>}
  BY <1>1 DEF Units, Dot3
<1>3. PICK a \in Int, b \in Int : a = Dot3(n, u) /\ b = Dot3(n, v)
  BY <1>2
<1>4. d - Dot3(n, panel.pose.t) + Dot2(<<a, b>>, panel.shift) \in Int
  <2>1. panel.pose.t \in Space /\ n \in Space
    BY PoseParts, UnitsInSpace
  <2>2. Dot3(n, panel.pose.t) \in Int
    BY <2>1, VectorSums
  <2>3. Dot2(<<a, b>>, panel.shift) \in Int
    BY DEF Dot2, Plane
  <2> QED
    BY <2>2, <2>3
<1>5. LineOn(panel, n, d)
        = [ab |-> <<a, b>>, c |-> d - Dot3(n, panel.pose.t) + Dot2(<<a, b>>, panel.shift)]
  BY <1>3 DEF LineOn, u, v
<1> QED
  BY <1>2, <1>3, <1>4, <1>5 DEF Lines

\* Every plane along the axes shares out every panel of the grid that does
\* not lie in it: the areas of the two fragments add up to that of the
\* region, and every corner of a fragment is on the side of the plane that
\* the fragment is reported on (ComputeSplitByPlane, ClipPositive).
THEOREM EveryPlaneSharesOut ==
    ASSUME NEW panel, OnTheGrid(panel), NEW n \in Units, NEW d \in Int
    PROVE  SharesOut(panel, n, d)
<1> DEFINE line == LineOn(panel, n, d)
           N == Negated(line)
           F == Flattened(panel)
           here == Fragment(panel, line)
           there == Fragment(panel, N)
<1>1. SUFFICES ASSUME line # [ab |-> <<0, 0>>, c |-> 0]
               PROVE  /\ DoubleArea(here) + DoubleArea(there) = DoubleArea(Points(panel.raw))
                      /\ \A p \in Range(here) : Dot3(n, PlacedOn(panel, p, 0)) >= d
                      /\ \A p \in Range(there) : Dot3(n, PlacedOn(panel, p, 0)) <= d
  BY DEF SharesOut, Fragments
<1>2. /\ panel.pose \in Poses /\ panel.shift \in Plane
      /\ F \in Seq(Plane) /\ OnAxes(F) /\ line \in Lines /\ N \in Lines
  BY RingsOfPanel, LinesOfPanels, NegatedLine DEF OnTheGrid
<1>3. ASSUME NEW m \in {line, N}
      PROVE  /\ Fragment(panel, m) \in Seq(Plane)
             /\ \A k \in 1 .. Len(Fragment(panel, m)) : Above(m, Fragment(panel, m)[k]) >= 0
             /\ Len(F) >= 3 => DoubleArea(Fragment(panel, m)) = DoubleArea(ClipPositive(F, m))
             /\ Len(F) < 3 => DoubleArea(Fragment(panel, m)) = 0
  <2>1. <<>> \in Seq(Plane) /\ Len(<<>>) = 0
    OBVIOUS
  <2>2. CASE Len(F) >= 3
    <3>1. PICK clip \in Seq(Plane) :
              clip = ClipPositive(F, m) /\ \A k \in 1 .. Len(clip) : Above(m, clip[k]) >= 0
      BY <1>2, <1>3, <2>2, ClipArea
    <3>2. Fragment(panel, m) = IF Len(clip) < 3 THEN <<>> ELSE clip
      BY <3>1 DEF Fragment
    <3>3. CASE Len(clip) < 3
      BY <2>1, <2>2, <3>1, <3>2, <3>3, SmallRings, EmptyArea
    <3>4. CASE Len(clip) >= 3
      BY <2>2, <3>1, <3>2, <3>4
    <3> QED
      BY <3>3, <3>4
  <2>3. CASE Len(F) < 3
    <3>1. ClipPositive(F, m) = <<>>
      BY <2>3 DEF ClipPositive
    <3>2. Fragment(panel, m) = <<>>
      BY <2>1, <3>1 DEF Fragment
    <3> QED
      BY <2>1, <2>3, <3>2, EmptyArea
  <2> QED
    BY <1>2, <2>2, <2>3
<1>4. DoubleArea(here) + DoubleArea(there) = DoubleArea(Points(panel.raw))
  <2>1. DoubleArea(Points(panel.raw)) = DoubleArea(F)
    BY ShiftKeepsArea
  <2>2. CASE Len(F) >= 3
    BY <1>1, <1>2, <1>3, <2>1, <2>2, SidesShare
  <2>3. CASE Len(F) < 3
    BY <1>2, <1>3, <2>1, <2>3, SmallRings
  <2> QED
    BY <1>2, <2>2, <2>3
<1>5. ASSUME NEW p \in Plane
      PROVE  /\ Above(line, p) = Dot3(n, PlacedOn(panel, p, 0)) - d
             /\ Above(N, p) = -Above(line, p)
             /\ Dot3(n, PlacedOn(panel, p, 0)) \in Int
  <2>1. n \in Space
    BY UnitsInSpace
  <2>2. PlacedOn(panel, p, 0) \in Space
    <3>1. At(Sub2(p, panel.shift), 0) \in Space
      BY <1>2 DEF At, Sub2, Plane, Space
    <3> QED
      BY <1>2, <3>1, InSpace DEF PlacedOn
  <2>3. Above(line, p) = Dot3(n, PlacedOn(panel, p, 0)) - d
    <3> HIDE DEF line
    <3>1. line = LineOn(panel, n, d)
      BY DEF line
    <3> QED
      BY <1>2, <2>1, <3>1, PlaneMeetsThePanel
  <2>4. Above(N, p) = -Above(line, p)
    <3> HIDE DEF line
    <3> QED
      BY <1>2, NegatedLine
  <2>5. Dot3(n, PlacedOn(panel, p, 0)) \in Int
    BY <2>1, <2>2, VectorSums
  <2> QED
    BY <2>3, <2>4, <2>5
<1>6. ASSUME NEW p \in Range(here) PROVE Dot3(n, PlacedOn(panel, p, 0)) >= d
  <2>1. PICK k \in 1 .. Len(here) : p = here[k]
    BY <1>3 DEF Range
  <2> QED
    BY <1>3, <1>5, <2>1
<1>7. ASSUME NEW p \in Range(there) PROVE Dot3(n, PlacedOn(panel, p, 0)) <= d
  <2>1. PICK k \in 1 .. Len(there) : p = there[k]
    BY <1>3 DEF Range
  <2> QED
    BY <1>3, <1>5, <2>1
<1> QED
  BY <1>4, <1>6, <1>7

\* So the split by a plane loses nothing of any part whose regions keep to
\* the grid, as RegionsTile says of all parts the tools make.
THEOREM PlanesShareOutTheParts == RegionsTile => PlanesShareOut
<1>1. Planes \subseteq Units \X Int
  BY DEF Planes, Units
<1>2. ASSUME RegionsTile, NEW id \in DOMAIN parts, NEW panel \in Range(parts[id].layout.panels)
      PROVE  OnTheGrid(panel)
  BY <1>2 DEF RegionsTile, Range
<1> QED
  BY <1>1, <1>2, EveryPlaneSharesOut DEF PlanesShareOut
=============================================================================
