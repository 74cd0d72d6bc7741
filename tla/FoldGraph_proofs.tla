-------------------------- MODULE FoldGraph_proofs ---------------------------
(***************************************************************************)
(* The fold tree of every part is an invariant of the graph tools.         *)
(*                                                                         *)
(* The first half is about trees alone: a set V of panels, a set bs of     *)
(* bend ids, the bend rows f and a root r.  The second half shows that the *)
(* rows of each live part form such a tree and that each action maps the   *)
(* trees it touches to trees.  Then the rows are shown to implement the    *)
(* forest of FoldForest, and last, those that are saved (GraphRows) to be  *)
(* those in memory.                                                        *)
(***************************************************************************)
EXTENDS GraphRows, TLAPS

ClosedIn(S, bs, f) == \A b \in bs : f[b].parent \in S => f[b].child \in S

(* The panels at or beneath x.                                             *)
Under(x, V, bs, f) ==
    {y \in V : \A S \in SUBSET V : x \in S /\ ClosedIn(S, bs, f) => y \in S}

Joins(V, bs, f, r) == \A b \in bs : f[b].parent \in V /\ f[b].child \in V \ {r}
OneIn(bs, f) == \A b, c \in bs : f[b].child = f[c].child => b = c
Spans(V, bs, f, r) == \A S \in SUBSET V : r \in S /\ ClosedIn(S, bs, f) => S = V

FoldTree(V, bs, f, r) ==
    /\ r \in V
    /\ Joins(V, bs, f, r)
    /\ OneIn(bs, f)
    /\ Spans(V, bs, f, r)

-----------------------------------------------------------------------------
(* Trees.                                                                  *)

(* The set under x holds x, is closed, and is within every closed set that *)
(* holds x.                                                                *)
LEMMA UnderLeast ==
    ASSUME NEW V, NEW bs, NEW f, NEW x \in V,
           \A b \in bs : f[b].child \in V
    PROVE  /\ Under(x, V, bs, f) \subseteq V
           /\ x \in Under(x, V, bs, f)
           /\ ClosedIn(Under(x, V, bs, f), bs, f)
           /\ \A S \in SUBSET V : x \in S /\ ClosedIn(S, bs, f) => Under(x, V, bs, f) \subseteq S
<1>1. Under(x, V, bs, f) \subseteq V
  BY DEF Under
<1>2. x \in Under(x, V, bs, f)
  BY DEF Under
<1>3. ASSUME NEW b \in bs, f[b].parent \in Under(x, V, bs, f)
      PROVE  f[b].child \in Under(x, V, bs, f)
  BY <1>3 DEF Under, ClosedIn
<1>4. ASSUME NEW S \in SUBSET V, x \in S, ClosedIn(S, bs, f)
      PROVE  Under(x, V, bs, f) \subseteq S
  BY <1>4 DEF Under
<1> QED
  BY <1>1, <1>2, <1>3, <1>4 DEF ClosedIn

(* A panel under x other than x hangs off a panel under x.                 *)
LEMMA UnderFrom ==
    ASSUME NEW V, NEW bs, NEW f, NEW x \in V,
           \A b \in bs : f[b].child \in V,
           NEW w \in Under(x, V, bs, f), w # x
    PROVE  \E b \in bs : f[b].child = w /\ f[b].parent \in Under(x, V, bs, f)
<1> DEFINE U == Under(x, V, bs, f)
<1>1. /\ U \subseteq V
      /\ x \in U
      /\ ClosedIn(U, bs, f)
      /\ \A S \in SUBSET V : x \in S /\ ClosedIn(S, bs, f) => U \subseteq S
  BY UnderLeast
<1> HIDE DEF U
<1>2. SUFFICES ASSUME \A b \in bs : f[b].parent \in U => f[b].child # w
               PROVE  FALSE
  BY DEF U
<1>3. ClosedIn(U \ {w}, bs, f)
  BY <1>1, <1>2 DEF ClosedIn
<1>4. U \ {w} \in SUBSET V /\ x \in U \ {w}
  BY <1>1
<1>5. U \subseteq U \ {w}
  BY <1>1, <1>3, <1>4
<1>6. w \in U
  BY DEF U
<1> QED
  BY <1>5, <1>6

(* The root is under none of its descendants.                              *)
LEMMA RootOnTop ==
    ASSUME NEW V, NEW bs, NEW f, NEW r, FoldTree(V, bs, f, r), NEW b \in bs
    PROVE  r \notin Under(f[b].child, V, bs, f)
<1>1. ClosedIn(V \ {r}, bs, f)
  BY DEF FoldTree, Joins, ClosedIn
<1>2. f[b].child \in V \ {r}
  BY DEF FoldTree, Joins
<1> QED
  BY <1>1, <1>2 DEF Under

(* No bend leads back to a panel above it.                                 *)
LEMMA Acyclic ==
    ASSUME NEW V, NEW bs, NEW f, NEW r, FoldTree(V, bs, f, r), NEW b \in bs
    PROVE  f[b].parent \notin Under(f[b].child, V, bs, f)
<1> DEFINE w == f[b].child
           U == Under(w, V, bs, f)
<1>1. SUFFICES ASSUME f[b].parent \in U
               PROVE  FALSE
  OBVIOUS
<1>2. w \in V /\ \A c \in bs : f[c].child \in V
  BY DEF FoldTree, Joins
<1>3. /\ U \subseteq V
      /\ w \in U
      /\ ClosedIn(U, bs, f)
  BY <1>2, UnderLeast
<1>4. ASSUME NEW c \in bs, f[c].child \in U
      PROVE  f[c].parent \in U
  <2>1. CASE f[c].child = w
    BY <2>1, <1>1 DEF FoldTree, OneIn
  <2>2. CASE f[c].child # w
    <3>1. PICK d \in bs : f[d].child = f[c].child /\ f[d].parent \in U
      BY <2>2, <1>2, <1>4, UnderFrom
    <3> QED
      BY <3>1 DEF FoldTree, OneIn
  <2> QED
    BY <2>1, <2>2
<1>5. ClosedIn(V \ U, bs, f)
  BY <1>2, <1>4 DEF ClosedIn
<1>6. r \in V \ U
  BY RootOnTop DEF FoldTree
<1>7. V \ U = V
  BY <1>5, <1>6 DEF FoldTree, Spans
<1> QED
  BY <1>7, <1>3

(* Rows that agree on both ends of every bend form the same tree.          *)
LEMMA SameEnds ==
    ASSUME NEW V, NEW bs, NEW f, NEW g, NEW r, FoldTree(V, bs, f, r),
           \A b \in bs : g[b].parent = f[b].parent /\ g[b].child = f[b].child
    PROVE  FoldTree(V, bs, g, r)
<1>1. \A S \in SUBSET V : ClosedIn(S, bs, g) <=> ClosedIn(S, bs, f)
  BY DEF ClosedIn
<1>2. Spans(V, bs, g, r)
  BY <1>1 DEF FoldTree, Spans
<1>3. Joins(V, bs, g, r) /\ OneIn(bs, g)
  BY DEF FoldTree, Joins, OneIn
<1> QED
  BY <1>2, <1>3 DEF FoldTree

(* What is under the child of b is under everything the child is under.    *)
LEMMA UnderNested ==
    ASSUME NEW V, NEW bs, NEW f, NEW r, FoldTree(V, bs, f, r), NEW b \in bs, NEW x \in V,
           f[b].parent \in Under(x, V, bs, f)
    PROVE  Under(f[b].child, V, bs, f) \subseteq Under(x, V, bs, f)
<1>1. f[b].child \in V /\ \A c \in bs : f[c].child \in V
  BY DEF FoldTree, Joins
<1>2. /\ Under(x, V, bs, f) \in SUBSET V
      /\ ClosedIn(Under(x, V, bs, f), bs, f)
  BY <1>1, UnderLeast
<1>3. f[b].child \in Under(x, V, bs, f)
  BY <1>2 DEF ClosedIn
<1>4. \A S \in SUBSET V :
         f[b].child \in S /\ ClosedIn(S, bs, f) => Under(f[b].child, V, bs, f) \subseteq S
  BY <1>1, UnderLeast
<1> QED
  BY <1>2, <1>3, <1>4

(* Two bends with one parent have nothing in common beneath them.          *)
LEMMA SiblingsApart ==
    ASSUME NEW V, NEW bs, NEW f, NEW r, FoldTree(V, bs, f, r),
           NEW b \in bs, NEW c \in bs, f[b].parent = f[c].parent, NEW y,
           y \in Under(f[b].child, V, bs, f), y \in Under(f[c].child, V, bs, f)
    PROVE  b = c
<1> DEFINE u == f[b].child
           v == f[c].child
           U == Under(u, V, bs, f)
           W == Under(v, V, bs, f)
<1>1. SUFFICES ASSUME b # c PROVE FALSE
  OBVIOUS
<1>2. u \in V /\ v \in V /\ u # v /\ \A e \in bs : f[e].child \in V
  BY <1>1 DEF FoldTree, Joins, OneIn
<1>3. /\ U \subseteq V /\ u \in U /\ ClosedIn(U, bs, f)
      /\ \A S \in SUBSET V : u \in S /\ ClosedIn(S, bs, f) => U \subseteq S
  BY <1>2, UnderLeast
<1>4. f[b].parent \notin U /\ f[c].parent \notin W
  BY Acyclic
<1>5. u \notin W
  <2>1. SUFFICES ASSUME u \in W PROVE FALSE
    OBVIOUS
  <2>2. PICK e \in bs : f[e].child = u /\ f[e].parent \in W
    BY <2>1, <1>2, UnderFrom
  <2>3. e = b
    BY <2>2 DEF FoldTree, OneIn
  <2> QED
    BY <2>2, <2>3, <1>4
<1>6. ASSUME NEW e \in bs, f[e].parent \in U \ W
      PROVE  f[e].child \in U \ W
  <2>1. f[e].child \in U
    BY <1>3, <1>6 DEF ClosedIn
  <2>2. f[e].child # v
    BY <1>4, <1>6 DEF FoldTree, OneIn
  <2>3. SUFFICES ASSUME f[e].child \in W PROVE FALSE
    BY <2>1
  <2>4. PICK d \in bs : f[d].child = f[e].child /\ f[d].parent \in W
    BY <2>2, <2>3, <1>2, UnderFrom
  <2>5. d = e
    BY <2>4 DEF FoldTree, OneIn
  <2> QED
    BY <2>4, <2>5, <1>6
<1>7. U \subseteq U \ W
  <2>1. ClosedIn(U \ W, bs, f)
    BY <1>6 DEF ClosedIn
  <2>2. U \ W \in SUBSET V /\ u \in U \ W
    BY <1>3, <1>5
  <2> HIDE DEF U, W, u, v
  <2> QED
    BY <2>1, <2>2, <1>3
<1> QED
  BY <1>7

(* RerootAt: turning the bends above y gives the tree rooted at y.         *)
LEMMA Reroot ==
    ASSUME NEW V, NEW bs, NEW f, NEW g, NEW r, FoldTree(V, bs, f, r), NEW y \in V,
           \A b \in bs : y \in Under(f[b].child, V, bs, f)
                            => g[b].parent = f[b].child /\ g[b].child = f[b].parent,
           \A b \in bs : y \notin Under(f[b].child, V, bs, f)
                            => g[b].parent = f[b].parent /\ g[b].child = f[b].child
    PROVE  FoldTree(V, bs, g, y)
<1> DEFINE Up(x) == y \in Under(x, V, bs, f)
<1>0. \A b \in bs : f[b].parent \in V /\ f[b].child \in V
  BY DEF FoldTree, Joins
<1>1. \A x \in V : x \in Under(x, V, bs, f)
  BY <1>0, UnderLeast
<1>2. \A b \in bs : \A x \in V :
         f[b].parent \in Under(x, V, bs, f) /\ Up(f[b].child) => Up(x)
  BY UnderNested
<1>3. \A b \in bs : Up(f[b].child) => Up(f[b].parent)
  BY <1>0, <1>1, <1>2
<1>4. \A b \in bs : Up(f[b].child) => g[b].parent = f[b].child /\ g[b].child = f[b].parent
  OBVIOUS
<1>5. \A b \in bs : ~Up(f[b].child) => g[b].parent = f[b].parent /\ g[b].child = f[b].child
  OBVIOUS
<1>6. \A b, c \in bs : Up(f[b].child) /\ Up(f[c].child) /\ f[b].parent = f[c].parent => b = c
  BY SiblingsApart
<1>7. \A b \in bs : Up(f[b].child) => f[b].parent # y
  BY Acyclic
<1>8. Up(y)
  BY <1>1
<1>a. \A x \in V : \A S \in SUBSET V :
         Up(x) /\ x \in S /\ ClosedIn(S, bs, f) => y \in S
  BY DEF Under
<1>b. Up(r)
  <2>1. \A S \in SUBSET V : r \in S /\ ClosedIn(S, bs, f) => S = V
    BY DEF FoldTree, Spans
  <2> QED
    BY <2>1 DEF Under
<1> HIDE DEF Up
<1>9. Joins(V, bs, g, y)
  <2>1. ASSUME NEW b \in bs, Up(f[b].child)
        PROVE  g[b].parent \in V /\ g[b].child \in V \ {y}
    BY <2>1, <1>0, <1>4, <1>7
  <2>2. ASSUME NEW b \in bs, ~Up(f[b].child)
        PROVE  g[b].parent \in V /\ g[b].child \in V \ {y}
    BY <2>2, <1>0, <1>5, <1>8
  <2> QED
    BY <2>1, <2>2 DEF Joins
<1>10. OneIn(bs, g)
  <2>1. SUFFICES ASSUME NEW b \in bs, NEW c \in bs, g[b].child = g[c].child
                 PROVE  b = c
    BY DEF OneIn
  <2>2. CASE Up(f[b].child) /\ Up(f[c].child)
    BY <2>1, <2>2, <1>4, <1>6
  <2>3. CASE ~Up(f[b].child) /\ ~Up(f[c].child)
    BY <2>1, <2>3, <1>5 DEF FoldTree, OneIn
  <2>4. CASE Up(f[b].child) /\ ~Up(f[c].child)
    BY <2>1, <2>4, <1>3, <1>4, <1>5
  <2>5. CASE ~Up(f[b].child) /\ Up(f[c].child)
    BY <2>1, <2>5, <1>3, <1>4, <1>5
  <2> QED
    BY <2>2, <2>3, <2>4, <2>5
<1>11. Spans(V, bs, g, y)
  <2>1. SUFFICES ASSUME NEW S \in SUBSET V, y \in S, ClosedIn(S, bs, g)
                 PROVE  S = V
    BY DEF Spans
  <2>2. ASSUME NEW w \in V, Up(w)
        PROVE  w \in S
    <3>1. SUFFICES ASSUME w \notin S PROVE FALSE
      OBVIOUS
    <3> DEFINE N == {v \in V : ~(v \in S /\ Up(v))}
    <3>2. ASSUME NEW b \in bs, f[b].parent \in N, f[b].child \notin N
          PROVE  FALSE
      <4>1. f[b].child \in S /\ Up(f[b].child)
        BY <3>2, <1>0
      <4>2. f[b].parent \in S
        BY <4>1, <1>4, <2>1 DEF ClosedIn
      <4> QED
        BY <4>1, <4>2, <3>2, <1>3
    <3>3. ClosedIn(N, bs, f)
      BY <3>2 DEF ClosedIn
    <3>4. y \in N
      BY <3>1, <3>3, <2>2, <1>a
    <3> QED
      BY <3>4, <2>1, <1>8
  <2>3. r \in S
    BY <2>2, <1>b DEF FoldTree
  <2>4. ASSUME NEW b \in bs, f[b].parent \in S
        PROVE  f[b].child \in S
    <3>1. CASE Up(f[b].child)
      BY <3>1, <2>2, <1>0
    <3>2. CASE ~Up(f[b].child)
      BY <3>2, <2>1, <2>4, <1>5 DEF ClosedIn
    <3> QED
      BY <3>1, <3>2
  <2>5. ClosedIn(S, bs, f)
    BY <2>4 DEF ClosedIn
  <2> QED
    BY <2>3, <2>5 DEF FoldTree, Spans
<1> QED
  BY <1>9, <1>10, <1>11 DEF FoldTree

(* Hanging one tree off a panel of another by a bend to its root.          *)
LEMMA Graft ==
    ASSUME NEW V, NEW bs, NEW W, NEW cs, NEW f, NEW r, NEW b,
           FoldTree(V, bs, f, r), FoldTree(W, cs, f, f[b].child),
           f[b].parent \in V, V \cap W = {}
    PROVE  FoldTree(V \cup W, bs \cup cs \cup {b}, f, r)
<1> DEFINE all == bs \cup cs \cup {b}
<1>1. r \in V /\ f[b].child \in W
  BY DEF FoldTree
<1>2. /\ \A c \in bs : f[c].parent \in V /\ f[c].child \in V \ {r}
      /\ \A c \in cs : f[c].parent \in W /\ f[c].child \in W \ {f[b].child}
  BY DEF FoldTree, Joins
<1>3. OneIn(all, f)
  BY <1>1, <1>2 DEF FoldTree, OneIn
<1>4. Joins(V \cup W, all, f, r)
  BY <1>1, <1>2 DEF Joins
<1>5. Spans(V \cup W, all, f, r)
  <2>1. SUFFICES ASSUME NEW S \in SUBSET (V \cup W), r \in S, ClosedIn(S, all, f)
                 PROVE  S = V \cup W
    BY DEF Spans
  <2>2. ClosedIn(S \cap V, bs, f)
    BY <2>1, <1>2 DEF ClosedIn
  <2>3. S \cap V = V
    BY <2>1, <2>2, <1>1 DEF FoldTree, Spans
  <2>4. f[b].child \in S
    BY <2>1, <2>3 DEF ClosedIn
  <2>5. ClosedIn(S \cap W, cs, f)
    BY <2>1, <1>2 DEF ClosedIn
  <2>6. S \cap W = W
    BY <2>4, <2>5, <1>1 DEF FoldTree, Spans
  <2> QED
    BY <2>1, <2>3, <2>6
<1> QED
  BY <1>1, <1>3, <1>4, <1>5 DEF FoldTree

(* A bend is not needed to reach what is under its child.                  *)
LEMMA UnderWithout ==
    ASSUME NEW V, NEW bs, NEW f, NEW r, FoldTree(V, bs, f, r), NEW b \in bs
    PROVE  Under(f[b].child, V, bs \ {b}, f) = Under(f[b].child, V, bs, f)
<1> DEFINE w == f[b].child
           U == Under(w, V, bs, f)
           T == Under(w, V, bs \ {b}, f)
<1>1. w \in V /\ \A c \in bs : f[c].child \in V
  BY DEF FoldTree, Joins
<1>2. /\ U \subseteq V /\ w \in U /\ ClosedIn(U, bs, f)
      /\ \A S \in SUBSET V : w \in S /\ ClosedIn(S, bs, f) => U \subseteq S
  BY <1>1, UnderLeast
<1>3. /\ T \subseteq V /\ w \in T /\ ClosedIn(T, bs \ {b}, f)
      /\ \A S \in SUBSET V : w \in S /\ ClosedIn(S, bs \ {b}, f) => T \subseteq S
  <2>1. \A c \in bs \ {b} : f[c].child \in V
    BY <1>1
  <2> DEFINE ds == bs \ {b}
  <2>2. \A c \in ds : f[c].child \in V
    BY <2>1
  <2> HIDE DEF ds
  <2>3. /\ Under(w, V, ds, f) \subseteq V /\ w \in Under(w, V, ds, f)
        /\ ClosedIn(Under(w, V, ds, f), ds, f)
        /\ \A S \in SUBSET V : w \in S /\ ClosedIn(S, ds, f) => Under(w, V, ds, f) \subseteq S
    BY <1>1, <2>2, UnderLeast
  <2> QED
    BY <2>3 DEF ds
<1>4. f[b].parent \notin U
  BY Acyclic
<1> HIDE DEF w, U, T
<1>5. T \subseteq U
  <2>1. ClosedIn(U, bs \ {b}, f)
    BY <1>2 DEF ClosedIn
  <2> QED
    BY <2>1, <1>2, <1>3
<1>6. U \subseteq T
  <2>1. ClosedIn(T, bs, f)
    BY <1>3, <1>4, <1>5 DEF ClosedIn
  <2> QED
    BY <2>1, <1>2, <1>3
<1>7. T = U
  BY <1>5, <1>6
<1> QED
  BY <1>7 DEF w, U, T

(* Cutting a bend leaves a tree on either side.                            *)
LEMMA Prune ==
    ASSUME NEW V, NEW bs, NEW f, NEW r, FoldTree(V, bs, f, r), NEW b \in bs,
           NEW U, U = Under(f[b].child, V, bs, f),
           NEW low, low = {c \in bs \ {b} : f[c].parent \in U},
           NEW high, high = {c \in bs \ {b} : f[c].parent \notin U}
    PROVE  /\ FoldTree(U, low, f, f[b].child)
           /\ FoldTree(V \ U, high, f, r)
<1> DEFINE w == f[b].child
<1>1. /\ r \in V /\ w \in V
      /\ \A c \in bs : f[c].parent \in V /\ f[c].child \in V \ {r}
      /\ \A c \in bs : f[c].child \in V
  BY DEF FoldTree, Joins
<1>2. /\ U \subseteq V /\ w \in U /\ ClosedIn(U, bs, f)
      /\ \A S \in SUBSET V : w \in S /\ ClosedIn(S, bs, f) => U \subseteq S
  BY <1>1, UnderLeast
<1>3. f[b].parent \notin U /\ r \notin U
  BY Acyclic, RootOnTop
<1>4. \A c \in bs \ {b} : f[c].child # w
  BY DEF FoldTree, OneIn
<1>5. \A c \in bs \ {b} : f[c].child \in U => f[c].parent \in U
  <2>1. SUFFICES ASSUME NEW c \in bs \ {b}, f[c].child \in U
                 PROVE  f[c].parent \in U
    OBVIOUS
  <2>2. PICK d \in bs : f[d].child = f[c].child /\ f[d].parent \in U
    BY <2>1, <1>1, <1>4, UnderFrom
  <2>3. d = c
    BY <2>2 DEF FoldTree, OneIn
  <2> QED
    BY <2>2, <2>3
<1>6. FoldTree(U, low, f, w)
  <2>1. Joins(U, low, f, w)
    BY <1>2, <1>4 DEF Joins, ClosedIn
  <2>2. OneIn(low, f)
    BY DEF FoldTree, OneIn
  <2>3. Spans(U, low, f, w)
    <3>1. SUFFICES ASSUME NEW S \in SUBSET U, w \in S, ClosedIn(S, low, f)
                   PROVE  S = U
      BY DEF Spans
    <3>2. ClosedIn(S, bs, f)
      BY <3>1, <1>3 DEF ClosedIn
    <3> QED
      BY <3>1, <3>2, <1>2
  <2> QED
    BY <2>1, <2>2, <2>3, <1>2 DEF FoldTree
<1>7. FoldTree(V \ U, high, f, r)
  <2>1. Joins(V \ U, high, f, r)
    BY <1>1, <1>5 DEF Joins
  <2>2. OneIn(high, f)
    BY DEF FoldTree, OneIn
  <2>3. Spans(V \ U, high, f, r)
    <3>1. SUFFICES ASSUME NEW S \in SUBSET (V \ U), r \in S, ClosedIn(S, high, f)
                   PROVE  S = V \ U
      BY DEF Spans
    <3>2. ClosedIn(S \cup U, bs, f)
      BY <3>1, <1>2 DEF ClosedIn
    <3>3. S \cup U = V
      BY <3>1, <3>2, <1>2 DEF FoldTree, Spans
    <3> QED
      BY <3>1, <3>3, <1>2
  <2> QED
    BY <2>1, <2>2, <2>3, <1>1, <1>3 DEF FoldTree
<1> QED
  BY <1>6, <1>7

(* Flattening a bend: what hung off its child hangs off its parent.        *)
LEMMA Contract ==
    ASSUME NEW V, NEW bs, NEW f, NEW g, NEW r, FoldTree(V, bs, f, r), NEW b \in bs,
           \A c \in bs \ {b} : g[c].child = f[c].child,
           \A c \in bs \ {b} :
              g[c].parent = IF f[c].parent = f[b].child THEN f[b].parent ELSE f[c].parent
    PROVE  /\ f[b].parent # f[b].child
           /\ FoldTree(V \ {f[b].child}, bs \ {b}, g, r)
<1> DEFINE w == f[b].child
<1>1. /\ r \in V /\ w \in V /\ w # r
      /\ \A c \in bs : f[c].parent \in V /\ f[c].child \in V \ {r}
  BY DEF FoldTree, Joins
<1>2. f[b].parent # w
  <2>1. w \in Under(w, V, bs, f)
    BY <1>1 DEF Under
  <2> QED
    BY <2>1, Acyclic
<1>3. \A c \in bs \ {b} : f[c].child # w
  BY DEF FoldTree, OneIn
<1>4. Joins(V \ {w}, bs \ {b}, g, r)
  BY <1>1, <1>2, <1>3 DEF Joins
<1>5. OneIn(bs \ {b}, g)
  BY DEF FoldTree, OneIn
<1>6. Spans(V \ {w}, bs \ {b}, g, r)
  <2>1. SUFFICES ASSUME NEW S \in SUBSET (V \ {w}), r \in S, ClosedIn(S, bs \ {b}, g)
                 PROVE  S = V \ {w}
    BY DEF Spans
  <2> DEFINE R == IF f[b].parent \in S THEN S \cup {w} ELSE S
  <2>2. ASSUME NEW c \in bs, f[c].parent \in R
        PROVE  f[c].child \in R
    <3>1. CASE c = b
      BY <3>1, <2>2, <1>2
    <3>2. CASE c # b /\ f[c].parent = w
      BY <3>2, <2>1, <2>2 DEF ClosedIn
    <3>3. CASE c # b /\ f[c].parent # w
      BY <3>3, <2>1, <2>2 DEF ClosedIn
    <3> QED
      BY <3>1, <3>2, <3>3
  <2>3. ClosedIn(R, bs, f)
    BY <2>2 DEF ClosedIn
  <2>4. R \in SUBSET V /\ r \in R
    BY <2>1, <1>1
  <2>5. R = V
    BY <2>3, <2>4 DEF FoldTree, Spans
  <2> QED
    BY <2>1, <2>5, <1>1
<1> QED
  BY <1>1, <1>2, <1>4, <1>5, <1>6 DEF FoldTree

(* A single panel is a tree.                                               *)
LEMMA Single ==
    ASSUME NEW x, NEW f
    PROVE  FoldTree({x}, {}, f, x)
BY DEF FoldTree, Joins, OneIn, Spans, ClosedIn

-----------------------------------------------------------------------------
(* The graph.                                                              *)

Trees == \A p \in LiveParts : FoldTree(LivePanels(p), BendsOf(p), bends, parts[p].root)

(* The inductive invariant.  The three rows types say nothing of each      *)
(* other; Trees says what the live parts look like, NothingOnAliases that  *)
(* there is nothing else.                                                  *)
FoldInv == TypeOK /\ Trees /\ NothingOnAliases /\ AliasesResolve /\ HolesOnce

(* The joins that pass the check before saving.                            *)
MergeApart(p, q, x, y, b) ==
    /\ p # q /\ p \in LiveParts /\ q \in LiveParts
    /\ LiveOn(x, p) /\ LiveOn(y, q)
    /\ NewId(b, DOMAIN bends, BendId)
    /\ parts' = [parts EXCEPT ![p].holes = @ \cup parts[q].holes, ![q].mergedInto = p]
    /\ regionPanels' = MovedPanels({z \in DOMAIN regionPanels : regionPanels[z].part = q}, p)
    /\ bends' = MergedBends(p, q, x, y, b)
FuseApart(p, q, x) ==
    /\ p # q /\ p \in LiveParts /\ q \in LiveParts
    /\ Simple(q)
    /\ LiveOn(x, p)
    /\ parts' = [parts EXCEPT ![q].mergedInto = p]
    /\ regionPanels' = [regionPanels EXCEPT ![parts[q].root].mergedInto = x]
    /\ bends' = bends

(* No part in the store is its own alias.                                  *)
LEMMA NoSelfAlias ==
    ASSUME FoldInv, NEW p \in DOMAIN parts
    PROVE  parts[p].mergedInto # p /\ p # None /\ parts[p] \in PartRow
<1>1. p # None /\ parts[p] \in PartRow
  BY IdsAssumption DEF FoldInv, TypeOK, None
<1>2. CASE parts[p].mergedInto # None
  <2>1. {p} \in SUBSET {i \in DOMAIN parts : parts[i].mergedInto # None}
    BY <1>2
  <2> QED
    BY <1>1, <2>1 DEF FoldInv, AliasesResolve, EndsLive
<1> QED
  BY <1>1, <1>2

(* The check refuses a join exactly when it joins a part with itself.      *)
LEMMA MergeCases ==
    ASSUME FoldInv, NEW p \in PartId, NEW q \in PartId, NEW x \in PanelId, NEW y \in PanelId,
           NEW b \in BendId, MergePartsWithBend(p, q, x, y, b)
    PROVE  IF p = q THEN UNCHANGED vars ELSE MergeApart(p, q, x, y, b)
<1> DEFINE pts == [parts EXCEPT ![p].holes = @ \cup parts[q].holes, ![q].mergedInto = p]
<1>1. p \in DOMAIN parts /\ q \in DOMAIN parts
  BY DEF MergePartsWithBend, LiveParts
<1>2. /\ DOMAIN pts = DOMAIN parts /\ pts[q].mergedInto = p
      /\ \A r \in DOMAIN parts \ {q} : pts[r].mergedInto = parts[r].mergedInto
  BY <1>1, NoSelfAlias DEF PartRow
<1>3. (\E r \in DOMAIN pts : pts[r].mergedInto = r) <=> p = q
  BY <1>1, <1>2, NoSelfAlias
<1> HIDE DEF pts
<1>4. IF p = q THEN UNCHANGED vars
      ELSE /\ parts' = pts
           /\ regionPanels' = MovedPanels({z \in DOMAIN regionPanels : regionPanels[z].part = q}, p)
           /\ bends' = MergedBends(p, q, x, y, b)
  BY <1>3 DEF MergePartsWithBend, Saved, pts
<1> QED
  BY <1>4 DEF MergePartsWithBend, MergeApart, pts

LEMMA FuseCases ==
    ASSUME FoldInv, NEW p \in PartId, NEW q \in PartId, NEW x \in PanelId, FuseBodies(p, q, x)
    PROVE  IF p = q THEN UNCHANGED vars ELSE FuseApart(p, q, x)
<1> DEFINE pts == [parts EXCEPT ![q].mergedInto = p]
<1>1. p \in DOMAIN parts /\ q \in DOMAIN parts
  BY DEF FuseBodies, LiveParts
<1>2. /\ DOMAIN pts = DOMAIN parts /\ pts[q].mergedInto = p
      /\ \A r \in DOMAIN parts \ {q} : pts[r].mergedInto = parts[r].mergedInto
  BY <1>1, NoSelfAlias DEF PartRow
<1>3. (\E r \in DOMAIN pts : pts[r].mergedInto = r) <=> p = q
  BY <1>1, <1>2, NoSelfAlias
<1> HIDE DEF pts
<1>4. IF p = q THEN UNCHANGED vars
      ELSE /\ parts' = pts
           /\ regionPanels' = [regionPanels EXCEPT ![parts[q].root].mergedInto = x]
           /\ bends' = bends
  BY <1>3 DEF FuseBodies, Saved, pts
<1> QED
  BY <1>4 DEF FuseBodies, FuseApart, pts

(* Below, over all panels, and Under, over those of one part, agree.       *)
LEMMA BelowIsUnder ==
    ASSUME NEW p, NEW V, V = LivePanels(p), NEW bs, \A b \in bs : bends[b].child \in V,
           NEW x \in V
    PROVE  Below(x, bs) = Under(x, V, bs, bends)
<1>1. V \subseteq DOMAIN regionPanels
  BY DEF LivePanels, AllLivePanels
<1>2. ASSUME NEW y \in Under(x, V, bs, bends)
      PROVE  y \in Below(x, bs)
  <2>1. y \in V /\ \A S \in SUBSET V : x \in S /\ ClosedIn(S, bs, bends) => y \in S
    BY <1>2 DEF Under
  <2>2. ASSUME NEW S \in SUBSET DOMAIN regionPanels, x \in S, Closed(S, bs)
        PROVE  y \in S
    <3>1. ClosedIn(S \cap V, bs, bends)
      BY <2>2 DEF Closed, ClosedIn
    <3> QED
      BY <2>1, <2>2, <3>1
  <2> QED
    BY <1>1, <2>1, <2>2 DEF Below
<1>3. ASSUME NEW y \in Below(x, bs)
      PROVE  y \in Under(x, V, bs, bends)
  <2>1. \A S \in SUBSET DOMAIN regionPanels : x \in S /\ Closed(S, bs) => y \in S
    BY <1>3 DEF Below
  <2>2. Closed(V, bs)
    BY DEF Closed
  <2>3. y \in V
    BY <1>1, <2>1, <2>2
  <2>4. ASSUME NEW S \in SUBSET V, x \in S, ClosedIn(S, bs, bends)
        PROVE  y \in S
    BY <1>1, <2>1, <2>4 DEF Closed, ClosedIn
  <2> QED
    BY <2>3, <2>4 DEF Under
<1> QED
  BY <1>2, <1>3

(* What the invariant says of the rows one step looks at.                  *)
LEMMA Facts ==
    ASSUME FoldInv
    PROVE  /\ \A p \in LiveParts : FoldTree(LivePanels(p), BendsOf(p), bends, parts[p].root)
           /\ \A x \in AllLivePanels : regionPanels[x].part \in LiveParts
           /\ \A b \in DOMAIN bends : bends[b].part \in LiveParts
           /\ \A b \in DOMAIN bends : /\ bends[b].parent \in LivePanels(bends[b].part)
                                      /\ bends[b].child \in LivePanels(bends[b].part)
<1>1. /\ \A p \in LiveParts : FoldTree(LivePanels(p), BendsOf(p), bends, parts[p].root)
      /\ \A x \in AllLivePanels : regionPanels[x].part \in LiveParts
      /\ \A b \in DOMAIN bends : bends[b].part \in LiveParts
  BY DEF FoldInv, Trees, NothingOnAliases
<1>2. \A b \in DOMAIN bends : b \in BendsOf(bends[b].part)
  BY DEF BendsOf
<1>3. \A b \in DOMAIN bends : /\ bends[b].parent \in LivePanels(bends[b].part)
                              /\ bends[b].child \in LivePanels(bends[b].part)
  BY <1>1, <1>2 DEF FoldTree, Joins
<1> QED
  BY <1>1, <1>3

LEMMA Inited == Init => FoldInv
<1> SUFFICES ASSUME Init PROVE FoldInv
  OBVIOUS
<1>1. DOMAIN parts = {} /\ DOMAIN regionPanels = {} /\ DOMAIN bends = {}
  BY DEF Init
<1>2. TypeOK
  BY <1>1 DEF TypeOK
<1>3. Trees /\ HolesOnce
  BY <1>1 DEF Trees, HolesOnce, LiveParts
<1>4. NothingOnAliases
  BY <1>1 DEF NothingOnAliases, AllLivePanels
<1>5. AliasesResolve
  BY <1>1 DEF AliasesResolve, EndsLive
<1> QED
  BY <1>2, <1>3, <1>4, <1>5 DEF FoldInv

(* A new row that is no alias leads nowhere.                               *)
LEMMA AddedEndsLive ==
    ASSUME NEW f, EndsLive(f), NEW k, k \notin DOMAIN f, NEW row, row.mergedInto = None
    PROVE  EndsLive(Added(f, k, row))
<1> DEFINE g == Added(f, k, row)
<1>1. /\ DOMAIN g = DOMAIN f \cup {k}
      /\ \A i \in DOMAIN f : g[i] = f[i]
      /\ g[k] = row
  BY DEF Added
<1> HIDE DEF g
<1>2. {i \in DOMAIN g : g[i].mergedInto # None} = {i \in DOMAIN f : f[i].mergedInto # None}
  BY <1>1
<1>3. ASSUME NEW S \in SUBSET {i \in DOMAIN g : g[i].mergedInto # None}, S # {}
      PROVE  \E i \in S : g[i].mergedInto \in DOMAIN g \ S
  <2>1. PICK i \in S : f[i].mergedInto \in DOMAIN f \ S
    BY <1>2, <1>3 DEF EndsLive
  <2> QED
    BY <1>1, <1>2, <1>3, <2>1
<1>4. EndsLive(g)
  BY <1>3 DEF EndsLive
<1> QED
  BY <1>4 DEF g

(* Aliasing a live row to another live row keeps all chains ending.        *)
LEMMA AliasedEndsLive ==
    ASSUME NEW f, EndsLive(f), NEW g, DOMAIN g = DOMAIN f, NEW k \in DOMAIN f,
           NEW t \in DOMAIN f, t # k, t # None, f[k].mergedInto = None,
           f[t].mergedInto = None, g[k].mergedInto = t,
           \A i \in DOMAIN f \ {k} : g[i].mergedInto = f[i].mergedInto
    PROVE  EndsLive(g)
<1>1. ASSUME NEW S \in SUBSET {i \in DOMAIN g : g[i].mergedInto # None}, S # {}
      PROVE  \E i \in S : g[i].mergedInto \in DOMAIN g \ S
  <2>1. t \notin S
    BY <1>1
  <2>2. CASE k \in S
    BY <2>1, <2>2
  <2>3. CASE k \notin S
    <3>1. S \in SUBSET {i \in DOMAIN f : f[i].mergedInto # None}
      BY <1>1, <2>3
    <3>2. PICK i \in S : f[i].mergedInto \in DOMAIN f \ S
      BY <1>1, <3>1 DEF EndsLive
    <3> QED
      BY <1>1, <2>3, <3>2
  <2> QED
    BY <2>2, <2>3
<1> QED
  BY <1>1 DEF EndsLive

(* Rows with the same aliases end alike.                                   *)
LEMMA SameEndsLive ==
    ASSUME NEW f, EndsLive(f), NEW g, DOMAIN g = DOMAIN f,
           \A i \in DOMAIN f : g[i].mergedInto = f[i].mergedInto
    PROVE  EndsLive(g)
BY DEF EndsLive

-----------------------------------------------------------------------------
(* One lemma per action: it maps the invariant to the invariant.           *)

LEMMA CreatePartKeeps ==
    ASSUME FoldInv, NEW p \in PartId, NEW x \in PanelId, CreatePart(p, x)
    PROVE  FoldInv'
<1> DEFINE row == [root |-> x, holes |-> {}, mergedInto |-> None]
           panel == [part |-> p, mergedInto |-> None]
<1>1. /\ p \notin DOMAIN parts /\ x \notin DOMAIN regionPanels
      /\ parts' = Added(parts, p, row)
      /\ regionPanels' = Added(regionPanels, x, panel)
      /\ bends' = bends
  BY DEF CreatePart, NewId
<1>2. /\ DOMAIN parts' = DOMAIN parts \cup {p}
      /\ \A i \in DOMAIN parts : parts'[i] = parts[i]
      /\ parts'[p] = row
  BY <1>1 DEF Added
<1>3. /\ DOMAIN regionPanels' = DOMAIN regionPanels \cup {x}
      /\ \A i \in DOMAIN regionPanels : regionPanels'[i] = regionPanels[i]
      /\ regionPanels'[x] = panel
  BY <1>1 DEF Added
<1>4. TypeOK
  BY DEF FoldInv
<1>5. TypeOK'
  <2>1. row \in PartRow /\ panel \in PanelRow
    BY DEF PartRow, PanelRow
  <2> HIDE DEF row, panel
  <2> QED
    BY <2>1, <1>1, <1>2, <1>3, <1>4 DEF TypeOK
<1>6. LiveParts' = LiveParts \cup {p}
  BY <1>1, <1>2 DEF LiveParts
<1>7. AllLivePanels' = AllLivePanels \cup {x}
  BY <1>1, <1>3 DEF AllLivePanels, Aliased
<1>8. /\ \A y \in AllLivePanels : regionPanels[y].part \in LiveParts
      /\ \A b \in DOMAIN bends : bends[b].part \in LiveParts
      /\ LiveParts \subseteq DOMAIN parts /\ AllLivePanels \subseteq DOMAIN regionPanels
  BY Facts DEF LiveParts, AllLivePanels
<1>9. NothingOnAliases'
  BY <1>1, <1>3, <1>6, <1>7, <1>8 DEF NothingOnAliases
<1>10. Trees'
  <2>1. ASSUME NEW q \in LiveParts
        PROVE  FoldTree(LivePanels(q), BendsOf(q), bends, parts[q].root)'
    <3>1. LivePanels(q)' = LivePanels(q)
      BY <1>1, <1>3, <1>7, <1>8 DEF LivePanels
    <3>2. BendsOf(q)' = BendsOf(q) /\ parts'[q].root = parts[q].root
      BY <1>1, <1>2, <1>8 DEF BendsOf
    <3> QED
      BY <3>1, <3>2, <1>1, Facts
  <2>2. FoldTree(LivePanels(p), BendsOf(p), bends, parts[p].root)'
    <3>1. LivePanels(p)' = {x}
      BY <1>1, <1>3, <1>7, <1>8 DEF LivePanels
    <3>2. BendsOf(p)' = {}
      BY <1>1, <1>8 DEF BendsOf
    <3>3. parts'[p].root = x
      BY <1>2
    <3> QED
      BY <3>1, <3>2, <3>3, Single
  <2> QED
    BY <2>1, <2>2, <1>6 DEF Trees
<1>11. AliasesResolve'
  <2>1. EndsLive(parts) /\ EndsLive(regionPanels)
    BY DEF FoldInv, AliasesResolve
  <2>2. EndsLive(parts')
    BY <2>1, <1>1, AddedEndsLive
  <2>3. EndsLive(regionPanels')
    BY <2>1, <1>1, AddedEndsLive
  <2> QED
    BY <2>2, <2>3 DEF AliasesResolve
<1>12. HolesOnce'
  <2>1. HolesOnce
    BY DEF FoldInv
  <2>2. \A i \in LiveParts : parts'[i].holes = parts[i].holes
    BY <1>2, <1>8
  <2>3. parts'[p].holes = {}
    BY <1>2
  <2> QED
    BY <2>1, <2>2, <2>3, <1>6 DEF HolesOnce
<1> QED
  BY <1>5, <1>9, <1>10, <1>11, <1>12 DEF FoldInv

LEMMA CreateBendNodeKeeps ==
    ASSUME FoldInv, NEW p \in PartId, NEW x \in PanelId, NEW y \in PanelId, NEW b \in BendId,
           CreateBendNode(p, x, y, b)
    PROVE  FoldInv'
<1> DEFINE panel == [part |-> p, mergedInto |-> None]
           bend == [part |-> p, parent |-> x, child |-> y]
<1>1. /\ y \notin DOMAIN regionPanels /\ b \notin DOMAIN bends
      /\ x \in LivePanels(p)
      /\ parts' = parts
      /\ regionPanels' = Added(regionPanels, y, panel)
      /\ bends' = Added(bends, b, bend)
  BY DEF CreateBendNode, NewId, LiveOn
<1>2. /\ DOMAIN bends' = DOMAIN bends \cup {b}
      /\ \A i \in DOMAIN bends : bends'[i] = bends[i]
      /\ bends'[b] = bend
  BY <1>1 DEF Added
<1>3. /\ DOMAIN regionPanels' = DOMAIN regionPanels \cup {y}
      /\ \A i \in DOMAIN regionPanels : regionPanels'[i] = regionPanels[i]
      /\ regionPanels'[y] = panel
  BY <1>1 DEF Added
<1>4. TypeOK
  BY DEF FoldInv
<1>5. TypeOK'
  <2>1. bend \in BendRow /\ panel \in PanelRow
    BY DEF BendRow, PanelRow
  <2> HIDE DEF bend, panel
  <2> QED
    BY <2>1, <1>1, <1>2, <1>3, <1>4 DEF TypeOK
<1>6. LiveParts' = LiveParts
  BY <1>1 DEF LiveParts
<1>7. AllLivePanels' = AllLivePanels \cup {y}
  BY <1>1, <1>3 DEF AllLivePanels, Aliased
<1>8. /\ \A z \in AllLivePanels : regionPanels[z].part \in LiveParts
      /\ \A c \in DOMAIN bends : bends[c].part \in LiveParts
      /\ AllLivePanels \subseteq DOMAIN regionPanels
  BY Facts DEF AllLivePanels
<1>9. p \in LiveParts
  BY <1>1, <1>8 DEF LivePanels
<1>10. NothingOnAliases'
  BY <1>2, <1>3, <1>6, <1>7, <1>8, <1>9 DEF NothingOnAliases
<1>11. \A q \in LiveParts : FoldTree(LivePanels(q), BendsOf(q), bends', parts[q].root)
  <2> SUFFICES ASSUME NEW q \in LiveParts
               PROVE  FoldTree(LivePanels(q), BendsOf(q), bends', parts[q].root)
    OBVIOUS
  <2>1. \A c \in BendsOf(q) : bends'[c].parent = bends[c].parent /\ bends'[c].child = bends[c].child
    BY <1>2 DEF BendsOf
  <2> QED
    BY <2>1, Facts, SameEnds
<1>12. Trees'
  <2>1. ASSUME NEW q \in LiveParts, q # p
        PROVE  FoldTree(LivePanels(q), BendsOf(q), bends, parts[q].root)'
    <3>1. LivePanels(q)' = LivePanels(q)
      BY <2>1, <1>3, <1>7, <1>8 DEF LivePanels
    <3>2. BendsOf(q)' = BendsOf(q)
      BY <2>1, <1>2 DEF BendsOf
    <3> QED
      BY <3>1, <3>2, <1>1, <1>11
  <2>2. FoldTree(LivePanels(p), BendsOf(p), bends, parts[p].root)'
    <3>1. LivePanels(p)' = LivePanels(p) \cup {y}
      BY <1>3, <1>7, <1>8 DEF LivePanels
    <3>2. BendsOf(p)' = BendsOf(p) \cup {} \cup {b}
      BY <1>1, <1>2 DEF BendsOf
    <3>3. FoldTree({y}, {}, bends', y)
      BY Single
    <3>4. bends'[b].parent = x /\ bends'[b].child = y
      BY <1>2
    <3>5. LivePanels(p) \cap {y} = {}
      BY <1>1, <1>8 DEF LivePanels
    <3>6. FoldTree(LivePanels(p), BendsOf(p), bends', parts[p].root)
      BY <1>9, <1>11
    <3>7. FoldTree(LivePanels(p) \cup {y}, BendsOf(p) \cup {} \cup {b}, bends', parts[p].root)
      BY <3>3, <3>4, <3>5, <3>6, <1>1, Graft
    <3> QED
      BY <3>1, <3>2, <3>7, <1>1
  <2> QED
    BY <2>1, <2>2, <1>6 DEF Trees
<1>13. AliasesResolve'
  <2>1. EndsLive(parts) /\ EndsLive(regionPanels)
    BY DEF FoldInv, AliasesResolve
  <2>2. EndsLive(regionPanels')
    BY <2>1, <1>1, AddedEndsLive
  <2> QED
    BY <2>1, <2>2, <1>1 DEF AliasesResolve
<1>14. HolesOnce'
  BY <1>1, <1>6 DEF FoldInv, HolesOnce
<1> QED
  BY <1>5, <1>10, <1>12, <1>13, <1>14 DEF FoldInv

LEMMA AddCutHoleKeeps ==
    ASSUME FoldInv, NEW p \in PartId, NEW x \in PanelId, NEW h \in HoleId, AddCutHole(p, x, h)
    PROVE  FoldInv'
<1>1. /\ p \in LiveParts /\ p \in DOMAIN parts
      /\ h \notin Holes
      /\ parts' = [parts EXCEPT ![p].holes = @ \cup {h}]
      /\ regionPanels' = regionPanels /\ bends' = bends
  BY DEF AddCutHole, NewId, LiveParts
<1>2. TypeOK
  BY DEF FoldInv
<1>3. /\ DOMAIN parts' = DOMAIN parts
      /\ \A i \in DOMAIN parts \ {p} : parts'[i] = parts[i]
      /\ parts'[p] = [parts[p] EXCEPT !.holes = @ \cup {h}]
  BY <1>1
<1>4. parts[p] \in PartRow
  BY <1>1, <1>2 DEF TypeOK
<1>5. /\ parts'[p] \in PartRow
      /\ parts'[p].root = parts[p].root /\ parts'[p].mergedInto = parts[p].mergedInto
      /\ parts'[p].holes = parts[p].holes \cup {h}
  BY <1>3, <1>4 DEF PartRow
<1>6. TypeOK'
  BY <1>1, <1>2, <1>3, <1>5 DEF TypeOK
<1>7. \A i \in DOMAIN parts :
         parts'[i].root = parts[i].root /\ parts'[i].mergedInto = parts[i].mergedInto
  BY <1>3, <1>5
<1>8. LiveParts' = LiveParts
  BY <1>3, <1>7 DEF LiveParts
<1>9. AllLivePanels' = AllLivePanels
  BY <1>1 DEF AllLivePanels, Aliased
<1>10. Trees'
  <2>1. ASSUME NEW q \in LiveParts
        PROVE  FoldTree(LivePanels(q), BendsOf(q), bends, parts[q].root)'
    <3>1. LivePanels(q)' = LivePanels(q) /\ BendsOf(q)' = BendsOf(q)
      BY <1>1, <1>9 DEF LivePanels, BendsOf
    <3>2. parts'[q].root = parts[q].root
      BY <1>7 DEF LiveParts
    <3> QED
      BY <3>1, <3>2, <1>1, Facts
  <2> QED
    BY <2>1, <1>8 DEF Trees
<1>11. NothingOnAliases'
  BY <1>1, <1>8, <1>9 DEF FoldInv, NothingOnAliases
<1>12. AliasesResolve'
  <2>1. EndsLive(parts')
    BY <1>3, <1>7, SameEndsLive DEF FoldInv, AliasesResolve
  <2> QED
    BY <2>1, <1>1 DEF FoldInv, AliasesResolve
<1>13. HolesOnce'
  <2>1. \A q \in DOMAIN parts : h \notin parts[q].holes
    BY <1>1 DEF Holes
  <2>2. HolesOnce /\ LiveParts \subseteq DOMAIN parts
    BY DEF FoldInv, LiveParts
  <2>3. ASSUME NEW q \in LiveParts, NEW z \in LiveParts, q # z
        PROVE  parts'[q].holes \cap parts'[z].holes = {}
    <3>1. parts[q].holes \cap parts[z].holes = {}
      BY <2>2, <2>3 DEF HolesOnce
    <3>2. \A i \in {q, z} : parts'[i].holes = IF i = p THEN parts[i].holes \cup {h} ELSE parts[i].holes
      BY <2>2, <1>3, <1>5
    <3> QED
      BY <2>1, <2>2, <2>3, <3>1, <3>2
  <2> QED
    BY <2>3, <1>8 DEF HolesOnce
<1> QED
  BY <1>6, <1>10, <1>11, <1>12, <1>13 DEF FoldInv

LEMMA FuseBodiesKeeps ==
    ASSUME FoldInv, NEW p \in PartId, NEW q \in PartId, NEW x \in PanelId, FuseApart(p, q, x)
    PROVE  FoldInv'
<1> DEFINE y == parts[q].root
<1>1. /\ p \in LiveParts /\ q \in LiveParts /\ p # q
      /\ p \in DOMAIN parts /\ q \in DOMAIN parts
      /\ BendsOf(q) = {}
      /\ x \in LivePanels(p)
      /\ parts' = [parts EXCEPT ![q].mergedInto = p]
      /\ regionPanels' = [regionPanels EXCEPT ![y].mergedInto = x]
      /\ bends' = bends
  BY DEF FuseApart, Simple, LiveOn, LiveParts
<1>2. TypeOK /\ p # None /\ x # None
  BY IdsAssumption DEF FoldInv, None
<1>3. LivePanels(q) = {y}
  <2>1. FoldTree(LivePanels(q), {}, bends, y)
    BY <1>1, Facts
  <2>2. {y} \in SUBSET LivePanels(q) /\ ClosedIn({y}, {}, bends)
    BY <2>1 DEF FoldTree, ClosedIn
  <2> QED
    BY <2>1, <2>2 DEF FoldTree, Spans
<1>4. /\ y \in DOMAIN regionPanels /\ regionPanels[y].part = q /\ regionPanels[y].mergedInto = None
      /\ x \in DOMAIN regionPanels /\ regionPanels[x].part = p /\ regionPanels[x].mergedInto = None
      /\ x # y
  <2>1. y \in LivePanels(q)
    BY <1>3
  <2> HIDE DEF y
  <2> QED
    BY <1>1, <2>1 DEF LivePanels, AllLivePanels, Aliased
<1> HIDE DEF y
<1>5. /\ DOMAIN parts' = DOMAIN parts
      /\ \A i \in DOMAIN parts \ {q} : parts'[i] = parts[i]
      /\ parts'[q] = [parts[q] EXCEPT !.mergedInto = p]
      /\ parts[q] \in PartRow
  BY <1>1, <1>2 DEF TypeOK
<1>6. /\ parts'[q] \in PartRow /\ parts'[q].mergedInto = p
      /\ \A i \in DOMAIN parts : parts'[i].root = parts[i].root /\ parts'[i].holes = parts[i].holes
  BY <1>5 DEF PartRow
<1>7. /\ DOMAIN regionPanels' = DOMAIN regionPanels
      /\ \A i \in DOMAIN regionPanels \ {y} : regionPanels'[i] = regionPanels[i]
      /\ regionPanels'[y] = [regionPanels[y] EXCEPT !.mergedInto = x]
      /\ regionPanels[y] \in PanelRow
  BY <1>1, <1>2, <1>4 DEF TypeOK
<1>8. /\ regionPanels'[y] \in PanelRow /\ regionPanels'[y].mergedInto = x
      /\ \A i \in DOMAIN regionPanels : regionPanels'[i].part = regionPanels[i].part
  BY <1>7 DEF PanelRow
<1>9. TypeOK'
  BY <1>1, <1>2, <1>5, <1>6, <1>7, <1>8 DEF TypeOK
<1>10. LiveParts' = LiveParts \ {q}
  BY <1>2, <1>5, <1>6 DEF LiveParts
<1>11. AllLivePanels' = AllLivePanels \ {y}
  BY <1>2, <1>7, <1>8 DEF AllLivePanels, Aliased
<1>12. NothingOnAliases'
  <2>1. \A z \in AllLivePanels : regionPanels[z].part = q => z = y
    BY <1>3 DEF LivePanels
  <2>2. \A c \in DOMAIN bends : bends[c].part # q
    BY <1>1 DEF BendsOf
  <2>3. AllLivePanels \subseteq DOMAIN regionPanels
    BY DEF AllLivePanels
  <2> QED
    BY <1>1, <1>8, <1>10, <1>11, <2>1, <2>2, <2>3, Facts DEF NothingOnAliases
<1>13. Trees'
  <2>1. ASSUME NEW z \in LiveParts, z # q
        PROVE  FoldTree(LivePanels(z), BendsOf(z), bends, parts[z].root)'
    <3>1. LivePanels(z)' = LivePanels(z)
      BY <2>1, <1>4, <1>8, <1>11 DEF LivePanels, AllLivePanels
    <3>2. BendsOf(z)' = BendsOf(z) /\ parts'[z].root = parts[z].root
      BY <1>1, <1>6 DEF BendsOf, LiveParts
    <3> QED
      BY <3>1, <3>2, <1>1, Facts
  <2> QED
    BY <2>1, <1>10 DEF Trees
<1>14. AliasesResolve'
  <2>1. EndsLive(parts) /\ EndsLive(regionPanels)
    BY DEF FoldInv, AliasesResolve
  <2>2. \A i \in DOMAIN parts \ {q} : parts'[i].mergedInto = parts[i].mergedInto
    BY <1>5
  <2>3. parts[p].mergedInto = None /\ parts[q].mergedInto = None
    BY <1>1 DEF LiveParts
  <2>4. EndsLive(parts')
    BY <2>1, <2>2, <2>3, <1>1, <1>2, <1>5, <1>6, AliasedEndsLive
  <2>5. \A i \in DOMAIN regionPanels \ {y} : regionPanels'[i].mergedInto = regionPanels[i].mergedInto
    BY <1>7
  <2>6. EndsLive(regionPanels')
    BY <2>1, <2>5, <1>2, <1>4, <1>7, <1>8, AliasedEndsLive
  <2> QED
    BY <2>4, <2>6 DEF AliasesResolve
<1>15. HolesOnce'
  BY <1>6, <1>10 DEF FoldInv, HolesOnce, LiveParts
<1> QED
  BY <1>9, <1>12, <1>13, <1>14, <1>15 DEF FoldInv

LEMMA DeleteBendNodeKeeps ==
    ASSUME FoldInv, NEW b \in BendId, DeleteBendNode(b)
    PROVE  FoldInv'
<1>0. PICK p, x, y : p = bends[b].part /\ x = bends[b].parent /\ y = bends[b].child
  OBVIOUS
<1>1. /\ b \in DOMAIN bends
      /\ parts' = parts
      /\ regionPanels' = [regionPanels EXCEPT ![y].mergedInto = x]
      /\ bends' = Promoted(b)
  BY <1>0 DEF DeleteBendNode
<1>2. TypeOK
  BY DEF FoldInv
<1>3. /\ DOMAIN bends' = DOMAIN bends \ {b}
      /\ \A c \in DOMAIN bends \ {b} :
            bends'[c] = IF bends[c].parent = y THEN [bends[c] EXCEPT !.parent = x] ELSE bends[c]
  BY <1>0, <1>1 DEF Promoted
<1>4. /\ bends[b] \in BendRow
      /\ \A c \in DOMAIN bends : bends[c] \in BendRow
      /\ x \in PanelId /\ y \in PanelId
  BY <1>0, <1>1, <1>2 DEF TypeOK, BendRow
<1>5. \A c \in DOMAIN bends \ {b} :
         /\ bends'[c] \in BendRow
         /\ bends'[c].part = bends[c].part
         /\ bends'[c].child = bends[c].child
         /\ bends'[c].parent = IF bends[c].parent = y THEN x ELSE bends[c].parent
  BY <1>3, <1>4 DEF BendRow
<1>6. /\ p \in LiveParts /\ x \in LivePanels(p) /\ y \in LivePanels(p)
      /\ FoldTree(LivePanels(p), BendsOf(p), bends, parts[p].root)
      /\ b \in BendsOf(p)
  BY <1>0, <1>1, Facts DEF BendsOf
<1>7. \A c \in DOMAIN bends :
         /\ bends[c].part \in LiveParts
         /\ bends[c].parent \in LivePanels(bends[c].part)
  BY Facts
<1>8. x # None
  BY <1>4, IdsAssumption DEF None
<1>9. /\ x # y
      /\ FoldTree(LivePanels(p) \ {y}, BendsOf(p) \ {b}, bends', parts[p].root)
  <2>1. \A c \in BendsOf(p) \ {b} : bends'[c].child = bends[c].child
    BY <1>5 DEF BendsOf
  <2>2. \A c \in BendsOf(p) \ {b} :
           bends'[c].parent = IF bends[c].parent = bends[b].child THEN bends[b].parent
                                                                  ELSE bends[c].parent
    BY <1>0, <1>5 DEF BendsOf
  <2> QED
    BY <2>1, <2>2, <1>0, <1>6, Contract
<1>10. /\ \A z \in {x, y} : z \in DOMAIN regionPanels /\ regionPanels[z].mergedInto = None
                                                     /\ regionPanels[z].part = p
  BY <1>6 DEF LivePanels, AllLivePanels, Aliased
<1>11. /\ DOMAIN regionPanels' = DOMAIN regionPanels
       /\ \A i \in DOMAIN regionPanels \ {y} : regionPanels'[i] = regionPanels[i]
       /\ regionPanels'[y] = [regionPanels[y] EXCEPT !.mergedInto = x]
       /\ regionPanels[y] \in PanelRow
  BY <1>1, <1>2, <1>10 DEF TypeOK
<1>12. /\ regionPanels'[y] \in PanelRow /\ regionPanels'[y].mergedInto = x
       /\ \A i \in DOMAIN regionPanels : regionPanels'[i].part = regionPanels[i].part
  BY <1>4, <1>11 DEF PanelRow
<1>13. TypeOK'
  BY <1>1, <1>2, <1>3, <1>5, <1>11, <1>12 DEF TypeOK
<1>14. LiveParts' = LiveParts
  BY <1>1 DEF LiveParts
<1>15. AllLivePanels' = AllLivePanels \ {y}
  BY <1>8, <1>11, <1>12 DEF AllLivePanels, Aliased
<1>16. NothingOnAliases'
  <2>1. AllLivePanels \subseteq DOMAIN regionPanels
    BY DEF AllLivePanels
  <2> QED
    BY <2>1, <1>3, <1>5, <1>12, <1>14, <1>15, Facts DEF NothingOnAliases
<1>17. Trees'
  <2>1. ASSUME NEW q \in LiveParts, q # p
        PROVE  FoldTree(LivePanels(q), BendsOf(q), bends, parts[q].root)'
    <3>1. LivePanels(q)' = LivePanels(q)
      BY <2>1, <1>10, <1>12, <1>15 DEF LivePanels, AllLivePanels
    <3>2. BendsOf(q)' = BendsOf(q)
      BY <2>1, <1>0, <1>3, <1>5 DEF BendsOf
    <3>3. \A c \in BendsOf(q) : bends'[c].parent = bends[c].parent /\ bends'[c].child = bends[c].child
      <4>1. SUFFICES ASSUME NEW c \in BendsOf(q)
                     PROVE  bends'[c].parent = bends[c].parent /\ bends'[c].child = bends[c].child
        OBVIOUS
      <4>2. c \in DOMAIN bends \ {b} /\ bends[c].part = q
        BY <4>1, <2>1, <1>0 DEF BendsOf
      <4>3. bends[c].parent \in LivePanels(q)
        BY <4>2, <1>7
      <4>4. bends[c].parent # y
        BY <4>3, <2>1, <1>10 DEF LivePanels
      <4> QED
        BY <4>2, <4>4, <1>5
    <3>4. FoldTree(LivePanels(q), BendsOf(q), bends', parts[q].root)
      BY <3>3, <2>1, Facts, SameEnds
    <3> QED
      BY <3>1, <3>2, <3>4, <1>1
  <2>2. FoldTree(LivePanels(p), BendsOf(p), bends, parts[p].root)'
    <3>1. LivePanels(p)' = LivePanels(p) \ {y}
      BY <1>12, <1>15 DEF LivePanels, AllLivePanels
    <3>2. BendsOf(p)' = BendsOf(p) \ {b}
      BY <1>3, <1>5 DEF BendsOf
    <3> QED
      BY <3>1, <3>2, <1>1, <1>9
  <2> QED
    BY <2>1, <2>2, <1>14 DEF Trees
<1>18. AliasesResolve'
  <2>1. EndsLive(parts) /\ EndsLive(regionPanels)
    BY DEF FoldInv, AliasesResolve
  <2>2. \A i \in DOMAIN regionPanels \ {y} : regionPanels'[i].mergedInto = regionPanels[i].mergedInto
    BY <1>11
  <2>3. EndsLive(regionPanels')
    BY <2>1, <2>2, <1>8, <1>9, <1>10, <1>11, <1>12, AliasedEndsLive
  <2> QED
    BY <2>1, <2>3, <1>1 DEF AliasesResolve
<1>19. HolesOnce'
  BY <1>1, <1>14 DEF FoldInv, HolesOnce
<1> QED
  BY <1>13, <1>16, <1>17, <1>18, <1>19 DEF FoldInv

(* The set of panels a split moves, and the trees on either side of it.    *)
LEMMA SplitSides ==
    ASSUME FoldInv, NEW p \in LiveParts, NEW b \in BendsOf(p)
    PROVE  /\ Subtree(p, b) = Under(bends[b].child, LivePanels(p), BendsOf(p), bends)
           /\ Subtree(p, b) \subseteq LivePanels(p)
           /\ FoldTree(Subtree(p, b),
                       {c \in BendsOf(p) \ {b} : bends[c].parent \in Subtree(p, b)},
                       bends, bends[b].child)
           /\ FoldTree(LivePanels(p) \ Subtree(p, b),
                       {c \in BendsOf(p) \ {b} : bends[c].parent \notin Subtree(p, b)},
                       bends, parts[p].root)
<1>1. FoldTree(LivePanels(p), BendsOf(p), bends, parts[p].root)
  BY Facts
<1>2. PICK U : U = Under(bends[b].child, LivePanels(p), BendsOf(p), bends)
  OBVIOUS
<1>3. /\ bends[b].child \in LivePanels(p)
      /\ \A c \in BendsOf(p) : bends[c].child \in LivePanels(p)
  BY <1>1 DEF FoldTree, Joins
<1>4. Subtree(p, b) = U
  <2>1. Under(bends[b].child, LivePanels(p), BendsOf(p) \ {b}, bends) = U
    BY <1>1, <1>2, UnderWithout
  <2>2. PICK bs : bs = BendsOf(p) \ {b}
    OBVIOUS
  <2>3. \A c \in bs : bends[c].child \in LivePanels(p)
    BY <1>3, <2>2
  <2>4. Below(bends[b].child, bs) = Under(bends[b].child, LivePanels(p), bs, bends)
    BY <1>3, <2>3, BelowIsUnder
  <2> QED
    BY <2>1, <2>2, <2>4 DEF Subtree
<1>5. U \subseteq LivePanels(p)
  BY <1>2, <1>3, UnderLeast
<1>6. /\ FoldTree(U, {c \in BendsOf(p) \ {b} : bends[c].parent \in U}, bends, bends[b].child)
      /\ FoldTree(LivePanels(p) \ U, {c \in BendsOf(p) \ {b} : bends[c].parent \notin U},
                  bends, parts[p].root)
  <2>1. PICK V, bs, f, r : V = LivePanels(p) /\ bs = BendsOf(p) /\ f = bends /\ r = parts[p].root
    OBVIOUS
  <2>2. FoldTree(V, bs, f, r) /\ b \in bs /\ U = Under(f[b].child, V, bs, f)
    BY <2>1, <1>1, <1>2
  <2>3. PICK low, high : /\ low = {c \in bs \ {b} : f[c].parent \in U}
                         /\ high = {c \in bs \ {b} : f[c].parent \notin U}
    OBVIOUS
  <2>4. FoldTree(U, low, f, f[b].child) /\ FoldTree(V \ U, high, f, r)
    BY <2>2, <2>3, Prune
  <2> QED
    BY <2>1, <2>3, <2>4
<1> QED
  BY <1>2, <1>4, <1>5, <1>6

LEMMA SplitPartAtBendKeeps ==
    ASSUME FoldInv, NEW p \in PartId, NEW b \in BendId, NEW q \in PartId,
           SplitPartAtBend(p, b, q)
    PROVE  FoldInv'
<1>0. PICK U, w : U = Subtree(p, b) /\ w = bends[b].child
  OBVIOUS
<1> DEFINE row == [root |-> w, holes |-> {}, mergedInto |-> None]
<1>1. /\ p \in LiveParts /\ p \in DOMAIN parts /\ q \notin DOMAIN parts /\ p # q
      /\ b \in BendsOf(p) /\ b \in DOMAIN bends
      /\ parts' = Added(parts, q, row)
      /\ regionPanels' = MovedPanels(U, q)
      /\ bends' = [c \in DOMAIN bends \ {b} |->
                      IF bends[c].parent \in U THEN [bends[c] EXCEPT !.part = q] ELSE bends[c]]
  BY <1>0 DEF SplitPartAtBend, NewId, LiveParts, BendsOf
<1>2. TypeOK
  BY DEF FoldInv
<1>3. /\ DOMAIN parts' = DOMAIN parts \cup {q}
      /\ \A i \in DOMAIN parts : parts'[i] = parts[i]
      /\ parts'[q] = row
  BY <1>1 DEF Added
<1>4. /\ U \subseteq LivePanels(p)
      /\ FoldTree(U, {c \in BendsOf(p) \ {b} : bends[c].parent \in U}, bends, w)
      /\ FoldTree(LivePanels(p) \ U, {c \in BendsOf(p) \ {b} : bends[c].parent \notin U},
                  bends, parts[p].root)
  BY <1>0, <1>1, SplitSides
<1>5. /\ \A i \in DOMAIN regionPanels : regionPanels[i] \in PanelRow
      /\ \A c \in DOMAIN bends : bends[c] \in BendRow
      /\ w \in PanelId
  BY <1>0, <1>1, <1>2 DEF TypeOK, BendRow
<1>6. /\ DOMAIN regionPanels' = DOMAIN regionPanels
      /\ \A i \in DOMAIN regionPanels :
            regionPanels'[i] = IF i \in U THEN [regionPanels[i] EXCEPT !.part = q]
                                          ELSE regionPanels[i]
  BY <1>1 DEF MovedPanels
<1>7. \A i \in DOMAIN regionPanels :
         /\ regionPanels'[i] \in PanelRow
         /\ regionPanels'[i].mergedInto = regionPanels[i].mergedInto
         /\ regionPanels'[i].part = IF i \in U THEN q ELSE regionPanels[i].part
  BY <1>5, <1>6 DEF PanelRow
<1>8. /\ DOMAIN bends' = DOMAIN bends \ {b}
      /\ \A c \in DOMAIN bends \ {b} :
            bends'[c] = IF bends[c].parent \in U THEN [bends[c] EXCEPT !.part = q] ELSE bends[c]
  BY <1>1
<1>9. \A c \in DOMAIN bends \ {b} :
         /\ bends'[c] \in BendRow
         /\ bends'[c].parent = bends[c].parent /\ bends'[c].child = bends[c].child
         /\ bends'[c].part = IF bends[c].parent \in U THEN q ELSE bends[c].part
  BY <1>5, <1>8 DEF BendRow
<1>10. TypeOK'
  <2>1. row \in PartRow
    BY <1>5 DEF PartRow
  <2> HIDE DEF row
  <2> QED
    BY <2>1, <1>2, <1>3, <1>6, <1>7, <1>8, <1>9 DEF TypeOK
<1>11. LiveParts' = LiveParts \cup {q}
  <2>1. parts'[q].mergedInto = None
    BY <1>3
  <2> HIDE DEF row
  <2> QED
    BY <2>1, <1>3 DEF LiveParts
<1>12. AllLivePanels' = AllLivePanels /\ AllLivePanels \subseteq DOMAIN regionPanels
  BY <1>6, <1>7 DEF AllLivePanels, Aliased
<1>13. /\ \A z \in AllLivePanels : regionPanels[z].part \in LiveParts
       /\ \A c \in DOMAIN bends : /\ bends[c].part \in LiveParts
                                  /\ bends[c].parent \in LivePanels(bends[c].part)
       /\ LiveParts \subseteq DOMAIN parts
  BY Facts DEF LiveParts
<1>14. \A c \in DOMAIN bends : bends[c].parent \in U => bends[c].part = p
  <2>1. SUFFICES ASSUME NEW c \in DOMAIN bends, bends[c].parent \in U
                 PROVE  bends[c].part = p
    OBVIOUS
  <2>2. bends[c].parent \in LivePanels(p) /\ bends[c].parent \in LivePanels(bends[c].part)
    BY <2>1, <1>4, <1>13
  <2> QED
    BY <2>2 DEF LivePanels
<1>15. NothingOnAliases'
  BY <1>7, <1>8, <1>9, <1>11, <1>12, <1>13 DEF NothingOnAliases
<1>16. Trees'
  <2>1. ASSUME NEW z \in LiveParts, z # p
        PROVE  FoldTree(LivePanels(z), BendsOf(z), bends, parts[z].root)'
    <3>1. \A i \in U : regionPanels[i].part = p
      BY <1>4 DEF LivePanels
    <3>2. LivePanels(z)' = LivePanels(z)
      BY <3>1, <2>1, <1>1, <1>7, <1>12, <1>13 DEF LivePanels
    <3>3. BendsOf(z)' = BendsOf(z)
      <4>1. bends[b].part = p
        BY <1>1 DEF BendsOf
      <4> QED
        BY <4>1, <2>1, <1>1, <1>8, <1>9, <1>13, <1>14 DEF BendsOf
    <3>4. \A c \in BendsOf(z) :
             bends'[c].parent = bends[c].parent /\ bends'[c].child = bends[c].child
      BY <3>3, <1>8, <1>9 DEF BendsOf
    <3>5. FoldTree(LivePanels(z), BendsOf(z), bends', parts[z].root)
      BY <3>4, <2>1, Facts, SameEnds
    <3>6. parts'[z].root = parts[z].root
      BY <2>1, <1>3, <1>13
    <3> QED
      BY <3>2, <3>3, <3>5, <3>6
  <2>2. FoldTree(LivePanels(p), BendsOf(p), bends, parts[p].root)'
    <3>1. LivePanels(p)' = LivePanels(p) \ U
      BY <1>1, <1>4, <1>7, <1>12 DEF LivePanels
    <3>2. PICK high : high = {c \in BendsOf(p) \ {b} : bends[c].parent \notin U}
      OBVIOUS
    <3>3. BendsOf(p)' = high
      BY <3>2, <1>1, <1>8, <1>9 DEF BendsOf
    <3>4. \A c \in high : bends'[c].parent = bends[c].parent /\ bends'[c].child = bends[c].child
      BY <3>2, <1>9 DEF BendsOf
    <3>5. FoldTree(LivePanels(p) \ U, high, bends', parts[p].root)
      BY <3>2, <3>4, <1>4, SameEnds
    <3>6. parts'[p].root = parts[p].root
      BY <1>1, <1>3
    <3> QED
      BY <3>1, <3>3, <3>5, <3>6
  <2>3. FoldTree(LivePanels(q), BendsOf(q), bends, parts[q].root)'
    <3>1. LivePanels(q)' = U
      BY <1>1, <1>4, <1>7, <1>12, <1>13 DEF LivePanels
    <3>2. PICK low : low = {c \in BendsOf(p) \ {b} : bends[c].parent \in U}
      OBVIOUS
    <3>3. BendsOf(q)' = low
      BY <3>2, <1>1, <1>8, <1>9, <1>13, <1>14 DEF BendsOf
    <3>4. \A c \in low : bends'[c].parent = bends[c].parent /\ bends'[c].child = bends[c].child
      BY <3>2, <1>9 DEF BendsOf
    <3>5. FoldTree(U, low, bends', w)
      BY <3>2, <3>4, <1>4, SameEnds
    <3>6. parts'[q].root = w
      BY <1>3
    <3> QED
      BY <3>1, <3>3, <3>5, <3>6
  <2> QED
    BY <2>1, <2>2, <2>3, <1>11 DEF Trees
<1>17. AliasesResolve'
  <2>1. EndsLive(parts) /\ EndsLive(regionPanels)
    BY DEF FoldInv, AliasesResolve
  <2>2. EndsLive(parts')
    BY <2>1, <1>1, AddedEndsLive
  <2>3. EndsLive(regionPanels')
    BY <2>1, <1>6, <1>7, SameEndsLive
  <2> QED
    BY <2>2, <2>3 DEF AliasesResolve
<1>18. HolesOnce'
  <2>1. HolesOnce
    BY DEF FoldInv
  <2>2. \A i \in LiveParts : parts'[i].holes = parts[i].holes
    BY <1>3, <1>13
  <2>3. parts'[q].holes = {}
    BY <1>3
  <2> QED
    BY <2>1, <2>2, <2>3, <1>11 DEF HolesOnce
<1> QED
  BY <1>10, <1>15, <1>16, <1>17, <1>18 DEF FoldInv

(* Besides, the far side of the new bend is the absorbed part.             *)
LEMMA MergePartsWithBendKeeps ==
    ASSUME FoldInv, NEW p \in PartId, NEW q \in PartId, NEW x \in PanelId, NEW y \in PanelId,
           NEW b \in BendId, MergeApart(p, q, x, y, b)
    PROVE  FoldInv' /\ Subtree(p, b)' = LivePanels(q)
<1>0. PICK V, W, bs, cs, f, r, t :
         /\ V = LivePanels(p) /\ bs = BendsOf(p) /\ r = parts[p].root
         /\ W = LivePanels(q) /\ cs = BendsOf(q) /\ t = parts[q].root
         /\ f = bends
  OBVIOUS
<1> DEFINE new == [part |-> p, parent |-> x, child |-> y]
<1>1. /\ p \in LiveParts /\ q \in LiveParts /\ p # q
      /\ p \in DOMAIN parts /\ q \in DOMAIN parts
      /\ parts[p].mergedInto = None /\ parts[q].mergedInto = None
      /\ x \in V /\ y \in W
      /\ b \notin DOMAIN bends
      /\ parts' = [parts EXCEPT ![p].holes = @ \cup parts[q].holes, ![q].mergedInto = p]
      /\ regionPanels' = MovedPanels({z \in DOMAIN regionPanels : regionPanels[z].part = q}, p)
      /\ bends' = MergedBends(p, q, x, y, b)
  BY <1>0 DEF MergeApart, LiveOn, NewId, LiveParts
<1>2. TypeOK /\ p # None
  BY IdsAssumption DEF FoldInv, None
<1>3. FoldTree(V, bs, f, r) /\ FoldTree(W, cs, f, t)
  BY <1>0, <1>1, Facts
<1>4. \A c \in cs : f[c].parent \in W /\ f[c].child \in W
  BY <1>3 DEF FoldTree, Joins
<1>5. \A c \in cs : Turned(c, cs, y) <=> y \in Under(f[c].child, W, cs, f)
  BY <1>0, <1>4, BelowIsUnder DEF Turned
<1>6. /\ DOMAIN parts' = DOMAIN parts
      /\ \A i \in DOMAIN parts \ {p, q} : parts'[i] = parts[i]
      /\ parts'[p] = [parts[p] EXCEPT !.holes = @ \cup parts[q].holes]
      /\ parts'[q] = [parts[q] EXCEPT !.mergedInto = p]
      /\ parts[p] \in PartRow /\ parts[q] \in PartRow
  BY <1>1, <1>2 DEF TypeOK
<1>7. /\ \A i \in DOMAIN parts : parts'[i] \in PartRow /\ parts'[i].root = parts[i].root
      /\ \A i \in DOMAIN parts \ {q} : parts'[i].mergedInto = parts[i].mergedInto
      /\ \A i \in DOMAIN parts \ {p} : parts'[i].holes = parts[i].holes
      /\ parts'[q].mergedInto = p
      /\ parts'[p].holes = parts[p].holes \cup parts[q].holes
  BY <1>1, <1>2, <1>6 DEF PartRow, TypeOK
<1>8. /\ DOMAIN regionPanels' = DOMAIN regionPanels
      /\ \A i \in DOMAIN regionPanels :
            regionPanels'[i] = IF regionPanels[i].part = q
                               THEN [regionPanels[i] EXCEPT !.part = p] ELSE regionPanels[i]
  BY <1>1 DEF MovedPanels
<1>9. \A i \in DOMAIN regionPanels :
         /\ regionPanels'[i] \in PanelRow
         /\ regionPanels'[i].mergedInto = regionPanels[i].mergedInto
         /\ regionPanels'[i].part = IF regionPanels[i].part = q THEN p ELSE regionPanels[i].part
  BY <1>2, <1>8 DEF PanelRow, TypeOK
<1>10. /\ DOMAIN bends' = DOMAIN bends \cup {b}
       /\ \A c \in DOMAIN bends :
             bends'[c] = IF bends[c].part = q THEN [RerootAt(c, cs, y) EXCEPT !.part = p]
                                              ELSE bends[c]
       /\ bends'[b] = new
  BY <1>0, <1>1 DEF MergedBends, Added
<1>11. \A c \in DOMAIN bends : bends[c] \in BendRow
  BY <1>2 DEF TypeOK
<1>12. \A c \in cs : c \in DOMAIN bends /\ bends[c].part = q
  BY <1>0 DEF BendsOf
<1>13. ASSUME NEW c \in cs
       PROVE  /\ bends'[c] \in BendRow /\ bends'[c].part = p
              /\ y \in Under(f[c].child, W, cs, f)
                    => bends'[c].parent = f[c].child /\ bends'[c].child = f[c].parent
              /\ y \notin Under(f[c].child, W, cs, f)
                    => bends'[c].parent = f[c].parent /\ bends'[c].child = f[c].child
  <2>1. bends'[c] = [RerootAt(c, cs, y) EXCEPT !.part = p] /\ bends[c] \in BendRow
    BY <1>10, <1>11, <1>12
  <2>2. CASE Turned(c, cs, y)
    <3>1. RerootAt(c, cs, y) = [bends[c] EXCEPT !.parent = bends[c].child, !.child = bends[c].parent]
      BY <2>2 DEF RerootAt
    <3>2. /\ bends'[c] \in BendRow /\ bends'[c].part = p
          /\ bends'[c].parent = bends[c].child /\ bends'[c].child = bends[c].parent
      BY <2>1, <3>1 DEF BendRow
    <3> QED
      BY <3>2, <2>2, <1>0, <1>5
  <2>3. CASE ~Turned(c, cs, y)
    <3>1. RerootAt(c, cs, y) = bends[c]
      BY <2>3 DEF RerootAt
    <3>2. /\ bends'[c] \in BendRow /\ bends'[c].part = p
          /\ bends'[c].parent = bends[c].parent /\ bends'[c].child = bends[c].child
      BY <2>1, <3>1 DEF BendRow
    <3> QED
      BY <3>2, <2>3, <1>0, <1>5
  <2> QED
    BY <2>2, <2>3
<1>14. \A c \in DOMAIN bends : c \notin cs => bends'[c] = bends[c]
  BY <1>0, <1>10 DEF BendsOf
<1>15. /\ bends'[b] \in BendRow /\ bends'[b].part = p
       /\ bends'[b].parent = x /\ bends'[b].child = y
  BY <1>10 DEF BendRow
<1> HIDE DEF new
<1>16. TypeOK'
  BY <1>2, <1>6, <1>7, <1>8, <1>9, <1>10, <1>11, <1>13, <1>14, <1>15 DEF TypeOK
<1>17. LiveParts' = LiveParts \ {q}
  <2>1. /\ DOMAIN parts' = DOMAIN parts
        /\ \A i \in DOMAIN parts \ {q} : parts'[i].mergedInto = parts[i].mergedInto
        /\ parts'[q].mergedInto # None
    BY <1>2, <1>6, <1>7
  <2> QED
    BY <2>1 DEF LiveParts
<1>18. AllLivePanels' = AllLivePanels /\ AllLivePanels \subseteq DOMAIN regionPanels
  BY <1>8, <1>9 DEF AllLivePanels, Aliased
<1>19. /\ \A z \in AllLivePanels : regionPanels[z].part \in LiveParts
       /\ \A c \in DOMAIN bends : bends[c].part \in LiveParts
       /\ LiveParts \subseteq DOMAIN parts
  BY Facts DEF LiveParts
<1>20. \A c \in DOMAIN bends :
          bends'[c].part = IF bends[c].part = q THEN p ELSE bends[c].part
  BY <1>0, <1>13, <1>14 DEF BendsOf
<1>21. NothingOnAliases'
  BY <1>1, <1>9, <1>10, <1>15, <1>17, <1>18, <1>19, <1>20 DEF NothingOnAliases
<1>22. PICK g : g = bends'
  OBVIOUS
<1>23. FoldTree(V, bs, g, r) /\ FoldTree(W, cs, g, y)
  <2>1. \A c \in bs : g[c] = f[c]
    BY <1>0, <1>1, <1>12, <1>14, <1>22 DEF BendsOf
  <2>2. /\ \A c \in cs : y \in Under(f[c].child, W, cs, f)
                            => g[c].parent = f[c].child /\ g[c].child = f[c].parent
        /\ \A c \in cs : y \notin Under(f[c].child, W, cs, f)
                            => g[c].parent = f[c].parent /\ g[c].child = f[c].child
    BY <1>13, <1>22
  <2> QED
    BY <2>1, <2>2, <1>1, <1>3, Reroot, SameEnds
<1>24. /\ LivePanels(p)' = V \cup W /\ V \cap W = {}
       /\ BendsOf(p)' = bs \cup cs \cup {b} /\ b \notin bs \cup cs
  <2>1. LivePanels(p)' = V \cup W
    BY <1>0, <1>1, <1>9, <1>18 DEF LivePanels
  <2>2. BendsOf(p)' = bs \cup cs \cup {b}
    BY <1>0, <1>1, <1>10, <1>15, <1>20 DEF BendsOf
  <2> QED
    BY <2>1, <2>2, <1>0, <1>1 DEF LivePanels, BendsOf
<1>25. Trees'
  <2>1. ASSUME NEW z \in LiveParts, z # p, z # q
        PROVE  FoldTree(LivePanels(z), BendsOf(z), bends, parts[z].root)'
    <3>1. LivePanels(z)' = LivePanels(z)
      BY <2>1, <1>9, <1>18 DEF LivePanels
    <3>2. BendsOf(z)' = BendsOf(z)
      BY <2>1, <1>10, <1>15, <1>20 DEF BendsOf
    <3>3. \A c \in BendsOf(z) : bends'[c] = bends[c]
      BY <2>1, <1>12, <1>14 DEF BendsOf
    <3>4. FoldTree(LivePanels(z), BendsOf(z), bends', parts[z].root)
      BY <3>3, <2>1, Facts, SameEnds
    <3>5. parts'[z].root = parts[z].root
      BY <2>1, <1>7, <1>19
    <3> QED
      BY <3>1, <3>2, <3>4, <3>5
  <2>2. FoldTree(LivePanels(p), BendsOf(p), bends, parts[p].root)'
    <3>1. g[b].parent = x /\ g[b].child = y
      BY <1>15, <1>22
    <3>2. FoldTree(V \cup W, bs \cup cs \cup {b}, g, r)
      BY <3>1, <1>1, <1>23, <1>24, Graft
    <3>3. parts'[p].root = r
      BY <1>0, <1>1, <1>7
    <3> QED
      BY <3>2, <3>3, <1>22, <1>24
  <2> QED
    BY <2>1, <2>2, <1>17 DEF Trees
<1>26. Subtree(p, b)' = W
  <2>1. BendsOf(p)' \ {b} = bs \cup cs /\ bends'[b].child = y
    BY <1>15, <1>24
  <2>2. /\ \A c \in bs : g[c].parent \in V
        /\ \A c \in cs : g[c].parent \in W /\ g[c].child \in W
    BY <1>23 DEF FoldTree, Joins
  <2>3. W \in SUBSET DOMAIN regionPanels' /\ y \in W /\ ClosedIn(W, bs \cup cs, g)
    BY <2>2, <1>0, <1>1, <1>8, <1>18, <1>24 DEF ClosedIn, LivePanels
  <2>4. ASSUME NEW S \in SUBSET DOMAIN regionPanels', y \in S, ClosedIn(S, bs \cup cs, g)
        PROVE  W \subseteq S
    <3>1. ClosedIn(S \cap W, cs, g) /\ y \in S \cap W
      BY <2>2, <2>4, <1>1 DEF ClosedIn
    <3> QED
      BY <3>1, <1>23 DEF FoldTree, Spans
  <2>5. Subtree(p, b)' = {z \in DOMAIN regionPanels' :
            \A S \in SUBSET DOMAIN regionPanels' : y \in S /\ ClosedIn(S, bs \cup cs, g) => z \in S}
    BY <2>1, <1>22 DEF Subtree, Below, Closed, ClosedIn
  <2> QED
    BY <2>3, <2>4, <2>5
<1>27. AliasesResolve'
  <2>1. EndsLive(parts) /\ EndsLive(regionPanels)
    BY DEF FoldInv, AliasesResolve
  <2>2. EndsLive(parts')
    <3>1. /\ p \in DOMAIN parts /\ q \in DOMAIN parts /\ p # q /\ p # None
          /\ parts[p].mergedInto = None /\ parts[q].mergedInto = None
          /\ DOMAIN parts' = DOMAIN parts /\ parts'[q].mergedInto = p
      BY <1>1, <1>2, <1>6, <1>7
    <3> QED
      BY <2>1, <3>1, <1>7, AliasedEndsLive
  <2>3. EndsLive(regionPanels')
    BY <2>1, <1>8, <1>9, SameEndsLive
  <2> QED
    BY <2>2, <2>3 DEF AliasesResolve
<1>28. HolesOnce'
  <2>1. HolesOnce
    BY DEF FoldInv
  <2> QED
    BY <2>1, <1>1, <1>7, <1>17, <1>19 DEF HolesOnce
<1> QED
  BY <1>0, <1>16, <1>21, <1>25, <1>26, <1>27, <1>28 DEF FoldInv

-----------------------------------------------------------------------------
(* What the invariant gives.                                               *)

LEMMA InvariantStep == FoldInv /\ [Next]_vars => FoldInv'
<1> SUFFICES ASSUME FoldInv, [Next]_vars PROVE FoldInv'
  OBVIOUS
<1>1. CASE \E p \in PartId, x \in PanelId : CreatePart(p, x)
  BY <1>1, CreatePartKeeps
<1>2. CASE \E p \in PartId, x, y \in PanelId, b \in BendId : CreateBendNode(p, x, y, b)
  BY <1>2, CreateBendNodeKeeps
<1>3. CASE \E p, q \in PartId, x, y \in PanelId, b \in BendId : MergeApart(p, q, x, y, b)
  BY <1>3, MergePartsWithBendKeeps
<1>4. CASE \E p, q \in PartId, x \in PanelId : FuseApart(p, q, x)
  BY <1>4, FuseBodiesKeeps
<1>5. CASE \E b \in BendId : DeleteBendNode(b)
  BY <1>5, DeleteBendNodeKeeps
<1>6. CASE \E p, q \in PartId, b \in BendId : SplitPartAtBend(p, b, q)
  BY <1>6, SplitPartAtBendKeeps
<1>7. CASE \E p \in PartId, x \in PanelId, h \in HoleId : AddCutHole(p, x, h)
  BY <1>7, AddCutHoleKeeps
<1>8. CASE UNCHANGED vars
  <2>1. parts' = parts /\ regionPanels' = regionPanels /\ bends' = bends
    BY <1>8 DEF vars
  <2>2. LiveParts' = LiveParts /\ AllLivePanels' = AllLivePanels
    BY <2>1 DEF LiveParts, AllLivePanels, Aliased
  <2>3. TypeOK' /\ HolesOnce' /\ AliasesResolve' /\ NothingOnAliases'
    BY <2>1, <2>2 DEF FoldInv, TypeOK, HolesOnce, AliasesResolve, EndsLive, NothingOnAliases
  <2>4. ASSUME NEW p \in LiveParts
        PROVE  FoldTree(LivePanels(p), BendsOf(p), bends, parts[p].root)'
    <3>1. LivePanels(p)' = LivePanels(p) /\ BendsOf(p)' = BendsOf(p)
      BY <2>1, <2>2 DEF LivePanels, BendsOf
    <3> QED
      BY <2>1, <3>1, Facts
  <2>5. Trees'
    BY <2>2, <2>4 DEF Trees
  <2> QED
    BY <2>3, <2>5 DEF FoldInv
<1> QED
  BY <1>1, <1>2, <1>3, <1>4, <1>5, <1>6, <1>7, <1>8, MergeCases, FuseCases DEF Next

(* Whatever tools built the graph, its live parts are trees, nothing       *)
(* belongs to an alias, every alias leads to a live row and no hole is on  *)
(* two live parts (the tools of store.ts).                                 *)
THEOREM Invariance == Spec => []FoldInv
<1>1. Init => FoldInv
  BY Inited
<1>2. FoldInv /\ [Next]_vars => FoldInv'
  BY InvariantStep
<1> QED
  BY <1>1, <1>2, PTL DEF Spec

(* The rows keep their shapes (graph/types.ts).                            *)
THEOREM TypeCorrect == Spec => []TypeOK
<1>1. FoldInv => TypeOK
  BY DEF FoldInv
<1> QED
  BY <1>1, Invariance, PTL

(* No live row belongs to an alias, so the checks of invariants.ts, which  *)
(* skip the aliases, skip no live panel and no bend.                       *)
THEOREM NoRowOnAnAlias == Spec => []NothingOnAliases
<1>1. FoldInv => NothingOnAliases
  BY DEF FoldInv
<1> QED
  BY <1>1, Invariance, PTL

(* Following mergedInto from any part or panel ends at a live one.         *)
THEOREM ReferencesResolve == Spec => []AliasesResolve
<1>1. FoldInv => AliasesResolve
  BY DEF FoldInv
<1> QED
  BY <1>1, Invariance, PTL

(* A hole is cut in at most one live part, however often its part was      *)
(* merged (mergePartsWithBend moves the rows).                             *)
THEOREM HolesNotDoubled == Spec => []HolesOnce
<1>1. FoldInv => HolesOnce
  BY DEF FoldInv
<1> QED
  BY <1>1, Invariance, PTL

(* checkGraphInvariants (invariants.ts), before every save and after every  *)
(* load, finds nothing in what is stored, though of all its clauses the     *)
(* tools use one: a part joined with itself is its own alias and is refused *)
(* (MergeCases, FuseCases).  For no other call do the clauses about the     *)
(* structure, roots, bends and aliases, refuse a save.                      *)
THEOREM GraphIsValid == Spec => []NoViolations
<1>1. ASSUME FoldInv, NEW p \in LiveParts
      PROVE  FoldTreeOK(p)
  <2>1. PICK V, bs, r : V = LivePanels(p) /\ bs = BendsOf(p) /\ r = parts[p].root
    OBVIOUS
  <2>2. FoldTree(V, bs, bends, r)
    BY <1>1, <2>1, Facts
  <2>3. /\ r \in V
        /\ \A b \in bs : bends[b].parent \in V /\ bends[b].child \in V \ {r}
    BY <2>2 DEF FoldTree, Joins
  <2>4. ASSUME NEW x \in V \ {r}
        PROVE  \E b \in bs : \A c \in bs : bends[c].child = x <=> c = b
    <3>1. \E b \in bs : bends[b].child = x
      <4>1. SUFFICES ASSUME \A b \in bs : bends[b].child # x PROVE FALSE
        OBVIOUS
      <4>2. ClosedIn(V \ {x}, bs, bends)
        BY <4>1, <2>3 DEF ClosedIn
      <4> QED
        BY <4>2, <2>2, <2>3, <2>4 DEF FoldTree, Spans
    <3> QED
      BY <3>1, <2>2 DEF FoldTree, OneIn
  <2>5. V \subseteq Below(r, bs)
    <3>1. Below(r, bs) = Under(r, V, bs, bends)
      BY <2>1, <2>3, BelowIsUnder
    <3>2. V \subseteq Under(r, V, bs, bends)
      BY <2>2 DEF FoldTree, Spans, Under
    <3> QED
      BY <3>1, <3>2
  <2> QED
    BY <2>1, <2>3, <2>4, <2>5 DEF FoldTreeOK
<1>2. ASSUME FoldInv, NEW p \in DOMAIN parts, parts[p].mergedInto # None
      PROVE  parts[p].mergedInto \in DOMAIN parts \ {p}
  <2>1. {p} \in SUBSET {i \in DOMAIN parts : parts[i].mergedInto # None}
    BY <1>2
  <2> QED
    BY <1>2, <2>1 DEF FoldInv, AliasesResolve, EndsLive
<1>3. ASSUME FoldInv, NEW x \in DOMAIN regionPanels
      PROVE  regionPanels[x].mergedInto # x
  <2>1. x # None
    BY <1>3, IdsAssumption DEF FoldInv, TypeOK, None
  <2>2. CASE regionPanels[x].mergedInto # None
    <3>1. {x} \in SUBSET {i \in DOMAIN regionPanels : regionPanels[i].mergedInto # None}
      BY <2>2
    <3> QED
      BY <3>1, <1>3 DEF FoldInv, AliasesResolve, EndsLive
  <2> QED
    BY <2>1, <2>2
<1>4. FoldInv => NoViolations
  BY <1>1, <1>2, <1>3 DEF NoViolations
<1> QED
  BY <1>4, Invariance, PTL

(* The parts are the components of the fold forest: two live panels are on *)
(* one part exactly when bends connect them.                               *)
THEOREM Components == Spec => []PartsAreComponents
<1>1. ASSUME FoldInv, NEW x \in AllLivePanels, NEW y \in AllLivePanels,
             regionPanels[x].part = regionPanels[y].part
      PROVE  Joined(x, y)
  <2>1. PICK p, V, bs, r : /\ p = regionPanels[x].part /\ V = LivePanels(p)
                           /\ bs = BendsOf(p) /\ r = parts[p].root
    OBVIOUS
  <2>2. FoldTree(V, bs, bends, r) /\ x \in V /\ y \in V
    BY <1>1, <2>1, Facts DEF LivePanels
  <2>3. SUFFICES ASSUME NEW S \in SUBSET AllLivePanels, x \in S,
                        \A b \in DOMAIN bends : bends[b].parent \in S <=> bends[b].child \in S
                 PROVE  y \in S
    BY DEF Joined
  <2>4. ClosedIn(S \cap V, bs, bends) /\ ClosedIn(V \ S, bs, bends)
    <3>1. \A b \in bs : b \in DOMAIN bends /\ bends[b].child \in V
      BY <2>1, <2>2 DEF BendsOf, FoldTree, Joins
    <3> QED
      BY <3>1, <2>3 DEF ClosedIn
  <2>5. \A T \in SUBSET V : r \in T /\ ClosedIn(T, bs, bends) => T = V
    BY <2>2 DEF FoldTree, Spans
  <2>6. r \in V
    BY <2>2 DEF FoldTree
  <2>7. V \ S # V
    BY <2>2, <2>3
  <2>8. r \in S
    BY <2>4, <2>5, <2>6, <2>7
  <2>9. S \cap V = V
    BY <2>4, <2>5, <2>6, <2>8
  <2> QED
    BY <2>2, <2>9
<1>2. ASSUME FoldInv, NEW x \in AllLivePanels, NEW y \in AllLivePanels, Joined(x, y)
      PROVE  regionPanels[x].part = regionPanels[y].part
  <2>1. PICK V : V = LivePanels(regionPanels[x].part)
    OBVIOUS
  <2>2. V \in SUBSET AllLivePanels /\ x \in V
    BY <2>1 DEF LivePanels
  <2>3. \A b \in DOMAIN bends : bends[b].parent \in V <=> bends[b].child \in V
    BY <1>2, <2>1, Facts DEF LivePanels
  <2>4. y \in V
    BY <1>2, <2>2, <2>3 DEF Joined
  <2> QED
    BY <2>1, <2>4 DEF LivePanels
<1>3. FoldInv => PartsAreComponents
  BY <1>1, <1>2 DEF PartsAreComponents
<1> QED
  BY <1>3, Invariance, PTL

(* split_part_at_bend at the bend of a merge gives back the absorbed       *)
(* part's panels (store.ts, the comment at splitPartAtBend).               *)
THEOREM MergeIsUndone == Spec => SplitUndoesMerge
<1>1. ASSUME FoldInv, [Next]_vars, NEW p \in DOMAIN parts, NEW q \in DOMAIN parts,
             NEW b \in DOMAIN bends', b \notin DOMAIN bends,
             parts[q].mergedInto = None, parts'[q].mergedInto = p
      PROVE  Subtree(p, b)' = LivePanels(q)
  <2>1. TypeOK /\ p # None
    BY <1>1, IdsAssumption DEF FoldInv, TypeOK, None
  <2>2. parts' # parts /\ DOMAIN bends' # DOMAIN bends
    BY <1>1, <2>1
  <2>3. PICK s, o \in PartId, x, y \in PanelId, c \in BendId : MergeApart(s, o, x, y, c)
    <3>1. ~UNCHANGED vars
      BY <2>2 DEF vars
    <3>2. \A s, o \in PartId, x \in PanelId : ~FuseBodies(s, o, x)
      BY <1>1, <2>2, <3>1, FuseCases DEF FuseApart
    <3>3. \E s, o \in PartId, x, y \in PanelId, c \in BendId : MergePartsWithBend(s, o, x, y, c)
      BY <1>1, <2>2, <3>1, <3>2 DEF Next, CreatePart, CreateBendNode, DeleteBendNode,
                                    Promoted, SplitPartAtBend, AddCutHole
    <3> QED
      BY <1>1, <3>1, <3>3, MergeCases
  <2>4. Subtree(s, c)' = LivePanels(o)
    BY <1>1, <2>3, MergePartsWithBendKeeps
  <2>5. b = c
    BY <1>1, <2>3 DEF MergeApart, MergedBends, Added
  <2>6. q = o /\ p = s
    <3>1. /\ s \in DOMAIN parts /\ o \in DOMAIN parts /\ s # o /\ parts[o] \in PartRow
          /\ parts[s] \in PartRow
          /\ parts' = [parts EXCEPT ![s].holes = @ \cup parts[o].holes, ![o].mergedInto = s]
      BY <2>1, <2>3 DEF MergeApart, LiveParts, TypeOK
    <3>2. /\ \A i \in DOMAIN parts \ {o} : parts'[i].mergedInto = parts[i].mergedInto
          /\ parts'[o].mergedInto = s
      BY <3>1 DEF PartRow
    <3> QED
      BY <3>2, <1>1, <2>1
  <2> QED
    BY <2>4, <2>5, <2>6
<1>2. FoldInv /\ [Next]_vars =>
         [\A p, q \in DOMAIN parts, b \in DOMAIN bends' \ DOMAIN bends :
             parts[q].mergedInto = None /\ parts'[q].mergedInto = p
                => Subtree(p, b)' = LivePanels(q)]_vars
  BY <1>1
<1> QED
  BY <1>2, Invariance, PTL DEF Spec, SplitUndoesMerge
-----------------------------------------------------------------------------
(* The rows implement the forest of FoldForest.  Roots, directions and     *)
(* part ids disappear; what is left is that each tool is one operation on  *)
(* a forest, or changes nothing of it.  The invariant supplies what the    *)
(* rows of one part say of each other.                                     *)

(* The two panels of a bend, and the joints of the forest. *)
Pair(b) == {bends[b].parent, bends[b].child}
Joints == {Pair(b) : b \in DOMAIN bends}

(* What the rows say of the forest.                                        *)

(* The ends of a bend are live panels of its part.                         *)
LEMMA PairLive ==
    ASSUME FoldInv, NEW b \in DOMAIN bends
    PROVE  /\ Pair(b) \subseteq LivePanels(bends[b].part)
           /\ Pair(b) \subseteq AllLivePanels
           /\ \A x \in Pair(b) : regionPanels[x].part = bends[b].part
           /\ bends[b].parent # bends[b].child
           /\ bends[b] \in BendRow
<1>1. Pair(b) \subseteq LivePanels(bends[b].part)
  BY Facts DEF Pair
<1>2. bends[b].parent # bends[b].child
  <2>1. PICK p : p = bends[b].part
    OBVIOUS
  <2>2. FoldTree(LivePanels(p), BendsOf(p), bends, parts[p].root) /\ b \in BendsOf(p)
    BY <2>1, Facts DEF BendsOf
  <2>3. bends[b].parent \notin Under(bends[b].child, LivePanels(p), BendsOf(p), bends)
    BY <2>2, Acyclic
  <2>4. /\ bends[b].child \in LivePanels(p)
        /\ \A c \in BendsOf(p) : bends[c].child \in LivePanels(p)
    BY <2>2 DEF FoldTree, Joins
  <2>5. bends[b].child \in Under(bends[b].child, LivePanels(p), BendsOf(p), bends)
    BY <2>4, UnderLeast
  <2> QED
    BY <2>3, <2>5
<1> QED
  BY <1>1, <1>2 DEF LivePanels, FoldInv, TypeOK

(* No two bends join the same panels.                                      *)
LEMMA PairsDiffer ==
    ASSUME FoldInv, NEW b \in DOMAIN bends, NEW c \in DOMAIN bends, Pair(b) = Pair(c)
    PROVE  b = c
<1>1. bends[b].part = bends[c].part
  BY PairLive DEF Pair
<1>2. PICK p, V, bs, r : /\ p = bends[b].part /\ V = LivePanels(p) /\ bs = BendsOf(p)
                         /\ r = parts[p].root
  OBVIOUS
<1>3. FoldTree(V, bs, bends, r) /\ b \in bs /\ c \in bs
  BY <1>1, <1>2, Facts DEF BendsOf
<1>4. CASE bends[b].child = bends[c].child
  BY <1>3, <1>4 DEF FoldTree, OneIn
<1>5. CASE bends[b].child # bends[c].child
  <2>1. bends[c].parent = bends[b].child /\ bends[c].child = bends[b].parent
    BY <1>5 DEF Pair
  <2>2. bends[b].child \in V /\ \A d \in bs : bends[d].child \in V
    BY <1>3 DEF FoldTree, Joins
  <2>3. PICK U : U = Under(bends[b].child, V, bs, bends)
    OBVIOUS
  <2>4. bends[b].child \in U /\ ClosedIn(U, bs, bends)
    BY <2>2, <2>3, UnderLeast
  <2>5. bends[c].child \in U
    BY <2>1, <2>4, <1>3 DEF ClosedIn
  <2>6. bends[b].parent \notin U
    BY <2>3, <1>3, Acyclic
  <2> QED
    BY <2>1, <2>5, <2>6
<1> QED
  BY <1>4, <1>5

-----------------------------------------------------------------------------
(* One lemma per action: it is an operation of the forest.                 *)

LEMMA ForestInit == Init => Forest!Init
BY DEF Init, Forest!Init, AllLivePanels

LEMMA CreatePartLays ==
    ASSUME FoldInv, NEW p \in PartId, NEW x \in PanelId, CreatePart(p, x)
    PROVE  Forest!Lay(x)
<1>1. /\ x \notin DOMAIN regionPanels
      /\ regionPanels' = Added(regionPanels, x, [part |-> p, mergedInto |-> None])
      /\ bends' = bends
  BY DEF CreatePart, NewId
<1>2. /\ DOMAIN regionPanels' = DOMAIN regionPanels \cup {x}
      /\ \A i \in DOMAIN regionPanels : regionPanels'[i] = regionPanels[i]
      /\ regionPanels'[x].mergedInto = None
  BY <1>1 DEF Added
<1>3. AllLivePanels' = AllLivePanels \cup {x} /\ x \notin AllLivePanels
  BY <1>1, <1>2 DEF AllLivePanels, Aliased
<1> QED
  BY <1>1, <1>3 DEF Forest!Lay

LEMMA CreateBendNodeFolds ==
    ASSUME FoldInv, NEW p \in PartId, NEW x \in PanelId, NEW y \in PanelId, NEW b \in BendId,
           CreateBendNode(p, x, y, b)
    PROVE  Forest!Fold(x, y)
<1>1. /\ y \notin DOMAIN regionPanels /\ b \notin DOMAIN bends /\ x \in AllLivePanels
      /\ regionPanels' = Added(regionPanels, y, [part |-> p, mergedInto |-> None])
      /\ bends' = Added(bends, b, [part |-> p, parent |-> x, child |-> y])
  BY DEF CreateBendNode, NewId, LiveOn, LivePanels
<1>2. /\ DOMAIN regionPanels' = DOMAIN regionPanels \cup {y}
      /\ \A i \in DOMAIN regionPanels : regionPanels'[i] = regionPanels[i]
      /\ regionPanels'[y].mergedInto = None
  BY <1>1 DEF Added
<1>3. AllLivePanels' = AllLivePanels \cup {y} /\ y \notin AllLivePanels
  BY <1>1, <1>2 DEF AllLivePanels, Aliased
<1>4. /\ DOMAIN bends' = DOMAIN bends \cup {b}
      /\ \A c \in DOMAIN bends : bends'[c] = bends[c]
      /\ bends'[b].parent = x /\ bends'[b].child = y
  BY <1>1 DEF Added
<1>5. Joints' = Joints \cup {{x, y}}
  BY <1>1, <1>4 DEF Joints, Pair
<1> QED
  BY <1>1, <1>3, <1>5 DEF Forest!Fold, Joints, Pair

LEMMA MergePartsWithBendJoins ==
    ASSUME FoldInv, NEW p \in PartId, NEW q \in PartId, NEW x \in PanelId, NEW y \in PanelId,
           NEW b \in BendId, MergeApart(p, q, x, y, b)
    PROVE  Forest!Join(x, y)
<1>1. /\ p # q /\ b \notin DOMAIN bends
      /\ x \in LivePanels(p) /\ y \in LivePanels(q)
      /\ regionPanels' = MovedPanels({z \in DOMAIN regionPanels : regionPanels[z].part = q}, p)
      /\ bends' = MergedBends(p, q, x, y, b)
  BY DEF MergeApart, LiveOn, NewId
<1>2. TypeOK
  BY DEF FoldInv
<1>3. /\ DOMAIN regionPanels' = DOMAIN regionPanels
      /\ \A i \in DOMAIN regionPanels :
            regionPanels'[i] = IF regionPanels[i].part = q
                               THEN [regionPanels[i] EXCEPT !.part = p] ELSE regionPanels[i]
  BY <1>1 DEF MovedPanels
<1>4. \A i \in DOMAIN regionPanels : regionPanels'[i].mergedInto = regionPanels[i].mergedInto
  BY <1>2, <1>3 DEF TypeOK, PanelRow
<1>5. AllLivePanels' = AllLivePanels
  BY <1>3, <1>4 DEF AllLivePanels, Aliased
<1>6. /\ DOMAIN bends' = DOMAIN bends \cup {b}
      /\ bends'[b].parent = x /\ bends'[b].child = y
      /\ \A c \in DOMAIN bends :
            bends'[c] = IF bends[c].part = q THEN [RerootAt(c, BendsOf(q), y) EXCEPT !.part = p]
                                             ELSE bends[c]
  BY <1>1 DEF MergedBends, Added
<1>7. ASSUME NEW c \in DOMAIN bends
      PROVE  {bends'[c].parent, bends'[c].child} = {bends[c].parent, bends[c].child}
  <2>1. bends[c] \in BendRow
    BY <1>2 DEF TypeOK
  <2>2. CASE bends[c].part = q
    <3>1. PICK row : row = RerootAt(c, BendsOf(q), y)
      OBVIOUS
    <3>2. /\ row \in BendRow
          /\ {row.parent, row.child} = {bends[c].parent, bends[c].child}
      BY <2>1, <3>1 DEF RerootAt, BendRow
    <3>3. bends'[c] = [row EXCEPT !.part = p]
      BY <2>2, <3>1, <1>6
    <3> QED
      BY <3>2, <3>3 DEF BendRow
  <2>3. CASE bends[c].part # q
    BY <2>3, <1>6
  <2> QED
    BY <2>2, <2>3
<1>8. Joints' = Joints \cup {{x, y}}
  <2>1. Joints' = {{bends'[c].parent, bends'[c].child} : c \in DOMAIN bends'}
    BY DEF Joints, Pair
  <2>2. Joints = {{bends[c].parent, bends[c].child} : c \in DOMAIN bends}
    BY DEF Joints, Pair
  <2>3. {bends'[b].parent, bends'[b].child} = {x, y} /\ b \in DOMAIN bends'
    BY <1>6
  <2>4. \A c \in DOMAIN bends' : c \in DOMAIN bends \/ c = b
    BY <1>6
  <2>5. \A c \in DOMAIN bends : c \in DOMAIN bends'
    BY <1>6
  <2>6. \A c \in DOMAIN bends :
           {bends'[c].parent, bends'[c].child} = {bends[c].parent, bends[c].child}
    BY <1>7
  <2>7. ASSUME NEW j \in Joints' PROVE j \in Joints \cup {{x, y}}
    <3>1. PICK c \in DOMAIN bends' : j = {bends'[c].parent, bends'[c].child}
      BY <2>1, <2>7
    <3>2. CASE c = b
      BY <3>1, <3>2, <2>3
    <3>3. CASE c \in DOMAIN bends
      <4>1. j = {bends[c].parent, bends[c].child}
        BY <3>1, <3>3, <2>6
      <4> QED BY <4>1, <3>3, <2>2
    <3> QED BY <3>2, <3>3, <2>4
  <2>8. ASSUME NEW j \in Joints \cup {{x, y}} PROVE j \in Joints'
    BY <2>1, <2>2, <2>3, <2>5, <2>6
  <2> QED
    BY <2>7, <2>8
<1>9. ~Forest!Connected(x, y)
  <2>1. PICK V : V = LivePanels(p)
    OBVIOUS
  <2>2. V \in SUBSET AllLivePanels /\ x \in V /\ y \notin V
    BY <2>1, <1>1 DEF LivePanels
  <2>3. \A c \in DOMAIN bends : Pair(c) \subseteq V \/ Pair(c) \cap V = {}
    <3>1. ASSUME NEW c \in DOMAIN bends, bends[c].part = p PROVE Pair(c) \subseteq V
      BY <3>1, <2>1, PairLive
    <3>2. ASSUME NEW c \in DOMAIN bends, bends[c].part # p PROVE Pair(c) \cap V = {}
      BY <3>2, <2>1, PairLive DEF LivePanels
    <3> QED
      BY <3>1, <3>2
  <2>4. \A j \in Joints : j \subseteq V \/ j \cap V = {}
    BY <2>3 DEF Joints
  <2> QED
    BY <2>2, <2>4 DEF Forest!Connected, Joints, Pair
<1>10. x \in AllLivePanels /\ y \in AllLivePanels
  BY <1>1 DEF LivePanels
<1> QED
  BY <1>5, <1>8, <1>9, <1>10 DEF Forest!Join, Joints, Pair

LEMMA FuseBodiesAbsorbs ==
    ASSUME FoldInv, NEW p \in PartId, NEW q \in PartId, NEW x \in PanelId, FuseApart(p, q, x)
    PROVE  Forest!Absorb(parts[q].root)
<1>0. PICK y : y = parts[q].root
  OBVIOUS
<1>1. /\ q \in LiveParts /\ BendsOf(q) = {} /\ x \in LivePanels(p) /\ x # None
      /\ regionPanels' = [regionPanels EXCEPT ![y].mergedInto = x]
      /\ bends' = bends
  BY <1>0, IdsAssumption DEF FuseApart, Simple, LiveOn, None
<1>2. y \in LivePanels(q)
  BY <1>0, <1>1, Facts DEF FoldTree
<1>3. y \in DOMAIN regionPanels /\ regionPanels[y].part = q /\ y \in AllLivePanels
  BY <1>2 DEF LivePanels, AllLivePanels
<1>4. /\ DOMAIN regionPanels' = DOMAIN regionPanels
      /\ \A i \in DOMAIN regionPanels \ {y} : regionPanels'[i] = regionPanels[i]
      /\ regionPanels'[y].mergedInto = x
  <2>1. regionPanels[y] \in PanelRow
    BY <1>3 DEF FoldInv, TypeOK
  <2> QED
    BY <2>1, <1>1, <1>3 DEF PanelRow
<1>5. AllLivePanels' = AllLivePanels \ {y}
  BY <1>1, <1>3, <1>4 DEF AllLivePanels, Aliased
<1>6. \A c \in DOMAIN bends : y \notin Pair(c)
  BY <1>1, <1>3, PairLive DEF BendsOf
<1>7. \A j \in Joints : y \notin j
  BY <1>6 DEF Joints
<1> QED
  BY <1>0, <1>1, <1>3, <1>5, <1>7 DEF Forest!Absorb, Joints, Pair

LEMMA DeleteBendNodeFlattens ==
    ASSUME FoldInv, NEW b \in BendId, DeleteBendNode(b)
    PROVE  Forest!Flatten(bends[b].parent, bends[b].child)
<1>0. PICK x, y : x = bends[b].parent /\ y = bends[b].child
  OBVIOUS
<1>1. /\ b \in DOMAIN bends
      /\ bends' = Promoted(b)
      /\ regionPanels' = [regionPanels EXCEPT ![y].mergedInto = x]
  BY <1>0 DEF DeleteBendNode
<1>2. /\ x # y /\ Pair(b) = {x, y} /\ x \in AllLivePanels /\ y \in AllLivePanels
      /\ x \in PanelId /\ x # None
  BY <1>0, <1>1, PairLive, IdsAssumption DEF Pair, BendRow, None
<1>3. /\ DOMAIN regionPanels' = DOMAIN regionPanels
      /\ \A i \in DOMAIN regionPanels \ {y} : regionPanels'[i] = regionPanels[i]
      /\ regionPanels'[y].mergedInto = x
  <2>1. y \in DOMAIN regionPanels
    BY <1>2 DEF AllLivePanels
  <2>2. regionPanels[y] \in PanelRow
    BY <2>1 DEF FoldInv, TypeOK
  <2> QED
    BY <2>1, <2>2, <1>1 DEF PanelRow
<1>4. AllLivePanels' = AllLivePanels \ {y}
  BY <1>2, <1>3 DEF AllLivePanels, Aliased
<1>5. ASSUME NEW c \in DOMAIN bends \ {b}
      PROVE  /\ Pair(c) # {x, y}
             /\ {bends'[c].parent, bends'[c].child} = Forest!Moved(Pair(c), x, y)
  <2>1. Pair(c) # {x, y}
    BY <1>1, <1>2, PairsDiffer
  <2>2. bends[c].child # y
    <3>1. SUFFICES ASSUME bends[c].child = y PROVE FALSE
      OBVIOUS
    <3>2. bends[c].part = bends[b].part
      BY <3>1, <1>0, <1>1, PairLive DEF Pair
    <3>3. PICK p : p = bends[b].part
      OBVIOUS
    <3>4. OneIn(BendsOf(p), bends) /\ b \in BendsOf(p) /\ c \in BendsOf(p)
      BY <3>2, <3>3, <1>1, Facts DEF FoldTree, BendsOf
    <3> QED
      BY <3>1, <3>4, <1>0 DEF OneIn
  <2>3. /\ bends[c] \in BendRow
        /\ bends'[c] = IF bends[c].parent = y THEN [bends[c] EXCEPT !.parent = x] ELSE bends[c]
    BY <1>0, <1>1, PairLive DEF Promoted
  <2>4. CASE bends[c].parent = y
    <3>1. bends'[c].parent = x /\ bends'[c].child = bends[c].child
      BY <2>3, <2>4 DEF BendRow
    <3>2. y \in Pair(c) /\ Pair(c) \ {y} = {bends[c].child}
      BY <2>2, <2>4 DEF Pair
    <3> QED
      BY <2>1, <3>1, <3>2 DEF Forest!Moved
  <2>5. CASE bends[c].parent # y
    <3>1. bends'[c] = bends[c] /\ y \notin Pair(c)
      BY <2>2, <2>3, <2>5 DEF Pair
    <3> QED
      BY <2>1, <3>1 DEF Forest!Moved, Pair
  <2> QED
    BY <2>4, <2>5
<1>6. Joints' = {Forest!Moved(j, x, y) : j \in Joints \ {{x, y}}}
  <2>1. DOMAIN bends' = DOMAIN bends \ {b}
    BY <1>1 DEF Promoted
  <2>2. \A j \in Joints' : \E i \in Joints \ {{x, y}} : j = Forest!Moved(i, x, y)
    BY <2>1, <1>5 DEF Joints, Pair
  <2>3. \A i \in Joints \ {{x, y}} : Forest!Moved(i, x, y) \in Joints'
    BY <2>1, <1>2, <1>5 DEF Joints, Pair
  <2> QED
    BY <2>2, <2>3
<1>7. {x, y} \in Joints
  BY <1>1, <1>2 DEF Joints
<1> QED
  BY <1>0, <1>2, <1>4, <1>6, <1>7 DEF Forest!Flatten, Joints, Pair

LEMMA SplitPartAtBendCuts ==
    ASSUME FoldInv, NEW p \in PartId, NEW b \in BendId, NEW q \in PartId,
           SplitPartAtBend(p, b, q)
    PROVE  Pair(b) \in Joints /\ Forest!Cut(Pair(b))
<1>0. PICK U : U = Subtree(p, b)
  OBVIOUS
<1>1. /\ b \in DOMAIN bends
      /\ regionPanels' = MovedPanels(U, q)
      /\ bends' = [c \in DOMAIN bends \ {b} |->
                      IF bends[c].parent \in U THEN [bends[c] EXCEPT !.part = q] ELSE bends[c]]
  BY <1>0 DEF SplitPartAtBend, BendsOf
<1>2. TypeOK
  BY DEF FoldInv
<1>3. /\ DOMAIN regionPanels' = DOMAIN regionPanels
      /\ \A i \in DOMAIN regionPanels :
            regionPanels'[i] = IF i \in U THEN [regionPanels[i] EXCEPT !.part = q]
                                          ELSE regionPanels[i]
  BY <1>1 DEF MovedPanels
<1>4. \A i \in DOMAIN regionPanels : regionPanels'[i].mergedInto = regionPanels[i].mergedInto
  BY <1>2, <1>3 DEF TypeOK, PanelRow
<1>5. AllLivePanels' = AllLivePanels
  BY <1>3, <1>4 DEF AllLivePanels, Aliased
<1>6. ASSUME NEW c \in DOMAIN bends \ {b}
      PROVE  {bends'[c].parent, bends'[c].child} = Pair(c) /\ Pair(c) # Pair(b)
  <2>1. bends[c] \in BendRow
    BY <1>2 DEF TypeOK
  <2>2. bends'[c].parent = bends[c].parent /\ bends'[c].child = bends[c].child
    BY <2>1, <1>1 DEF BendRow
  <2> QED
    BY <2>2, <1>1, PairsDiffer DEF Pair
<1>7. Joints' = Joints \ {Pair(b)}
  <2>1. DOMAIN bends' = DOMAIN bends \ {b}
    BY <1>1
  <2>2. Joints' = {Pair(c) : c \in DOMAIN bends \ {b}}
    BY <2>1, <1>6 DEF Joints, Pair
  <2> QED
    BY <2>2, <1>6 DEF Joints
<1>8. Pair(b) \in Joints
  BY <1>1 DEF Joints
<1> QED
  BY <1>5, <1>7, <1>8 DEF Forest!Cut, Joints, Pair

LEMMA NextForest == FoldInv /\ [Next]_vars => [Forest!Next]_(Forest!vars)
<1> SUFFICES ASSUME FoldInv, [Next]_vars PROVE Forest!Next \/ UNCHANGED Forest!vars
  BY DEF Forest!vars
<1>1. ASSUME NEW p \in PartId, NEW x \in PanelId, CreatePart(p, x) PROVE Forest!Next
  BY <1>1, CreatePartLays DEF Forest!Next
<1>2. ASSUME NEW p \in PartId, NEW x \in PanelId, NEW y \in PanelId, NEW b \in BendId,
             CreateBendNode(p, x, y, b)
      PROVE  Forest!Next
  BY <1>2, CreateBendNodeFolds DEF Forest!Next
<1>3. ASSUME NEW p \in PartId, NEW q \in PartId, NEW x \in PanelId, NEW y \in PanelId,
             NEW b \in BendId, MergeApart(p, q, x, y, b)
      PROVE  Forest!Next
  BY <1>3, MergePartsWithBendJoins DEF Forest!Next
<1>4. ASSUME NEW p \in PartId, NEW q \in PartId, NEW x \in PanelId, FuseApart(p, q, x)
      PROVE  Forest!Next
  <2>1. parts[q].root \in PanelId
    BY <1>4 DEF FuseApart, LiveParts, FoldInv, TypeOK, PartRow
  <2> QED
    BY <2>1, <1>4, FuseBodiesAbsorbs DEF Forest!Next
<1>5. ASSUME NEW b \in BendId, DeleteBendNode(b) PROVE Forest!Next
  <2>1. bends[b].parent \in PanelId /\ bends[b].child \in PanelId
    BY <1>5 DEF DeleteBendNode, FoldInv, TypeOK, BendRow
  <2>2. PICK x, y \in PanelId : x = bends[b].parent /\ y = bends[b].child
    BY <2>1
  <2>3. Forest!Flatten(bends[b].parent, bends[b].child)
    BY <1>5, DeleteBendNodeFlattens
  <2>4. Forest!Flatten(x, y)
    BY <2>2, <2>3 DEF Forest!Flatten
  <2> QED
    BY <2>4 DEF Forest!Next
<1>6. ASSUME NEW p \in PartId, NEW q \in PartId, NEW b \in BendId, SplitPartAtBend(p, b, q)
      PROVE  Forest!Next
  <2>1. Pair(b) \in Joints /\ Forest!Cut(Pair(b))
    BY <1>6, SplitPartAtBendCuts
  <2>2. PICK j \in Joints : j = Pair(b)
    BY <2>1
  <2>3. Forest!Cut(j)
    BY <2>1, <2>2 DEF Forest!Cut
  <2> QED
    BY <2>3 DEF Forest!Next, Joints, Pair
<1>7. ASSUME NEW p \in PartId, NEW x \in PanelId, NEW h \in HoleId, AddCutHole(p, x, h)
      PROVE  UNCHANGED Forest!vars
  BY <1>7 DEF AddCutHole, Forest!vars, AllLivePanels, Aliased
<1>8. CASE UNCHANGED vars
  BY <1>8 DEF vars, Forest!vars, AllLivePanels, Aliased
<1> QED
  BY <1>1, <1>2, <1>3, <1>4, <1>5, <1>6, <1>7, <1>8, MergeCases, FuseCases DEF Next

(* Every step of the tools is an operation of the forest or none: joining  *)
(* closes no loop, and a panel disappears only when nothing hangs off it   *)
(* or into its neighbour (store.ts).                                       *)
THEOREM Implements == Spec => ImplementsForest
<1>1. Init => Forest!Init
  BY ForestInit
<1>2. FoldInv /\ [Next]_vars => [Forest!Next]_(Forest!vars)
  BY NextForest
<1> QED
  BY <1>1, <1>2, Invariance, PTL DEF Spec, ImplementsForest, Forest!Spec
-----------------------------------------------------------------------------
(***************************************************************************)
(* The tables add up to the maps in memory: the rows persistMutation       *)
(* writes part by part, of the changed parts only, are always enough.      *)
(*                                                                         *)
(* The argument looks at one key.  A part whose snapshot is the same       *)
(* before and after a tool has the same rows; so if the row of a key       *)
(* changed, appeared or vanished, or moved from one part to another, each  *)
(* part that had or has the key is among the changed ones, and the diff    *)
(* sees both sides of the change.  It needs every row, of an alias too, to *)
(* name a part there is, and parts never to be removed.                    *)
(***************************************************************************)
IsMap(f) == f = [k \in DOMAIN f |-> f[k]]
OwnedIn(f, D) == \A k \in DOMAIN f : f[k].part \in D
OwnedBy(f, D) == [p \in D |-> {k \in DOMAIN f : f[k].part = p}]
RowsOf(f, own, p) == [k \in own[p] |-> f[k]]

(* What is needed besides FoldInv: the maps are maps, and every panel, an  *)
(* alias or not, and every bend is of a part there is.                     *)
Filed ==
    /\ IsMap(regionPanels) /\ IsMap(bends)
    /\ OwnedIn(regionPanels, DOMAIN parts) /\ OwnedIn(bends, DOMAIN parts)
RowsInv == FoldInv /\ Filed /\ RowsAgree

-----------------------------------------------------------------------------
(* The keys the diff looks at are those of the changed parts' rows.        *)
LEMMA KeysOfChanged ==
    ASSUME NEW f, NEW D, NEW C
    PROVE  \A k : k \in DOMAIN ByKey(OwnedBy(f, D), C) <=> k \in DOMAIN f /\ f[k].part \in C \cap D
<1>1. DOMAIN OwnedBy(f, D) = D
  BY DEF OwnedBy
<1>2. \A p \in C \cap D : OwnedBy(f, D)[p] = {k \in DOMAIN f : f[k].part = p}
  BY DEF OwnedBy
<1>3. DOMAIN ByKey(OwnedBy(f, D), C) = UNION {OwnedBy(f, D)[p] : p \in C \cap D}
  BY <1>1 DEF ByKey
<1> QED
  BY <1>2, <1>3

LEMMA ChangedRows ==
    ASSUME NEW f, NEW D, NEW C
    PROVE  LET rows == Rows(ByKey(OwnedBy(f, D), C), f)
           IN  /\ DOMAIN rows = {k \in DOMAIN f : f[k].part \in C \cap D}
               /\ \A k \in DOMAIN rows : rows[k] = f[k]
<1> DEFINE rows == Rows(ByKey(OwnedBy(f, D), C), f)
<1>1. \A k : k \in DOMAIN ByKey(OwnedBy(f, D), C) <=> k \in DOMAIN f /\ f[k].part \in C \cap D
  BY KeysOfChanged, Zenon
<1>2. DOMAIN ByKey(OwnedBy(f, D), C) = {k \in DOMAIN f : f[k].part \in C \cap D}
  BY <1>1
<1>3. rows = [k \in {j \in DOMAIN f : f[j].part \in C \cap D} |-> f[k]]
  BY <1>2, Zenon DEF Rows
<1> HIDE DEF rows
<1>4. DOMAIN rows = {k \in DOMAIN f : f[k].part \in C \cap D} /\ \A k \in DOMAIN rows : rows[k] = f[k]
  BY <1>3
<1> QED
  BY <1>4 DEF rows

(* f before and g after a tool, a table that agreed with f: writing the    *)
(* rows of the changed parts makes it agree with g.                        *)
LEMMA WrittenAgrees ==
    ASSUME NEW f, NEW g, NEW D, NEW E, NEW C,
           IsMap(g), D \subseteq E,
           OwnedIn(f, D), OwnedIn(g, E),
           \A p \in E \ C : /\ p \in D
                            /\ RowsOf(f, OwnedBy(f, D), p) = RowsOf(g, OwnedBy(g, E), p)
    PROVE  Written(f, Rows(ByKey(OwnedBy(f, D), C), f), Rows(ByKey(OwnedBy(g, E), C), g)) = g
<1> DEFINE old == Rows(ByKey(OwnedBy(f, D), C), f)
           new == Rows(ByKey(OwnedBy(g, E), C), g)
<1>1. /\ DOMAIN old = {k \in DOMAIN f : f[k].part \in C \cap D}
      /\ \A k \in DOMAIN old : old[k] = f[k]
  BY ChangedRows, ZenonT(60)
<1>2. /\ DOMAIN new = {k \in DOMAIN g : g[k].part \in C \cap E}
      /\ \A k \in DOMAIN new : new[k] = g[k]
  BY ChangedRows, ZenonT(60)
<1>3. ASSUME NEW p \in E \ C
      PROVE  /\ {k \in DOMAIN f : f[k].part = p} = {k \in DOMAIN g : g[k].part = p}
             /\ \A k \in DOMAIN f : f[k].part = p => f[k] = g[k]
  <2>1. p \in D
    BY <1>3
  <2> DEFINE F == {k \in DOMAIN f : f[k].part = p}
             G == {k \in DOMAIN g : g[k].part = p}
  <2>2. OwnedBy(f, D)[p] = F /\ OwnedBy(g, E)[p] = G
    BY <2>1 DEF OwnedBy
  <2>3. [k \in F |-> f[k]] = [k \in G |-> g[k]]
    BY <1>3, <2>2 DEF RowsOf
  <2> HIDE DEF F, G
  <2>4. DOMAIN [k \in F |-> f[k]] = F /\ DOMAIN [k \in G |-> g[k]] = G
    OBVIOUS
  <2>5. F = G
    BY <2>3, <2>4
  <2>6. \A k \in F : f[k] = g[k]
    BY <2>3, <2>5
  <2> QED
    BY <2>5, <2>6 DEF F, G
<1>4. (DOMAIN f \cup DOMAIN new) \ (DOMAIN old \ DOMAIN new) = DOMAIN g
  <2>1. ASSUME NEW k \in DOMAIN g
        PROVE  k \in DOMAIN new \/ (k \in DOMAIN f /\ k \notin DOMAIN old /\ f[k] = g[k])
    <3>1. g[k].part \in E
      BY DEF OwnedIn
    <3>2. CASE g[k].part \in C
      BY <1>2, <3>1, <3>2
    <3>3. CASE g[k].part \notin C
      <4>1. k \in DOMAIN f /\ f[k].part = g[k].part /\ f[k] = g[k]
        BY <1>3, <3>1, <3>3
      <4> QED
        BY <1>1, <3>3, <4>1
    <3> QED
      BY <3>2, <3>3
  <2>2. ASSUME NEW k \in DOMAIN f, k \notin DOMAIN g
        PROVE  k \in DOMAIN old /\ k \notin DOMAIN new
    <3>1. f[k].part \in D /\ f[k].part \in E
      BY DEF OwnedIn
    <3>2. f[k].part \in C
      BY <1>3, <2>2, <3>1
    <3> QED
      BY <1>1, <1>2, <2>2, <3>1, <3>2
  <2>3. DOMAIN new \subseteq DOMAIN g
    BY <1>2
  <2> HIDE DEF old, new
  <2> QED
    BY <2>1, <2>2, <2>3
<1>5. ASSUME NEW k \in DOMAIN g
      PROVE  (IF k \in DOMAIN new /\ (k \notin DOMAIN old \/ new[k] # old[k])
              THEN new[k] ELSE f[k]) = g[k]
  <2>1. CASE k \in DOMAIN new
    <3>1. new[k] = g[k]
      BY <1>2, <2>1
    <3>2. k \in DOMAIN old => old[k] = f[k]
      BY <1>1
    <3> HIDE DEF old, new
    <3> QED
      BY <2>1, <3>1, <3>2
  <2>2. CASE k \notin DOMAIN new
    <3>1. g[k].part \in E /\ g[k].part \notin C
      BY <1>2, <2>2 DEF OwnedIn
    <3>2. f[k] = g[k]
      BY <1>3, <3>1
    <3> QED
      BY <2>2, <3>2
  <2> QED
    BY <2>1, <2>2
<1>6. Written(f, old, new) = [k \in DOMAIN g |-> g[k]]
  <2> HIDE DEF old, new
  <2> QED
    BY <1>4, <1>5 DEF Written
<1> QED
  BY <1>6 DEF IsMap

-----------------------------------------------------------------------------
(* Whatever the tool did: a table is brought up to date when the rows stay *)
(* filed under parts there are and no part is removed.                     *)
LEMMA PersistAgrees ==
    ASSUME Filed, Filed', RowsAgree, DOMAIN parts \subseteq DOMAIN parts', Persist
    PROVE  RowsAgree'
<1>1. ASSUME NEW p \in DOMAIN parts' \ Changed
      PROVE  /\ p \in DOMAIN parts
             /\ [x \in OwnPanels[p] |-> regionPanels[x]] = [x \in OwnPanels'[p] |-> regionPanels'[x]]
             /\ [b \in OwnBends[p] |-> bends[b]] = [b \in OwnBends'[p] |-> bends'[b]]
  <2> DEFINE panelsWere == [x \in OwnPanels[p] |-> regionPanels[x]]
             panelsAre == [x \in OwnPanels'[p] |-> regionPanels'[x]]
             bendsWere == [b \in OwnBends[p] |-> bends[b]]
             bendsAre == [b \in OwnBends'[p] |-> bends'[b]]
  <2>1. Snapshot(p) = Snapshot(p)'
    BY <1>1 DEF Changed
  <2>2. Snapshot(p)' = <<parts'[p], panelsAre, bendsAre>>
    BY DEF Snapshot
  <2>3. Snapshot(p) = IF p \in DOMAIN parts THEN <<parts[p], panelsWere, bendsWere>> ELSE <<>>
    BY DEF Snapshot
  <2> HIDE DEF panelsWere, panelsAre, bendsWere, bendsAre
  <2>4. p \in DOMAIN parts
    BY <2>1, <2>2, <2>3
  <2>5. <<parts[p], panelsWere, bendsWere>> = <<parts'[p], panelsAre, bendsAre>>
    BY <2>1, <2>2, <2>3, <2>4
  <2>6. panelsWere = panelsAre /\ bendsWere = bendsAre
    BY <2>5
  <2> QED
    BY <2>4, <2>6 DEF panelsWere, panelsAre, bendsWere, bendsAre
<1>2. /\ OwnPanels = OwnedBy(regionPanels, DOMAIN parts)
      /\ OwnPanels' = OwnedBy(regionPanels', DOMAIN parts')
      /\ OwnBends = OwnedBy(bends, DOMAIN parts)
      /\ OwnBends' = OwnedBy(bends', DOMAIN parts')
  BY DEF OwnPanels, OwnBends, BendsOf, OwnedBy
<1>3. /\ IsMap(regionPanels') /\ IsMap(bends')
      /\ OwnedIn(regionPanels, DOMAIN parts) /\ OwnedIn(bends, DOMAIN parts)
      /\ OwnedIn(regionPanels', DOMAIN parts') /\ OwnedIn(bends', DOMAIN parts')
  BY DEF Filed, IsMap, OwnedIn
<1>4. /\ panelRows' = Written(panelRows, Rows(ByKey(OwnPanels, Changed), regionPanels),
                               Rows(ByKey(OwnPanels', Changed), regionPanels'))
      /\ bendRows' = Written(bendRows, Rows(ByKey(OwnBends, Changed), bends),
                              Rows(ByKey(OwnBends', Changed), bends'))
  <2> PICK C \in {Changed} :
         /\ panelRows' = Written(panelRows, Rows(ByKey(OwnPanels, C), regionPanels),
                                 Rows(ByKey(OwnPanels', C), regionPanels'))
         /\ bendRows' = Written(bendRows, Rows(ByKey(OwnBends, C), bends),
                                Rows(ByKey(OwnBends', C), bends'))
    BY Zenon DEF Persist
  <2> QED
    OBVIOUS
<1>5. panelRows' = regionPanels'
  <2>1. \A p \in DOMAIN parts' \ Changed :
           /\ p \in DOMAIN parts
           /\ RowsOf(regionPanels, OwnPanels, p) = RowsOf(regionPanels', OwnPanels', p)
    BY <1>1 DEF RowsOf
  <2>2. Written(regionPanels, Rows(ByKey(OwnPanels, Changed), regionPanels),
                Rows(ByKey(OwnPanels', Changed), regionPanels')) = regionPanels'
    BY <1>2, <1>3, <2>1, WrittenAgrees
  <2> QED
    BY <1>4, <2>2 DEF RowsAgree
<1>6. bendRows' = bends'
  <2>1. \A p \in DOMAIN parts' \ Changed :
           /\ p \in DOMAIN parts
           /\ RowsOf(bends, OwnBends, p) = RowsOf(bends', OwnBends', p)
    BY <1>1 DEF RowsOf
  <2>2. Written(bends, Rows(ByKey(OwnBends, Changed), bends),
                Rows(ByKey(OwnBends', Changed), bends')) = bends'
    BY <1>2, <1>3, <2>1, WrittenAgrees
  <2> QED
    BY <1>4, <2>2 DEF RowsAgree
<1> QED
  BY <1>5, <1>6 DEF RowsAgree

-----------------------------------------------------------------------------
(* Every tool keeps the rows filed, and the parts.                         *)
LEMMA FiledStep ==
    ASSUME FoldInv, FoldInv', Filed, Next
    PROVE  Filed' /\ DOMAIN parts \subseteq DOMAIN parts'
<1> USE DEF IsMap, OwnedIn
<1>1. OwnedIn(bends, DOMAIN parts)'
  BY DEF FoldInv, NothingOnAliases, LiveParts
<1>2. \A x \in DOMAIN regionPanels : regionPanels[x] \in PanelRow /\ regionPanels[x].part \in DOMAIN parts
  BY DEF FoldInv, TypeOK, Filed
<1>3. IsMap(regionPanels) /\ IsMap(bends)
  BY DEF Filed
<1>4. CASE \E p \in PartId, x \in PanelId : CreatePart(p, x)
  <2> PICK p \in PartId, x \in PanelId : CreatePart(p, x)
    BY <1>4
  <2>1. DOMAIN parts' = DOMAIN parts \cup {p}
    BY DEF CreatePart, Added
  <2> QED
    BY <1>1, <1>2, <1>3, <2>1 DEF CreatePart, Added, Filed
<1>5. CASE \E p \in PartId, x, y \in PanelId, b \in BendId : CreateBendNode(p, x, y, b)
  <2> PICK p \in PartId, x \in PanelId, y \in PanelId, b \in BendId : CreateBendNode(p, x, y, b)
    BY <1>5
  <2> QED
    BY <1>1, <1>2 DEF CreateBendNode, Added, Filed
<1>6. CASE \E p, q \in PartId, x, y \in PanelId, b \in BendId : MergeApart(p, q, x, y, b)
  <2> PICK p \in PartId, q \in PartId, x \in PanelId, y \in PanelId, b \in BendId :
         MergeApart(p, q, x, y, b)
    BY <1>6
  <2>1. DOMAIN parts' = DOMAIN parts /\ p \in DOMAIN parts
    BY DEF MergeApart, LiveParts
  <2>2. IsMap(bends')
    BY DEF MergeApart, MergedBends, Added
  <2>3. IsMap(regionPanels') /\ \A z \in DOMAIN regionPanels' : regionPanels'[z].part \in DOMAIN parts
    BY <1>2, <2>1 DEF MergeApart, MovedPanels, PanelRow
  <2> QED
    BY <1>1, <2>1, <2>2, <2>3 DEF Filed
<1>7. CASE \E p, q \in PartId, x \in PanelId : FuseApart(p, q, x)
  <2> PICK p \in PartId, q \in PartId, x \in PanelId : FuseApart(p, q, x)
    BY <1>7
  <2>1. DOMAIN parts' = DOMAIN parts /\ bends' = bends
    BY DEF FuseApart
  <2>2. IsMap(regionPanels') /\ \A z \in DOMAIN regionPanels' : regionPanels'[z].part \in DOMAIN parts
    BY <1>2 DEF FuseApart, PanelRow
  <2> QED
    BY <1>1, <1>3, <2>1, <2>2 DEF Filed
<1>8. CASE \E b \in BendId : DeleteBendNode(b)
  <2> PICK b \in BendId : DeleteBendNode(b)
    BY <1>8
  <2>1. IsMap(bends') /\ parts' = parts
    BY DEF DeleteBendNode, Promoted
  <2>2. IsMap(regionPanels') /\ \A z \in DOMAIN regionPanels' : regionPanels'[z].part \in DOMAIN parts
    BY <1>2 DEF DeleteBendNode, PanelRow
  <2> QED
    BY <1>1, <2>1, <2>2 DEF Filed
<1>9. CASE \E p, q \in PartId, b \in BendId : SplitPartAtBend(p, b, q)
  <2> PICK p \in PartId, q \in PartId, b \in BendId : SplitPartAtBend(p, b, q)
    BY <1>9
  <2>1. DOMAIN parts' = DOMAIN parts \cup {q}
    BY DEF SplitPartAtBend, Added
  <2>2. IsMap(bends')
    BY DEF SplitPartAtBend
  <2>3. IsMap(regionPanels') /\ \A z \in DOMAIN regionPanels' : regionPanels'[z].part \in DOMAIN parts'
    BY <1>2, <2>1 DEF SplitPartAtBend, MovedPanels, PanelRow
  <2> QED
    BY <1>1, <2>1, <2>2, <2>3 DEF Filed
<1>10. CASE \E p \in PartId, x \in PanelId, h \in HoleId : AddCutHole(p, x, h)
  <2> PICK p \in PartId, x \in PanelId, h \in HoleId : AddCutHole(p, x, h)
    BY <1>10
  <2>1. DOMAIN parts' = DOMAIN parts /\ regionPanels' = regionPanels /\ bends' = bends
    BY DEF AddCutHole
  <2> QED
    BY <1>1, <2>1 DEF Filed
<1>11. CASE UNCHANGED vars
  <2>1. parts' = parts /\ regionPanels' = regionPanels /\ bends' = bends
    BY <1>11 DEF vars
  <2> QED
    BY <1>1, <2>1 DEF Filed
<1> QED
  BY <1>4, <1>5, <1>6, <1>7, <1>8, <1>9, <1>10, <1>11, MergeCases, FuseCases DEF Next

LEMMA RowsAreNext == NextRows => Next /\ Persist
  BY DEF NextRows, Next

LEMMA RowsInited == InitRows => RowsInv
<1> SUFFICES ASSUME InitRows PROVE RowsInv
  OBVIOUS
<1>1. FoldInv
  BY Inited DEF InitRows
<1>2. DOMAIN parts = {} /\ DOMAIN regionPanels = {} /\ DOMAIN bends = {}
  BY DEF InitRows, Init
<1>3. IsMap(regionPanels) /\ IsMap(bends)
  BY DEF InitRows, Init, IsMap
<1> QED
  BY <1>1, <1>2, <1>3 DEF RowsInv, Filed, OwnedIn, RowsAgree, InitRows, Init

LEMMA RowsStep == RowsInv /\ [NextRows]_rowVars => RowsInv'
<1> SUFFICES ASSUME RowsInv, [NextRows]_rowVars PROVE RowsInv'
  OBVIOUS
<1>1. CASE NextRows
  <2>1. Next /\ Persist
    BY <1>1, RowsAreNext
  <2>2. FoldInv'
    BY <2>1, InvariantStep DEF RowsInv
  <2>3. Filed' /\ DOMAIN parts \subseteq DOMAIN parts'
    BY <2>1, <2>2, FiledStep DEF RowsInv
  <2> QED
    BY <2>1, <2>2, <2>3, PersistAgrees DEF RowsInv
<1>2. CASE UNCHANGED rowVars
  <2>1. UNCHANGED vars /\ UNCHANGED <<panelRows, bendRows, holeRows>>
    BY <1>2 DEF rowVars
  <2>2. FoldInv'
    BY <2>1, InvariantStep DEF RowsInv
  <2> QED
    BY <2>1, <2>2 DEF RowsInv, Filed, IsMap, OwnedIn, RowsAgree, vars
<1> QED
  BY <1>1, <1>2

(* After every save the tables region_panel and bend hold what memory      *)
(* holds, for any number of parts and any sequence of tools, although only *)
(* the rows of the changed parts are compared and written (rowsOf and      *)
(* diffRows in persist-mutation.ts).                                       *)
THEOREM StorageAgrees == SpecRows => []RowsAgree
<1>1. InitRows => RowsInv
  BY RowsInited
<1>2. RowsInv /\ [NextRows]_rowVars => RowsInv'
  BY RowsStep
<1>3. RowsInv => RowsAgree
  BY DEF RowsInv
<1> QED
  BY <1>1, <1>2, <1>3, PTL DEF SpecRows

(* Saving is an observer: what is proved of the graph tools holds of the   *)
(* graph tools that save their rows (the rest of persistMutation only      *)
(* reads the graph).                                                       *)
THEOREM SavingObserves == SpecRows => Spec
<1>1. InitRows => Init
  BY DEF InitRows
<1>2. [NextRows]_rowVars => [Next]_vars
  BY RowsAreNext DEF rowVars
<1> QED
  BY <1>1, <1>2, PTL DEF SpecRows, Spec
=============================================================================
