------------------------ MODULE DoltSession_proofs ------------------------
(***************************************************************************)
(* Proofs about DoltSession: the inductive invariant Inv of Spec, and with *)
(* it that undoing everything reaches the last commit, that the commit     *)
(* mark separates, that main stays clean and that an edit's before-images  *)
(* are the stored rows; and, with calls that stop half way (FaultySpec),   *)
(* the weaker FaultyInv, by which main still stays clean and the           *)
(* connection never stays on a deleted branch.                             *)
(*                                                                         *)
(* The lemmas come in two layers.  The first speaks of single working sets *)
(* (what an edit, an undo or a commit does to one, and what a merge makes  *)
(* of three); the second follows the actions and only places those results *)
(* on the right branch.                                                    *)
(***************************************************************************)
EXTENDS DoltSession, SequenceTheorems, FiniteSetTheorems, TLAPS

(***************************************************************************)
(* Working sets                                                            *)
(***************************************************************************)

LEMMA DbFields ==
    ASSUME NEW d, IsDb(d)
    PROVE  /\ DOMAIN d.log \subseteq Nat \ {0}
           /\ DOMAIN d.log \subseteq 1..MaxSeq
           /\ d.cs \in Nat /\ d.cs \in 0..MaxSeq
           /\ d.rows \in [Key -> Cell]
           /\ d.log \in [DOMAIN d.log -> Op]
           /\ d = [rows |-> d.rows, log |-> d.log, cs |-> d.cs]
<1>1. d \in [rows : Row, log : [DOMAIN d.log -> Op], cs : 0..MaxSeq]
  BY DEF IsDb
<1>2. /\ d.rows \in Row /\ d.cs \in 0..MaxSeq
      /\ d = [rows |-> d.rows, log |-> d.log, cs |-> d.cs]
  BY <1>1
<1>3. d.log \in [DOMAIN d.log -> Op]
  BY <1>1
<1> QED
  BY <1>2, <1>3, BoundsNat DEF IsDb, Row

LEMMA OpFields ==
    ASSUME NEW o \in Op
    PROVE  /\ DOMAIN o.before \subseteq Key
           /\ o.before \in [DOMAIN o.before -> Cell]
           /\ o.was \in Row
           /\ o.undone \in BOOLEAN
           /\ o = [before |-> o.before, was |-> o.was, undone |-> o.undone]
BY DEF Op

\* The undone tail lies above the mark, so dropping it keeps what is committed
\* and what undo may still reverse.
LEMMA DropUndoneFacts ==
    ASSUME NEW d, IsDb(d)
    PROVE  LET k == DropUndone(d) IN
           /\ IsDb(k)
           /\ k.rows = d.rows /\ k.cs = d.cs
           /\ DOMAIN k.log = DOMAIN d.log \ Undone(d)
           /\ \A s \in DOMAIN k.log : k.log[s] = d.log[s]
           /\ Live(k) = Live(d)
<1> DEFINE k == DropUndone(d)
<1>1. k = [rows |-> d.rows, log |-> [s \in DOMAIN d.log \ Undone(d) |-> d.log[s]], cs |-> d.cs]
  BY DbFields DEF DropUndone
<1>2. /\ k.rows = d.rows /\ k.cs = d.cs
      /\ k.log = [s \in DOMAIN d.log \ Undone(d) |-> d.log[s]]
      /\ DOMAIN k.log = DOMAIN d.log \ Undone(d)
      /\ \A s \in DOMAIN k.log : k.log[s] = d.log[s]
  BY <1>1
<1>3. IsDb(k)
  <2>1. \A s \in DOMAIN d.log : d.log[s] \in Op
    BY DbFields
  <2>2. k.log \in [DOMAIN k.log -> Op]
    BY <1>2, <2>1
  <2> QED
    BY <1>1, <1>2, <2>2, DbFields DEF IsDb, Row
<1>4. Live(k) = Live(d)
  BY <1>2 DEF Live, Undone
<1> QED
  BY <1>2, <1>3, <1>4

\* A working set that undo takes back to h, operation by operation.
Rewinds(db, h) == /\ RewindsTo(db, 0, h.rows)
                  /\ \A s \in Live(db) : RewindsTo(db, s, db.log[s].was)

LEMMA SettledIsBase ==
    ASSUME NEW d, IsDb(d), Settled(d)
    PROVE  MarkedAs(d, d) /\ Rewinds(d, d) /\ Live(d) = {} /\ Undone(d) = {}
<1>1. Live(d) = {} /\ Undone(d) = {}
  BY DbFields DEF Live, Undone, Settled
<1>2. \A k \in Key : Touching(d, k, 0) = {}
  BY <1>1 DEF Touching
<1> QED
  BY <1>1, <1>2 DEF MarkedAs, Rewinds, RewindsTo, Settled


\* A function is in the set of functions from its domain.
LEMMA PatchType ==
    ASSUME NEW side \in SidePatch
    PROVE  /\ DOMAIN side \subseteq SideKey
           /\ side \in [DOMAIN side -> Cell]
BY DEF SidePatch

\* Typing of an edit: its before-image has an entry for every row it writes.
LEMMA AppliedType ==
    ASSUME NEW d, IsDb(d), NEW g \in [GraphKey -> Cell], NEW side \in SidePatch,
           NEW s \in 1..MaxSeq, mem \in [GraphKey -> Cell],
           NEW e, e = Applied(d, g, side, s)
    PROVE  /\ IsDb(e)
           /\ e.cs = d.cs
           /\ DOMAIN e.log = (DOMAIN d.log \ Undone(d)) \cup {s}
           /\ \A t \in DOMAIN e.log \ {s} : e.log[t] = d.log[t]
           /\ ~e.log[s].undone /\ e.log[s].was = d.rows
           /\ DOMAIN e.log[s].before = Changed(g) \cup DOMAIN side
           /\ \A k \in Changed(g) \cup DOMAIN side :
                e.log[s].before[k] = IF k \in GraphKey THEN mem[k] ELSE d.rows[k]
           /\ \A k \in Key \ (Changed(g) \cup DOMAIN side) : e.rows[k] = d.rows[k]
           /\ \A k \in GraphKey : k \notin Changed(g) => g[k] = mem[k]
           /\ \A k \in Changed(g) : e.rows[k] = g[k]
<1> DEFINE kept == DropUndone(d).log
           W == Changed(g) \cup DOMAIN side
           op == [before |-> [k \in W |-> IF k \in GraphKey THEN mem[k] ELSE d.rows[k]],
                  was    |-> d.rows,
                  undone |-> FALSE]
           r == [k \in Key |-> CASE k \in Changed(g)   -> g[k]
                                 [] k \in DOMAIN side -> side[k]
                                 [] OTHER             -> d.rows[k]]
           l == [t \in DOMAIN kept \cup {s} |-> IF t # s THEN kept[t] ELSE op]
<1>1. e = [rows |-> r, log |-> l, cs |-> d.cs]
  BY DEF Applied
<1>2. /\ DOMAIN kept = DOMAIN d.log \ Undone(d)
      /\ \A t \in DOMAIN kept : kept[t] = d.log[t] /\ kept[t] \in Op
      /\ DOMAIN kept \subseteq 1..MaxSeq
  BY DropUndoneFacts, DbFields
<1>3. W \subseteq Key /\ DOMAIN side \subseteq SideKey /\ Changed(g) \subseteq GraphKey
  BY PatchType DEF Changed, Key
<1>4. d.rows \in [Key -> Cell] /\ d.cs \in 0..MaxSeq
  BY DbFields
<1>5. r \in Row
  <2>1. \A k \in DOMAIN side : side[k] \in Cell
    BY PatchType
  <2>2. ASSUME NEW k \in Key PROVE r[k] \in Cell
    <3>1. CASE k \in Changed(g)
      <4>1. r[k] = g[k] /\ k \in GraphKey
        BY <3>1, <1>3, KeysDisjoint DEF Key
      <4> QED
        BY <4>1
    <3>2. CASE k \notin Changed(g) /\ k \in DOMAIN side
      BY <3>2, <2>1
    <3>3. CASE k \notin Changed(g) /\ k \notin DOMAIN side
      BY <3>3, <1>4
    <3> QED
      BY <3>1, <3>2, <3>3
  <2> QED
    BY <2>2 DEF Row
<1>6. op \in Op
  <2>1. op.before \in [W -> Cell]
    BY <1>3, <1>4 DEF Key
  <2>2. W \in SUBSET Key
    BY <1>3
  <2>3. op.before \in UNION {[D -> Cell] : D \in SUBSET Key}
    BY <2>1, <2>2
  <2> QED
    BY <2>3, <1>4 DEF Op, Row
<1>7. l \in [DOMAIN l -> Op] /\ DOMAIN l \subseteq 1..MaxSeq
  BY <1>2, <1>6
<1>8. IsDb(e)
  <2> HIDE DEF r, l
  <2> QED
    BY <1>1, <1>4, <1>5, <1>7 DEF IsDb
<1>9. \A k \in Changed(g) : r[k] = g[k]
  BY <1>3, KeysDisjoint DEF Key
<1>10. \A k \in Key \ W : r[k] = d.rows[k]
  OBVIOUS
<1>11. l[s] = op /\ \A t \in DOMAIN l \ {s} : l[t] = d.log[t]
  BY <1>2
<1>12. \A k \in GraphKey : k \notin Changed(g) => g[k] = mem[k]
  BY DEF Changed
<1> QED
  <2>1. /\ e.rows = r /\ e.log = l /\ e.cs = d.cs
    BY <1>1
  <2>2. DOMAIN l = (DOMAIN d.log \ Undone(d)) \cup {s}
    BY <1>2
  <2>3. /\ ~op.undone /\ op.was = d.rows /\ DOMAIN op.before = W
        /\ \A k \in W : op.before[k] = IF k \in GraphKey THEN mem[k] ELSE d.rows[k]
    OBVIOUS
  <2> HIDE DEF r, l, op
  <2>4. /\ IsDb(e) /\ e.cs = d.cs
        /\ DOMAIN e.log = (DOMAIN d.log \ Undone(d)) \cup {s}
        /\ \A t \in DOMAIN e.log \ {s} : e.log[t] = d.log[t]
        /\ ~e.log[s].undone /\ e.log[s].was = d.rows
        /\ DOMAIN e.log[s].before = W
        /\ \A k \in W : e.log[s].before[k] = IF k \in GraphKey THEN mem[k] ELSE d.rows[k]
        /\ \A k \in Key \ W : e.rows[k] = d.rows[k]
        /\ \A k \in Changed(g) : e.rows[k] = g[k]
    BY <1>8, <1>9, <1>10, <1>11, <2>1, <2>2, <2>3
  <2> QED
    BY <2>4, <1>12

\* An edit of a working set that undo takes back to h leaves one that undo
\* takes back to h: the new operation is the newest, and its before-images are
\* the rows it found, because memory was the stored graph.
LEMMA AppliedRewinds ==
    ASSUME NEW d, IsDb(d), NEW h, MarkedAs(d, h), Rewinds(d, h), h.cs \in DOMAIN h.log \cup {0},
           NEW g \in [GraphKey -> Cell], NEW side \in SidePatch, NEW s \in 1..MaxSeq,
           mem \in [GraphKey -> Cell], mem = Graph(d),
           \A t \in DOMAIN d.log : t < s,
           NEW e, e = Applied(d, g, side, s)
    PROVE  MarkedAs(e, h) /\ Rewinds(e, h)
<1> DEFINE W == Changed(g) \cup DOMAIN side
<1>1. /\ DOMAIN d.log \subseteq Nat /\ d.cs \in Nat /\ s \in Nat
      /\ d.rows \in [Key -> Cell]
  BY DbFields
<1>2. d.cs < s
  <2>1. CASE d.cs = 0
    BY <2>1, <1>1
  <2>2. CASE d.cs \in DOMAIN d.log
    BY <2>2
  <2> QED
    BY <2>1, <2>2 DEF MarkedAs
<1>3. e.cs = d.cs /\ DOMAIN e.log = (DOMAIN d.log \ Undone(d)) \cup {s}
  BY AppliedType
<1>4. \A t \in DOMAIN e.log \ {s} : e.log[t] = d.log[t]
  BY AppliedType
<1>5. MarkedAs(e, h)
  <2>1. {t \in DOMAIN e.log : t <= e.cs} = {t \in DOMAIN d.log : t <= d.cs}
    BY <1>1, <1>2, <1>3 DEF Undone
  <2> QED
    BY <1>3, <2>1 DEF MarkedAs
<1>6. Live(e) = Live(d) \cup {s}
  <2>1. s \in DOMAIN e.log /\ ~e.log[s].undone
    BY AppliedType
  <2>2. s \notin DOMAIN d.log
    BY <1>1
  <2>3. \A t : t \in Live(e) <=> t \in Live(d) \cup {s}
    BY <1>2, <1>3, <1>4, <2>1, <2>2 DEF Live, Undone
  <2> QED
    BY <2>3
<1>7. /\ DOMAIN e.log[s].before = W /\ e.log[s].was = d.rows
      /\ \A k \in W : e.log[s].before[k] = IF k \in GraphKey THEN mem[k] ELSE d.rows[k]
      /\ \A k \in Key \ W : e.rows[k] = d.rows[k]
  BY AppliedType
<1>8. \A k \in W : e.log[s].before[k] = d.rows[k]
  BY <1>7 DEF Graph
<1>9. \A t \in Live(d) : t \in Nat /\ t \in DOMAIN d.log /\ t < s /\ e.log[t] = d.log[t]
  BY <1>1, <1>3, <1>4 DEF Live, Undone
<1>10. ASSUME NEW from \in Nat, from < s, NEW rows, RewindsTo(d, from, rows)
       PROVE  RewindsTo(e, from, rows)
  <2> SUFFICES ASSUME NEW k \in Key
               PROVE  IF Touching(e, k, from) = {} THEN e.rows[k] = rows[k]
                      ELSE \E t \in Touching(e, k, from) :
                              /\ \A u \in Touching(e, k, from) : t <= u
                              /\ e.log[t].before[k] = rows[k]
    BY DEF RewindsTo
  <2>1. Touching(e, k, from) = Touching(d, k, from) \cup (IF k \in W THEN {s} ELSE {})
    <3>1. \A t : t \in Touching(e, k, from) <=> t \in Touching(d, k, from) \/ (t = s /\ k \in W)
      BY <1>1, <1>6, <1>7, <1>9, <1>10 DEF Touching
    <3> QED
      BY <3>1
  <2>2. CASE Touching(d, k, from) = {} /\ k \notin W
    BY <2>1, <2>2, <1>7, <1>10 DEF RewindsTo
  <2>3. CASE Touching(d, k, from) = {} /\ k \in W
    <3>1. Touching(e, k, from) = {s}
      BY <2>1, <2>3
    <3>2. e.log[s].before[k] = rows[k]
      BY <1>8, <1>10, <2>3 DEF RewindsTo
    <3> QED
      BY <3>1, <3>2, <1>1
  <2>4. CASE Touching(d, k, from) # {}
    <3>1. PICK t \in Touching(d, k, from) : /\ \A u \in Touching(d, k, from) : t <= u
                                            /\ d.log[t].before[k] = rows[k]
      BY <1>10, <2>4 DEF RewindsTo
    <3>2. t \in Nat /\ t < s /\ e.log[t] = d.log[t]
      BY <1>9 DEF Touching
    <3>3. t \in Touching(e, k, from) /\ \A u \in Touching(e, k, from) : t <= u
      BY <1>1, <2>1, <3>1, <3>2
    <3> QED
      BY <3>1, <3>2, <3>3
  <2> QED
    BY <2>2, <2>3, <2>4
<1>11. RewindsTo(e, s, e.log[s].was)
  <2> SUFFICES ASSUME NEW k \in Key
               PROVE  IF Touching(e, k, s) = {} THEN e.rows[k] = d.rows[k]
                      ELSE \E t \in Touching(e, k, s) :
                              /\ \A u \in Touching(e, k, s) : t <= u
                              /\ e.log[t].before[k] = d.rows[k]
    BY <1>7 DEF RewindsTo
  <2>1. \A t : t \in Touching(e, k, s) <=> t = s /\ k \in W
    BY <1>1, <1>6, <1>7, <1>9 DEF Touching
  <2>2. CASE k \in W
    <3>1. Touching(e, k, s) = {s}
      BY <2>1, <2>2
    <3> QED
      BY <1>1, <1>8, <2>2, <3>1
  <2>3. CASE k \notin W
    <3>1. Touching(e, k, s) = {}
      BY <2>1, <2>3
    <3> QED
      BY <1>7, <2>3, <3>1
  <2> QED
    BY <2>2, <2>3
<1>12. RewindsTo(e, 0, h.rows)
  <2>1. 0 < s
    BY <1>1
  <2> QED
    BY <1>10, <2>1 DEF Rewinds
<1>13. \A t \in Live(d) : RewindsTo(e, t, e.log[t].was)
  <2> TAKE t \in Live(d)
  <2>1. RewindsTo(d, t, d.log[t].was)
    BY DEF Rewinds
  <2>2. t \in Nat /\ t < s /\ e.log[t] = d.log[t]
    BY <1>9
  <2>3. RewindsTo(e, t, d.log[t].was)
    BY <1>10, <2>1, <2>2
  <2> QED
    BY <2>2, <2>3
<1> QED
  BY <1>5, <1>6, <1>11, <1>12, <1>13 DEF Rewinds

\* undo takes the newest live operation out and writes back the rows it found:
\* what undo can still reach stays reachable, and the rows are those the
\* operation started from.
LEMMA RevertedRewinds ==
    ASSUME NEW d, IsDb(d), NEW h, MarkedAs(d, h), Rewinds(d, h),
           NEW s, Newest(d, s),
           NEW e, e = Reverted(d, s)
    PROVE  /\ IsDb(e) /\ MarkedAs(e, h) /\ Rewinds(e, h)
           /\ e.rows = d.log[s].was
           /\ DOMAIN e.log = DOMAIN d.log /\ e.cs = d.cs
           /\ \A t \in DOMAIN d.log \ {s} : e.log[t] = d.log[t]
<1> DEFINE r == [k \in Key |-> IF k \in DOMAIN d.log[s].before
                               THEN d.log[s].before[k] ELSE d.rows[k]]
           l == [d.log EXCEPT ![s].undone = TRUE]
<1>1. e.rows = r /\ e.log = l /\ e.cs = d.cs /\ e = [rows |-> r, log |-> l, cs |-> d.cs]
  BY DEF Reverted
<1>2. /\ DOMAIN d.log \subseteq Nat /\ d.cs \in 0..MaxSeq /\ d.rows \in [Key -> Cell]
      /\ DOMAIN d.log \subseteq 1..MaxSeq
      /\ \A t \in DOMAIN d.log : d.log[t] \in Op
  BY DbFields
<1>3. /\ s \in DOMAIN d.log /\ s > d.cs /\ ~d.log[s].undone
      /\ s \in Live(d) /\ \A t \in Live(d) : t <= s
  BY DEF Newest, Live
<1>4. /\ DOMAIN d.log[s].before \subseteq Key
      /\ d.log[s].before \in [DOMAIN d.log[s].before -> Cell]
      /\ d.log[s].was \in Row
  BY <1>2, <1>3, OpFields
<1>5. r \in Row
  BY <1>2, <1>4 DEF Row
<1>6. /\ DOMAIN l = DOMAIN d.log
      /\ \A t \in DOMAIN d.log \ {s} : l[t] = d.log[t]
      /\ l[s] = [d.log[s] EXCEPT !.undone = TRUE]
  BY <1>3
<1>7. l[s] \in Op /\ l[s].undone
  BY <1>2, <1>3, <1>6 DEF Op
<1>8. IsDb(e)
  <2>1. l \in [DOMAIN l -> Op]
    BY <1>2, <1>6, <1>7
  <2> HIDE DEF l, r
  <2> QED
    BY <1>1, <1>2, <1>5, <1>6, <2>1 DEF IsDb
<1>9. MarkedAs(e, h)
  BY <1>1, <1>6 DEF MarkedAs
<1>10. \A t : t \in Live(e) <=> t \in Live(d) /\ t # s
  BY <1>1, <1>6, <1>7 DEF Live
<1>11. ASSUME NEW from \in Nat, from <= s, NEW rows, RewindsTo(d, from, rows)
       PROVE  RewindsTo(e, from, rows)
  <2> SUFFICES ASSUME NEW k \in Key
               PROVE  IF Touching(e, k, from) = {} THEN e.rows[k] = rows[k]
                      ELSE \E t \in Touching(e, k, from) :
                              /\ \A u \in Touching(e, k, from) : t <= u
                              /\ e.log[t].before[k] = rows[k]
    BY DEF RewindsTo
  <2>1. \A t : t \in Touching(e, k, from) <=> t \in Touching(d, k, from) /\ t # s
    BY <1>1, <1>6, <1>10 DEF Touching, Live
  <2>2. \A t \in Touching(d, k, from) : t \in Nat /\ t <= s /\ t \in DOMAIN d.log
    BY <1>2, <1>3 DEF Touching, Live
  <2>3. s \in Nat /\ (s \in Touching(d, k, from) <=> k \in DOMAIN d.log[s].before)
    BY <1>2, <1>3, <1>11 DEF Touching
  <2>4. CASE Touching(d, k, from) = {}
    BY <1>1, <1>11, <2>1, <2>3, <2>4 DEF RewindsTo
  <2>5. CASE Touching(d, k, from) # {}
    <3>1. PICK t \in Touching(d, k, from) : /\ \A u \in Touching(d, k, from) : t <= u
                                            /\ d.log[t].before[k] = rows[k]
      BY <1>11, <2>5 DEF RewindsTo
    <3>2. CASE t = s
      <4>1. \A u \in Touching(d, k, from) : u = s
        BY <2>2, <2>3, <3>1, <3>2
      <4>2. Touching(e, k, from) = {}
        BY <2>1, <4>1
      <4>3. e.rows[k] = rows[k]
        BY <1>1, <2>3, <3>1, <3>2
      <4> QED
        BY <4>2, <4>3
    <3>3. CASE t # s
      <4>1. t \in Touching(e, k, from) /\ \A u \in Touching(e, k, from) : t <= u
        BY <2>1, <3>1, <3>3
      <4>2. e.log[t].before[k] = rows[k]
        BY <1>1, <1>6, <2>2, <3>1, <3>3
      <4> QED
        BY <4>1, <4>2
    <3> QED
      BY <3>2, <3>3
  <2> QED
    BY <2>4, <2>5
<1>12. Rewinds(e, h)
  <2>1. RewindsTo(e, 0, h.rows)
    BY <1>2, <1>3, <1>11 DEF Rewinds
  <2>2. ASSUME NEW t \in Live(e) PROVE RewindsTo(e, t, e.log[t].was)
    <3>1. t \in Live(d) /\ t # s /\ t \in DOMAIN d.log /\ t \in Nat /\ t <= s
      BY <1>2, <1>3, <1>10 DEF Live
    <3>2. RewindsTo(d, t, d.log[t].was) /\ e.log[t] = d.log[t]
      BY <1>1, <1>6, <3>1 DEF Rewinds
    <3> QED
      BY <1>11, <3>1, <3>2
  <2> QED
    BY <2>1, <2>2 DEF Rewinds
<1>13. r = d.log[s].was
  <2>1. ASSUME NEW k \in Key PROVE r[k] = d.log[s].was[k]
    <3>1. \A t : t \in Touching(d, k, s) <=> t = s /\ k \in DOMAIN d.log[s].before
      BY <1>2, <1>3 DEF Touching, Live
    <3>2. RewindsTo(d, s, d.log[s].was)
      BY <1>3 DEF Rewinds
    <3>3. CASE k \in DOMAIN d.log[s].before
      BY <3>1, <3>2, <3>3 DEF RewindsTo
    <3>4. CASE k \notin DOMAIN d.log[s].before
      BY <3>1, <3>2, <3>4 DEF RewindsTo
    <3> QED
      BY <3>3, <3>4
  <2> HIDE DEF r
  <2> QED
    BY <1>4, <1>5, <2>1 DEF Row
<1> QED
  BY <1>1, <1>6, <1>8, <1>9, <1>12, <1>13

\* What commit writes: the kept log with the mark on its newest operation.
LEMMA MarkedSettles ==
    ASSUME NEW d, IsDb(d), NEW h, IsDb(h), Settled(h), MarkedAs(d, h),
           NEW m \in 0..MaxSeq, NewestSeq(DropUndone(d), m),
           NEW e, e = Marked(DropUndone(d), m)
    PROVE  IsDb(e) /\ Settled(e) /\ h.cs <= e.cs
<1> DEFINE k == DropUndone(d)
<1>1. /\ IsDb(k) /\ k.cs = d.cs /\ DOMAIN k.log = DOMAIN d.log \ Undone(d)
  BY DropUndoneFacts
<1>2. /\ DOMAIN k.log \subseteq Nat /\ k.cs \in Nat /\ h.cs \in Nat
      /\ k = [rows |-> k.rows, log |-> k.log, cs |-> k.cs]
  BY <1>1, DbFields
<1> HIDE DEF k
<1>3. e = [rows |-> k.rows, log |-> k.log, cs |-> m]
  BY <1>2 DEF Marked, k
<1>4. IsDb(e)
  BY <1>1, <1>3, DbFields DEF IsDb, Row
<1>5. h.cs \in DOMAIN k.log \cup {0}
  <2>1. h.cs \in DOMAIN d.log \cup {0}
    BY DEF Settled, MarkedAs
  <2>2. d.cs = h.cs
    BY DEF MarkedAs
  <2> QED
    BY <1>1, <1>2, <2>1, <2>2 DEF Undone
<1>6. NewestSeq(k, m) /\ k.cs = h.cs
  BY <1>1 DEF k, MarkedAs
<1>7. CASE Uncommitted(k) = {}
  <2>1. m = k.cs
    BY <1>6, <1>7 DEF NewestSeq
  <2>2. \A s \in DOMAIN k.log : s <= m
    BY <1>2, <1>7, <2>1 DEF Uncommitted
  <2> QED
    BY <1>2, <1>3, <1>4, <1>5, <1>6, <2>1, <2>2 DEF Settled
<1>8. CASE Uncommitted(k) # {}
  <2>1. m \in Uncommitted(k) /\ \A t \in Uncommitted(k) : t <= m
    BY <1>6, <1>8 DEF NewestSeq
  <2>2. m \in DOMAIN k.log /\ k.cs < m
    BY <1>2, <2>1 DEF Uncommitted
  <2>3. \A s \in DOMAIN k.log : s <= m
    BY <1>2, <2>1, <2>2 DEF Uncommitted
  <2> QED
    BY <1>2, <1>3, <1>4, <1>6, <2>2, <2>3 DEF Settled
<1> QED
  BY <1>7, <1>8

\* A conflict-free merge of two descendants of o: the marks of both are at or
\* above o's and one of them equals it, so the merged mark is the larger.
LEMMA MergedSettles ==
    ASSUME NEW o, NEW x, NEW y, IsDb(o), IsDb(x), IsDb(y), Settled(x), Settled(y),
           o.cs <= x.cs, o.cs <= y.cs, ~Conflicts(o, x, y),
           NEW e, e = MergedDb(o, x, y)
    PROVE  IsDb(e) /\ Settled(e) /\ x.cs <= e.cs /\ y.cs <= e.cs
<1> DEFINE r == [k \in Key |-> Merge3(o.rows[k], x.rows[k], y.rows[k])]
           l == [s \in DOMAIN x.log \cup DOMAIN y.log |->
                   IF s \in DOMAIN x.log THEN x.log[s] ELSE y.log[s]]
           c == Merge3(o.cs, x.cs, y.cs)
<1>1. e.rows = r /\ e.log = l /\ e.cs = c /\ e = [rows |-> r, log |-> l, cs |-> c]
  BY DEF MergedDb
<1>2. /\ o.cs \in Nat /\ x.cs \in 0..MaxSeq /\ y.cs \in 0..MaxSeq
      /\ x.rows \in [Key -> Cell] /\ y.rows \in [Key -> Cell]
      /\ DOMAIN x.log \subseteq 1..MaxSeq /\ DOMAIN y.log \subseteq 1..MaxSeq
      /\ \A s \in DOMAIN x.log : x.log[s] \in Op
      /\ \A s \in DOMAIN y.log : y.log[s] \in Op
  BY DbFields
<1>3. ~Clash(o.cs, x.cs, y.cs)
  BY DEF Conflicts
<1>4. x.cs <= c /\ y.cs <= c /\ (c = x.cs \/ c = y.cs)
  BY <1>2, <1>3 DEF Clash, Merge3
<1>5. r \in Row
  BY <1>2 DEF Merge3, Row
<1>6. /\ DOMAIN l = DOMAIN x.log \cup DOMAIN y.log
      /\ l \in [DOMAIN l -> Op]
  BY <1>2
<1>7. IsDb(e)
  <2> HIDE DEF l, r, c
  <2> QED
    BY <1>1, <1>2, <1>4, <1>5, <1>6 DEF IsDb
<1>8. Settled(e)
  <2>1. c \in DOMAIN l \cup {0}
    BY <1>4, <1>6 DEF Settled
  <2>2. ASSUME NEW s \in DOMAIN l PROVE s <= c
    <3>1. s \in Nat /\ c \in Nat
      BY <1>2, <1>4, <1>6
    <3> QED
      BY <1>2, <1>4, <1>6, <3>1 DEF Settled
  <2> HIDE DEF l, c
  <2> QED
    BY <1>1, <2>1, <2>2 DEF Settled
<1> QED
  BY <1>1, <1>4, <1>7, <1>8

LEMMA GraphType ==
    ASSUME NEW d, IsDb(d)
    PROVE  Graph(d) \in [GraphKey -> Cell]
BY DbFields DEF Graph, Key

(***************************************************************************)
(* The invariant in three parts: what holds of the commits, of the working *)
(* sets on top of them, and of what the server remembers.                  *)
(***************************************************************************)

CommitsInv ==
    /\ commits \in Seq(Values(commits))
    /\ Len(commits) \in 1..MaxCommits
    /\ \A n \in DOMAIN commits : IsCommit(commits[n], n - 1)
    /\ CommitsSettled
    /\ MarksGrow

BranchesInv ==
    /\ head \in [Branch -> 0..Len(commits)]
    /\ head[Main] # 0
    /\ working \in [Branch -> Values(working)]
    /\ \A b \in Branch : IsDb(working[b])
    /\ MainClean /\ MarkSeparates /\ UndoReachesHead /\ UndoStack

ServerInv ==
    /\ session \in Branch
    /\ bound \in BOOLEAN /\ conn \in BOOLEAN
    /\ branch \in Branch
    /\ view \in 0..Len(commits)
    /\ mem \in [GraphKey -> Cell]
    /\ WriterBranchExists
    /\ EditsSeeStorage

LEMMA InvParts == Inv <=> CommitsInv /\ BranchesInv /\ ServerInv
BY DEF Inv, TypeOK, CommitsInv, BranchesInv, ServerInv

LEMMA CommitFacts ==
    ASSUME CommitsInv, NEW n \in 1..Len(commits)
    PROVE  /\ n \in DOMAIN commits
           /\ IsDb(commits[n].db) /\ Settled(commits[n].db)
           /\ commits[n].anc \subseteq 1..(n - 1)
           /\ \A a \in commits[n].anc : a \in 1..Len(commits) /\ commits[a].db.cs <= commits[n].db.cs
           /\ commits[n].db.cs \in Nat
<1>1. Len(commits) \in Nat /\ DOMAIN commits = 1..Len(commits)
  BY LenProperties, BoundsNat DEF CommitsInv
<1>2. n \in DOMAIN commits /\ n \in Nat
  BY <1>1
<1>3. IsCommit(commits[n], n - 1)
  BY <1>2 DEF CommitsInv
<1>4. IsDb(commits[n].db) /\ commits[n].anc \subseteq 1..(n - 1)
  BY <1>3 DEF IsCommit
<1>5. Settled(commits[n].db) /\ \A a \in commits[n].anc : commits[a].db.cs <= commits[n].db.cs
  BY <1>2 DEF CommitsInv, CommitsSettled, MarksGrow
<1>6. \A a \in commits[n].anc : a \in 1..Len(commits)
  BY <1>1, <1>2, <1>4
<1> QED
  BY <1>2, <1>4, <1>5, <1>6, DbFields

\* A new commit whose mark is at or above those of all its ancestors.
LEMMA AppendCommit ==
    ASSUME CommitsInv, Len(commits) < MaxCommits,
           NEW c, IsDb(c.db), Settled(c.db),
           c = [anc |-> c.anc, first |-> c.first, ops |-> c.ops, db |-> c.db],
           c.anc \subseteq 1..Len(commits), c.first \in 0..Len(commits), c.ops \in 0..MaxSeq,
           \A a \in c.anc : commits[a].db.cs <= c.db.cs,
           commits' = Append(commits, c)
    PROVE  /\ CommitsInv'
           /\ Len(commits') = Len(commits) + 1
           /\ \A n \in 1..Len(commits) : commits'[n] = commits[n]
           /\ commits'[Len(commits) + 1] = c
<1> DEFINE L == Len(commits)
           S == Values(commits) \cup {c}
<1>1. L \in Nat /\ L >= 1 /\ DOMAIN commits = 1..L
  BY LenProperties, BoundsNat DEF CommitsInv
<1>2. commits \in Seq(S)
  <2>1. Values(commits) \subseteq S
    OBVIOUS
  <2> QED
    BY <2>1, SeqMonotonic DEF CommitsInv
<1>3. /\ commits' \in Seq(S) /\ Len(commits') = L + 1
      /\ \A n \in 1..L : commits'[n] = commits[n]
      /\ commits'[L + 1] = c
  BY <1>2, AppendProperties
<1>4. DOMAIN commits' = 1..(L + 1)
  BY <1>3, LenProperties
<1>5. commits' \in Seq(Values(commits'))
  <2>1. \A n \in 1..(L + 1) : commits'[n] \in Values(commits')
    BY <1>4 DEF Values
  <2>2. commits' = [n \in 1..(L + 1) |-> commits'[n]]
    BY <1>3, LenProperties
  <2>3. L + 1 \in Nat
    BY <1>1
  <2>4. [n \in 1..(L + 1) |-> commits'[n]] \in Seq(Values(commits'))
    BY <2>1, <2>3
  <2> QED
    BY <2>2, <2>4
<1>6. Len(commits') \in 1..MaxCommits
  BY <1>1, <1>3, BoundsNat
<1>7. ASSUME NEW n \in DOMAIN commits'
      PROVE  /\ IsCommit(commits'[n], n - 1) /\ Settled(commits'[n].db)
             /\ \A a \in commits'[n].anc : commits'[a].db.cs <= commits'[n].db.cs
  <2>1. CASE n \in 1..L
    <3>1. commits'[n] = commits[n] /\ n \in DOMAIN commits
      BY <1>1, <1>3, <2>1
    <3>2. \A a \in commits[n].anc : commits'[a] = commits[a]
      BY <1>3, <2>1, CommitFacts
    <3>3. /\ IsCommit(commits[n], n - 1) /\ Settled(commits[n].db)
          /\ \A a \in commits[n].anc : commits[a].db.cs <= commits[n].db.cs
      BY <3>1 DEF CommitsInv, CommitsSettled, MarksGrow
    <3> QED
      BY <3>1, <3>2, <3>3
  <2>2. CASE n = L + 1
    <3>1. commits'[n] = c /\ n - 1 = L
      BY <1>1, <1>3, <2>2
    <3>2. IsCommit(c, L)
      BY DEF IsCommit
    <3>3. \A a \in c.anc : commits'[a] = commits[a]
      BY <1>3
    <3>4. \A a \in commits'[n].anc : commits'[a].db.cs <= commits'[n].db.cs
      BY <3>1, <3>3
    <3>5. IsCommit(commits'[n], n - 1) /\ Settled(commits'[n].db)
      BY <3>1, <3>2
    <3> QED
      BY <3>4, <3>5
  <2>3. n \in 1..L \/ n = L + 1
    BY <1>1, <1>4
  <2> QED
    BY <2>1, <2>2, <2>3
<1> QED
  BY <1>3, <1>5, <1>6, <1>7 DEF CommitsInv, CommitsSettled, MarksGrow

\* One working branch's working set changes, and undo still takes it back to
\* its head.
LEMMA WorkingChange ==
    ASSUME BranchesInv, NEW b0 \in Branch, b0 # Main, NEW e, IsDb(e),
           Exists(b0) => MarkedAs(e, HeadDb(b0)) /\ Rewinds(e, HeadDb(b0)),
           working' = [working EXCEPT ![b0] = e],
           UNCHANGED <<commits, head>>
    PROVE  BranchesInv'
<1>1. /\ DOMAIN working' = Branch /\ working' = [b \in Branch |-> working'[b]]
      /\ working'[b0] = e
      /\ \A b \in Branch \ {b0} : working'[b] = working[b]
  BY DEF BranchesInv
<1>2. working' \in [Branch -> Values(working')]
  BY <1>1 DEF Values
<1>3. \A b \in Branch : IsDb(working'[b])
  BY <1>1 DEF BranchesInv
<1>4. \A b \in Branch : Exists(b)' <=> Exists(b)
  BY DEF Exists
<1>5. \A b \in Branch : HeadDb(b)' = HeadDb(b)
  BY DEF HeadDb
<1>6. MainClean'
  <2>1. Main \in Branch /\ Main # b0
    BY DEF Branch
  <2> QED
    BY <1>1, <1>5, <2>1 DEF BranchesInv, MainClean, Dirty
<1>7. MarkSeparates' /\ UndoReachesHead' /\ UndoStack'
  <2>1. ASSUME NEW b \in Branch, Exists(b)
        PROVE  MarkedAs(working'[b], HeadDb(b)) /\ Rewinds(working'[b], HeadDb(b))
    <3>1. CASE b = b0
      BY <1>1, <2>1, <3>1
    <3>2. CASE b # b0
      BY <1>1, <2>1, <3>2 DEF BranchesInv, MarkSeparates, UndoReachesHead, UndoStack, Rewinds
    <3> QED
      BY <3>1, <3>2
  <2> QED
    BY <1>4, <1>5, <2>1 DEF MarkSeparates, UndoReachesHead, UndoStack, Rewinds
<1> QED
  BY <1>2, <1>3, <1>6, <1>7 DEF BranchesInv

\* Branches are created at a commit, moved to a new commit with a clean working
\* set, deleted, or left alone.
LEMMA HeadChange ==
    ASSUME CommitsInv, CommitsInv', BranchesInv,
           Len(commits) <= Len(commits'),
           \A n \in 1..Len(commits) : commits'[n] = commits[n],
           head' \in [Branch -> 0..Len(commits')], head'[Main] # 0,
           DOMAIN working' = Branch, working' = [b \in Branch |-> working'[b]],
           \A b \in Branch : IsDb(working'[b]),
           \A b \in Branch :
              \/ head'[b] = 0
              \/ head'[b] = head[b] /\ working'[b] = working[b]
              \/ working'[b] = commits'[head'[b]].db
    PROVE  BranchesInv'
<1>1. working' \in [Branch -> Values(working')]
  BY DEF Values
<1>2. ASSUME NEW b \in Branch, head'[b] # 0
      PROVE  /\ MarkedAs(working'[b], HeadDb(b)') /\ Rewinds(working'[b], HeadDb(b)')
             /\ b = Main => working'[b] = HeadDb(b)'
  <2>1. head'[b] \in 1..Len(commits')
    BY <1>2 DEF CommitsInv
  <2>2. IsDb(commits'[head'[b]].db) /\ Settled(commits'[head'[b]].db)
    <3>1. head'[b] \in DOMAIN commits'
      BY <2>1, LenProperties DEF CommitsInv
    <3> QED
      BY <3>1 DEF CommitsInv, CommitsSettled, IsCommit
  <2>3. CASE working'[b] = commits'[head'[b]].db
    BY <2>2, <2>3, SettledIsBase DEF HeadDb
  <2>4. CASE head'[b] = head[b] /\ working'[b] = working[b]
    <3>1. head[b] \in 1..Len(commits) /\ Exists(b)
      BY <1>2, <2>4 DEF BranchesInv, Exists
    <3>2. HeadDb(b)' = HeadDb(b)
      BY <2>4, <3>1 DEF HeadDb
    <3> QED
      BY <2>4, <3>1, <3>2 DEF BranchesInv, MarkSeparates, UndoReachesHead, UndoStack, Rewinds, MainClean, Dirty
  <2> QED
    BY <1>2, <2>3, <2>4
<1>3. MarkSeparates' /\ UndoReachesHead' /\ UndoStack' /\ MainClean'
  <2>1. Main \in Branch
    BY DEF Branch
  <2> QED
    BY <1>2, <2>1 DEF MarkSeparates, UndoReachesHead, UndoStack, Rewinds, MainClean, Dirty, Exists
<1> QED
  BY <1>1, <1>3 DEF BranchesInv

(***************************************************************************)
(* The initial state                                                       *)
(***************************************************************************)

LEMMA EmptyDbFacts == IsDb(EmptyDb) /\ Settled(EmptyDb)
<1>1. [s \in {} |-> NoRow] \in [{} -> Op]
  OBVIOUS
<1>2. [k \in Key |-> NoRow] \in Row
  BY DEF Row, Cell
<1>3. 0 \in 0..MaxSeq
  BY BoundsNat
<1>4. DOMAIN EmptyDb.log = {} /\ EmptyDb.cs = 0
  BY DEF EmptyDb
<1> QED
  BY <1>1, <1>2, <1>3, <1>4 DEF EmptyDb, IsDb, Settled

LEMMA EmptyGraphType == EmptyGraph \in [GraphKey -> Cell]
BY DEF EmptyGraph, Cell

LEMMA InitInv == Init => Inv
<1> SUFFICES ASSUME Init PROVE Inv
  OBVIOUS
<1> DEFINE c == [anc |-> {}, first |-> 0, ops |-> 0, db |-> EmptyDb]
<1>1. commits = << c >> /\ DOMAIN commits = 1..1 /\ Len(commits) = 1 /\ commits[1] = c
  BY DEF Init
<1>2. CommitsInv
  <2>1. c \in Values(commits)
    BY <1>1 DEF Values
  <2>2. commits \in Seq(Values(commits))
    <3> HIDE DEF c
    <3> QED
      BY <1>1, <2>1
  <2>3. IsCommit(c, 0)
    <3>1. {} \in SUBSET (1..0) /\ 0 \in 0..0 /\ 0 \in 0..MaxSeq
      BY BoundsNat
    <3> QED
      BY <3>1, EmptyDbFacts DEF IsCommit
  <2>4. Len(commits) \in 1..MaxCommits
    BY <1>1, BoundsNat
  <2>5. Settled(c.db) /\ c.anc = {}
    BY EmptyDbFacts
  <2> HIDE DEF c
  <2>6. \A n \in DOMAIN commits : n = 1 /\ n - 1 = 0
    BY <1>1
  <2> QED
    BY <1>1, <2>2, <2>3, <2>4, <2>5, <2>6 DEF CommitsInv, CommitsSettled, MarksGrow
<1>3. BranchesInv
  <2>1. /\ head = [b \in Branch |-> IF b = Main THEN 1 ELSE 0]
        /\ working = [b \in Branch |-> EmptyDb]
        /\ Main \in Branch
    BY DEF Init, Branch
  <2>2. head \in [Branch -> 0..Len(commits)] /\ head[Main] # 0
    BY <1>1, <2>1
  <2>3. working \in [Branch -> Values(working)]
    BY <2>1 DEF Values
  <2>4. \A b \in Branch : IsDb(working[b])
    BY <2>1, EmptyDbFacts
  <2>5. \A b \in Branch : Exists(b) => HeadDb(b) = EmptyDb
    BY <1>1, <2>1 DEF Exists, HeadDb
  <2>6. MainClean /\ MarkSeparates /\ UndoReachesHead /\ UndoStack
    BY <2>1, <2>2, <2>5, EmptyDbFacts, SettledIsBase
       DEF MainClean, Dirty, MarkSeparates, UndoReachesHead, UndoStack, Rewinds, Exists
  <2> QED
    BY <2>2, <2>3, <2>4, <2>6 DEF BranchesInv
<1>4. ServerInv
  <2>1. ~bound /\ bound \in BOOLEAN /\ conn \in BOOLEAN
    BY Zenon DEF Init
  <2>2. session \in Branch /\ branch \in Branch /\ mem = EmptyGraph /\ view = 0
    BY DEF Init, Branch
  <2>3. view \in 0..Len(commits)
    BY <1>1, <2>2
  <2>4. WriterBranchExists /\ EditsSeeStorage
    BY <2>1, <2>2 DEF WriterBranchExists, EditsSeeStorage, Writable, Usable
  <2> QED
    BY <2>1, <2>2, <2>3, <2>4, EmptyGraphType DEF ServerInv
<1> QED
  BY <1>2, <1>3, <1>4, InvParts

(***************************************************************************)
(* Calls that leave the storage alone, or write session_state only         *)
(***************************************************************************)

LEMMA StorageSame ==
    ASSUME CommitsInv, BranchesInv, UNCHANGED <<commits, head, working>>
    PROVE  CommitsInv' /\ BranchesInv'
BY DEF CommitsInv, BranchesInv, Values, IsCommit, CommitsSettled, MarksGrow, MainClean,
       MarkSeparates, UndoReachesHead, UndoStack, Rewinds, Dirty, HeadDb, Exists

LEMMA BranchFacts ==
    ASSUME CommitsInv, BranchesInv
    PROVE  /\ Main \in Branch /\ Exists(Main)
           /\ \A b \in Branch : IsDb(working[b]) /\ Graph(working[b]) \in [GraphKey -> Cell]
           /\ \A b \in Branch : Exists(b) => head[b] \in 1..Len(commits)
           /\ \A l \in Label : l \in Branch /\ l # Main
           /\ \A c \in 1..Len(commits) : Graph(commits[c].db) \in [GraphKey -> Cell]
           /\ Len(commits) \in Nat
<1>1. Len(commits) \in Nat
  BY LenProperties DEF CommitsInv
<1>2. \A c \in 1..Len(commits) : Graph(commits[c].db) \in [GraphKey -> Cell]
  BY CommitFacts, GraphType
<1>3. \A b \in Branch : IsDb(working[b]) /\ Graph(working[b]) \in [GraphKey -> Cell]
  BY GraphType DEF BranchesInv
<1>4. \A b \in Branch : Exists(b) => head[b] \in 1..Len(commits)
  BY <1>1 DEF BranchesInv, Exists
<1> QED
  BY <1>1, <1>2, <1>3, <1>4, MainNotLabel DEF BranchesInv, Exists, Branch

\* A reload of a working branch or main, with nothing viewed, restores the
\* server's part of the invariant.
LEMMA ReloadedServer ==
    ASSUME CommitsInv', BranchesInv',
           session' \in Branch, bound' \in BOOLEAN, conn' \in BOOLEAN,
           branch' \in Branch, bound',
           head'[branch'] # 0, view' = 0, mem' = Graph(working'[branch'])
    PROVE  ServerInv'
<1>1. IsDb(working'[branch'])
  BY DEF BranchesInv
<1>2. mem' \in [GraphKey -> Cell]
  BY <1>1, GraphType
<1>3. view' \in 0..Len(commits')
  BY LenProperties DEF CommitsInv
<1> QED
  BY <1>2, <1>3 DEF ServerInv, WriterBranchExists, EditsSeeStorage, Exists

LEMMA InvPartsNext == Inv' <=> CommitsInv' /\ BranchesInv' /\ ServerInv'
BY DEF Inv, TypeOK, CommitsInv, BranchesInv, ServerInv

LEMMA OpenInv == Inv /\ Open => Inv'
<1> SUFFICES ASSUME Inv, Open PROVE Inv'
  OBVIOUS
<1>1. CommitsInv /\ BranchesInv /\ ServerInv
  BY InvParts
<1>2. UNCHANGED <<commits, head, working>>
  BY DEF Open
<1>3. CommitsInv' /\ BranchesInv'
  BY <1>1, <1>2, StorageSame
<1>4. SessionBranch \in Branch /\ Exists(SessionBranch)
  BY <1>1, BranchFacts DEF SessionBranch, ServerInv
<1>5. ServerInv'
  <2>1. bound' /\ conn' /\ bound' \in BOOLEAN /\ conn' \in BOOLEAN
    BY Zenon DEF Open
  <2>2. /\ branch' = SessionBranch /\ view' = 0 /\ session' = SessionBranch
        /\ mem' = Graph(working[SessionBranch])
    BY DEF Open, Reload
  <2>3. head'[branch'] # 0
    BY <1>2, <1>4, <2>2 DEF Exists
  <2> QED
    BY <1>2, <1>3, <1>4, <2>1, <2>2, <2>3, ReloadedServer
<1> QED
  BY <1>3, <1>5, InvPartsNext

LEMMA CloseInv == Inv /\ Close => Inv'
<1> SUFFICES ASSUME Inv, Close PROVE Inv'
  OBVIOUS
<1>1. CommitsInv /\ BranchesInv /\ ServerInv
  BY InvParts
<1>2. UNCHANGED <<commits, head, working, session>>
  BY DEF Close, storage
<1>3. CommitsInv' /\ BranchesInv'
  BY <1>1, <1>2, StorageSame
<1>4. ~bound' /\ bound' \in BOOLEAN /\ conn' \in BOOLEAN
  BY Zenon DEF Close, Unbind
<1>5. branch' = Main /\ view' = 0 /\ mem' = EmptyGraph
  BY DEF Close, Unbind
<1>6. WriterBranchExists' /\ EditsSeeStorage'
  BY <1>4, <1>5 DEF WriterBranchExists, EditsSeeStorage, Writable, Usable
<1>7. session' \in Branch /\ branch' \in Branch /\ view' \in 0..Len(commits')
  BY <1>1, <1>2, <1>5, BranchFacts DEF ServerInv
<1> QED
  BY <1>3, <1>4, <1>5, <1>6, <1>7, EmptyGraphType, InvPartsNext DEF ServerInv

LEMMA RefreshInv == Inv /\ Refresh => Inv'
<1> SUFFICES ASSUME Inv, Refresh PROVE Inv'
  OBVIOUS
<1>1. CommitsInv /\ BranchesInv /\ ServerInv
  BY InvParts
<1>2. UNCHANGED <<commits, head, working, session, bound, conn, branch, view>>
  BY DEF Refresh
<1>3. CommitsInv' /\ BranchesInv'
  BY <1>1, <1>2, StorageSame
<1>4. bound
  BY DEF Refresh, Usable
<1>5. mem' = Graph(IF view # 0 THEN commits[view].db ELSE working[branch])
  BY DEF Refresh, Reload
<1>6. mem' \in [GraphKey -> Cell]
  <2>1. CASE view # 0
    <3>1. view \in 1..Len(commits)
      BY <1>1, <2>1, BranchFacts DEF ServerInv
    <3> QED
      BY <1>1, <1>5, <2>1, <3>1, BranchFacts
  <2>2. CASE view = 0
    BY <1>1, <1>5, <2>2, BranchFacts DEF ServerInv
  <2> QED
    BY <2>1, <2>2
<1>7. EditsSeeStorage'
  BY <1>2, <1>4, <1>5 DEF EditsSeeStorage, Writable, Usable
<1>8. WriterBranchExists'
  BY <1>1, <1>2 DEF ServerInv, WriterBranchExists, Exists
<1>9. ServerInv'
  BY <1>1, <1>2, <1>6, <1>7, <1>8 DEF ServerInv
<1> QED
  BY <1>3, <1>9, InvPartsNext

LEMMA CheckoutBranchInv == ASSUME NEW b \in Branch PROVE Inv /\ CheckoutBranch(b) => Inv'
<1> SUFFICES ASSUME Inv, CheckoutBranch(b) PROVE Inv'
  OBVIOUS
<1>1. CommitsInv /\ BranchesInv /\ ServerInv
  BY InvParts
<1>2. UNCHANGED <<commits, head, working, bound, conn>> /\ Exists(b) /\ bound
  BY DEF CheckoutBranch, CheckoutAllowed, Usable
<1>3. CommitsInv' /\ BranchesInv'
  BY <1>1, <1>2, StorageSame
<1>4. branch' = b /\ view' = 0 /\ session' = b /\ mem' = Graph(working[b])
  BY DEF CheckoutBranch, Reload
<1>5. ServerInv'
  <2>1. bound' /\ bound' \in BOOLEAN /\ conn' \in BOOLEAN
    BY <1>1, <1>2 DEF ServerInv
  <2>2. head'[branch'] # 0
    BY <1>2, <1>4 DEF Exists
  <2> QED
    BY <1>2, <1>3, <1>4, <2>1, <2>2, ReloadedServer
<1> QED
  BY <1>3, <1>5, InvPartsNext

LEMMA CheckoutCommitInv == ASSUME NEW c PROVE Inv /\ CheckoutCommit(c) => Inv'
<1> SUFFICES ASSUME Inv, CheckoutCommit(c) PROVE Inv'
  OBVIOUS
<1>1. CommitsInv /\ BranchesInv /\ ServerInv
  BY InvParts
<1>2. UNCHANGED <<commits, head, working, session, bound, conn, branch>> /\ bound
  BY DEF CheckoutCommit, CheckoutAllowed, Usable
<1>3. CommitsInv' /\ BranchesInv'
  BY <1>1, <1>2, StorageSame
<1>4. c \in 1..Len(commits)
  <2>1. PICK b \in Branch : Exists(b) /\ c \in commits[head[b]].anc \cup {head[b]}
    BY DEF CheckoutCommit, Reachable
  <2>2. head[b] \in 1..Len(commits)
    BY <1>1, <2>1, BranchFacts
  <2> QED
    BY <1>1, <2>1, <2>2, CommitFacts
<1>5. view' = c /\ c # 0 /\ mem' = Graph(commits[c].db)
  <2>1. c # 0
    BY <1>1, <1>4, BranchFacts
  <2> QED
    BY <2>1 DEF CheckoutCommit, Reload
<1>6. mem' \in [GraphKey -> Cell] /\ view' \in 0..Len(commits')
  BY <1>1, <1>2, <1>4, <1>5, BranchFacts
<1>7. EditsSeeStorage' /\ WriterBranchExists'
  BY <1>1, <1>2, <1>5 DEF EditsSeeStorage, Writable, WriterBranchExists, Exists, ServerInv
<1>8. ServerInv'
  BY <1>1, <1>2, <1>6, <1>7 DEF ServerInv
<1> QED
  BY <1>3, <1>8, InvPartsNext

LEMMA BranchBeginNameTakenInv == ASSUME NEW l PROVE Inv /\ BranchBeginNameTaken(l) => Inv'
<1> SUFFICES ASSUME Inv, BranchBeginNameTaken(l) PROVE Inv'
  OBVIOUS
<1>1. CommitsInv /\ BranchesInv /\ ServerInv
  BY InvParts
<1>2. UNCHANGED <<commits, head, working, session, bound, conn, view, mem>> /\ bound /\ branch' = Main
  BY DEF BranchBeginNameTaken, BranchBeginAllowed, Usable
<1>3. CommitsInv' /\ BranchesInv'
  BY <1>1, <1>2, StorageSame
<1>4. EditsSeeStorage'
  BY <1>2 DEF EditsSeeStorage, Writable
<1>5. WriterBranchExists' /\ branch' \in Branch
  BY <1>1, <1>2, BranchFacts DEF WriterBranchExists, Exists
<1>6. ServerInv'
  BY <1>1, <1>2, <1>4, <1>5 DEF ServerInv
<1> QED
  BY <1>3, <1>6, InvPartsNext

(***************************************************************************)
(* Calls that write one working branch                                     *)
(***************************************************************************)

LEMMA WritableFacts ==
    ASSUME CommitsInv, BranchesInv, ServerInv, Writable
    PROVE  /\ branch \in Branch /\ branch # Main /\ Exists(branch) /\ view = 0
           /\ bound /\ conn
           /\ IsDb(working[branch]) /\ IsDb(HeadDb(branch)) /\ Settled(HeadDb(branch))
           /\ MarkedAs(working[branch], HeadDb(branch))
           /\ Rewinds(working[branch], HeadDb(branch))
           /\ mem = Graph(working[branch]) /\ mem \in [GraphKey -> Cell]
           /\ head[branch] \in 1..Len(commits)
<1>1. bound /\ conn /\ view = 0 /\ branch # Main
  BY DEF Writable, Usable
<1>2. branch \in Branch /\ Exists(branch)
  BY <1>1 DEF ServerInv, WriterBranchExists
<1>3. head[branch] \in 1..Len(commits)
  BY <1>2, BranchFacts
<1>4. IsDb(HeadDb(branch)) /\ Settled(HeadDb(branch))
  BY <1>3, CommitFacts DEF HeadDb
<1>5. mem = Graph(working[branch]) /\ mem \in [GraphKey -> Cell]
  BY DEF ServerInv, EditsSeeStorage
<1>6. /\ MarkedAs(working[branch], HeadDb(branch))
      /\ Rewinds(working[branch], HeadDb(branch))
      /\ IsDb(working[branch])
  BY <1>2 DEF BranchesInv, MarkSeparates, UndoReachesHead, UndoStack, Rewinds
<1> QED
  BY <1>1, <1>2, <1>3, <1>4, <1>5, <1>6

\* The server's part after a call that changed the working set of the current
\* branch and left memory showing it.
LEMMA SameBranchServer ==
    ASSUME ServerInv, CommitsInv', BranchesInv', Writable,
           UNCHANGED <<head, session, bound, conn, branch, view>>,
           Len(commits') >= Len(commits), Len(commits) \in Nat,
           mem' = Graph(working'[branch])
    PROVE  ServerInv'
<1>1. IsDb(working'[branch])
  BY DEF BranchesInv, ServerInv
<1>2. mem' \in [GraphKey -> Cell]
  BY <1>1, GraphType
<1>3. bound
  BY DEF Writable, Usable
<1>4. EditsSeeStorage' /\ WriterBranchExists'
  BY <1>3 DEF EditsSeeStorage, WriterBranchExists, Exists, ServerInv
<1>5. view' \in 0..Len(commits')
  <2>1. Len(commits') \in Nat
    BY LenProperties DEF CommitsInv
  <2> QED
    BY <2>1 DEF ServerInv
<1> QED
  BY <1>2, <1>4, <1>5 DEF ServerInv

LEMMA EditInv ==
    ASSUME NEW g \in [GraphKey -> Cell], NEW side \in SidePatch, NEW s \in 1..MaxSeq
    PROVE  Inv /\ Edit(g, side, s) => Inv'
<1> SUFFICES ASSUME Inv, Edit(g, side, s) PROVE Inv'
  OBVIOUS
<1> DEFINE d == working[branch]
           e == Applied(d, g, side, s)
<1>1. CommitsInv /\ BranchesInv /\ ServerInv /\ Writable
  BY InvParts DEF Edit
<1>2. /\ working' = [working EXCEPT ![branch] = e] /\ mem' = g
      /\ UNCHANGED <<commits, head, session, bound, conn, branch, view>>
  BY DEF Edit, EditedDb
<1>3. \A t \in DOMAIN d.log : t < s
  BY <1>1, WritableFacts DEF Edit, FreshSeq, UsedSeq
<1>4. IsDb(e) /\ (\A k \in GraphKey : k \notin Changed(g) => g[k] = mem[k])
              /\ (\A k \in Changed(g) : e.rows[k] = g[k])
              /\ (\A k \in Key \ (Changed(g) \cup DOMAIN side) : e.rows[k] = d.rows[k])
  BY <1>1, WritableFacts, AppliedType
<1>5. MarkedAs(e, HeadDb(branch)) /\ Rewinds(e, HeadDb(branch))
  <2>1. HeadDb(branch).cs \in DOMAIN HeadDb(branch).log \cup {0}
    BY <1>1, WritableFacts DEF Settled
  <2> QED
    BY <1>1, <1>3, <2>1, WritableFacts, AppliedRewinds
<1>6. CommitsInv'
  BY <1>1, <1>2 DEF CommitsInv, Values, IsCommit, CommitsSettled, MarksGrow
<1>7. BranchesInv'
  <2> HIDE DEF e
  <2> QED
    BY <1>1, <1>2, <1>4, <1>5, WritableFacts, WorkingChange
<1>8. mem' = Graph(working'[branch])
  <2>1. working'[branch] = e
    BY <1>1, <1>2 DEF BranchesInv, ServerInv
  <2>2. ASSUME NEW k \in GraphKey PROVE g[k] = e.rows[k]
    <3>1. CASE k \in Changed(g)
      BY <1>4, <3>1
    <3>2. CASE k \notin Changed(g)
      <4>1. k \notin DOMAIN side /\ k \in Key
        BY PatchType, KeysDisjoint DEF Key
      <4>2. mem[k] = d.rows[k]
        BY <1>1, WritableFacts DEF Graph
      <4> QED
        BY <1>4, <3>2, <4>1, <4>2
    <3> QED
      BY <3>1, <3>2
  <2> HIDE DEF e
  <2> QED
    BY <1>2, <2>1, <2>2 DEF Graph
<1>9. ServerInv'
  BY <1>1, <1>2, <1>6, <1>7, <1>8, BranchFacts, SameBranchServer
<1> QED
  BY <1>6, <1>7, <1>9, InvPartsNext

LEMMA UndoInv == ASSUME NEW s PROVE Inv /\ Undo(s) => Inv'
<1> SUFFICES ASSUME Inv, Undo(s) PROVE Inv'
  OBVIOUS
<1> DEFINE e == Reverted(working[branch], s)
<1>1. CommitsInv /\ BranchesInv /\ ServerInv /\ Writable
  BY InvParts DEF Undo
<1>2. /\ working' = [working EXCEPT ![branch] = e] /\ mem' = Graph(working'[branch])
      /\ UNCHANGED <<commits, head, session, bound, conn, branch, view>>
      /\ Newest(working[branch], s)
  BY DEF Undo, UndoneDb, Reload
<1>3. IsDb(e) /\ MarkedAs(e, HeadDb(branch)) /\ Rewinds(e, HeadDb(branch))
  BY <1>1, <1>2, WritableFacts, RevertedRewinds
<1>4. CommitsInv'
  BY <1>1, <1>2 DEF CommitsInv, Values, IsCommit, CommitsSettled, MarksGrow
<1>5. BranchesInv'
  <2> HIDE DEF e
  <2> QED
    BY <1>1, <1>2, <1>3, WritableFacts, WorkingChange
<1>6. ServerInv'
  BY <1>1, <1>2, <1>4, <1>5, BranchFacts, SameBranchServer
<1> QED
  BY <1>4, <1>5, <1>6, InvPartsNext

LEMMA DiscardInv == Inv /\ Discard => Inv'
<1> SUFFICES ASSUME Inv, Discard PROVE Inv'
  OBVIOUS
<1>1. CommitsInv /\ BranchesInv /\ ServerInv /\ Writable
  BY InvParts DEF Discard
<1>2. /\ working' = [working EXCEPT ![branch] = HeadDb(branch)]
      /\ mem' = Graph(working'[branch])
      /\ UNCHANGED <<commits, head, session, bound, conn, branch, view>>
  BY DEF Discard, DiscardedDb, Reload
<1>3. CommitsInv'
  BY <1>1, <1>2 DEF CommitsInv, Values, IsCommit, CommitsSettled, MarksGrow
<1>4. BranchesInv'
  BY <1>1, <1>2, WritableFacts, SettledIsBase, WorkingChange
<1>5. ServerInv'
  BY <1>1, <1>2, <1>3, <1>4, BranchFacts, SameBranchServer
<1> QED
  BY <1>3, <1>4, <1>5, InvPartsNext

LEMMA CommitInv == ASSUME NEW m \in 0..MaxSeq PROVE Inv /\ Commit(m) => Inv'
<1> SUFFICES ASSUME Inv, Commit(m) PROVE Inv'
  OBVIOUS
<1> DEFINE d    == working[branch]
           h    == HeadDb(branch)
           kept == DropUndone(d)
           new  == Marked(kept, m)
           L    == Len(commits)
           ops  == Cardinality(Uncommitted(kept))
           c    == NewCommit({head[branch]}, head[branch], ops, new)
<1>1. CommitsInv /\ BranchesInv /\ ServerInv /\ Writable
  BY InvParts DEF Commit
<1>2. /\ working' = [working EXCEPT ![branch] = new]
      /\ UNCHANGED <<session, bound, conn, branch, view, mem>>
      /\ NewestSeq(kept, m)
  BY DEF Commit
<1>3. IsDb(new) /\ Settled(new) /\ h.cs <= new.cs
  BY <1>1, <1>2, WritableFacts, MarkedSettles
<1>4. working'[branch] = new /\ DOMAIN working' = Branch
      /\ working' = [b \in Branch |-> working'[b]]
      /\ \A b \in Branch \ {branch} : working'[b] = working[b]
  BY <1>1, <1>2 DEF BranchesInv, ServerInv
<1>5. mem' = Graph(working'[branch])
  <2>1. new.rows = d.rows
    BY <1>1, WritableFacts, DropUndoneFacts, DbFields DEF Marked
  <2> HIDE DEF new
  <2> QED
    BY <1>1, <1>2, <1>4, <2>1, WritableFacts DEF Graph
<1>6. CASE new = h
  <2>1. UNCHANGED <<commits, head>>
    BY <1>6 DEF Commit
  <2>2. CommitsInv'
    BY <1>1, <2>1 DEF CommitsInv, Values, IsCommit, CommitsSettled, MarksGrow
  <2>3. BranchesInv'
    <3> HIDE DEF new
    <3> QED
      BY <1>1, <1>2, <1>3, <1>6, <2>1, WritableFacts, SettledIsBase, WorkingChange
  <2>4. ServerInv'
    BY <1>1, <1>2, <1>5, <2>1, <2>2, <2>3, BranchFacts, SameBranchServer
  <2> QED
    BY <2>2, <2>3, <2>4, InvPartsNext
<1>7. CASE new # h
  <2>1. /\ L < MaxCommits
        /\ commits' = Append(commits, c)
        /\ head' = [head EXCEPT ![branch] = L + 1]
    BY <1>7 DEF Commit
  <2>2. head[branch] \in 1..L /\ L \in Nat
    BY <1>1, WritableFacts, BranchFacts
  <2>3. /\ c.db = new /\ c.first = head[branch] /\ c.ops = ops
        /\ c.anc = {head[branch]} \cup commits[head[branch]].anc
        /\ c = [anc |-> c.anc, first |-> c.first, ops |-> c.ops, db |-> c.db]
    BY DEF NewCommit
  <2>4. ops \in 0..MaxSeq
    <3>1. Uncommitted(kept) \subseteq 1..MaxSeq
      BY <1>1, WritableFacts, DropUndoneFacts, DbFields DEF Uncommitted
    <3>2. IsFiniteSet(1..MaxSeq) /\ Cardinality(1..MaxSeq) = MaxSeq
      BY FS_Interval, BoundsNat
    <3>3. IsFiniteSet(Uncommitted(kept)) /\ Cardinality(Uncommitted(kept)) <= MaxSeq
      BY <3>1, <3>2, FS_Subset
    <3> QED
      BY <3>3, FS_CardinalityType, BoundsNat
  <2>5. /\ commits[head[branch]].anc \subseteq 1..L
        /\ commits[head[branch]].db = h
        /\ \A a \in commits[head[branch]].anc : commits[a].db.cs <= h.cs /\ commits[a].db.cs \in Nat
        /\ h.cs \in Nat
    BY <1>1, <2>2, CommitFacts DEF HeadDb
  <2>6. \A a \in c.anc : commits[a].db.cs <= c.db.cs
    <3>1. new.cs \in Nat
      BY <1>3, DbFields
    <3> HIDE DEF c, new, h
    <3> QED
      BY <1>3, <2>3, <2>5, <3>1
  <2>7. /\ CommitsInv' /\ Len(commits') = L + 1
        /\ \A n \in 1..L : commits'[n] = commits[n]
        /\ commits'[L + 1] = c
    <3> HIDE DEF c, new, ops
    <3>1. c.anc \subseteq 1..L /\ c.first \in 0..L
      BY <2>2, <2>3, <2>5
    <3> QED
      BY <1>1, <1>3, <2>1, <2>3, <2>4, <2>6, <3>1, AppendCommit
  <2>8. BranchesInv'
    <3> HIDE DEF c, new, h
    <3>1. head' \in [Branch -> 0..Len(commits')] /\ head'[branch] = L + 1
          /\ \A b \in Branch \ {branch} : head'[b] = head[b]
      BY <1>1, <2>1, <2>2, <2>7 DEF BranchesInv, ServerInv
    <3>2. head'[Main] # 0
      BY <1>1, <3>1, WritableFacts, BranchFacts DEF BranchesInv
    <3>3. \A b \in Branch : IsDb(working'[b])
      BY <1>1, <1>3, <1>4 DEF BranchesInv
    <3>4. working'[branch] = commits'[head'[branch]].db
      BY <1>4, <2>3, <2>7, <3>1
    <3>5. \A b \in Branch : \/ head'[b] = head[b] /\ working'[b] = working[b]
                            \/ working'[b] = commits'[head'[b]].db
      BY <1>4, <3>1, <3>4
    <3>6. L <= Len(commits')
      BY <2>2, <2>7
    <3> QED
      BY <1>1, <1>4, <2>7, <3>1, <3>2, <3>3, <3>5, <3>6, HeadChange
  <2>9. ServerInv'
    <3>1. session' \in Branch /\ bound' \in BOOLEAN /\ conn' \in BOOLEAN /\ branch' \in Branch
          /\ bound' /\ view' = 0 /\ branch' = branch
      BY <1>1, <1>2, WritableFacts DEF ServerInv
    <3>2. head'[branch] # 0
      BY <1>1, <2>1, <2>2 DEF BranchesInv, ServerInv
    <3> QED
      BY <1>5, <2>7, <2>8, <3>1, <3>2, ReloadedServer
  <2> QED
    BY <2>7, <2>8, <2>9, InvPartsNext
<1> QED
  BY <1>6, <1>7

(***************************************************************************)
(* Branch operations                                                       *)
(***************************************************************************)

LEMMA BranchBeginInv ==
    ASSUME NEW l \in Label, NEW replace
    PROVE  Inv /\ BranchBegin(l, replace) => Inv'
<1> SUFFICES ASSUME Inv, BranchBegin(l, replace) PROVE Inv'
  OBVIOUS
<1> DEFINE f == ForkPoint
<1>1. CommitsInv /\ BranchesInv /\ ServerInv
  BY InvParts
<1>2. /\ ~Exists(l) /\ bound
      /\ head' = Dropped(Forked(l), Wip)
      /\ working' = DroppedDb(ForkedDb(l), Wip)
      /\ branch' = l /\ view' = 0 /\ session' = l
      /\ mem' = Graph(ForkedDb(l)[l])
      /\ UNCHANGED <<commits, bound, conn>>
  BY DEF BranchBegin, BranchBeginAllowed, Usable, Reload
<1>3. f \in 1..Len(commits)
  <2>1. CASE view # 0
    BY <1>1, <2>1, BranchFacts DEF ForkPoint, ServerInv
  <2>2. CASE view = 0
    <3>1. branch \in Branch /\ Exists(branch)
      BY <1>1, <1>2 DEF ServerInv, WriterBranchExists
    <3> QED
      BY <1>1, <2>2, <3>1, BranchFacts DEF ForkPoint
  <2> QED
    BY <2>1, <2>2
<1>4. l \in Branch /\ l # Main /\ l \notin Wip /\ Main \notin Wip /\ Main \in Branch
  BY <1>1, <1>2, BranchFacts, MainNotLabel DEF Wip
<1>5. CommitsInv'
  BY <1>1, <1>2 DEF CommitsInv, Values, IsCommit, CommitsSettled, MarksGrow
<1>6. /\ DOMAIN head' = Branch /\ head' = [b \in Branch |-> head'[b]]
      /\ head'[l] = f /\ head'[Main] = head[Main]
      /\ \A b \in Branch : head'[b] = 0 \/ b = l \/ head'[b] = head[b]
  <2> HIDE DEF f
  <2>1. Forked(l)[l] = f /\ \A b \in Branch \ {l} : Forked(l)[b] = head[b]
    BY <1>1, <1>4 DEF Forked, BranchesInv, f
  <2>2. head' = [b \in Branch |-> IF b \in Wip THEN 0 ELSE Forked(l)[b]]
    BY <1>2 DEF Dropped
  <2> QED
    BY <1>4, <2>1, <2>2
<1>7. /\ DOMAIN working' = Branch /\ working' = [b \in Branch |-> working'[b]]
      /\ working'[l] = commits[f].db /\ ForkedDb(l)[l] = commits[f].db
      /\ \A b \in Branch : b # l => working'[b] \in {EmptyDb, working[b]}
      /\ \A b \in Branch : b # l /\ b \notin Wip => working'[b] = working[b]
  <2> HIDE DEF f
  <2>1. ForkedDb(l)[l] = commits[f].db /\ \A b \in Branch \ {l} : ForkedDb(l)[b] = working[b]
    BY <1>1, <1>4 DEF ForkedDb, BranchesInv, f
  <2>2. working' = [b \in Branch |-> IF b \in Wip THEN EmptyDb ELSE ForkedDb(l)[b]]
    BY <1>2 DEF DroppedDb
  <2> QED
    BY <1>4, <2>1, <2>2
<1>8. \A b \in Wip : head'[b] = 0
  BY <1>2 DEF Dropped, Wip, Branch
<1> HIDE DEF f
<1>9. head' \in [Branch -> 0..Len(commits')] /\ head'[Main] # 0
  <2>1. \A b \in Branch : head'[b] \in 0..Len(commits)
    BY <1>1, <1>3, <1>6, BranchFacts, SMTT(60) DEF BranchesInv
  <2> QED
    BY <1>1, <1>2, <1>6, <2>1, SMTT(60) DEF BranchesInv
<1>10. \A b \in Branch : IsDb(working'[b])
  BY <1>1, <1>3, <1>7, CommitFacts, EmptyDbFacts DEF BranchesInv
<1>11. BranchesInv'
  <2>1. \A b \in Branch : \/ head'[b] = 0
                          \/ head'[b] = head[b] /\ working'[b] = working[b]
                          \/ working'[b] = commits'[head'[b]].db
    BY <1>2, <1>6, <1>7, <1>8
  <2>2. Len(commits) <= Len(commits') /\ \A n \in 1..Len(commits) : commits'[n] = commits[n]
    BY <1>1, <1>2, BranchFacts
  <2> QED
    BY <1>1, <1>5, <1>7, <1>9, <1>10, <2>1, <2>2, HeadChange
<1>12. ServerInv'
  <2>1. bound' /\ bound' \in BOOLEAN /\ conn' \in BOOLEAN
    BY <1>1, <1>2 DEF ServerInv
  <2>2. head'[branch'] # 0 /\ mem' = Graph(working'[branch'])
    BY <1>1, <1>2, <1>3, <1>6, <1>7, BranchFacts
  <2> QED
    BY <1>2, <1>4, <1>5, <1>11, <2>1, <2>2, ReloadedServer
<1> QED
  BY <1>5, <1>11, <1>12, InvPartsNext

LEMMA BranchDiscardInv == Inv /\ BranchDiscard => Inv'
<1> SUFFICES ASSUME Inv, BranchDiscard PROVE Inv'
  OBVIOUS
<1>1. CommitsInv /\ BranchesInv /\ ServerInv
  BY InvParts
<1>2. /\ bound
      /\ head' = [b \in Branch |-> IF b \in Wip THEN 0 ELSE head[b]]
      /\ working' = [b \in Branch |-> IF b \in Wip THEN EmptyDb ELSE working[b]]
      /\ branch' = Main /\ view' = 0 /\ session' = Main
      /\ mem' = Graph(working[Main])
      /\ UNCHANGED <<commits, bound, conn>>
  BY DEF BranchDiscard, Usable, Dropped, DroppedDb, Reload
<1>3. Main \in Branch /\ Main \notin Wip /\ Exists(Main)
  BY <1>1, BranchFacts, MainNotLabel DEF Wip
<1>4. CommitsInv'
  BY <1>1, <1>2 DEF CommitsInv, Values, IsCommit, CommitsSettled, MarksGrow
<1>5. head' \in [Branch -> 0..Len(commits')] /\ head'[Main] # 0
  BY <1>1, <1>2, <1>3, BranchFacts DEF BranchesInv
<1>6. \A b \in Branch : IsDb(working'[b])
  BY <1>1, <1>2, EmptyDbFacts DEF BranchesInv
<1>7. \A b \in Branch : head'[b] = 0 \/ (head'[b] = head[b] /\ working'[b] = working[b])
  BY <1>2
<1>8. DOMAIN working' = Branch /\ working' = [b \in Branch |-> working'[b]]
      /\ working'[Main] = working[Main]
  BY <1>2, <1>3
<1>9. Len(commits) <= Len(commits') /\ \A n \in 1..Len(commits) : commits'[n] = commits[n]
  BY <1>1, <1>2, BranchFacts
<1>10. BranchesInv'
  BY <1>1, <1>4, <1>5, <1>6, <1>7, <1>8, <1>9, HeadChange
<1>11. ServerInv'
  <2>1. bound' /\ bound' \in BOOLEAN /\ conn' \in BOOLEAN
    BY <1>1, <1>2 DEF ServerInv
  <2> QED
    BY <1>2, <1>3, <1>4, <1>5, <1>8, <1>10, <2>1, ReloadedServer
<1> QED
  BY <1>4, <1>10, <1>11, InvPartsNext

LEMMA BranchMergeInv == ASSUME NEW b PROVE Inv /\ BranchMerge(b) => Inv'
<1> SUFFICES ASSUME Inv, BranchMerge(b) PROVE Inv'
  OBVIOUS
<1> DEFINE L   == Len(commits)
           hm  == head[Main]
           hb  == head[branch]
           o   == commits[b].db
           x   == HeadDb(Main)
           y   == HeadDb(branch)
           new == MergedDb(o, x, y)
           c   == NewCommit({hm, hb}, hm, 0, new)
<1>1. CommitsInv /\ BranchesInv /\ ServerInv
  BY InvParts
<1>2. /\ bound /\ view = 0 /\ branch \in Label
      /\ MergeBase(hm, hb, b) /\ ~Conflicts(o, x, y) /\ L < MaxCommits
      /\ commits' = Append(commits, c)
      /\ branch' = Main /\ session' = Main
      /\ UNCHANGED <<bound, conn, view>>
  BY DEF BranchMerge, MergeAllowed, Merged, MergesWith, Clashing, MergeOf, Usable
<1>3. /\ head' = Dropped([head EXCEPT ![Main] = L + 1], {branch})
      /\ working' = DroppedDb([working EXCEPT ![Main] = commits'[L + 1].db], {branch})
      /\ mem' = Graph(working'[Main])
  BY DEF BranchMerge, Reload
<1>4. /\ branch \in Branch /\ branch # Main /\ Main \in Branch
      /\ Exists(branch) /\ hm \in 1..L /\ hb \in 1..L /\ L \in Nat
  BY <1>1, <1>2, BranchFacts DEF ServerInv, WriterBranchExists
<1>5. /\ commits[hm].db = x /\ commits[hb].db = y
      /\ IsDb(x) /\ Settled(x) /\ IsDb(y) /\ Settled(y)
      /\ commits[hm].anc \subseteq 1..L /\ commits[hb].anc \subseteq 1..L
      /\ \A a \in commits[hm].anc \cup {hm} : commits[a].db.cs <= x.cs /\ commits[a].db.cs \in Nat
      /\ \A a \in commits[hb].anc \cup {hb} : commits[a].db.cs <= y.cs /\ commits[a].db.cs \in Nat
  <2>1. /\ commits[hm].db = x /\ commits[hb].db = y
    BY DEF HeadDb
  <2> HIDE DEF x, y, hm, hb
  <2>2. /\ IsDb(x) /\ Settled(x) /\ IsDb(y) /\ Settled(y)
        /\ commits[hm].anc \subseteq 1..L /\ commits[hb].anc \subseteq 1..L
        /\ x.cs \in Nat /\ y.cs \in Nat
    BY <1>1, <1>4, <2>1, CommitFacts
  <2>3. \A a \in 1..L : commits[a].db.cs \in Nat
    BY <1>1, CommitFacts
  <2>4. \A a \in commits[hm].anc : commits[a].db.cs <= x.cs
    BY <1>1, <1>4, <2>1, CommitFacts
  <2>5. \A a \in commits[hb].anc : commits[a].db.cs <= y.cs
    BY <1>1, <1>4, <2>1, CommitFacts
  <2> QED
    BY <1>4, <2>1, <2>2, <2>3, <2>4, <2>5
<1> HIDE DEF x, y, hm, hb
<1>6. /\ b \in commits[hm].anc \cup {hm} /\ b \in commits[hb].anc \cup {hb}
      /\ b \in 1..L
  <2>1. b \in commits[hm].anc \cup {hm} /\ b \in commits[hb].anc \cup {hb}
    BY <1>2 DEF MergeBase, CommonAnc
  <2> QED
    BY <1>4, <1>5, <2>1
<1>7. IsDb(o) /\ o.cs <= x.cs /\ o.cs <= y.cs
  BY <1>1, <1>5, <1>6, CommitFacts
<1> HIDE DEF o
<1>8. IsDb(new) /\ Settled(new) /\ x.cs <= new.cs /\ y.cs <= new.cs
  BY <1>2, <1>5, <1>7, MergedSettles
<1>9. x.cs \in Nat /\ y.cs \in Nat /\ new.cs \in Nat
  BY <1>5, <1>8, DbFields
<1> HIDE DEF new
<1>10. /\ c.db = new /\ c.first = hm /\ c.ops = 0
       /\ c.anc = {hm, hb} \cup (commits[hm].anc \cup commits[hb].anc)
       /\ c = [anc |-> c.anc, first |-> c.first, ops |-> c.ops, db |-> c.db]
  BY DEF NewCommit
<1> HIDE DEF c
<1>11. \A a \in c.anc : commits[a].db.cs <= c.db.cs
  BY <1>5, <1>8, <1>9, <1>10
<1>12. /\ CommitsInv' /\ Len(commits') = L + 1
       /\ \A n \in 1..L : commits'[n] = commits[n]
       /\ commits'[L + 1] = c
  <2>1. c.anc \subseteq 1..L /\ c.first \in 0..L /\ c.ops \in 0..MaxSeq
    BY <1>4, <1>5, <1>10, BoundsNat
  <2> QED
    BY <1>1, <1>2, <1>8, <1>10, <1>11, <2>1, AppendCommit
<1>13. /\ head' = [a \in Branch |-> IF a = branch THEN 0 ELSE IF a = Main THEN L + 1 ELSE head[a]]
       /\ working' = [a \in Branch |-> IF a = branch THEN EmptyDb
                                        ELSE IF a = Main THEN new ELSE working[a]]
  <2>1. head \in [Branch -> 0..Len(commits)] /\ DOMAIN working = Branch
    BY <1>1 DEF BranchesInv
  <2> QED
    BY <1>3, <1>4, <1>10, <1>12, <2>1 DEF Dropped, DroppedDb
<1>14. head' \in [Branch -> 0..Len(commits')] /\ head'[Main] = L + 1 /\ head'[Main] # 0
  <2>1. \A a \in Branch : head[a] \in 0..L
    BY <1>1 DEF BranchesInv
  <2> QED
    BY <1>4, <1>12, <1>13, <2>1
<1>15. \A a \in Branch : IsDb(working'[a])
  BY <1>1, <1>8, <1>13, EmptyDbFacts DEF BranchesInv
<1>16. \A a \in Branch : \/ head'[a] = 0
                         \/ head'[a] = head[a] /\ working'[a] = working[a]
                         \/ working'[a] = commits'[head'[a]].db
  BY <1>4, <1>10, <1>12, <1>13
<1>17. BranchesInv'
  <2>1. DOMAIN working' = Branch /\ working' = [a \in Branch |-> working'[a]]
    BY <1>13
  <2>2. L <= Len(commits')
    BY <1>4, <1>12
  <2> QED
    BY <1>1, <1>12, <1>14, <1>15, <1>16, <2>1, <2>2, HeadChange
<1>18. ServerInv'
  <2>1. bound' /\ bound' \in BOOLEAN /\ conn' \in BOOLEAN
    BY <1>1, <1>2 DEF ServerInv
  <2> QED
    BY <1>2, <1>3, <1>4, <1>12, <1>14, <1>17, <2>1, ReloadedServer
<1> QED
  BY <1>12, <1>17, <1>18, InvPartsNext

(***************************************************************************)
(* Theorems                                                                *)
(***************************************************************************)

LEMMA NextInv == Inv /\ [Next]_vars => Inv'
<1> SUFFICES ASSUME Inv, [Next]_vars PROVE Inv'
  OBVIOUS
<1>1. CASE Open
  BY <1>1, OpenInv
<1>2. CASE Close
  BY <1>2, CloseInv
<1>3. CASE Refresh
  BY <1>3, RefreshInv
<1>4. CASE \E g \in [GraphKey -> Cell], side \in SidePatch, s \in 1..MaxSeq : Edit(g, side, s)
  BY <1>4, EditInv
<1>5. CASE \E s \in 1..MaxSeq : Undo(s)
  BY <1>5, UndoInv
<1>6. CASE \E m \in 0..MaxSeq : Commit(m)
  BY <1>6, CommitInv
<1>7. CASE Discard
  BY <1>7, DiscardInv
<1>8. CASE \E l \in Label, replace \in BOOLEAN : BranchBegin(l, replace)
  BY <1>8, BranchBeginInv
<1>9. CASE \E l \in Label : BranchBeginNameTaken(l)
  BY <1>9, BranchBeginNameTakenInv
<1>10. CASE \E b \in 1..MaxCommits : BranchMerge(b)
  BY <1>10, BranchMergeInv
<1>11. CASE BranchDiscard
  BY <1>11, BranchDiscardInv
<1>12. CASE \E b \in Branch : CheckoutBranch(b)
  BY <1>12, CheckoutBranchInv
<1>13. CASE \E c \in 1..MaxCommits : CheckoutCommit(c)
  BY <1>13, CheckoutCommitInv
<1>14. CASE UNCHANGED vars \/ \E b \in 1..MaxCommits : BranchMergeConflict(b)
  <2>1. UNCHANGED <<commits, head, working, session, bound, conn, branch, view, mem>>
    BY <1>14 DEF vars, BranchMergeConflict
  <2>2. CommitsInv' /\ BranchesInv'
    BY <2>1, InvParts, StorageSame
  <2>3. ServerInv'
    BY <2>1, InvParts DEF ServerInv, WriterBranchExists, EditsSeeStorage, Exists, Writable, Usable
  <2> QED
    BY <2>2, <2>3, InvPartsNext
<1> QED
  BY <1>1, <1>2, <1>3, <1>4, <1>5, <1>6, <1>7, <1>8, <1>9, <1>10, <1>11, <1>12, <1>13, <1>14
     DEF Next

\* Whatever the keys, values, labels and bounds: in a process that serves one
\* call at a time, the session and the stored working copies stay coherent.
THEOREM Invariance == Spec => []Inv
BY InitInv, NextInv, PTL DEF Spec

\* Every variable of the session and of the storage keeps its type.
THEOREM TypeCorrect == Spec => []TypeOK
<1>1. Inv => TypeOK
  BY DEF Inv
<1> QED
  BY <1>1, Invariance, PTL

\* undoLast, called until nothing is left to undo, ends at the rows of the
\* branch's last commit, however edits, undos, commits, discards, merges and
\* checkouts were interleaved before.
THEOREM UndoReaches == Spec => []UndoReachesHead
<1>1. Inv => UndoReachesHead
  BY DEF Inv
<1> QED
  BY <1>1, Invariance, PTL

\* committed_seq separates committed from uncommitted operations on every
\* branch, merges of the mark included.
THEOREM MarkExact == Spec => []MarkSeparates
<1>1. Inv => MarkSeparates
  BY DEF Inv
<1> QED
  BY <1>1, Invariance, PTL

\* main's working set never differs from its head.
THEOREM MainStaysClean == Spec => []MainClean
<1>1. Inv => MainClean
  BY DEF Inv
<1> QED
  BY <1>1, Invariance, PTL

\* persistMutation diffs against the graph its branch stores.
THEOREM EditsSee == Spec => []EditsSeeStorage
<1>1. Inv => EditsSeeStorage
  BY DEF Inv
<1> QED
  BY <1>1, Invariance, PTL

(***************************************************************************)
(* One undo restores one operation                                         *)
(***************************************************************************)

\* What UndoRestores says of one branch in one step, from working set d to e.
RestoredBy(d, e) == \A s \in Live(d) : s \in Undone(e) => e.rows = d.log[s].was

\* Nothing is taken out of a working set that keeps its live operations live,
\* or that holds no undone operation at all.
LEMMA NothingUndone ==
    ASSUME NEW d, NEW e,
           \/ Undone(e) = {}
           \/ \A s \in Live(d) \cap DOMAIN e.log : e.log[s] = d.log[s]
    PROVE  RestoredBy(d, e)
BY DEF RestoredBy, Live, Undone

LEMMA EmptyDbUndone == Undone(EmptyDb) = {}
BY EmptyDbFacts, SettledIsBase

LEMMA UndoneOne ==
    ASSUME NEW d, IsDb(d), NEW h, MarkedAs(d, h), Rewinds(d, h), NEW s, Newest(d, s),
           NEW e, e = Reverted(d, s)
    PROVE  RestoredBy(d, e)
<1>1. /\ e.rows = d.log[s].was
      /\ \A t \in DOMAIN d.log \ {s} : e.log[t] = d.log[t]
  BY RevertedRewinds
<1>2. \A t \in Live(d) \ {s} : t \notin Undone(e)
  BY <1>1 DEF Live, Undone
<1> QED
  BY <1>1, <1>2 DEF RestoredBy

LEMMA UndoRestoresStep ==
    ASSUME Inv, [Next]_vars, NEW b \in Branch
    PROVE  RestoredBy(working[b], working'[b])
<1>1. CommitsInv /\ BranchesInv /\ ServerInv /\ CommitsInv'
  BY NextInv, InvParts, InvPartsNext
<1>2. IsDb(working[b]) /\ b \in DOMAIN working /\ DOMAIN working = Branch
  BY <1>1 DEF BranchesInv
<1>3. CASE UNCHANGED working
  BY <1>3, NothingUndone
<1>4. ASSUME NEW g \in [GraphKey -> Cell], NEW side \in SidePatch, NEW s \in 1..MaxSeq,
             Edit(g, side, s)
      PROVE  RestoredBy(working[b], working'[b])
  <2> DEFINE e == Applied(working[branch], g, side, s)
  <2>1. working' = [working EXCEPT ![branch] = e] /\ Writable
    BY <1>4 DEF Edit, EditedDb
  <2>2. /\ \A t \in DOMAIN e.log \ {s} : e.log[t] = working[branch].log[t]
        /\ \A t \in DOMAIN working[branch].log : t < s
        /\ DOMAIN working[branch].log \subseteq Nat
    BY <1>1, <1>4, <2>1, WritableFacts, AppliedType, DbFields, SMTT(60) DEF Edit, FreshSeq, UsedSeq
  <2> HIDE DEF e
  <2>3. \A t \in Live(working[branch]) \cap DOMAIN e.log : e.log[t] = working[branch].log[t]
    BY <2>2 DEF Live
  <2>4. CASE b = branch
    BY <1>2, <2>1, <2>3, <2>4, NothingUndone
  <2>5. CASE b # branch
    BY <1>2, <2>1, <2>5, NothingUndone
  <2> QED
    BY <2>4, <2>5
<1>5. ASSUME NEW s \in 1..MaxSeq, Undo(s)
      PROVE  RestoredBy(working[b], working'[b])
  <2>1. /\ working' = [working EXCEPT ![branch] = Reverted(working[branch], s)]
        /\ Writable /\ Newest(working[branch], s)
    BY <1>5 DEF Undo, UndoneDb
  <2>2. RestoredBy(working[branch], Reverted(working[branch], s))
    BY <1>1, <2>1, WritableFacts, UndoneOne
  <2>3. CASE b = branch
    BY <1>2, <2>1, <2>2, <2>3
  <2>4. CASE b # branch
    BY <1>2, <2>1, <2>4, NothingUndone
  <2> QED
    BY <2>3, <2>4
<1>6. ASSUME NEW m \in 0..MaxSeq, Commit(m)
      PROVE  RestoredBy(working[b], working'[b])
  <2> DEFINE k == DropUndone(working[branch])
  <2>1. working' = [working EXCEPT ![branch] = Marked(k, m)] /\ Writable
    BY <1>6 DEF Commit
  <2>2. IsDb(k) /\ \A s \in DOMAIN k.log : k.log[s] = working[branch].log[s]
    BY <1>1, <2>1, WritableFacts, DropUndoneFacts
  <2> HIDE DEF k
  <2>3. Marked(k, m).log = k.log
    BY <2>2, DbFields DEF Marked
  <2>4. CASE b = branch
    BY <1>2, <2>1, <2>2, <2>3, <2>4, NothingUndone
  <2>5. CASE b # branch
    BY <1>2, <2>1, <2>5, NothingUndone
  <2> QED
    BY <2>4, <2>5
<1>7. CASE Discard
  <2>1. working' = [working EXCEPT ![branch] = HeadDb(branch)] /\ Writable
    BY <1>7 DEF Discard, DiscardedDb
  <2>2. Undone(HeadDb(branch)) = {}
    BY <1>1, <2>1, WritableFacts, SettledIsBase
  <2>3. CASE b = branch
    BY <1>2, <2>1, <2>2, <2>3, NothingUndone
  <2>4. CASE b # branch
    BY <1>2, <2>1, <2>4, NothingUndone
  <2> QED
    BY <2>3, <2>4
<1>8. ASSUME NEW l \in Label, NEW replace \in BOOLEAN, BranchBegin(l, replace)
      PROVE  RestoredBy(working[b], working'[b])
  <2>1. ForkPoint \in 1..Len(commits)
    <3>1. bound
      BY <1>8 DEF BranchBegin, BranchBeginAllowed, Usable
    <3>2. branch \in Branch /\ Exists(branch)
      BY <1>1, <3>1 DEF ServerInv, WriterBranchExists
    <3> QED
      BY <1>1, <3>2, BranchFacts DEF ForkPoint, ServerInv
  <2>2. Undone(commits[ForkPoint].db) = {}
    BY <1>1, <2>1, CommitFacts, SettledIsBase
  <2>3. \/ working'[b] = EmptyDb
        \/ working'[b] = commits[ForkPoint].db
        \/ working'[b] = working[b]
    BY <1>2, <1>8 DEF BranchBegin, DroppedDb, ForkedDb
  <2> QED
    BY <2>2, <2>3, EmptyDbUndone, NothingUndone
<1>9. ASSUME NEW n \in 1..MaxCommits, BranchMerge(n)
      PROVE  RestoredBy(working[b], working'[b])
  <2> DEFINE c == commits'[Len(commits) + 1]
  <2>1. /\ working' = DroppedDb([working EXCEPT ![Main] = c.db], {branch})
        /\ Len(commits') = Len(commits) + 1 /\ Len(commits) \in Nat
    <3>1. Len(commits) \in Nat
      BY <1>1, BranchFacts
    <3> QED
      BY <1>1, <1>9, <3>1, LenProperties DEF BranchMerge, Merged, CommitsInv
  <2>2. Undone(c.db) = {}
    <3>1. Len(commits) + 1 \in DOMAIN commits'
      BY <1>1, <2>1, LenProperties DEF CommitsInv
    <3>2. IsCommit(c, Len(commits) + 1 - 1) /\ Settled(c.db)
      BY <1>1, <3>1 DEF CommitsInv, CommitsSettled
    <3> QED
      BY <3>2, SettledIsBase DEF IsCommit
  <2>3. working'[b] = EmptyDb \/ working'[b] = c.db \/ working'[b] = working[b]
    BY <1>2, <2>1 DEF DroppedDb
  <2> QED
    BY <2>2, <2>3, EmptyDbUndone, NothingUndone
<1>10. CASE BranchDiscard
  <2>1. working'[b] = EmptyDb \/ working'[b] = working[b]
    BY <1>2, <1>10 DEF BranchDiscard, DroppedDb
  <2> QED
    BY <2>1, EmptyDbUndone, NothingUndone
<1> QED
  BY <1>3, <1>4, <1>5, <1>6, <1>7, <1>8, <1>9, <1>10
     DEF Next, Open, Close, Unbind, Refresh, BranchBeginNameTaken, BranchMergeConflict,
         CheckoutBranch, CheckoutCommit, storage, vars

\* undo takes back exactly one operation: the branch's rows become those the
\* operation started from.
THEOREM UndoIsExact == Spec => UndoRestores
<1>1. Inv /\ [Next]_vars =>
        [\A b \in Branch : \A s \in Live(working[b]) :
            s \in Undone(working'[b]) => working'[b].rows = working[b].log[s].was]_vars
  BY UndoRestoresStep DEF RestoredBy
<1> QED
  BY <1>1, Invariance, PTL DEF Spec, UndoRestores

(***************************************************************************)
(* Calls that stop half way (FaultySpec).  Memory, marks and the view's    *)
(* memory may be anything the cut left.  What is kept: a working branch is *)
(* dropped only after the writer is on main; and main's working set is     *)
(* written by DOLT_MERGE alone, which either moves main's head along or    *)
(* leaves an unfinished merge that nothing writes over.                    *)
(***************************************************************************)

StorageInv ==
    /\ commits \in Seq(Values(commits))
    /\ \A n \in DOMAIN commits : commits[n].anc \subseteq DOMAIN commits
    /\ head \in [Branch -> {0} \cup DOMAIN commits] /\ head[Main] # 0
    /\ view \in {0} \cup DOMAIN commits
    /\ DOMAIN working = Branch
    /\ MainHoldsOnlyMerges
SessionInv == session \in Branch /\ branch \in Branch /\ WriterBranchExists
FaultyInv == StorageInv /\ SessionInv

\* An unfinished merge stays where it is.
MainStays == Dirty(Main) => head'[Main] = head[Main] /\ working'[Main] = working[Main]

\* A new commit leaves the earlier ones as they are.
LEMMA AppendedCommit ==
    ASSUME commits \in Seq(Values(commits)), NEW c, commits' = Append(commits, c)
    PROVE  /\ commits' \in Seq(Values(commits')) /\ Len(commits) \in Nat
           /\ Len(commits') = Len(commits) + 1
           /\ DOMAIN commits = 1..Len(commits) /\ DOMAIN commits' = 1..(Len(commits) + 1)
           /\ \A n \in 1..Len(commits) : commits'[n] = commits[n]
           /\ commits'[Len(commits) + 1] = c
<1> DEFINE L == Len(commits)
           S == Values(commits) \cup {c}
<1>1. commits \in Seq(S)
  <2>1. Values(commits) \subseteq S
    OBVIOUS
  <2> QED
    BY <2>1, SeqMonotonic
<1>2. c \in S /\ L \in Nat /\ DOMAIN commits = 1..L
  BY LenProperties
<1> HIDE DEF S
<1>3. /\ commits' \in Seq(S) /\ Len(commits') = L + 1
      /\ \A n \in 1..L : commits'[n] = commits[n]
      /\ commits'[L + 1] = c
  BY <1>1, <1>2, AppendProperties
<1>4. DOMAIN commits' = 1..(L + 1) /\ commits' = [n \in 1..(L + 1) |-> commits'[n]]
  BY <1>3, LenProperties
<1>5. \A n \in 1..(L + 1) : commits'[n] \in Values(commits')
  BY <1>4 DEF Values
<1>6. [n \in 1..(L + 1) |-> commits'[n]] \in Seq(Values(commits'))
  <2>1. L + 1 \in Nat
    BY <1>2
  <2> QED
    BY <1>5, <2>1
<1> QED
  BY <1>2, <1>3, <1>4, <1>6

\* What a merge left on main is what that merge leaves, whatever is committed
\* elsewhere since.
LEMMA UnfinishedStays ==
    ASSUME StorageInv, NEW db, UnfinishedMerge(db), head'[Main] = head[Main],
           DOMAIN commits \subseteq DOMAIN commits',
           \A n \in DOMAIN commits : commits'[n] = commits[n]
    PROVE  UnfinishedMerge(db)'
<1>1. PICK c \in DOMAIN commits, b \in DOMAIN commits :
        /\ MergeBase(head[Main], c, b)
        /\ Conflicts(commits[b].db, HeadDb(Main), commits[c].db)
        /\ db = MergedDb(commits[b].db, HeadDb(Main), commits[c].db)
  BY DEF UnfinishedMerge
<1>2. head[Main] \in DOMAIN commits
  BY MainNotLabel DEF StorageInv, Branch
<1>3. HeadDb(Main)' = HeadDb(Main) /\ commits'[b].db = commits[b].db /\ commits'[c].db = commits[c].db
  BY <1>1, <1>2 DEF HeadDb
<1>4. MergeBase(head[Main], c, b)'
  BY <1>1, <1>2 DEF MergeBase, CommonAnc
<1> QED
  BY <1>1, <1>3, <1>4 DEF UnfinishedMerge

\* main is left alone, or moved to the newest commit with a clean working set,
\* or keeps what a conflicting merge wrote into it.
LEMMA StorageKept ==
    ASSUME StorageInv, DOMAIN working' = Branch,
           head' \in [Branch -> {0} \cup DOMAIN commits'], view' \in {0, view} \cup DOMAIN commits,
           \/ UNCHANGED commits
           \/ \E c : c.anc \subseteq DOMAIN commits /\ commits' = Append(commits, c),
           \/ head'[Main] = head[Main] /\ working'[Main] = working[Main]
           \/ /\ head'[Main] = Len(commits) + 1 /\ commits' # commits
              /\ working'[Main] = commits'[Len(commits) + 1].db
           \/ UNCHANGED <<commits, head>> /\ UnfinishedMerge(working'[Main])
    PROVE  StorageInv'
<1>1. Main \in Branch /\ head[Main] \in DOMAIN commits
  BY MainNotLabel DEF StorageInv, Branch
<1>2. CASE UNCHANGED commits
  <2>1. head'[Main] = head[Main]
    BY <1>2
  <2>2. MainHoldsOnlyMerges'
    <3> SUFFICES ASSUME Dirty(Main)' PROVE UnfinishedMerge(working[Main])'
      BY DEF MainHoldsOnlyMerges
    <3>1. UnfinishedMerge(working'[Main])
      BY <1>2, <2>1 DEF StorageInv, MainHoldsOnlyMerges, Dirty, HeadDb
    <3>2. PICK db : db = working'[Main]
      OBVIOUS
    <3>3. UnfinishedMerge(db)'
      BY <1>2, <2>1, <3>1, <3>2, UnfinishedStays
    <3> QED
      BY <3>2, <3>3 DEF UnfinishedMerge
  <2> QED
    BY <1>1, <1>2, <2>1, <2>2 DEF StorageInv, Values
<1>3. ASSUME NEW c, c.anc \subseteq DOMAIN commits, commits' = Append(commits, c), commits' # commits
      PROVE  StorageInv'
  <2>1. /\ commits' \in Seq(Values(commits')) /\ Len(commits) \in Nat
        /\ DOMAIN commits = 1..Len(commits) /\ DOMAIN commits' = 1..(Len(commits) + 1)
        /\ \A n \in 1..Len(commits) : commits'[n] = commits[n]
        /\ commits'[Len(commits) + 1] = c
    BY <1>3, AppendedCommit DEF StorageInv
  <2>2. DOMAIN commits \subseteq DOMAIN commits'
    BY <2>1
  <2>3. \A n \in DOMAIN commits' : commits'[n].anc \subseteq DOMAIN commits'
    <3> SUFFICES ASSUME NEW n \in DOMAIN commits' PROVE commits'[n].anc \subseteq DOMAIN commits'
      OBVIOUS
    <3>1. CASE n = Len(commits) + 1
      BY <1>3, <2>1, <2>2, <3>1
    <3>2. CASE n # Len(commits) + 1
      <4>1. n \in DOMAIN commits /\ commits'[n] = commits[n]
        BY <2>1, <3>2
      <4> QED
        BY <2>2, <4>1 DEF StorageInv
    <3> QED
      BY <3>1, <3>2
  <2>4. head'[Main] # 0
    <3>1. Len(commits) + 1 # 0 /\ head[Main] # 0
      BY <2>1 DEF StorageInv
    <3> QED
      BY <1>3, <3>1
  <2>5. MainHoldsOnlyMerges'
    <3>1. CASE head'[Main] = head[Main] /\ working'[Main] = working[Main]
      <4>1. Dirty(Main)' => Dirty(Main)
        BY <1>1, <2>1, <3>1 DEF Dirty, HeadDb
      <4>2. Dirty(Main) => UnfinishedMerge(working[Main])
        BY DEF StorageInv, MainHoldsOnlyMerges
      <4>3. PICK db : db = working[Main]
        OBVIOUS
      <4>4. UnfinishedMerge(db) => UnfinishedMerge(db)'
        BY <2>1, <2>2, <3>1, UnfinishedStays
      <4> QED
        BY <3>1, <4>1, <4>2, <4>3, <4>4 DEF MainHoldsOnlyMerges, UnfinishedMerge
    <3>2. CASE head'[Main] = Len(commits) + 1 /\ working'[Main] = commits'[Len(commits) + 1].db
      BY <3>2 DEF MainHoldsOnlyMerges, Dirty, HeadDb
    <3> QED
      BY <1>3, <3>1, <3>2
  <2> QED
    BY <2>1, <2>2, <2>3, <2>4, <2>5 DEF StorageInv
<1> QED
  BY <1>2, <1>3

\* A commit's ancestors are commits made before it.
LEMMA NewCommitAnc ==
    ASSUME StorageInv, NEW parents \in SUBSET DOMAIN commits, NEW first, NEW ops, NEW db
    PROVE  NewCommit(parents, first, ops, db).anc \subseteq DOMAIN commits
BY DEF NewCommit, StorageInv

LEMMA FaultyFacts ==
    ASSUME FaultyInv
    PROVE  /\ Main \in Branch /\ Exists(Main) /\ Label \subseteq Branch /\ Main \notin Label
           /\ Wip \subseteq Label /\ SessionBranch \in Branch /\ Exists(SessionBranch)
           /\ session \in Branch /\ branch \in Branch /\ (bound => Exists(branch))
           /\ ForkPoint \in {0} \cup DOMAIN commits /\ (bound => ForkPoint # 0)
           /\ \A b \in Branch : Exists(b) => head[b] \in DOMAIN commits
           /\ Reachable \subseteq DOMAIN commits
<1>1. Main \in Branch /\ Exists(Main) /\ Label \subseteq Branch /\ Main \notin Label
  BY MainNotLabel DEF FaultyInv, StorageInv, Exists, Branch
<1>2. session \in Branch /\ branch \in Branch /\ (bound => Exists(branch))
  BY DEF FaultyInv, SessionInv, WriterBranchExists
<1>3. SessionBranch \in Branch /\ Exists(SessionBranch)
  BY <1>1, <1>2 DEF SessionBranch
<1>4. \A b \in Branch : Exists(b) => head[b] \in DOMAIN commits
  BY DEF FaultyInv, StorageInv, Exists
<1>5. Reachable \subseteq DOMAIN commits
  BY <1>4 DEF Reachable, FaultyInv, StorageInv
<1>6. ForkPoint \in {0} \cup DOMAIN commits
  BY <1>2 DEF ForkPoint, FaultyInv, StorageInv
<1> QED
  BY <1>1, <1>2, <1>3, <1>4, <1>5, <1>6 DEF Wip, ForkPoint, Exists

\* One working branch's working set is written, its head perhaps moved.
LEMMA WriteKeeps ==
    ASSUME FaultyInv, Writable, NEW d, working' = [working EXCEPT ![branch] = d],
           \/ UNCHANGED <<commits, head>>
           \/ /\ head' = [head EXCEPT ![branch] = Len(commits) + 1]
              /\ \E f, n, db : commits' = Append(commits, NewCommit({head[branch]}, f, n, db)),
           UNCHANGED <<session, bound, branch, view>>
    PROVE  FaultyInv' /\ MainStays
<1>1. branch # Main /\ bound /\ Main \in Branch /\ branch \in Branch /\ head[branch] \in DOMAIN commits
  BY FaultyFacts DEF Writable, Usable
<1>2. working'[Main] = working[Main] /\ head'[Main] = head[Main] /\ DOMAIN working' = Branch
  BY <1>1 DEF FaultyInv, StorageInv
<1>3. UNCHANGED commits \/ \E c : c.anc \subseteq DOMAIN commits /\ commits' = Append(commits, c)
  BY <1>1, NewCommitAnc DEF FaultyInv
<1>4. head' \in [Branch -> {0} \cup DOMAIN commits'] /\ head'[branch] # 0
  <2>1. CASE UNCHANGED <<commits, head>>
    BY <1>1, <2>1, FaultyFacts DEF FaultyInv, StorageInv, Exists
  <2>2. ASSUME NEW c, commits' = Append(commits, c), head' = [head EXCEPT ![branch] = Len(commits) + 1]
        PROVE  head' \in [Branch -> {0} \cup DOMAIN commits'] /\ head'[branch] # 0
    <3>1. /\ Len(commits) \in Nat /\ DOMAIN commits = 1..Len(commits)
          /\ DOMAIN commits' = 1..(Len(commits) + 1)
      BY <2>2, AppendedCommit DEF FaultyInv, StorageInv
    <3>2. Len(commits) + 1 \in DOMAIN commits' /\ Len(commits) + 1 # 0
          /\ DOMAIN commits \subseteq DOMAIN commits'
      BY <3>1
    <3> QED
      BY <1>1, <2>2, <3>2 DEF FaultyInv, StorageInv
  <2> QED
    BY <2>1, <2>2
<1>5. StorageInv'
  BY <1>2, <1>3, <1>4, StorageKept DEF FaultyInv
<1> QED
  BY <1>2, <1>4, <1>5 DEF FaultyInv, SessionInv, WriterBranchExists, Exists, MainStays

\* Working branches are made and dropped, main is left alone, and the writer
\* is on main or on a branch that is there.
LEMMA MoveKeeps ==
    ASSUME FaultyInv, head' \in [Branch -> {0} \cup DOMAIN commits], DOMAIN working' = Branch,
           UNCHANGED commits, head'[Main] = head[Main], working'[Main] = working[Main],
           view' \in {0, view} \cup DOMAIN commits,
           session' \in Branch, branch' \in Branch,
           bound' => branch' = Main \/ head'[branch'] # 0
    PROVE  FaultyInv' /\ MainStays
<1>1. StorageInv'
  BY StorageKept DEF FaultyInv
<1>2. head'[Main] # 0
  BY DEF FaultyInv, StorageInv
<1> QED
  BY <1>1, <1>2 DEF FaultyInv, SessionInv, WriterBranchExists, Exists, MainStays

LEMMA SameStorageKeeps ==
    ASSUME FaultyInv, UNCHANGED <<commits, head, working>>,
           view' \in {0, view} \cup DOMAIN commits,
           session' \in Branch, branch' \in Branch,
           bound' => branch' = Main \/ head[branch'] # 0
    PROVE  FaultyInv' /\ MainStays
BY MoveKeeps DEF FaultyInv, StorageInv

LEMMA SameSessionKeeps ==
    ASSUME FaultyInv, UNCHANGED <<commits, head, working, session, bound, branch, view>>
    PROVE  FaultyInv' /\ MainStays
BY FaultyFacts, SameStorageKeeps DEF Exists

LEMMA DroppedKeeps ==
    ASSUME NEW hd, NEW wk, NEW gone, Main \notin gone
    PROVE  /\ DOMAIN DroppedDb(wk, gone) = Branch
           /\ Dropped(hd, gone)[Main] = hd[Main] /\ DroppedDb(wk, gone)[Main] = wk[Main]
           /\ \A b \in Branch \ gone : Dropped(hd, gone)[b] = hd[b]
BY DEF Dropped, DroppedDb, Branch

LEMMA DroppedType ==
    ASSUME NEW S, 0 \in S, NEW hd \in [Branch -> S], NEW gone
    PROVE  Dropped(hd, gone) \in [Branch -> S]
BY DEF Dropped

LEMMA MergeKeeps ==
    ASSUME FaultyInv, bound, branch \in Label, NEW b, Merged(b), NEW gone \in SUBSET {branch},
           head' = Dropped([head EXCEPT ![Main] = Len(commits) + 1], gone),
           working' = DroppedDb([working EXCEPT ![Main] = commits'[Len(commits) + 1].db], gone),
           branch' = Main, session' \in Branch, UNCHANGED view
    PROVE  FaultyInv' /\ MainStays
<1>1. /\ Main \notin gone /\ Main \in Branch /\ ~Dirty(Main)
      /\ head[Main] \in DOMAIN commits /\ head[branch] \in DOMAIN commits
  BY FaultyFacts DEF Merged, MergesWith
<1>2. PICK c : c.anc \subseteq DOMAIN commits /\ commits' = Append(commits, c)
  <2>1. NewCommit({head[Main], head[branch]}, head[Main], 0, MergeOf(b)).anc \subseteq DOMAIN commits
    BY <1>1, NewCommitAnc DEF FaultyInv
  <2> QED
    BY <2>1 DEF Merged
<1>3. /\ Len(commits) \in Nat /\ commits' # commits
      /\ DOMAIN commits = 1..Len(commits) /\ DOMAIN commits' = 1..(Len(commits) + 1)
  BY <1>2, AppendedCommit DEF FaultyInv, StorageInv
<1>4. PICK S : S = {0} \cup DOMAIN commits'
  OBVIOUS
<1>5. PICK hd : hd = [head EXCEPT ![Main] = Len(commits) + 1]
  OBVIOUS
<1>6. PICK wk : wk = [working EXCEPT ![Main] = commits'[Len(commits) + 1].db]
  OBVIOUS
<1>7. hd \in [Branch -> S] /\ 0 \in S
  <2>1. Len(commits) + 1 \in S /\ {0} \cup DOMAIN commits \subseteq S
    BY <1>3, <1>4
  <2> QED
    BY <1>1, <1>4, <1>5, <2>1 DEF FaultyInv, StorageInv
<1>8. hd[Main] = Len(commits) + 1 /\ wk[Main] = commits'[Len(commits) + 1].db
  BY <1>1, <1>5, <1>6 DEF FaultyInv, StorageInv
<1>9. /\ Dropped(hd, gone) \in [Branch -> S] /\ DOMAIN DroppedDb(wk, gone) = Branch
      /\ Dropped(hd, gone)[Main] = hd[Main] /\ DroppedDb(wk, gone)[Main] = wk[Main]
  <2>1. Dropped(hd, gone) \in [Branch -> S]
    BY <1>7, DroppedType, Zenon
  <2>2. /\ DOMAIN DroppedDb(wk, gone) = Branch
        /\ Dropped(hd, gone)[Main] = hd[Main] /\ DroppedDb(wk, gone)[Main] = wk[Main]
    BY <1>1, DroppedKeeps, Zenon
  <2> QED
    BY <2>1, <2>2
<1>10. /\ head' \in [Branch -> {0} \cup DOMAIN commits'] /\ DOMAIN working' = Branch
       /\ head'[Main] = Len(commits) + 1 /\ working'[Main] = commits'[Len(commits) + 1].db
  BY <1>4, <1>5, <1>6, <1>8, <1>9
<1>11. StorageInv'
  BY <1>2, <1>3, <1>10, StorageKept DEF FaultyInv
<1> QED
  BY <1>1, <1>3, <1>10, <1>11 DEF FaultyInv, SessionInv, WriterBranchExists, Exists, MainStays

\* What DOLT_MERGE leaves in main's working set when rows clash.
LEMMA UnfinishedKeeps ==
    ASSUME FaultyInv, bound, branch \in Label, NEW b, MergesWith(b), Clashing(b),
           working' = [working EXCEPT ![Main] = MergeOf(b)],
           UNCHANGED <<commits, head, session, bound, view>>, branch' \in {branch, Main}
    PROVE  FaultyInv' /\ MainStays
<1>1. /\ Main \in Branch /\ ~Dirty(Main) /\ Exists(Main) /\ Exists(branch)
      /\ head[Main] \in DOMAIN commits /\ head[branch] \in DOMAIN commits
      /\ session \in Branch /\ branch' \in Branch
  BY FaultyFacts DEF MergesWith
<1>2. b \in DOMAIN commits
  BY <1>1 DEF MergesWith, MergeBase, CommonAnc, FaultyInv, StorageInv
<1>3. DOMAIN working' = Branch /\ working'[Main] = MergeOf(b)
  BY <1>1 DEF FaultyInv, StorageInv
<1>4. PICK c : c = head[branch]
  OBVIOUS
<1>5. UnfinishedMerge(MergeOf(b))
  <2>1. /\ MergeBase(head[Main], c, b)
        /\ Conflicts(commits[b].db, HeadDb(Main), commits[c].db)
        /\ MergeOf(b) = MergedDb(commits[b].db, HeadDb(Main), commits[c].db)
    BY <1>4 DEF MergesWith, Clashing, MergeOf, HeadDb
  <2> QED
    BY <1>1, <1>2, <1>4, <2>1 DEF UnfinishedMerge
<1>6. StorageInv'
  BY <1>3, <1>5, StorageKept DEF FaultyInv, StorageInv
<1> QED
  BY <1>1, <1>6 DEF FaultyInv, SessionInv, WriterBranchExists, Exists, MainStays

\* The new branch l, and whether the old ones are dropped yet.
LEMMA ForkKeeps ==
    ASSUME FaultyInv, NEW l \in Label, NEW gone \in {{}, Wip}, ~Exists(l)
    PROVE  LET hd == Dropped(Forked(l), gone)
               wk == DroppedDb(ForkedDb(l), gone)
               S  == {0} \cup DOMAIN commits
           IN  /\ hd \in [Branch -> S] /\ DOMAIN wk = Branch
               /\ hd[Main] = head[Main] /\ wk[Main] = working[Main]
               /\ hd[l] = ForkPoint
               /\ Forked(l) \in [Branch -> S] /\ DOMAIN ForkedDb(l) = Branch
               /\ Forked(l)[Main] = head[Main] /\ ForkedDb(l)[Main] = working[Main]
<1>1. l \in Branch /\ l # Main /\ l \notin Wip /\ Main \notin gone /\ l \notin gone
  BY FaultyFacts DEF Wip
<1>2. /\ Forked(l) \in [Branch -> {0} \cup DOMAIN commits] /\ DOMAIN ForkedDb(l) = Branch
      /\ Forked(l)[l] = ForkPoint /\ Forked(l)[Main] = head[Main] /\ ForkedDb(l)[Main] = working[Main]
  BY <1>1, FaultyFacts DEF Forked, ForkedDb, FaultyInv, StorageInv
<1>3. Dropped(Forked(l), gone) \in [Branch -> {0} \cup DOMAIN commits]
  BY <1>2 DEF Dropped
<1> QED
  BY <1>1, <1>2, <1>3, DroppedKeeps

LEMMA DroppedWip ==
    ASSUME FaultyInv, NEW gone \in SUBSET Wip
    PROVE  /\ Dropped(head, gone) \in [Branch -> {0} \cup DOMAIN commits]
           /\ DOMAIN DroppedDb(working, gone) = Branch
           /\ Dropped(head, gone)[Main] = head[Main] /\ DroppedDb(working, gone)[Main] = working[Main]
<1>1. Main \notin gone
  BY FaultyFacts
<1>2. Dropped(head, gone) \in [Branch -> {0} \cup DOMAIN commits]
  BY DEF Dropped, FaultyInv, StorageInv
<1> QED
  BY <1>1, <1>2, DroppedKeeps

LEMMA FaultyNext == FaultyInv /\ Next => FaultyInv' /\ MainStays
<1> SUFFICES ASSUME FaultyInv, Next PROVE FaultyInv' /\ MainStays
  OBVIOUS
<1>1. CASE Open
  BY <1>1, FaultyFacts, SameStorageKeeps DEF Open, Exists
<1>2. CASE Close
  BY <1>2, FaultyFacts, SameStorageKeeps DEF Close, Unbind, storage
<1>3. CASE Refresh
  BY <1>3, SameSessionKeeps DEF Refresh
<1>4. CASE \E g \in [GraphKey -> Cell], side \in SidePatch, s \in 1..MaxSeq : Edit(g, side, s)
  BY <1>4, WriteKeeps DEF Edit, EditedDb
<1>5. CASE \E s \in 1..MaxSeq : Undo(s)
  BY <1>5, WriteKeeps DEF Undo, UndoneDb
<1>6. ASSUME NEW m \in 0..MaxSeq, Commit(m) PROVE FaultyInv' /\ MainStays
  <2> DEFINE d == Marked(DropUndone(working[branch]), m)
  <2>1. /\ Writable /\ working' = [working EXCEPT ![branch] = d]
        /\ UNCHANGED <<session, bound, branch, view>>
    BY <1>6 DEF Commit
  <2>2. \/ UNCHANGED <<commits, head>>
        \/ /\ head' = [head EXCEPT ![branch] = Len(commits) + 1]
           /\ \E f, n, db : commits' = Append(commits, NewCommit({head[branch]}, f, n, db))
    BY <1>6 DEF Commit
  <2> HIDE DEF d
  <2> QED
    BY <2>1, <2>2, WriteKeeps
<1>7. CASE Discard
  BY <1>7, WriteKeeps DEF Discard, DiscardedDb
<1>8. ASSUME NEW l \in Label, NEW replace \in BOOLEAN, BranchBegin(l, replace)
      PROVE  FaultyInv' /\ MainStays
  <2>1. /\ ~Exists(l) /\ bound /\ branch' = l /\ session' = l /\ view' = 0 /\ UNCHANGED commits
        /\ head' = Dropped(Forked(l), Wip) /\ working' = DroppedDb(ForkedDb(l), Wip)
    BY <1>8 DEF BranchBegin, BranchBeginAllowed, Usable
  <2>2. /\ head' \in [Branch -> {0} \cup DOMAIN commits] /\ DOMAIN working' = Branch
        /\ head'[Main] = head[Main] /\ working'[Main] = working[Main] /\ head'[l] # 0
    BY <2>1, ForkKeeps, FaultyFacts
  <2> QED
    BY <2>1, <2>2, FaultyFacts, MoveKeeps
<1>9. CASE \E l \in Label : BranchBeginNameTaken(l)
  BY <1>9, FaultyFacts, SameStorageKeeps DEF BranchBeginNameTaken
<1>10. ASSUME NEW b \in 1..MaxCommits, BranchMerge(b) PROVE FaultyInv' /\ MainStays
  <2>1. /\ branch \in Label /\ bound /\ Merged(b) /\ branch' = Main /\ session' = Main
        /\ head' = Dropped([head EXCEPT ![Main] = Len(commits) + 1], {branch})
        /\ working' = DroppedDb([working EXCEPT ![Main] = commits'[Len(commits) + 1].db], {branch})
        /\ UNCHANGED view
    BY <1>10 DEF BranchMerge, MergeAllowed, Usable
  <2> QED
    BY <2>1, FaultyFacts, MergeKeeps
<1>11. CASE \E b \in 1..MaxCommits : BranchMergeConflict(b)
  BY <1>11, SameSessionKeeps DEF BranchMergeConflict, vars
<1>12. CASE BranchDiscard
  <2>1. /\ head' = Dropped(head, Wip) /\ working' = DroppedDb(working, Wip)
        /\ branch' = Main /\ session' = Main /\ view' = 0 /\ UNCHANGED commits
    BY <1>12 DEF BranchDiscard
  <2> QED
    BY <2>1, FaultyFacts, DroppedWip, MoveKeeps
<1>13. CASE \E b \in Branch : CheckoutBranch(b)
  BY <1>13, SameStorageKeeps DEF CheckoutBranch, Exists
<1>14. CASE \E c \in 1..MaxCommits : CheckoutCommit(c)
  BY <1>14, FaultyFacts, SameStorageKeeps DEF CheckoutCommit, Exists
<1> QED
  BY <1>1, <1>2, <1>3, <1>4, <1>5, <1>6, <1>7, <1>8, <1>9, <1>10, <1>11, <1>12, <1>13, <1>14 DEF Next

\* Each statement a call can stop after.
LEMMA FaultyCut == FaultyInv /\ FaultNext => FaultyInv' /\ MainStays
<1> SUFFICES ASSUME FaultyInv, FaultNext PROVE FaultyInv' /\ MainStays
  OBVIOUS
<1>1. CASE OpenCut
  BY <1>1, FaultyFacts, SameStorageKeeps DEF OpenCut, Unbind
<1>2. CASE \E g \in [GraphKey -> Cell], side \in SidePatch, s \in 1..MaxSeq : EditLostAck(g, side, s)
  BY <1>2, WriteKeeps DEF EditLostAck, EditedDb
<1>3. CASE RefreshCut
  BY <1>3, SameSessionKeeps DEF RefreshCut
<1>4. CASE \E s \in 1..MaxSeq : UndoCut(s)
  BY <1>4, WriteKeeps DEF UndoCut, UndoneDb
<1>5. CASE DiscardCut
  BY <1>5, WriteKeeps DEF DiscardCut, DiscardedDb
<1>6. ASSUME NEW m \in 0..MaxSeq, CommitCut(m) PROVE FaultyInv' /\ MainStays
  <2>1. /\ Writable /\ UNCHANGED <<commits, head, session, bound, branch, view>>
        /\ \E d : working' = [working EXCEPT ![branch] = d]
    BY <1>6 DEF CommitCut
  <2> QED
    BY <2>1, WriteKeeps
<1>7. ASSUME NEW l \in Label, NEW replace \in BOOLEAN, NEW step \in 1..5, BranchBeginCut(l, replace, step)
      PROVE  FaultyInv' /\ MainStays
  <2>1. /\ ~Exists(l) /\ bound /\ view' \in {0, view} /\ UNCHANGED <<commits, bound>>
        /\ head' = CASE step = 1 -> head
                     [] step = 2 -> Forked(l)
                     [] OTHER    -> Dropped(Forked(l), Wip)
        /\ working' = CASE step = 1 -> working
                        [] step = 2 -> ForkedDb(l)
                        [] OTHER    -> DroppedDb(ForkedDb(l), Wip)
        /\ branch' = IF step <= 3 THEN Main ELSE l
        /\ session' = IF step <= 4 THEN session ELSE l
    BY <1>7 DEF BranchBeginCut, BranchBeginAllowed, Usable
  <2>2. session' \in Branch /\ branch' \in Branch /\ (step <= 3 => branch' = Main)
    BY <2>1, FaultyFacts
  <2>3. CASE step = 1
    BY <2>1, <2>2, <2>3, SameStorageKeeps
  <2>4. CASE step = 2
    <3>1. head' = Forked(l) /\ working' = ForkedDb(l) /\ branch' = Main
      BY <2>1, <2>4
    <3> QED
      BY <2>1, <2>2, <3>1, ForkKeeps, MoveKeeps
  <2>5. CASE step \in 3..5
    <3>1. head' = Dropped(Forked(l), Wip) /\ working' = DroppedDb(ForkedDb(l), Wip)
      BY <2>1, <2>5
    <3>2. /\ head' \in [Branch -> {0} \cup DOMAIN commits] /\ DOMAIN working' = Branch
          /\ head'[Main] = head[Main] /\ working'[Main] = working[Main] /\ head'[l] # 0
      BY <2>1, <3>1, ForkKeeps, FaultyFacts
    <3>3. branch' = Main \/ head'[branch'] # 0
      BY <2>1, <3>2
    <3> QED
      BY <2>1, <2>2, <3>2, <3>3, MoveKeeps
  <2> QED
    BY <2>3, <2>4, <2>5
<1>8. ASSUME NEW b \in 1..MaxCommits, NEW step \in 1..4, BranchMergeCut(b, step)
      PROVE  FaultyInv' /\ MainStays
  <2> DEFINE gone == IF step = 2 THEN {} ELSE {branch}
  <2>1. /\ branch \in Label /\ bound /\ branch' = Main /\ session' \in {session, Main}
        /\ UNCHANGED <<bound, view>>
    BY <1>8 DEF BranchMergeCut, MergeAllowed, Usable
  <2>2. CASE step = 1
    <3>1. UNCHANGED <<commits, head, working>>
      BY <1>8, <2>2 DEF BranchMergeCut
    <3> QED
      BY <2>1, <3>1, FaultyFacts, SameStorageKeeps
  <2>3. CASE step # 1
    <3>1. /\ Merged(b)
          /\ head' = Dropped([head EXCEPT ![Main] = Len(commits) + 1], gone)
          /\ working' = DroppedDb([working EXCEPT ![Main] = commits'[Len(commits) + 1].db], gone)
      BY <1>8, <2>3 DEF BranchMergeCut
    <3>2. gone \in SUBSET {branch} /\ session' \in Branch
      BY <2>1, FaultyFacts
    <3> HIDE DEF gone
    <3> QED
      BY <2>1, <3>1, <3>2, MergeKeeps
  <2> QED
    BY <2>2, <2>3
<1>9. ASSUME NEW b \in 1..MaxCommits, NEW back \in BOOLEAN, BranchMergeConflictCut(b, back)
      PROVE  FaultyInv' /\ MainStays
  <2>1. /\ branch \in Label /\ bound /\ MergesWith(b) /\ Clashing(b)
        /\ working' = [working EXCEPT ![Main] = MergeOf(b)]
        /\ UNCHANGED <<commits, head, session, bound, view>> /\ branch' \in {branch, Main}
    BY <1>9 DEF BranchMergeConflictCut, MergeAllowed, Usable
  <2> QED
    BY <2>1, UnfinishedKeeps
<1>10. ASSUME NEW gone \in SUBSET Label, NEW step \in 1..3, BranchDiscardCut(gone, step)
       PROVE  FaultyInv' /\ MainStays
  <2>1. /\ head' = Dropped(head, gone) /\ working' = DroppedDb(working, gone) /\ gone \in SUBSET Wip
        /\ branch' = Main /\ session' \in {session, Main} /\ view' \in {0, view} /\ UNCHANGED commits
    BY <1>10 DEF BranchDiscardCut
  <2>2. session' \in Branch /\ Main \in Branch
    BY <2>1, FaultyFacts
  <2> QED
    BY <2>1, <2>2, DroppedWip, MoveKeeps
<1>11. ASSUME NEW b \in Branch, NEW step \in 1..2, CheckoutCut(b, step)
       PROVE  FaultyInv' /\ MainStays
  <2>1. /\ UNCHANGED <<commits, head, working>> /\ Exists(b)
        /\ branch' = b /\ session' \in {session, b} /\ view' = 0
    BY <1>11 DEF CheckoutCut
  <2> QED
    BY <2>1, FaultyFacts, SameStorageKeeps DEF Exists
<1>12. CASE \E c \in 1..MaxCommits : CheckoutCommitCut(c)
  BY <1>12, FaultyFacts, SameStorageKeeps DEF CheckoutCommitCut, Exists
<1>13. CASE ConnectionLost
  BY <1>13, SameSessionKeeps DEF ConnectionLost
<1> QED
  BY <1>1, <1>2, <1>3, <1>4, <1>5, <1>6, <1>7, <1>8, <1>9, <1>10, <1>11, <1>12, <1>13 DEF FaultNext

LEMMA FaultyStep == FaultyInv /\ [Next \/ FaultNext]_vars => FaultyInv' /\ MainStays
<1>1. FaultyInv /\ UNCHANGED vars => FaultyInv' /\ MainStays
  BY SameSessionKeeps DEF vars
<1> QED
  BY <1>1, FaultyNext, FaultyCut

LEMMA FaultyInvariance == FaultySpec => []FaultyInv
<1>1. Init => FaultyInv
  <2> SUFFICES ASSUME Init PROVE FaultyInv
    OBVIOUS
  <2>1. CommitsInv /\ BranchesInv /\ ServerInv /\ MainClean
    BY InitInv, InvParts DEF Inv
  <2>2. /\ head \in [Branch -> {0} \cup DOMAIN commits] /\ head[Main] # 0
        /\ \A n \in DOMAIN commits : commits[n].anc \subseteq DOMAIN commits
    BY MainNotLabel DEF Init, Branch
  <2>3. view \in {0} \cup DOMAIN commits
    BY DEF Init
  <2> QED
    BY <2>1, <2>2, <2>3 DEF FaultyInv, StorageInv, SessionInv, CommitsInv, BranchesInv, ServerInv,
                            MainHoldsOnlyMerges, MainClean
<1> QED
  BY <1>1, FaultyStep, PTL DEF FaultySpec

\* Wherever calls stop, the connection is lost or a reload fails, main's working
\* set is main's last revision or what one conflicting DOLT_MERGE left in it
\* (branchMerge, its '--abort' swallowed or not reached): never an edit, an
\* undo or part of a commit.
THEOREM MainWrittenByMergesOnly == FaultySpec => []MainHoldsOnlyMerges
<1>1. FaultyInv => MainHoldsOnlyMerges
  BY DEF FaultyInv, StorageInv
<1> QED
  BY <1>1, FaultyInvariance, PTL

\* A merge left unfinished on main stays there for good, under every later call
\* and cut: no tool commits, discards or merges over it, so main never moves
\* again and nothing on main is lost.
THEOREM UnfinishedMergeStays ==
    FaultySpec => [][Dirty(Main) => UNCHANGED <<head[Main], working[Main]>>]_vars
<1>1. FaultyInv /\ [Next \/ FaultNext]_vars =>
        [Dirty(Main) => UNCHANGED <<head[Main], working[Main]>>]_vars
  BY FaultyStep DEF MainStays
<1> QED
  BY <1>1, FaultyInvariance, PTL DEF FaultySpec

\* Whichever statement of branchBegin, branchMerge or branchDiscard ran last,
\* a bound session is on a branch that exists.
THEOREM BranchThereDespiteFaults == FaultySpec => []WriterBranchExists
<1>1. FaultyInv => WriterBranchExists
  BY DEF FaultyInv, SessionInv
<1> QED
  BY <1>1, FaultyInvariance, PTL
=============================================================================
