------------------------- MODULE DoltSession_history -------------------------
(***************************************************************************)
(* How the branches evolve from one completed call to the next.  First the *)
(* refinement: every step of the session changes the copies that the       *)
(* stored working sets stand for as WorkingCopies allows, or not at all.   *)
(* Then where uncommitted work may be, and what the commits record: edits  *)
(* that are not committed are on the branch the session is on, and the     *)
(* marks and trailers of the commits tell exactly which operations each of *)
(* them introduced, merges and forks from old revisions included.          *)
(***************************************************************************)
EXTENDS DoltSession_proofs


(***************************************************************************)
(* Two facts the refinement needs beside Inv: a working branch has no      *)
(* rival, and a branch that was deleted leaves nothing behind.             *)
(***************************************************************************)

SingleWip   == \A a, b \in Wip : a = b
GoneIsEmpty == \A b \in Branch : ~Exists(b) => working[b] = EmptyDb
Alone       == SingleWip /\ GoneIsEmpty

LEMMA AloneInit == Init => Alone
BY MainNotLabel DEF Init, Alone, SingleWip, GoneIsEmpty, Wip, Exists, Branch

LEMMA AloneSame ==
    ASSUME Alone, UNCHANGED head,
           \A b \in Branch : Exists(b) \/ working'[b] = working[b]
    PROVE  Alone'
BY DEF Alone, SingleWip, GoneIsEmpty, Wip, Exists

LEMMA AloneNext == Inv /\ Alone /\ [Next]_vars => Alone'
<1> SUFFICES ASSUME Inv, Alone, [Next]_vars PROVE Alone'
  OBVIOUS
<1>1. CommitsInv /\ BranchesInv /\ ServerInv
  BY InvParts
<1>2. DOMAIN working = Branch /\ DOMAIN head = Branch
  BY <1>1 DEF BranchesInv
<1>3. CASE UNCHANGED <<head, working>>
  BY <1>3, AloneSame
<1>4. ASSUME NEW d, working' = [working EXCEPT ![branch] = d], UNCHANGED head, Writable
      PROVE  Alone'
  BY <1>1, <1>2, <1>4, WritableFacts, AloneSame
<1>5. ASSUME NEW m \in 0..MaxSeq, Commit(m) PROVE Alone'
  <2>1. Writable /\ UNCHANGED branch
    BY <1>5 DEF Commit
  <2>2. /\ \A b \in Branch \ {branch} : working'[b] = working[b] /\ head'[b] = head[b]
        /\ Exists(branch) /\ head'[branch] # 0
    <3>1. head[branch] \in 1..Len(commits) /\ Len(commits) \in Nat /\ branch \in Branch
      BY <1>1, <2>1, WritableFacts, BranchFacts
    <3>2. head' = head \/ head' = [head EXCEPT ![branch] = Len(commits) + 1]
      BY <1>5 DEF Commit
    <3>3. \A b \in Branch \ {branch} : working'[b] = working[b]
      BY <1>2, <1>5 DEF Commit
    <3>4. head'[branch] # 0
      BY <1>2, <3>1, <3>2
    <3>5. \A b \in Branch \ {branch} : head'[b] = head[b]
      BY <1>2, <3>2
    <3> QED
      BY <3>1, <3>3, <3>4, <3>5 DEF Exists
  <2>3. Wip' = Wip
    BY <2>2 DEF Wip, Exists, Branch
  <2> QED
    BY <2>2, <2>3 DEF Alone, SingleWip, GoneIsEmpty, Exists
<1>6. ASSUME NEW l \in Label, NEW replace \in BOOLEAN, BranchBegin(l, replace) PROVE Alone'
  <2>1. /\ ~Exists(l) /\ l \in Branch /\ l # Main
        /\ head' = [b \in Branch |-> IF b \in Wip THEN 0 ELSE Forked(l)[b]]
        /\ working' = [b \in Branch |-> IF b \in Wip THEN EmptyDb ELSE ForkedDb(l)[b]]
    BY <1>6, MainNotLabel DEF BranchBegin, Dropped, DroppedDb, Branch
  <2>2. \A b \in Branch \ {l} : Forked(l)[b] = head[b] /\ ForkedDb(l)[b] = working[b]
    BY <1>2 DEF Forked, ForkedDb
  <2>3. \A b \in Label \ {l} : head'[b] = 0
    BY <2>1, <2>2 DEF Wip, Exists, Branch
  <2>4. ForkPoint # 0
    <3>1. bound
      BY <1>6 DEF BranchBegin, BranchBeginAllowed, Usable
    <3> QED
      BY <1>1, <3>1 DEF ForkPoint, ServerInv, WriterBranchExists, Exists
  <2>5. head'[l] # 0
    BY <1>2, <2>1, <2>4 DEF Forked, Wip
  <2>6. SingleWip'
    BY <2>3 DEF SingleWip, Wip, Exists
  <2>7. \A b \in Branch : head'[b] = 0 => working'[b] = EmptyDb
    <3>1. ASSUME NEW b \in Branch, head'[b] = 0, b \notin Wip PROVE working'[b] = EmptyDb
      BY <2>1, <2>2, <2>5, <3>1 DEF Alone, GoneIsEmpty, Exists
    <3>2. \A b \in Wip : working'[b] = EmptyDb
      BY <2>1 DEF Wip, Branch
    <3> QED
      BY <3>1, <3>2
  <2> QED
    BY <2>6, <2>7 DEF Alone, GoneIsEmpty, Exists
<1>7. ASSUME NEW n \in 1..MaxCommits, BranchMerge(n) PROVE Alone'
  <2> DEFINE c == commits'[Len(commits) + 1]
  <2>1. /\ branch \in Label /\ Len(commits) \in Nat
        /\ head' = [b \in Branch |-> IF b \in {branch} THEN 0
                                     ELSE [head EXCEPT ![Main] = Len(commits) + 1][b]]
        /\ working' = [b \in Branch |-> IF b \in {branch} THEN EmptyDb
                                        ELSE [working EXCEPT ![Main] = c.db][b]]
    BY <1>1, <1>7, BranchFacts DEF BranchMerge, MergeAllowed, Dropped, DroppedDb
  <2>2. Main \in Branch /\ Main \notin Label
    BY MainNotLabel DEF Branch
  <2> HIDE DEF c
  <2>3. \A b \in Branch \ {Main} : \/ head'[b] = 0 /\ working'[b] = EmptyDb
                                   \/ head'[b] = head[b] /\ working'[b] = working[b]
    BY <1>2, <2>1, <2>2
  <2>4. head'[Main] # 0
    BY <1>2, <2>1, <2>2
  <2> QED
    BY <2>2, <2>3, <2>4 DEF Alone, SingleWip, GoneIsEmpty, Wip, Exists, Branch
<1>8. CASE BranchDiscard
  <2>1. /\ head' = [b \in Branch |-> IF b \in Wip THEN 0 ELSE head[b]]
        /\ working' = [b \in Branch |-> IF b \in Wip THEN EmptyDb ELSE working[b]]
    BY <1>8 DEF BranchDiscard, Dropped, DroppedDb
  <2> QED
    BY <2>1 DEF Alone, SingleWip, GoneIsEmpty, Wip, Exists, Branch
<1>9. CASE \E g \in [GraphKey -> Cell], side \in SidePatch, s \in 1..MaxSeq : Edit(g, side, s)
  BY <1>4, <1>9 DEF Edit, EditedDb
<1>10. CASE \E s \in 1..MaxSeq : Undo(s)
  BY <1>4, <1>10 DEF Undo, UndoneDb
<1>11. CASE Discard
  BY <1>4, <1>11 DEF Discard, DiscardedDb
<1> QED
  BY <1>3, <1>5, <1>6, <1>7, <1>8, <1>9, <1>10, <1>11
     DEF Next, Open, Close, Unbind, Refresh, BranchBeginNameTaken, BranchMergeConflict,
         CheckoutBranch, CheckoutCommit, storage, vars

LEMMA AloneAlways == Spec => []Alone
BY AloneInit, AloneNext, Invariance, PTL DEF Spec

\* While every call runs to its end, the project never holds a second working
\* branch, although branch_begin creates the new one before it deletes the old.
THEOREM OneAtATime == Spec => []OneWorkingBranch
<1>1. Alone => OneWorkingBranch
  <2> SUFFICES ASSUME Alone PROVE OneWorkingBranch
    OBVIOUS
  <2>1. CASE Wip = {}
    BY <2>1, FS_EmptySet DEF OneWorkingBranch
  <2>2. CASE Wip # {}
    <3>1. PICK a : a \in Wip
      BY <2>2
    <3>2. Wip = {a}
      BY <3>1 DEF Alone, SingleWip
    <3>3. Cardinality({a}) = 1
      BY FS_Singleton
    <3> QED
      BY <3>2, <3>3 DEF OneWorkingBranch
  <2> QED
    BY <2>1, <2>2
<1> QED
  BY <1>1, AloneAlways, PTL

(***************************************************************************)
(* The copies, named as WorkingCopies sees them.                           *)
(***************************************************************************)

aOpen  == {b \in Branch : Exists(b)}
aDoc   == [b \in Branch |-> working[b].rows]
aPast  == [b \in Branch |-> Past(working[b])]
aSaved == [b \in Branch |-> IF Exists(b) THEN HeadDb(b).rows ELSE EmptyDb.rows]
aRevisions == {commits[n].db.rows : n \in DOMAIN commits}

\* A settled working set has nothing to undo.
LEMMA SettledPast ==
    ASSUME NEW d, IsDb(d), Settled(d)
    PROVE  Past(d) = Copies!NoPast
<1>1. Live(d) = {}
  BY SettledIsBase
<1> QED
  BY <1>1 DEF Past, Copies!NoPast

LEMMA BlankPast == /\ Past(EmptyDb) = Copies!NoPast
                   /\ EmptyDb.rows = Copies!Blank
                   /\ EmptyDb.rows \in Row
<1>1. Past(EmptyDb) = Copies!NoPast
  BY EmptyDbFacts, SettledPast
<1>2. EmptyDb.rows = Copies!Blank
  BY DEF EmptyDb, Copies!Blank
<1> QED
  BY <1>1, <1>2, EmptyDbFacts, DbFields DEF Row

\* Copies of a branch that is clean: the document of its head, no past.
LEMMA CleanCopy ==
    ASSUME CommitsInv, BranchesInv, NEW b \in Branch, Exists(b), ~Dirty(b)
    PROVE  aDoc[b] = HeadDb(b).rows /\ aPast[b] = Copies!NoPast /\ aSaved[b] = aDoc[b]
<1>1. working[b] = HeadDb(b) /\ IsDb(HeadDb(b)) /\ Settled(HeadDb(b))
  BY BranchFacts, CommitFacts DEF Dirty, HeadDb
<1> QED
  BY <1>1, SettledPast DEF aDoc, aPast, aSaved

LEMMA CopiesInit == Init => Copies!Init
<1> SUFFICES ASSUME Init PROVE Copies!Init
  OBVIOUS
<1>1. aOpen = {Main}
  BY DEF Init, aOpen, Exists, Branch
<1>2. /\ commits = << [anc |-> {}, first |-> 0, ops |-> 0, db |-> EmptyDb] >>
      /\ working = [b \in Branch |-> EmptyDb]
      /\ head[Main] = 1
  BY DEF Init, Branch
<1>3. aDoc = [b \in Branch |-> Copies!Blank] /\ aPast = [b \in Branch |-> Copies!NoPast]
  BY <1>2, BlankPast DEF aDoc, aPast
<1>4. commits[1].db = EmptyDb /\ DOMAIN commits = {1}
  BY <1>2
<1>5. aSaved = [b \in Branch |-> Copies!Blank]
  <2>1. \A b \in Branch : Exists(b) => HeadDb(b) = EmptyDb
    BY <1>4 DEF Init, Exists, HeadDb
  <2> QED
    BY <2>1, BlankPast DEF aSaved
<1>6. aRevisions = {Copies!Blank}
  BY <1>4, BlankPast DEF aRevisions
<1> QED
  BY <1>1, <1>3, <1>5, <1>6 DEF Copies!Init, aOpen, aDoc, aPast, aSaved, aRevisions

\* What a call that rewrites one working set, and neither commits nor branches
\* move, does to the copies.
LEMMA OneCopy ==
    ASSUME BranchesInv, NEW b0 \in Branch, NEW e, UNCHANGED <<commits, head>>,
           working' = [working EXCEPT ![b0] = e]
    PROVE  /\ aDoc' = [aDoc EXCEPT ![b0] = e.rows]
           /\ aPast' = [aPast EXCEPT ![b0] = Past(e)]
           /\ UNCHANGED <<aOpen, aSaved, aRevisions>>
<1>1. /\ working'[b0] = e
      /\ \A b \in Branch \ {b0} : working'[b] = working[b]
  BY DEF BranchesInv
<1>2. aDoc' = [aDoc EXCEPT ![b0] = e.rows]
  <2>1. aDoc' = [b \in Branch |-> working'[b].rows]
    BY DEF aDoc
  <2>2. \A b \in Branch : working'[b].rows = IF b = b0 THEN e.rows ELSE working[b].rows
    BY <1>1
  <2> QED
    BY <2>1, <2>2 DEF aDoc
<1>3. aPast' = [aPast EXCEPT ![b0] = Past(e)]
  <2>1. aPast' = [b \in Branch |-> Past(working'[b])]
    BY DEF aPast, Past, Live
  <2>2. \A b \in Branch : Past(working'[b]) = IF b = b0 THEN Past(e) ELSE Past(working[b])
    BY <1>1
  <2> QED
    BY <2>1, <2>2 DEF aPast
<1> QED
  BY <1>2, <1>3 DEF aOpen, aSaved, aRevisions, Exists, HeadDb

LEMMA EditCopies ==
    ASSUME Inv, NEW g \in [GraphKey -> Cell], NEW side \in SidePatch, NEW s \in 1..MaxSeq,
           Edit(g, side, s), NEW e, e = Applied(working[branch], g, side, s)
    PROVE  Copies!Change(branch, s, e.rows) /\ e.rows \in Row
<1> DEFINE d == working[branch]
<1>1. CommitsInv /\ BranchesInv /\ ServerInv /\ Writable
  BY InvParts DEF Edit
<1>2. /\ IsDb(d) /\ IsDb(e) /\ e.cs = d.cs
      /\ DOMAIN e.log = (DOMAIN d.log \ Undone(d)) \cup {s}
      /\ \A t \in DOMAIN e.log \ {s} : e.log[t] = d.log[t]
      /\ ~e.log[s].undone /\ e.log[s].was = d.rows
  BY <1>1, WritableFacts, AppliedType
<1>3. /\ \A t \in DOMAIN d.log : t < s
      /\ d.cs \in DOMAIN d.log \cup {0} /\ d.cs \in Nat
  BY <1>1, WritableFacts, DbFields DEF Edit, FreshSeq, UsedSeq, MarkedAs, Settled
<1>4. Live(e) = Live(d) \cup {s} /\ s \notin Live(d)
  <2>1. d.cs < s
    BY <1>3
  <2>2. \A t \in DOMAIN d.log \ Undone(d) : t # s /\ e.log[t] = d.log[t]
    BY <1>2, <1>3, DbFields
  <2> HIDE DEF d
  <2> QED
    BY <1>2, <1>3, <2>1, <2>2 DEF Live, Undone
<1>5. Past(e) = [t \in DOMAIN Past(d) \cup {s} |-> IF t = s THEN d.rows ELSE Past(d)[t]]
  <2>1. \A t \in Live(d) : e.log[t] = d.log[t]
    BY <1>2, <1>4 DEF Live
  <2> HIDE DEF d
  <2> QED
    BY <1>2, <1>4, <2>1 DEF Past
<1>6. /\ aDoc' = [aDoc EXCEPT ![branch] = e.rows]
      /\ aPast' = [aPast EXCEPT ![branch] = Past(e)]
      /\ UNCHANGED <<aOpen, aSaved, aRevisions>>
  BY <1>1, WritableFacts, OneCopy DEF Edit, EditedDb
<1>7. /\ branch \in aOpen \ {Main} /\ aDoc[branch] = d.rows /\ aPast[branch] = Past(d)
      /\ \A t \in DOMAIN aPast[branch] : t < s
  BY <1>1, <1>3, WritableFacts DEF aOpen, aDoc, aPast, Past, Live
<1>8. e.rows \in Row
  BY <1>2, DbFields DEF Row
<1> HIDE DEF d
<1> QED
  BY <1>5, <1>6, <1>7, <1>8 DEF Copies!Change, Copies!Newer, aOpen, aDoc, aPast, aSaved, aRevisions

LEMMA UndoCopies ==
    ASSUME Inv, NEW s, Undo(s)
    PROVE  Copies!TakeBack(branch, s)
<1> DEFINE d == working[branch]
           e == Reverted(d, s)
<1>1. CommitsInv /\ BranchesInv /\ ServerInv /\ Writable /\ Newest(d, s)
  BY InvParts DEF Undo
<1>2. /\ e.rows = d.log[s].was /\ e.cs = d.cs
      /\ DOMAIN e.log = DOMAIN d.log
      /\ \A t \in DOMAIN d.log \ {s} : e.log[t] = d.log[t]
  BY <1>1, WritableFacts, RevertedRewinds
<1>3. s \in DOMAIN d.log /\ IsDb(d) /\ e.log[s].undone
  <2>1. s \in DOMAIN d.log /\ IsDb(d)
    BY <1>1, WritableFacts DEF Newest, Live
  <2>2. d.log[s] \in Op
    BY <2>1, DbFields
  <2> QED
    BY <2>1, <2>2 DEF Reverted, Op
<1>4. /\ aDoc' = [aDoc EXCEPT ![branch] = e.rows]
      /\ aPast' = [aPast EXCEPT ![branch] = Past(e)]
      /\ UNCHANGED <<aOpen, aSaved, aRevisions>>
  BY <1>1, WritableFacts, OneCopy DEF Undo, UndoneDb
<1>5. branch \in aOpen \ {Main} /\ aPast[branch] = Past(d)
  BY <1>1, WritableFacts DEF aOpen, aPast
<1> HIDE DEF e, d
<1>6. Live(e) = Live(d) \ {s}
  BY <1>2, <1>3 DEF Live
<1>7. Past(e) = [t \in DOMAIN Past(d) \ {s} |-> Past(d)[t]] /\ Past(d)[s] = e.rows
  <2>1. \A t \in Live(d) \ {s} : e.log[t] = d.log[t]
    BY <1>2 DEF Live
  <2>2. s \in Live(d)
    BY <1>1 DEF Newest
  <2> QED
    BY <1>2, <1>6, <2>1, <2>2 DEF Past
<1>8. s \in DOMAIN Past(d) /\ \A t \in DOMAIN Past(d) : t <= s
  BY <1>1 DEF Newest, Past
<1> QED
  BY <1>4, <1>5, <1>7, <1>8 DEF Copies!TakeBack, aOpen, aDoc, aPast, aSaved, aRevisions

LEMMA DiscardCopies ==
    ASSUME Inv, Discard
    PROVE  Copies!Revert(branch)
<1>1. CommitsInv /\ BranchesInv /\ ServerInv /\ Writable
  BY InvParts DEF Discard
<1>2. Past(HeadDb(branch)) = Copies!NoPast
  BY <1>1, WritableFacts, SettledPast
<1>3. /\ aDoc' = [aDoc EXCEPT ![branch] = HeadDb(branch).rows]
      /\ aPast' = [aPast EXCEPT ![branch] = Past(HeadDb(branch))]
      /\ UNCHANGED <<aOpen, aSaved, aRevisions>>
  BY <1>1, WritableFacts, OneCopy DEF Discard, DiscardedDb
<1>4. branch \in aOpen \ {Main} /\ aSaved[branch] = HeadDb(branch).rows
  BY <1>1, WritableFacts DEF aOpen, aSaved
<1> QED
  BY <1>2, <1>3, <1>4 DEF Copies!Revert, aOpen, aDoc, aPast, aSaved, aRevisions

LEMMA CommitCopies ==
    ASSUME Inv, NEW m \in 0..MaxSeq, Commit(m), Inv'
    PROVE  Copies!Save(branch)
<1> DEFINE d == working[branch]
           h == HeadDb(branch)
           k == DropUndone(d)
           e == Marked(k, m)
           L == Len(commits)
<1>1. CommitsInv /\ BranchesInv /\ ServerInv /\ Writable /\ CommitsInv'
  BY InvParts, InvPartsNext DEF Commit
<1>2. /\ IsDb(d) /\ IsDb(k) /\ k.rows = d.rows /\ NewestSeq(k, m)
      /\ IsDb(h) /\ Settled(h) /\ MarkedAs(d, h)
  BY <1>1, WritableFacts, DropUndoneFacts DEF Commit
<1>3. e.rows = d.rows
  BY <1>2, DbFields DEF Marked
<1>4. IsDb(e) /\ Settled(e)
  BY <1>2, MarkedSettles
<1>5. Past(e) = Copies!NoPast
  BY <1>4, SettledPast
<1>6. /\ working' = [working EXCEPT ![branch] = e] /\ UNCHANGED branch
      /\ \/ e = h /\ UNCHANGED <<commits, head>>
         \/ /\ head' = [head EXCEPT ![branch] = L + 1]
            /\ \E c : commits' = Append(commits, c) /\ c.db = e
  BY DEF Commit, NewCommit
<1> HIDE DEF d, h, k, e
<1>7. /\ branch \in aOpen \ {Main} /\ aDoc[branch] = d.rows /\ branch \in Branch
      /\ head[branch] \in 1..L /\ L \in Nat /\ DOMAIN commits = 1..L
  BY <1>1, WritableFacts, BranchFacts, LenProperties DEF aOpen, aDoc, d, CommitsInv
<1>8. /\ working'[branch] = e
      /\ \A b \in Branch \ {branch} : working'[b] = working[b]
  BY <1>1, <1>6 DEF BranchesInv, ServerInv
<1>9. aDoc' = aDoc
  <2>1. aDoc' = [b \in Branch |-> working'[b].rows]
    BY DEF aDoc
  <2>2. \A b \in Branch : working'[b].rows = working[b].rows
    BY <1>3, <1>8 DEF d
  <2> QED
    BY <2>1, <2>2 DEF aDoc
<1>10. aPast' = [aPast EXCEPT ![branch] = Copies!NoPast]
  <2>1. aPast' = [b \in Branch |-> Past(working'[b])]
    BY DEF aPast, Past, Live
  <2> QED
    BY <1>5, <1>8, <2>1 DEF aPast
<1>11. CASE e = h /\ UNCHANGED <<commits, head>>
  <2>1. UNCHANGED <<aOpen, aSaved, aRevisions>>
    BY <1>11 DEF aOpen, aSaved, aRevisions, Exists, HeadDb
  <2>2. aSaved[branch] = d.rows /\ d.rows \in aRevisions
    BY <1>3, <1>7, <1>11 DEF aSaved, aOpen, aRevisions, h, HeadDb
  <2>3. aSaved' = [aSaved EXCEPT ![branch] = aDoc[branch]]
    BY <1>7, <2>1, <2>2 DEF aSaved
  <2>4. aRevisions' = aRevisions \cup {aDoc[branch]}
    BY <1>7, <2>1, <2>2
  <2> QED
    BY <1>7, <1>9, <1>10, <2>1, <2>3, <2>4
       DEF Copies!Save, aOpen, aDoc, aPast, aSaved, aRevisions
<1>12. ASSUME head' = [head EXCEPT ![branch] = L + 1],
              NEW c, commits' = Append(commits, c), c.db = e
       PROVE  Copies!Save(branch)
  <2>1. /\ DOMAIN commits' = 1..(L + 1)
        /\ commits'[L + 1] = c /\ \A n \in 1..L : commits'[n] = commits[n]
    BY <1>1, <1>12 DEF CommitsInv
  <2>2. /\ head'[branch] = L + 1 /\ \A b \in Branch \ {branch} : head'[b] = head[b]
        /\ \A b \in Branch : head[b] \in 0..L
    BY <1>1, <1>7, <1>12 DEF BranchesInv
  <2>3. aOpen' = aOpen
    BY <1>7, <2>2 DEF aOpen, Exists
  <2>4. \A b \in Branch : (IF Exists(b) THEN HeadDb(b).rows ELSE EmptyDb.rows)' =
          IF b = branch THEN d.rows ELSE IF Exists(b) THEN HeadDb(b).rows ELSE EmptyDb.rows
    <3>1. ASSUME NEW b \in Branch \ {branch}, head[b] # 0
          PROVE  commits'[head'[b]] = commits[head[b]]
      BY <1>7, <2>1, <2>2, <3>1
    <3>2. EmptyDb' = EmptyDb
      BY DEF EmptyDb
    <3>3. commits'[head'[branch]].db.rows = d.rows /\ head'[branch] # 0
      BY <1>3, <1>7, <1>12, <2>1, <2>2
    <3> QED
      BY <2>2, <3>1, <3>2, <3>3 DEF Exists, HeadDb
  <2>5. aSaved' = [aSaved EXCEPT ![branch] = aDoc[branch]]
    <3>1. aSaved' = [b \in Branch |-> (IF Exists(b) THEN HeadDb(b).rows ELSE EmptyDb.rows)']
      BY DEF aSaved
    <3> QED
      BY <1>7, <2>4, <3>1 DEF aSaved
  <2>6. aRevisions' = aRevisions \cup {aDoc[branch]}
    <3>1. aRevisions' = {commits'[n].db.rows : n \in 1..(L + 1)}
      BY <2>1 DEF aRevisions
    <3>2. 1..(L + 1) = 1..L \cup {L + 1}
      BY <1>7
    <3> QED
      BY <1>3, <1>7, <1>12, <2>1, <3>1, <3>2 DEF aRevisions
  <2> QED
    BY <1>7, <1>9, <1>10, <2>3, <2>5, <2>6
       DEF Copies!Save, aOpen, aDoc, aPast, aSaved, aRevisions
<1> QED
  BY <1>6, <1>11, <1>12

\* What branch_begin, branch_merge and branch_discard make of the copies: the
\* branches of `gone' vanish, and branch b0 stands clean at document d.
LEMMA MovedCopies ==
    ASSUME CommitsInv', BranchesInv', DOMAIN working' = Branch,
           Len(commits) <= Len(commits'), Len(commits) \in Nat,
           \A n \in 1..Len(commits) : commits'[n] = commits[n],
           NEW b \in Branch, head[b] \in 0..Len(commits)
    PROVE  /\ head'[b] = 0 /\ working'[b] = EmptyDb =>
                 /\ aDoc'[b] = Copies!Blank /\ aPast'[b] = Copies!NoPast
                 /\ aSaved'[b] = Copies!Blank
           /\ head'[b] # 0 /\ ~Dirty(b)' =>
                 /\ aDoc'[b] = commits'[head'[b]].db.rows /\ aPast'[b] = Copies!NoPast
                 /\ aSaved'[b] = commits'[head'[b]].db.rows
           /\ head'[b] = head[b] /\ working'[b] = working[b] =>
                 /\ aDoc'[b] = aDoc[b] /\ aPast'[b] = aPast[b] /\ aSaved'[b] = aSaved[b]
<1>1. /\ aDoc'[b] = working'[b].rows
      /\ aPast'[b] = Past(working'[b])
      /\ aSaved'[b] = IF head'[b] # 0 THEN commits'[head'[b]].db.rows ELSE EmptyDb.rows
  BY DEF aDoc, aPast, aSaved, Past, Live, Exists, HeadDb, EmptyDb
<1>2. ASSUME head'[b] = 0, working'[b] = EmptyDb
      PROVE  /\ aDoc'[b] = Copies!Blank /\ aPast'[b] = Copies!NoPast
             /\ aSaved'[b] = Copies!Blank
  BY <1>1, <1>2, BlankPast
<1>3. ASSUME head'[b] # 0, ~Dirty(b)'
      PROVE  /\ aDoc'[b] = commits'[head'[b]].db.rows /\ aPast'[b] = Copies!NoPast
             /\ aSaved'[b] = commits'[head'[b]].db.rows
  <2>1. working'[b] = commits'[head'[b]].db /\ IsDb(working'[b])
    BY <1>3 DEF Dirty, HeadDb, BranchesInv
  <2>2. head'[b] \in DOMAIN commits'
    BY <1>3, LenProperties DEF BranchesInv, CommitsInv
  <2>3. Settled(working'[b])
    BY <2>1, <2>2 DEF CommitsInv, CommitsSettled
  <2> QED
    BY <1>1, <1>3, <2>1, <2>3, SettledPast
<1>4. ASSUME head'[b] = head[b], working'[b] = working[b]
      PROVE  aDoc'[b] = aDoc[b] /\ aPast'[b] = aPast[b] /\ aSaved'[b] = aSaved[b]
  <2>1. head[b] # 0 => commits'[head'[b]] = commits[head[b]]
    BY <1>4
  <2>2. aDoc[b] = working[b].rows /\ aPast[b] = Past(working[b])
        /\ aSaved[b] = IF head[b] # 0 THEN commits[head[b]].db.rows ELSE EmptyDb.rows
    BY DEF aDoc, aPast, aSaved, Exists, HeadDb
  <2> QED
    BY <1>1, <1>4, <2>1, <2>2
<1> QED
  BY <1>2, <1>3, <1>4

\* The copies are functions on the branches, in every state.
LEMMA CopiesAreFunctions ==
    /\ aDoc' = [b \in Branch |-> aDoc'[b]]
    /\ aPast' = [b \in Branch |-> aPast'[b]]
    /\ aSaved' = [b \in Branch |-> aSaved'[b]]
BY DEF aDoc, aPast, aSaved

LEMMA BeginCopies ==
    ASSUME Inv, Inv', Alone, NEW l \in Label, NEW replace, BranchBegin(l, replace),
           NEW d, d = commits[ForkPoint].db.rows
    PROVE  Copies!Begin(l, d) /\ d \in Row
<1> DEFINE f == ForkPoint
<1>1. CommitsInv /\ BranchesInv /\ ServerInv /\ CommitsInv' /\ BranchesInv' /\ bound
  BY InvParts, InvPartsNext DEF BranchBegin, BranchBeginAllowed, Usable
<1>2. f \in 1..Len(commits) /\ Len(commits) \in Nat
  <2>1. branch \in Branch /\ Exists(branch)
    BY <1>1 DEF ServerInv, WriterBranchExists
  <2> QED
    BY <1>1, <2>1, BranchFacts DEF ForkPoint, ServerInv
<1>3. /\ ~Exists(l) /\ l \in Branch /\ l # Main /\ Main \in Branch /\ Exists(Main)
      /\ Main \notin Wip /\ l \notin Wip
      /\ UNCHANGED commits
      /\ head' = [b \in Branch |-> IF b \in Wip THEN 0 ELSE Forked(l)[b]]
      /\ working' = [b \in Branch |-> IF b \in Wip THEN EmptyDb ELSE ForkedDb(l)[b]]
  BY <1>1, BranchFacts, MainNotLabel DEF BranchBegin, Dropped, DroppedDb, Wip
<1>4. /\ Forked(l)[l] = f /\ ForkedDb(l)[l] = commits[f].db
      /\ \A b \in Branch \ {l} : Forked(l)[b] = head[b] /\ ForkedDb(l)[b] = working[b]
  BY <1>1, <1>3 DEF Forked, ForkedDb, BranchesInv
<1>5. d \in Row /\ d \in aRevisions
  <2>1. f \in DOMAIN commits
    BY <1>1, <1>2, LenProperties DEF CommitsInv
  <2> QED
    BY <1>1, <1>2, <2>1, CommitFacts, DbFields DEF aRevisions, Row
<1> HIDE DEF f
<1>6. /\ head'[l] = f /\ working'[l] = commits[f].db
      /\ head'[Main] = head[Main] /\ working'[Main] = working[Main]
      /\ \A b \in Branch \ {l, Main} : head'[b] = 0 /\ working'[b] = EmptyDb
  <2>1. \A b \in Branch \ {Main} : b \in Wip \/ (head[b] = 0 /\ working[b] = EmptyDb)
    BY DEF Alone, GoneIsEmpty, Wip, Exists, Branch
  <2> QED
    BY <1>3, <1>4, <2>1
<1>7. \A b \in aOpen : aPast[b] = Copies!NoPast
  <2>1. ~Dirty(Main)
    BY <1>1 DEF BranchesInv, MainClean
  <2>2. \A b \in Wip : ~Dirty(b)
    BY DEF BranchBegin, BranchBeginAllowed, Alone, SingleWip
  <2>3. \A b \in aOpen : b \in Branch /\ Exists(b) /\ ~Dirty(b)
    BY <2>1, <2>2 DEF aOpen, Wip, Branch
  <2> QED
    BY <1>1, <2>3, CleanCopy
<1>8. aOpen' = {Main, l}
  BY <1>2, <1>3, <1>6 DEF aOpen, Exists
<1>9. /\ Len(commits) <= Len(commits') /\ DOMAIN working' = Branch
      /\ \A n \in 1..Len(commits) : commits'[n] = commits[n]
      /\ \A b \in Branch : head[b] \in 0..Len(commits)
  BY <1>1, <1>2, <1>3 DEF BranchesInv
<1>10. aDoc'[l] = d /\ aPast'[l] = Copies!NoPast /\ aSaved'[l] = d
  <2>1. head'[l] # 0 /\ ~Dirty(l)' /\ commits'[head'[l]].db.rows = d
    BY <1>2, <1>3, <1>6 DEF Dirty, HeadDb, f
  <2> QED
    BY <1>1, <1>2, <1>3, <1>9, <2>1, MovedCopies
<1>11. aDoc'[Main] = aDoc[Main] /\ aPast'[Main] = Copies!NoPast /\ aSaved'[Main] = aSaved[Main]
  <2>1. aPast[Main] = Copies!NoPast
    BY <1>3, <1>7 DEF aOpen
  <2> QED
    BY <1>1, <1>2, <1>3, <1>6, <1>9, <2>1, MovedCopies
<1>12. \A b \in Branch \ {l, Main} : /\ aDoc'[b] = Copies!Blank /\ aPast'[b] = Copies!NoPast
                                     /\ aSaved'[b] = Copies!Blank
  BY <1>1, <1>2, <1>6, <1>9, MovedCopies
<1>13. UNCHANGED aRevisions
  BY <1>3 DEF aRevisions
<1>14. /\ aDoc' = [b \in Branch |-> CASE b = l -> d [] b = Main -> aDoc[b] [] OTHER -> Copies!Blank]
       /\ aSaved' = [b \in Branch |-> CASE b = l -> d [] b = Main -> aSaved[b]
                                        [] OTHER -> Copies!Blank]
       /\ aPast' = [b \in Branch |-> Copies!NoPast]
  <2>1. \A b \in Branch : /\ aDoc'[b] = CASE b = l -> d [] b = Main -> aDoc[b] [] OTHER -> Copies!Blank
                          /\ aSaved'[b] = CASE b = l -> d [] b = Main -> aSaved[b]
                                            [] OTHER -> Copies!Blank
                          /\ aPast'[b] = Copies!NoPast
    BY <1>3, <1>10, <1>11, <1>12
  <2> QED
    BY <2>1, CopiesAreFunctions
<1>15. l \in Branch \ aOpen
  BY <1>3 DEF aOpen
<1> QED
  BY <1>5, <1>7, <1>8, <1>13, <1>14, <1>15
     DEF Copies!Begin, aOpen, aDoc, aPast, aSaved, aRevisions

LEMMA DropCopies ==
    ASSUME Inv, Inv', Alone, BranchDiscard
    PROVE  Copies!Drop
<1>1. CommitsInv /\ BranchesInv /\ CommitsInv' /\ BranchesInv'
  BY InvParts, InvPartsNext
<1>2. /\ UNCHANGED commits
      /\ head' = [b \in Branch |-> IF b \in Wip THEN 0 ELSE head[b]]
      /\ working' = [b \in Branch |-> IF b \in Wip THEN EmptyDb ELSE working[b]]
  BY DEF BranchDiscard, Dropped, DroppedDb
<1>3. Main \in Branch /\ Main \notin Wip /\ Exists(Main) /\ ~Dirty(Main)
      /\ Len(commits) \in Nat
  BY <1>1, BranchFacts, MainNotLabel DEF Wip, BranchesInv, MainClean
<1>4. /\ head'[Main] = head[Main] /\ working'[Main] = working[Main]
      /\ \A b \in Branch \ {Main} : head'[b] = 0 /\ working'[b] = EmptyDb
  BY <1>2, <1>3 DEF Alone, GoneIsEmpty, Wip, Exists, Branch
<1>5. /\ Len(commits) <= Len(commits') /\ DOMAIN working' = Branch
      /\ \A n \in 1..Len(commits) : commits'[n] = commits[n]
      /\ \A b \in Branch : head[b] \in 0..Len(commits)
  BY <1>1, <1>2, <1>3 DEF BranchesInv
<1>6. aDoc'[Main] = aDoc[Main] /\ aPast'[Main] = Copies!NoPast /\ aSaved'[Main] = aSaved[Main]
  BY <1>1, <1>3, <1>4, <1>5, CleanCopy, MovedCopies
<1>7. \A b \in Branch \ {Main} : /\ aDoc'[b] = Copies!Blank /\ aPast'[b] = Copies!NoPast
                                 /\ aSaved'[b] = Copies!Blank
  BY <1>1, <1>3, <1>4, <1>5, MovedCopies
<1>8. aOpen' = {Main} /\ UNCHANGED aRevisions
  BY <1>2, <1>3, <1>4 DEF aOpen, Exists, aRevisions
<1>9. /\ aDoc' = [b \in Branch |-> IF b = Main THEN aDoc[b] ELSE Copies!Blank]
      /\ aSaved' = [b \in Branch |-> IF b = Main THEN aSaved[b] ELSE Copies!Blank]
      /\ aPast' = [b \in Branch |-> Copies!NoPast]
  BY <1>3, <1>6, <1>7, CopiesAreFunctions
<1> QED
  BY <1>8, <1>9 DEF Copies!Drop, aOpen, aDoc, aPast, aSaved, aRevisions

LEMMA LandCopies ==
    ASSUME Inv, Inv', Alone, NEW n \in 1..MaxCommits, BranchMerge(n),
           NEW d, d = commits'[Len(commits) + 1].db.rows
    PROVE  Copies!Land(branch, d) /\ d \in Row
<1> DEFINE L == Len(commits)
           o == commits[n].db
           x == HeadDb(Main)
           y == HeadDb(branch)
<1>1. CommitsInv /\ BranchesInv /\ ServerInv /\ CommitsInv' /\ BranchesInv'
  BY InvParts, InvPartsNext
<1>2. /\ branch \in Label /\ ~Dirty(branch) /\ bound
      /\ \E c : c.db = MergedDb(o, x, y) /\ commits' = Append(commits, c)
      /\ head' = [b \in Branch |-> IF b = branch THEN 0 ELSE [head EXCEPT ![Main] = L + 1][b]]
      /\ working' = [b \in Branch |-> IF b = branch THEN EmptyDb
                                      ELSE [working EXCEPT ![Main] = commits'[L + 1].db][b]]
  BY DEF BranchMerge, MergeAllowed, Merged, MergesWith, Clashing, MergeOf, NewCommit, Usable,
         Dropped, DroppedDb
<1>3. /\ Main \in Branch /\ Exists(Main) /\ ~Dirty(Main) /\ branch \in Branch /\ branch # Main
      /\ Exists(branch) /\ L \in Nat
  BY <1>1, <1>2, BranchFacts, MainNotLabel
     DEF BranchesInv, MainClean, ServerInv, WriterBranchExists
<1>4. /\ Len(commits') = L + 1 /\ DOMAIN commits' = 1..(L + 1) /\ DOMAIN commits = 1..L
      /\ commits'[L + 1].db = MergedDb(o, x, y)
      /\ \A i \in 1..L : commits'[i] = commits[i]
  BY <1>1, <1>2, LenProperties DEF CommitsInv
<1>5. /\ head'[branch] = 0 /\ working'[branch] = EmptyDb
      /\ head'[Main] = L + 1 /\ working'[Main] = commits'[L + 1].db
      /\ \A b \in Branch \ {branch, Main} : head'[b] = head[b] /\ working'[b] = working[b]
  BY <1>1, <1>2, <1>3 DEF BranchesInv
<1>6. /\ aDoc[Main] = x.rows /\ aDoc[branch] = y.rows /\ aPast[Main] = Copies!NoPast
      /\ aPast[branch] = Copies!NoPast
  BY <1>1, <1>2, <1>3, CleanCopy
<1>7. d \in Row
  <2>1. IsDb(working'[Main])
    BY <1>1, <1>3 DEF BranchesInv
  <2> QED
    BY <1>5, <2>1, DbFields DEF Row
<1>8. \A k \in Key : d[k] \in {aDoc[Main][k], aDoc[branch][k]}
  <2>1. d = [k \in Key |-> Merge3(o.rows[k], x.rows[k], y.rows[k])]
    BY <1>4 DEF MergedDb
  <2> QED
    BY <1>6, <2>1 DEF Merge3
<1> HIDE DEF o, x, y
<1>9. /\ L <= Len(commits') /\ DOMAIN working' = Branch
      /\ \A b \in Branch : head[b] \in 0..L
  BY <1>1, <1>2, <1>3, <1>4 DEF BranchesInv
<1>10. aDoc'[Main] = d /\ aPast'[Main] = Copies!NoPast /\ aSaved'[Main] = d
  <2>1. head'[Main] # 0 /\ ~Dirty(Main)' /\ commits'[head'[Main]].db.rows = d
    BY <1>3, <1>5 DEF Dirty, HeadDb
  <2> QED
    BY <1>1, <1>3, <1>4, <1>9, <2>1, MovedCopies
<1>11. /\ aDoc'[branch] = Copies!Blank /\ aPast'[branch] = Copies!NoPast
       /\ aSaved'[branch] = Copies!Blank
  BY <1>1, <1>3, <1>4, <1>5, <1>9, MovedCopies
<1>12. \A b \in Branch \ {branch, Main} : /\ aDoc'[b] = aDoc[b] /\ aPast'[b] = aPast[b]
                                          /\ aSaved'[b] = aSaved[b]
  BY <1>1, <1>3, <1>4, <1>5, <1>9, MovedCopies
<1>13. aOpen' = aOpen \ {branch} /\ branch \in aOpen \ {Main}
  BY <1>3, <1>5 DEF aOpen, Exists
<1>14. aRevisions' = aRevisions \cup {d}
  <2>1. aRevisions' = {commits'[i].db.rows : i \in 1..(L + 1)}
    BY <1>4 DEF aRevisions
  <2>2. 1..(L + 1) = 1..L \cup {L + 1}
    BY <1>3
  <2> QED
    BY <1>4, <2>1, <2>2 DEF aRevisions
<1>15. /\ aDoc' = [aDoc EXCEPT ![branch] = Copies!Blank, ![Main] = d]
       /\ aSaved' = [aSaved EXCEPT ![branch] = Copies!Blank, ![Main] = d]
       /\ aPast' = aPast
  <2>1. /\ aDoc = [b \in Branch |-> aDoc[b]] /\ aSaved = [b \in Branch |-> aSaved[b]]
        /\ aPast = [b \in Branch |-> aPast[b]]
    BY DEF aDoc, aPast, aSaved
  <2>2. /\ aDoc' = [b \in Branch |-> IF b = Main THEN d ELSE IF b = branch THEN Copies!Blank
                                     ELSE aDoc[b]]
        /\ aSaved' = [b \in Branch |-> IF b = Main THEN d ELSE IF b = branch THEN Copies!Blank
                                       ELSE aSaved[b]]
        /\ aPast' = [b \in Branch |-> aPast[b]]
    BY <1>6, <1>10, <1>11, <1>12, CopiesAreFunctions
  <2> QED
    BY <1>3, <2>1, <2>2
<1> QED
  BY <1>6, <1>7, <1>8, <1>13, <1>14, <1>15
     DEF Copies!Land, Copies!Document, Row, aOpen, aDoc, aPast, aSaved, aRevisions

LEMMA NextCopies == Inv /\ Inv' /\ Alone /\ [Next]_vars => [Copies!Next]_(Copies!copies)
<1> SUFFICES ASSUME Inv, Inv', Alone, [Next]_vars PROVE [Copies!Next]_(Copies!copies)
  OBVIOUS
<1>1. /\ Copies!Document = Row
      /\ branch \in Branch /\ \A l \in Label : l \in Branch
  BY InvParts DEF Copies!Document, Row, ServerInv, Branch
<1>2. CASE UNCHANGED <<commits, head, working>>
  BY <1>2 DEF Copies!copies, Exists, HeadDb, Past, Live, EmptyDb
<1>3. ASSUME NEW g \in [GraphKey -> Cell], NEW side \in SidePatch, NEW s \in 1..MaxSeq,
             Edit(g, side, s)
      PROVE  Copies!Next
  BY <1>1, <1>3, EditCopies DEF Copies!Next
<1>4. ASSUME NEW s \in 1..MaxSeq, Undo(s) PROVE Copies!Next
  BY <1>1, <1>4, UndoCopies DEF Copies!Next
<1>5. ASSUME NEW m \in 0..MaxSeq, Commit(m) PROVE Copies!Next
  <2>1. Copies!Save(branch)
    BY <1>5, CommitCopies
  <2>2. PICK b \in Branch : b = branch
    BY <1>1
  <2>3. Copies!Save(b)
    BY <2>1, <2>2 DEF Copies!Save
  <2> QED
    BY <2>3 DEF Copies!Next
<1>6. CASE Discard
  <2>1. Copies!Revert(branch)
    BY <1>6, DiscardCopies
  <2>2. PICK b \in Branch : b = branch
    BY <1>1
  <2>3. Copies!Revert(b)
    BY <2>1, <2>2 DEF Copies!Revert
  <2> QED
    BY <2>3 DEF Copies!Next
<1>7. ASSUME NEW l \in Label, NEW replace \in BOOLEAN, BranchBegin(l, replace)
      PROVE  Copies!Next
  BY <1>1, <1>7, BeginCopies DEF Copies!Next
<1>8. ASSUME NEW n \in 1..MaxCommits, BranchMerge(n) PROVE Copies!Next
  BY <1>1, <1>8, LandCopies DEF Copies!Next
<1>9. CASE BranchDiscard
  <2>1. Copies!Drop
    BY <1>9, DropCopies
  <2> QED
    BY <2>1 DEF Copies!Next
<1>10. \/ UNCHANGED <<commits, head, working>>
       \/ \E g \in [GraphKey -> Cell], side \in SidePatch, s \in 1..MaxSeq : Edit(g, side, s)
       \/ \E s \in 1..MaxSeq : Undo(s)
       \/ \E m \in 0..MaxSeq : Commit(m)
       \/ Discard
       \/ \E l \in Label, replace \in BOOLEAN : BranchBegin(l, replace)
       \/ \E n \in 1..MaxCommits : BranchMerge(n)
       \/ BranchDiscard
  BY DEF Next, Open, Close, Unbind, Refresh, BranchBeginNameTaken, BranchMergeConflict,
         CheckoutBranch, CheckoutCommit, storage, vars
<1>11. Copies!Next \/ UNCHANGED Copies!copies
  BY <1>2, <1>3, <1>4, <1>5, <1>6, <1>7, <1>8, <1>9, <1>10
<1> QED
  BY <1>11

\* The storage and the session implement WorkingCopies: logs, before-images,
\* marks and three-way merges never show through.
THEOREM Implements == Spec => ImplementsCopies
<1>1. Inv /\ [Next]_vars => Inv'
  BY NextInv
<1> QED
  BY CopiesInit, NextCopies, Invariance, AloneAlways, PTL DEF Spec, ImplementsCopies, Copies!Spec
-----------------------------------------------------------------------------
(***************************************************************************)
(* What the calls that move branches leave: main and at most one working   *)
(* branch.                                                                 *)
(***************************************************************************)

LEMMA BeginLeaves ==
    ASSUME Inv, NEW l \in Label, NEW replace \in BOOLEAN, BranchBegin(l, replace)
    PROVE  /\ ForkPoint \in 1..Len(commits) /\ UNCHANGED commits
           /\ head'[l] = ForkPoint /\ working'[l] = commits[ForkPoint].db
           /\ head'[Main] = head[Main] /\ working'[Main] = working[Main]
           /\ \A b \in Label \ {l} : head'[b] = 0
<1>1. CommitsInv /\ BranchesInv /\ ServerInv
  BY InvParts
<1>2. DOMAIN working = Branch /\ DOMAIN head = Branch
  BY <1>1 DEF BranchesInv
<1>3. /\ ~Exists(l) /\ bound /\ UNCHANGED commits
      /\ head' = [b \in Branch |-> IF b \in Wip THEN 0 ELSE Forked(l)[b]]
      /\ working' = [b \in Branch |-> IF b \in Wip THEN EmptyDb ELSE ForkedDb(l)[b]]
  BY DEF BranchBegin, BranchBeginAllowed, Usable, Dropped, DroppedDb
<1>4. ForkPoint \in 1..Len(commits)
  <2>1. CASE view # 0
    BY <1>1, <2>1, BranchFacts DEF ForkPoint, ServerInv
  <2>2. CASE view = 0
    <3>1. branch \in Branch /\ Exists(branch)
      BY <1>1, <1>3 DEF ServerInv, WriterBranchExists
    <3> QED
      BY <1>1, <2>2, <3>1, BranchFacts DEF ForkPoint
  <2> QED
    BY <2>1, <2>2
<1>5. l \in Branch /\ l # Main /\ l \notin Wip /\ Main \notin Wip /\ Main \in Branch
  BY <1>1, <1>3, BranchFacts, MainNotLabel DEF Wip
<1>6. /\ Forked(l)[l] = ForkPoint /\ \A b \in Branch \ {l} : Forked(l)[b] = head[b]
      /\ ForkedDb(l)[l] = commits[ForkPoint].db /\ \A b \in Branch \ {l} : ForkedDb(l)[b] = working[b]
  BY <1>2, <1>5 DEF Forked, ForkedDb
<1>7. \A b \in Label \ {l} : head'[b] = 0
  BY <1>3, <1>6 DEF Wip, Exists, Branch
<1> QED
  BY <1>3, <1>4, <1>5, <1>6, <1>7

LEMMA MergeLeaves ==
    ASSUME Inv, Alone, NEW n, BranchMerge(n)
    PROVE  /\ branch \in Label /\ head[Main] \in 1..Len(commits) /\ head[branch] \in 1..Len(commits)
           /\ head'[Main] = Len(commits) + 1
           /\ working'[Main] = commits'[Len(commits) + 1].db
           /\ \A b \in Label : head'[b] = 0
<1>1. CommitsInv /\ BranchesInv /\ ServerInv
  BY InvParts
<1>2. DOMAIN working = Branch /\ DOMAIN head = Branch
  BY <1>1 DEF BranchesInv
<1> DEFINE c == commits'[Len(commits) + 1]
<1>3. /\ branch \in Label /\ bound
      /\ head' = [b \in Branch |-> IF b \in {branch} THEN 0
                                   ELSE [head EXCEPT ![Main] = Len(commits) + 1][b]]
      /\ working' = [b \in Branch |-> IF b \in {branch} THEN EmptyDb
                                      ELSE [working EXCEPT ![Main] = c.db][b]]
  BY DEF BranchMerge, MergeAllowed, Usable, Dropped, DroppedDb
<1> HIDE DEF c
<1>4. Main \in Branch /\ Main \notin Label /\ branch \in Branch /\ Label \subseteq Branch
  BY <1>3, MainNotLabel DEF Branch
<1>5. head'[Main] = Len(commits) + 1 /\ working'[Main] = c.db
  BY <1>2, <1>3, <1>4
<1>6. branch \in Wip
  BY <1>1, <1>3 DEF Wip, ServerInv, WriterBranchExists
<1>7. ASSUME NEW b \in Label PROVE head'[b] = 0
  <2>1. b = branch \/ head[b] = 0
    BY <1>6 DEF Alone, SingleWip, Wip, Exists
  <2> QED
    BY <1>2, <1>3, <1>4, <2>1
<1>8. head[Main] \in 1..Len(commits) /\ head[branch] \in 1..Len(commits)
  BY <1>1, <1>4, <1>6, BranchFacts DEF Wip
<1> QED
  BY <1>3, <1>5, <1>7, <1>8 DEF c

LEMMA DiscardLeaves ==
    ASSUME Inv, BranchDiscard
    PROVE  /\ head'[Main] = head[Main] /\ working'[Main] = working[Main] /\ UNCHANGED commits
           /\ \A b \in Label : head'[b] = 0
<1>1. /\ head' = [b \in Branch |-> IF b \in Wip THEN 0 ELSE head[b]]
      /\ working' = [b \in Branch |-> IF b \in Wip THEN EmptyDb ELSE working[b]]
      /\ UNCHANGED commits
  BY DEF BranchDiscard, Dropped, DroppedDb
<1> QED
  BY <1>1, MainNotLabel DEF Wip, Exists, Branch

(***************************************************************************)
(* Uncommitted work.                                                       *)
(***************************************************************************)

\* What the writer is on, session_state remembers, unless that is main.
SessionFollows == bound /\ branch # Main => session = branch
WorkInv == Inv /\ Alone /\ UncommittedIsCurrent /\ SessionFollows

AllClean == \A b \in Branch : Exists(b) => ~Dirty(b)

\* Every call that leaves the current branch behind first finds it clean, and
\* then nothing is uncommitted anywhere.
LEMMA CleanToLeave ==
    ASSUME UncommittedIsCurrent, bound, view = 0 => ~Dirty(branch)
    PROVE  AllClean
BY DEF UncommittedIsCurrent, AllClean

LEMMA OneEditKeeps ==
    ASSUME WorkInv, Writable, NEW d, working' = [working EXCEPT ![branch] = d],
           UNCHANGED <<session, bound, branch, view>>,
           \A b \in Branch \ {branch} : head'[b] = head[b] /\ (Exists(b) => HeadDb(b)' = HeadDb(b))
    PROVE  UncommittedIsCurrent' /\ SessionFollows'
<1>1. bound /\ branch # Main /\ view = 0 /\ session = branch
  BY DEF WorkInv, SessionFollows, Writable, Usable
<1>2. \A b \in Branch \ {branch} : working'[b] = working[b]
  BY DEF WorkInv, Inv, TypeOK
<1>3. ASSUME NEW b \in Branch, Exists(b)', Dirty(b)', b # branch PROVE FALSE
  <2>1. Exists(b) /\ Dirty(b)
    BY <1>2, <1>3 DEF Exists, Dirty
  <2> QED
    BY <1>1, <1>3, <2>1 DEF WorkInv, UncommittedIsCurrent
<1> QED
  BY <1>1, <1>3 DEF UncommittedIsCurrent, SessionFollows

\* Branches made, moved or dropped while nothing is uncommitted.
LEMMA CleanMoveKeeps ==
    ASSUME \A b \in Branch : Exists(b)' => ~Dirty(b)',
           bound' /\ branch' # Main => session' = branch'
    PROVE  UncommittedIsCurrent' /\ SessionFollows'
BY DEF UncommittedIsCurrent, SessionFollows

LEMMA WorkNext ==
    ASSUME WorkInv, [Next]_vars
    PROVE  UncommittedIsCurrent' /\ SessionFollows'
<1>1. CommitsInv /\ BranchesInv /\ ServerInv /\ Alone
  BY InvParts DEF WorkInv
<1>2. Main \in Branch /\ ~Dirty(Main) /\ Exists(Main) /\ \A l \in Label : l \in Branch /\ l # Main
  BY <1>1, BranchFacts DEF BranchesInv, MainClean
<1>3. ASSUME UNCHANGED <<commits, head, working>>
      PROVE  \A b \in Branch : (Exists(b)' <=> Exists(b)) /\ (Dirty(b)' <=> Dirty(b))
  BY <1>3 DEF Exists, Dirty, HeadDb
<1>4. ASSUME NEW d, working' = [working EXCEPT ![branch] = d], Writable,
             UNCHANGED <<commits, head, session, bound, conn, branch, view>>
      PROVE  UncommittedIsCurrent' /\ SessionFollows'
  BY <1>4, OneEditKeeps DEF HeadDb
<1>5. CASE Open
  <2>1. /\ bound' /\ view' = 0 /\ branch' = SessionBranch /\ session' = SessionBranch
        /\ UNCHANGED <<commits, head, working>>
    BY <1>5 DEF Open
  <2>2. ASSUME NEW b \in Branch, Exists(b), Dirty(b) PROVE SessionBranch = b
    <3>1. session = b
      BY <2>2 DEF WorkInv, UncommittedIsCurrent
    <3> QED
      BY <2>2, <3>1 DEF SessionBranch
  <2> QED
    BY <1>3, <2>1, <2>2 DEF UncommittedIsCurrent, SessionFollows
<1>6. CASE Close
  <2>1. ~bound' /\ UNCHANGED <<commits, head, working, session>>
    BY <1>6 DEF Close, Unbind, storage
  <2> QED
    BY <1>3, <2>1 DEF UncommittedIsCurrent, SessionFollows, WorkInv
<1>7. CASE UNCHANGED <<commits, head, working, session, bound, branch, view>>
  BY <1>3, <1>7 DEF UncommittedIsCurrent, SessionFollows, WorkInv
<1>8. ASSUME NEW m \in 0..MaxSeq, Commit(m) PROVE UncommittedIsCurrent' /\ SessionFollows'
  <2>1. /\ Writable /\ UNCHANGED <<session, bound, branch, view>>
        /\ \E d : working' = [working EXCEPT ![branch] = d]
    BY <1>8 DEF Commit
  <2>2. CASE UNCHANGED <<commits, head>>
    BY <2>1, <2>2, OneEditKeeps DEF HeadDb
  <2>3. CASE ~UNCHANGED <<commits, head>>
    <3>1. /\ head' = [head EXCEPT ![branch] = Len(commits) + 1]
          /\ \E c : commits' = Append(commits, c)
      BY <1>8, <2>3 DEF Commit
    <3>2. \A b \in Branch \ {branch} : head'[b] = head[b]
      BY <1>1, <3>1 DEF BranchesInv
    <3>3. \A n \in 1..Len(commits) : commits'[n] = commits[n]
      BY <1>1, <3>1, AppendProperties DEF CommitsInv
    <3>4. ASSUME NEW b \in Branch \ {branch}, Exists(b) PROVE HeadDb(b)' = HeadDb(b)
      <4>1. head[b] \in 1..Len(commits)
        BY <1>1, <3>4, BranchFacts
      <4> QED
        BY <3>2, <3>3, <4>1 DEF HeadDb
    <3> QED
      BY <2>1, <3>2, <3>4, OneEditKeeps
  <2> QED
    BY <2>2, <2>3
<1>9. ASSUME NEW l \in Label, NEW replace \in BOOLEAN, BranchBegin(l, replace)
      PROVE  UncommittedIsCurrent' /\ SessionFollows'
  <2>1. session' = l /\ branch' = l /\ UNCHANGED commits
    BY <1>9 DEF BranchBegin
  <2>2. \A b \in Branch : Exists(b)' => ~Dirty(b)'
    <3>1. ~Dirty(l)' /\ ~Dirty(Main)'
      BY <1>2, <1>9, <2>1, BeginLeaves DEF WorkInv, Dirty, HeadDb
    <3>2. \A b \in Label \ {l} : ~Exists(b)'
      BY <1>9, BeginLeaves DEF WorkInv, Exists
    <3> QED
      BY <3>1, <3>2 DEF Branch
  <2> QED
    BY <2>1, <2>2, CleanMoveKeeps
<1>10. ASSUME NEW l \in Label, BranchBeginNameTaken(l)
       PROVE  UncommittedIsCurrent' /\ SessionFollows'
  <2>1. /\ bound /\ (view = 0 => ~Dirty(branch))
        /\ branch' = Main /\ UNCHANGED <<commits, head, working>>
    BY <1>10 DEF BranchBeginNameTaken, BranchBeginAllowed, Usable
  <2>2. AllClean
    BY <2>1, CleanToLeave DEF WorkInv
  <2> QED
    BY <1>3, <2>1, <2>2, CleanMoveKeeps DEF AllClean
<1>11. ASSUME NEW n \in 1..MaxCommits, BranchMerge(n)
       PROVE  UncommittedIsCurrent' /\ SessionFollows'
  <2>1. branch' = Main
    BY <1>11 DEF BranchMerge
  <2>2. \A b \in Branch : Exists(b)' => ~Dirty(b)'
    BY <1>1, <1>11, MergeLeaves DEF WorkInv, Exists, Dirty, HeadDb, Branch
  <2> QED
    BY <2>1, <2>2, CleanMoveKeeps
<1>12. CASE BranchDiscard
  <2>1. branch' = Main
    BY <1>12 DEF BranchDiscard
  <2>2. \A b \in Branch : Exists(b)' => ~Dirty(b)'
    BY <1>2, <1>12, DiscardLeaves DEF WorkInv, Exists, Dirty, HeadDb, Branch
  <2> QED
    BY <2>1, <2>2, CleanMoveKeeps
<1>13. ASSUME NEW b \in Branch, CheckoutBranch(b)
       PROVE  UncommittedIsCurrent' /\ SessionFollows'
  <2>1. /\ bound /\ (view = 0 => ~Dirty(branch))
        /\ branch' = b /\ session' = b /\ UNCHANGED <<commits, head, working>>
    BY <1>13 DEF CheckoutBranch, CheckoutAllowed, Usable
  <2>2. AllClean
    BY <2>1, CleanToLeave DEF WorkInv
  <2> QED
    BY <1>3, <2>1, <2>2, CleanMoveKeeps DEF AllClean
<1>14. ASSUME NEW c \in 1..MaxCommits, CheckoutCommit(c)
       PROVE  UncommittedIsCurrent' /\ SessionFollows'
  <2>1. /\ bound /\ (view = 0 => ~Dirty(branch))
        /\ UNCHANGED <<commits, head, working, session, bound, branch>>
    BY <1>14 DEF CheckoutCommit, CheckoutAllowed, Usable
  <2>2. AllClean
    BY <2>1, CleanToLeave DEF WorkInv
  <2> QED
    BY <1>3, <2>1, <2>2, CleanMoveKeeps DEF AllClean, WorkInv, SessionFollows
<1>15. CASE \E g \in [GraphKey -> Cell], side \in SidePatch, s \in 1..MaxSeq : Edit(g, side, s)
  BY <1>4, <1>15 DEF Edit, EditedDb
<1>16. CASE \E s \in 1..MaxSeq : Undo(s)
  BY <1>4, <1>16 DEF Undo, UndoneDb
<1>17. CASE Discard
  BY <1>4, <1>17 DEF Discard, DiscardedDb
<1> QED
  BY <1>5, <1>6, <1>7, <1>8, <1>9, <1>10, <1>11, <1>12, <1>13, <1>14, <1>15, <1>16, <1>17
     DEF Next, Refresh, BranchMergeConflict, vars

LEMMA WorkAlways == Spec => []WorkInv
<1>1. Init => WorkInv
  <2>1. Init => UncommittedIsCurrent /\ SessionFollows
    BY DEF Init, UncommittedIsCurrent, SessionFollows, Exists, Dirty, HeadDb, Branch
  <2> QED
    BY <2>1, InitInv, AloneInit DEF WorkInv
<1>2. WorkInv /\ [Next]_vars => WorkInv'
  <2> SUFFICES ASSUME WorkInv, [Next]_vars PROVE WorkInv'
    OBVIOUS
  <2>1. Inv' /\ Alone'
    BY NextInv, AloneNext DEF WorkInv
  <2> QED
    BY <2>1, WorkNext DEF WorkInv
<1> QED
  BY <1>1, <1>2, PTL DEF Spec

\* Edits that are not committed are on one branch only, the one the session is
\* on: no call (openProject, branchBegin, branchMerge, checkout) walks away
\* from them.
THEOREM WorkIsCurrent == Spec => []UncommittedIsCurrent
<1>1. WorkInv => UncommittedIsCurrent
  BY DEF WorkInv
<1> QED
  BY <1>1, WorkAlways, PTL

LEMMA DirtyStep ==
    ASSUME WorkInv, [Next]_vars, NEW b \in Label, Exists(b), Dirty(b), head'[b] = 0
    PROVE  \A l \in Label : head'[l] = 0 \/ head'[l] = head[l]
<1>1. CommitsInv /\ BranchesInv /\ ServerInv /\ Alone /\ b \in Branch
  BY InvParts DEF WorkInv, Branch
<1>2. CASE UNCHANGED head
  BY <1>2
<1>3. ~AllClean
  BY <1>1 DEF AllClean
<1>4. ASSUME NEW m \in 0..MaxSeq, Commit(m) PROVE UNCHANGED head
  <2>1. head' = head \/ head' = [head EXCEPT ![branch] = Len(commits) + 1]
    BY <1>4 DEF Commit
  <2>2. head' # head => head'[b] # 0
    <3>1. Len(commits) \in Nat /\ DOMAIN head = Branch
      BY <1>1, BranchFacts DEF BranchesInv
    <3>2. head[b] # 0
      BY DEF Exists
    <3> QED
      BY <1>1, <2>1, <3>1, <3>2
  <2> QED
    BY <2>2
<1>5. ASSUME NEW l \in Label, NEW replace \in BOOLEAN, BranchBegin(l, replace) PROVE FALSE
  <2>1. bound /\ (view = 0 => ~Dirty(branch))
    BY <1>5 DEF BranchBegin, BranchBeginAllowed, Usable
  <2> QED
    BY <1>3, <2>1, CleanToLeave DEF WorkInv
<1>6. ASSUME NEW n \in 1..MaxCommits, BranchMerge(n) PROVE FALSE
  <2>1. bound /\ (view = 0 => ~Dirty(branch))
    BY <1>6 DEF BranchMerge, MergeAllowed, Usable
  <2> QED
    BY <1>3, <2>1, CleanToLeave DEF WorkInv
<1>7. CASE BranchDiscard
  BY <1>7, DiscardLeaves DEF WorkInv
<1> QED
  BY <1>2, <1>4, <1>5, <1>6, <1>7
     DEF Next, Open, Close, storage, Refresh, Edit, Undo, Discard, BranchBeginNameTaken,
         BranchMergeConflict, CheckoutBranch, CheckoutCommit, vars

\* "it is never replaced" (branchBegin): a working branch with uncommitted
\* changes disappears in branch_discard only.
THEOREM DirtyIsKept == Spec => DirtyNeverReplaced
<1>1. WorkInv /\ [Next]_vars =>
        [\A b \in Label : Exists(b) /\ Dirty(b) /\ head'[b] = 0
            => \A l \in Label : head'[l] = 0 \/ head'[l] = head[l]]_vars
  BY DirtyStep
<1> QED
  BY <1>1, WorkAlways, PTL DEF Spec, DirtyNeverReplaced

(***************************************************************************)
(* What the commits record.                                                *)
(*                                                                         *)
(* A commit's log holds those of its ancestors, and what it adds to its    *)
(* first parent's lies above the parent's mark.  For a commit that is the  *)
(* mark of the working set.  For a merge it needs that whatever any branch *)
(* or revision still to be merged has logged beside main lies above main's *)
(* mark: sequence numbers are fresh, and when a merge moves main's mark no *)
(* other working branch is open.                                           *)
(***************************************************************************)

Log(n) == DOMAIN commits[n].db.log

AncestorsNest == \A n \in 1..Len(commits) : \A a \in commits[n].anc :
                    commits[a].anc \subseteq commits[n].anc
LogsGrow == \A n \in 1..Len(commits) : \A a \in commits[n].anc : Log(a) \subseteq Log(n)

\* The operations above the first parent's mark, and the trailer.
Recorded(c) ==
    LET p == commits[c].first IN
    /\ p \in 1..Len(commits)
    /\ \A s \in Log(c) \ Log(p) : s > commits[p].db.cs
    /\ Cardinality(commits[c].anc \ commits[p].anc) = 1
          => commits[c].ops = Cardinality({s \in Log(c) : s > commits[p].db.cs /\ s <= commits[c].db.cs})

CommitsRecord ==
    /\ AncestorsNest /\ LogsGrow
    /\ \A c \in 2..Len(commits) : Recorded(c)

\* What a log has beside main's lies above main's mark.
BesideMain(log) == \A s \in log \ Log(head[Main]) : s > HeadDb(Main).cs
MarkBelowRest ==
    /\ \A c \in Reachable : BesideMain(Log(c))
    /\ \A b \in Branch : Exists(b) => BesideMain(DOMAIN working[b].log)
ViewReachable == view # 0 => view \in Reachable

HistoryInv == Inv /\ Alone /\ CommitsRecord /\ MarkBelowRest /\ ViewReachable

\* A new commit on top of commits that record what they introduced.
LEMMA AppendRecords ==
    ASSUME CommitsInv, CommitsInv', CommitsRecord, NEW c,
           Len(commits') = Len(commits) + 1,
           \A n \in 1..Len(commits) : commits'[n] = commits[n],
           commits'[Len(commits) + 1] = c,
           c.anc \subseteq 1..Len(commits), c.first \in 1..Len(commits),
           \A a \in c.anc : /\ commits[a].anc \subseteq c.anc
                            /\ Log(a) \subseteq DOMAIN c.db.log,
           \A s \in DOMAIN c.db.log \ Log(c.first) : s > commits[c.first].db.cs,
           Cardinality(c.anc \ commits[c.first].anc) = 1
              => c.ops = Cardinality({s \in DOMAIN c.db.log :
                                        s > commits[c.first].db.cs /\ s <= c.db.cs})
    PROVE  CommitsRecord'
<1> DEFINE L == Len(commits)
<1>1. L \in Nat
  BY LenProperties DEF CommitsInv
<1> HIDE DEF L
<1>2. \A n \in 1..Len(commits') : n \in 1..L \/ n = L + 1
  BY <1>1 DEF L
<1>3. \A n \in 1..L : /\ commits'[n] = commits[n]
                      /\ commits[n].anc \subseteq 1..L
                      /\ \A a \in commits[n].anc : commits'[a] = commits[a]
  BY CommitFacts DEF L
<1>4. \A a \in c.anc : commits'[a] = commits[a]
  OBVIOUS
<1>5. AncestorsNest'
  BY <1>2, <1>3, <1>4 DEF AncestorsNest, CommitsRecord, L
<1>6. LogsGrow'
  BY <1>2, <1>3, <1>4 DEF LogsGrow, CommitsRecord, Log, L
<1>7. ASSUME NEW n \in 2..Len(commits') PROVE Recorded(n)'
  <2>1. CASE n \in 1..L
    <3>1. Recorded(n)
      BY <1>1, <1>7, <2>1 DEF CommitsRecord, L
    <3>2. commits'[n] = commits[n] /\ commits'[commits[n].first] = commits[commits[n].first]
      BY <1>3, <2>1, <3>1 DEF Recorded, L
    <3>3. commits[n].first \in 1..Len(commits')
      BY <1>1, <3>1 DEF Recorded, L
    <3> QED
      BY <3>1, <3>2, <3>3 DEF Recorded, Log
  <2>2. CASE n = L + 1
    <3>1. commits'[n] = c /\ commits'[c.first] = commits[c.first]
      BY <2>2 DEF L
    <3>2. c.first \in 1..Len(commits')
      BY <1>1 DEF L
    <3> QED
      BY <3>1, <3>2 DEF Recorded, Log
  <2> QED
    BY <1>1, <1>2, <1>7, <2>1, <2>2
<1> QED
  BY <1>5, <1>6, <1>7 DEF CommitsRecord

LEMMA ReachableFacts ==
    ASSUME CommitsInv, BranchesInv, AncestorsNest
    PROVE  /\ Reachable \subseteq 1..Len(commits)
           /\ \A c \in Reachable : commits[c].anc \subseteq Reachable
           /\ \A b \in Branch : Exists(b) => head[b] \in Reachable
<1>1. \A b \in Branch : Exists(b) => head[b] \in 1..Len(commits)
  BY BranchFacts
<1>2. \A b \in Branch : Exists(b) => commits[head[b]].anc \subseteq 1..Len(commits)
  BY <1>1, CommitFacts
<1>3. ASSUME NEW c \in Reachable PROVE c \in 1..Len(commits) /\ commits[c].anc \subseteq Reachable
  <2>1. PICK b \in Branch : Exists(b) /\ c \in commits[head[b]].anc \cup {head[b]}
    BY DEF Reachable
  <2>2. commits[head[b]].anc \subseteq Reachable
    BY <2>1 DEF Reachable
  <2>3. commits[c].anc \subseteq commits[head[b]].anc
    BY <1>1, <2>1 DEF AncestorsNest
  <2> QED
    BY <1>1, <1>2, <2>1, <2>2, <2>3
<1>4. \A b \in Branch : Exists(b) => head[b] \in Reachable
  BY DEF Reachable
<1> QED
  BY <1>3, <1>4

\* Branches of the next state that point into what was reachable, with logs
\* that were beside main before, and main where it was.
LEMMA MovedBeside ==
    ASSUME HistoryInv, UNCHANGED commits, head'[Main] = head[Main],
           \A b \in Branch : Exists(b)' =>
              /\ head'[b] \in Reachable
              /\ BesideMain(DOMAIN working'[b].log)
    PROVE  MarkBelowRest' /\ Reachable' \subseteq Reachable
<1>1. CommitsInv /\ BranchesInv /\ AncestorsNest /\ MarkBelowRest
  BY InvParts DEF HistoryInv, CommitsRecord
<1>2. Reachable' \subseteq Reachable
  <2>1. \A b \in Branch : Exists(b)' => commits[head'[b]].anc \cup {head'[b]} \subseteq Reachable
    BY <1>1, ReachableFacts
  <2> QED
    BY <2>1 DEF Reachable
<1>3. \A c : Log(c)' = Log(c)
  BY DEF Log
<1>4. HeadDb(Main)' = HeadDb(Main) /\ Log(head[Main])' = Log(head[Main])
  BY <1>3 DEF HeadDb
<1>5. ASSUME NEW log, BesideMain(log) PROVE BesideMain(log)'
  BY <1>4, <1>5 DEF BesideMain
<1>6. ASSUME NEW c \in Reachable' PROVE BesideMain(Log(c))'
  BY <1>1, <1>2, <1>3, <1>5 DEF MarkBelowRest
<1>7. ASSUME NEW b \in Branch, Exists(b)' PROVE BesideMain(DOMAIN working[b].log)'
  BY <1>5, <1>7
<1>8. MarkBelowRest'
  BY <1>6, <1>7 DEF MarkBelowRest
<1> QED
  BY <1>2, <1>8

LEMMA OneEditBeside ==
    ASSUME HistoryInv, Writable, NEW d, working' = [working EXCEPT ![branch] = d],
           UNCHANGED <<commits, head>>,
           \A s \in DOMAIN d.log \ DOMAIN working[branch].log : s > HeadDb(Main).cs
    PROVE  MarkBelowRest' /\ Reachable' = Reachable
<1>1. CommitsInv /\ BranchesInv /\ ServerInv /\ AncestorsNest /\ MarkBelowRest
  BY InvParts DEF HistoryInv, CommitsRecord
<1>2. branch \in Branch /\ Exists(branch)
  BY <1>1, WritableFacts
<1>3. BesideMain(DOMAIN d.log)
  BY <1>1, <1>2 DEF MarkBelowRest, BesideMain
<1>4. \A b \in Branch : Exists(b) => BesideMain(DOMAIN working'[b].log)
  BY <1>1, <1>2, <1>3 DEF MarkBelowRest, BranchesInv
<1>5. \A b \in Branch : Exists(b)' => head'[b] \in Reachable /\ BesideMain(DOMAIN working'[b].log)
  BY <1>1, <1>4, ReachableFacts DEF Exists
<1>6. Reachable' = Reachable
  BY DEF Reachable, Exists
<1> QED
  BY <1>5, <1>6, MovedBeside

\* What main's working set has logged is what its head has logged.
LEMMA FreshAboveMark ==
    ASSUME CommitsInv, BranchesInv, NEW s \in 1..MaxSeq, FreshSeq(s)
    PROVE  s > HeadDb(Main).cs
<1>1. Main \in Branch /\ Exists(Main) /\ head[Main] \in 1..Len(commits)
  BY BranchFacts
<1>2. working[Main] = HeadDb(Main) /\ Settled(HeadDb(Main)) /\ IsDb(HeadDb(Main))
  BY <1>1, CommitFacts DEF BranchesInv, MainClean, Dirty, HeadDb
<1>3. DOMAIN HeadDb(Main).log \subseteq UsedSeq
  BY <1>1, <1>2 DEF UsedSeq
<1>4. HeadDb(Main).cs \in UsedSeq \cup {0} /\ HeadDb(Main).cs \in Nat
  BY <1>2, <1>3, DbFields DEF Settled
<1> QED
  BY <1>4, BoundsNat DEF FreshSeq

\* commit: the mark of the working set is that of its head, so what lies above
\* it is what the commit adds and what the trailer counts.
LEMMA CommitHistory ==
    ASSUME HistoryInv, NEW m \in 0..MaxSeq, Commit(m)
    PROVE  CommitsRecord' /\ MarkBelowRest' /\ ViewReachable'
<1> DEFINE d    == working[branch]
           h    == HeadDb(branch)
           kept == DropUndone(d)
           new  == Marked(kept, m)
           L    == Len(commits)
           ops  == Cardinality(Uncommitted(kept))
           c    == NewCommit({head[branch]}, head[branch], ops, new)
<1>1. /\ CommitsInv /\ BranchesInv /\ ServerInv /\ Writable
      /\ CommitsRecord /\ AncestorsNest /\ LogsGrow /\ MarkBelowRest
  BY InvParts DEF HistoryInv, Commit, CommitsRecord
<1>2. CommitsInv' /\ BranchesInv'
  BY CommitInv, InvPartsNext DEF HistoryInv
<1>3. /\ working' = [working EXCEPT ![branch] = new] /\ UNCHANGED view /\ NewestSeq(kept, m)
  BY DEF Commit
<1>4. /\ view = 0 /\ branch \in Branch /\ branch # Main /\ Exists(branch)
      /\ head[branch] \in 1..L /\ L \in Nat /\ Main \in Branch /\ Exists(Main)
      /\ IsDb(d) /\ IsDb(h) /\ Settled(h) /\ MarkedAs(d, h)
  BY <1>1, WritableFacts, BranchFacts
<1>5. ViewReachable'
  BY <1>3, <1>4 DEF ViewReachable
<1>6. /\ IsDb(new) /\ Settled(new) /\ h.cs <= new.cs
  BY <1>3, <1>4, MarkedSettles
<1>7. /\ DOMAIN new.log = DOMAIN kept.log /\ DOMAIN kept.log = DOMAIN d.log \ Undone(d)
      /\ kept.cs = h.cs
  BY <1>4, DropUndoneFacts, DbFields DEF Marked, MarkedAs
<1>8. /\ DOMAIN new.log \subseteq DOMAIN d.log /\ DOMAIN h.log \subseteq DOMAIN new.log
      /\ \A s \in DOMAIN new.log \ DOMAIN h.log : s > h.cs
      /\ DOMAIN new.log \subseteq Nat /\ h.cs \in Nat /\ new.cs \in Nat
  <2>1. {s \in DOMAIN d.log : s <= h.cs} = DOMAIN h.log /\ d.cs = h.cs
    BY <1>4 DEF MarkedAs
  <2>2. DOMAIN d.log \subseteq Nat /\ h.cs \in Nat /\ new.cs \in Nat
    BY <1>4, <1>6, DbFields
  <2>3. \A s \in Undone(d) : s > h.cs
    BY <2>1 DEF Undone
  <2> HIDE DEF d, h, new, kept
  <2> QED
    BY <1>7, <2>1, <2>2, <2>3
<1>9. CASE UNCHANGED <<commits, head>>
  <2>1. \A s \in DOMAIN new.log \ DOMAIN working[branch].log : s > HeadDb(Main).cs
    BY <1>8
  <2>2. MarkBelowRest'
    <3> HIDE DEF new
    <3> QED
      BY <1>1, <1>3, <1>9, <2>1, OneEditBeside
  <2>3. CommitsRecord'
    BY <1>1, <1>9 DEF CommitsRecord, AncestorsNest, LogsGrow, Log, Recorded
  <2> QED
    BY <1>5, <2>2, <2>3
<1>10. CASE ~UNCHANGED <<commits, head>>
  <2>1. L < MaxCommits /\ commits' = Append(commits, c) /\ head' = [head EXCEPT ![branch] = L + 1]
    BY <1>10 DEF Commit
  <2>2. /\ c.db = new /\ c.first = head[branch] /\ c.ops = ops
        /\ c.anc = {head[branch]} \cup commits[head[branch]].anc
    BY DEF NewCommit
  <2>3. /\ Len(commits') = L + 1 /\ commits'[L + 1] = c
        /\ \A n \in 1..L : commits'[n] = commits[n]
    <3> HIDE DEF c
    <3> DEFINE S == Values(commits) \cup {c}
    <3>1. commits \in Seq(S) /\ c \in S
      <4>1. Values(commits) \subseteq S
        OBVIOUS
      <4> QED
        BY <1>1, <4>1, SeqMonotonic DEF CommitsInv
    <3> HIDE DEF S
    <3> QED
      BY <2>1, <3>1, AppendProperties
  <2> HIDE DEF c
  <2>4. /\ commits[head[branch]].anc \subseteq 1..L /\ commits[head[branch]].db = h
        /\ Log(head[branch]) = DOMAIN h.log
    BY <1>1, <1>4, CommitFacts DEF HeadDb, Log
  <2>5. c.anc \subseteq 1..L /\ c.first \in 1..L
    BY <1>4, <2>2, <2>4
  <2>6. \A a \in c.anc : commits[a].anc \subseteq c.anc /\ Log(a) \subseteq DOMAIN c.db.log
    <3>1. \A a \in commits[head[branch]].anc : /\ commits[a].anc \subseteq commits[head[branch]].anc
                                               /\ Log(a) \subseteq DOMAIN h.log
      BY <1>1, <1>4, <2>4 DEF AncestorsNest, LogsGrow
    <3> HIDE DEF new, h
    <3> QED
      BY <1>8, <2>2, <2>4, <3>1
  <2>7. \A s \in DOMAIN c.db.log \ Log(c.first) : s > commits[c.first].db.cs
    BY <1>8, <2>2, <2>4
  <2>8. c.ops = Cardinality({s \in DOMAIN c.db.log : s > commits[c.first].db.cs /\ s <= c.db.cs})
    <3>1. Uncommitted(kept) = {s \in DOMAIN new.log : s > h.cs}
      BY <1>7 DEF Uncommitted
    <3>2. \A s \in DOMAIN new.log : s <= new.cs
      BY <1>6 DEF Settled
    <3>3. {s \in DOMAIN new.log : s > h.cs} = {s \in DOMAIN new.log : s > h.cs /\ s <= new.cs}
      BY <3>2
    <3> HIDE DEF new, h, kept
    <3> QED
      BY <2>2, <2>4, <3>1, <3>3
  <2>9. CommitsRecord'
    BY <1>1, <1>2, <2>3, <2>5, <2>6, <2>7, <2>8, AppendRecords
  <2>10. MarkBelowRest'
    <3>1. head'[branch] = L + 1 /\ \A b \in Branch \ {branch} : head'[b] = head[b]
      BY <1>1, <1>4, <2>1 DEF BranchesInv
    <3>2. working'[branch] = new /\ \A b \in Branch \ {branch} : working'[b] = working[b]
      BY <1>1, <1>3, <1>4 DEF BranchesInv
    <3>3. head'[Main] = head[Main] /\ head[Main] \in 1..L
      BY <1>1, <1>4, <3>1, BranchFacts
    <3>4. HeadDb(Main)' = HeadDb(Main) /\ Log(head[Main])' = Log(head[Main])
      BY <2>3, <3>3 DEF HeadDb, Log
    <3>5. ASSUME NEW log, BesideMain(log) PROVE BesideMain(log)'
      BY <3>4, <3>5 DEF BesideMain
    <3>6. BesideMain(DOMAIN new.log)
      BY <1>1, <1>4, <1>8 DEF MarkBelowRest, BesideMain
    <3>7. Reachable \subseteq 1..L /\ Reachable' \subseteq Reachable \cup {L + 1}
      <4>1. /\ Reachable \subseteq 1..L
            /\ \A b \in Branch : Exists(b) => /\ head[b] \in Reachable
                                              /\ commits[head[b]].anc \subseteq Reachable
        BY <1>1, ReachableFacts
      <4>2. ASSUME NEW b \in Branch, Exists(b)'
            PROVE  commits'[head'[b]].anc \cup {head'[b]} \subseteq Reachable \cup {L + 1}
        <5>1. CASE b = branch
          BY <1>4, <2>2, <2>3, <3>1, <4>1, <5>1
        <5>2. CASE b # branch
          <6>1. head'[b] = head[b] /\ Exists(b) /\ head[b] \in 1..L
            BY <1>1, <3>1, <4>2, <5>2, BranchFacts DEF Exists
          <6> QED
            BY <2>3, <4>1, <6>1
        <5> QED
          BY <5>1, <5>2
      <4> QED
        BY <4>1, <4>2 DEF Reachable
    <3>8. ASSUME NEW a \in Reachable' PROVE BesideMain(Log(a))'
      <4>1. CASE a \in Reachable
        <5>1. Log(a)' = Log(a)
          BY <2>3, <3>7, <4>1 DEF Log
        <5> QED
          BY <1>1, <3>5, <4>1, <5>1 DEF MarkBelowRest
      <4>2. CASE a = L + 1
        <5>1. Log(a)' = DOMAIN new.log
          BY <2>2, <2>3, <4>2 DEF Log
        <5> QED
          BY <3>5, <3>6, <5>1
      <4> QED
        BY <3>7, <4>1, <4>2
    <3>9. ASSUME NEW b \in Branch, Exists(b)' PROVE BesideMain(DOMAIN working[b].log)'
      <4>1. CASE b = branch
        BY <3>2, <3>5, <3>6, <4>1
      <4>2. CASE b # branch
        BY <1>1, <3>1, <3>2, <3>5, <3>9, <4>2 DEF MarkBelowRest, Exists
      <4> QED
        BY <4>1, <4>2
    <3> QED
      BY <3>8, <3>9 DEF MarkBelowRest
  <2> QED
    BY <1>5, <2>9, <2>10
<1> QED
  BY <1>9, <1>10

\* branch_merge: the new commit's log is the union of both sides'.  When the
\* branch side was an ancestor of main's already, nothing is introduced and
\* the trailer, 0, is right; otherwise the commit is no single-commit change.
LEMMA MergeHistory ==
    ASSUME HistoryInv, NEW n \in 1..MaxCommits, BranchMerge(n)
    PROVE  CommitsRecord' /\ MarkBelowRest' /\ ViewReachable'
<1> DEFINE L   == Len(commits)
           hm  == head[Main]
           hb  == head[branch]
           x   == HeadDb(Main)
           y   == HeadDb(branch)
           new == MergedDb(commits[n].db, x, y)
           c   == NewCommit({hm, hb}, hm, 0, new)
<1>1. /\ CommitsInv /\ BranchesInv /\ ServerInv /\ Alone
      /\ CommitsRecord /\ AncestorsNest /\ LogsGrow /\ MarkBelowRest
  BY InvParts DEF HistoryInv, CommitsRecord
<1>2. CommitsInv' /\ BranchesInv'
  BY BranchMergeInv, InvPartsNext DEF HistoryInv
<1>3. /\ branch \in Label /\ hm \in 1..L /\ hb \in 1..L /\ L \in Nat
      /\ head'[Main] = L + 1 /\ working'[Main] = commits'[L + 1].db
      /\ \A b \in Label : head'[b] = 0
  BY <1>1, MergeLeaves, BranchFacts DEF HistoryInv
<1>4. /\ commits' = Append(commits, c) /\ view' = 0
  BY DEF BranchMerge, MergeAllowed, Merged, MergesWith, Clashing, MergeOf
<1>5. /\ commits[hm].db = x /\ commits[hb].db = y
      /\ commits[hm].anc \subseteq 1..(hm - 1) /\ commits[hb].anc \subseteq 1..(hb - 1)
      /\ Settled(x) /\ IsDb(x)
  <2>1. commits[hm].db = x /\ commits[hb].db = y
    BY DEF HeadDb
  <2> HIDE DEF x, y, hm, hb
  <2> QED
    BY <1>1, <1>3, <2>1, CommitFacts
<1>6. branch \in Branch /\ Exists(branch) /\ hm \in 1..L /\ hb \in Reachable
  <2>1. branch \in Branch /\ Exists(branch)
    BY <1>3 DEF Exists, Branch
  <2> QED
    BY <1>1, <1>3, <2>1, ReachableFacts
<1>7. DOMAIN new.log = Log(hm) \cup Log(hb)
  BY <1>5 DEF MergedDb, Log
<1> HIDE DEF new
<1>8. /\ c.db = new /\ c.first = hm /\ c.ops = 0
      /\ c.anc = {hm, hb} \cup (commits[hm].anc \cup commits[hb].anc)
  BY DEF NewCommit
<1> HIDE DEF c
<1>9. /\ Len(commits') = L + 1 /\ commits'[L + 1] = c
      /\ \A i \in 1..L : commits'[i] = commits[i]
  <2> DEFINE S == Values(commits) \cup {c}
  <2>1. commits \in Seq(S) /\ c \in S
    <3>1. Values(commits) \subseteq S
      OBVIOUS
    <3> QED
      BY <1>1, <3>1, SeqMonotonic DEF CommitsInv
  <2> HIDE DEF S
  <2> QED
    BY <1>4, <2>1, AppendProperties
<1> HIDE DEF x, y
<1>10. c.anc \subseteq 1..L /\ c.first \in 1..L
  <2>1. commits[hm].anc \subseteq 1..L /\ commits[hb].anc \subseteq 1..L
    BY <1>1, <1>3, CommitFacts
  <2> QED
    BY <1>3, <1>8, <2>1
<1>11. \A a \in c.anc : commits[a].anc \subseteq c.anc /\ Log(a) \subseteq DOMAIN c.db.log
  <2>1. \A a \in commits[hm].anc : commits[a].anc \subseteq commits[hm].anc /\ Log(a) \subseteq Log(hm)
    BY <1>1, <1>3 DEF AncestorsNest, LogsGrow
  <2>2. \A a \in commits[hb].anc : commits[a].anc \subseteq commits[hb].anc /\ Log(a) \subseteq Log(hb)
    BY <1>1, <1>3 DEF AncestorsNest, LogsGrow
  <2> HIDE DEF hm, hb
  <2> QED
    BY <1>7, <1>8, <2>1, <2>2
<1>12. \A s \in DOMAIN c.db.log \ Log(c.first) : s > commits[c.first].db.cs
  BY <1>1, <1>5, <1>6, <1>7, <1>8 DEF MarkBelowRest, BesideMain, HeadDb
<1>13. ASSUME Cardinality(c.anc \ commits[c.first].anc) = 1
       PROVE  c.ops = Cardinality({s \in DOMAIN c.db.log : s > commits[c.first].db.cs /\ s <= c.db.cs})
  <2>1. hb \in commits[hm].anc \cup {hm}
    <3> SUFFICES ASSUME hb \notin commits[hm].anc, hb # hm PROVE FALSE
      OBVIOUS
    <3> DEFINE A == c.anc \ commits[hm].anc
    <3>1. IsFiniteSet(A)
      <4>1. A \subseteq 1..L
        BY <1>10
      <4>2. 1 \in Int /\ L \in Int
        BY <1>3
      <4>3. IsFiniteSet(1..L)
        BY <4>2, FS_Interval, Zenon
      <4> QED
        BY <4>1, <4>3, FS_Subset
    <3>2. hm \notin commits[hm].anc
      <4>1. hm \in Nat /\ commits[hm].anc \subseteq 1..(hm - 1)
        BY <1>3, <1>5
      <4> QED
        BY <4>1
    <3>3. {hm, hb} \subseteq A
      BY <1>8, <3>2
    <3>4. IsFiniteSet({hm}) /\ Cardinality({hm}) = 1
      BY FS_Singleton
    <3>5. Cardinality({hm} \cup {hb}) = 2
      <4>1. Cardinality({hm} \cup {hb}) = IF hb \in {hm} THEN Cardinality({hm}) ELSE Cardinality({hm}) + 1
        BY <3>4, FS_AddElement, Zenon
      <4>2. hb \notin {hm}
        OBVIOUS
      <4> HIDE DEF hm, hb
      <4> QED
        BY <3>4, <4>1, <4>2
    <3>6. Cardinality({hm, hb}) = 2
      <4>1. {hm} \cup {hb} = {hm, hb}
        OBVIOUS
      <4> QED
        BY <3>5, <4>1
    <3>7. Cardinality({hm, hb}) <= Cardinality(A)
      BY <3>1, <3>3, FS_Subset
    <3>8. Cardinality(A) = 1
      BY <1>8, <1>13
    <3> QED
      BY <3>6, <3>7, <3>8
  <2>2. Log(hb) \subseteq Log(hm)
    BY <1>1, <1>3, <2>1 DEF LogsGrow
  <2>3. DOMAIN c.db.log = Log(hm)
    BY <1>7, <1>8, <2>2
  <2>4. \A s \in Log(hm) : s <= commits[hm].db.cs /\ s \in Nat /\ commits[hm].db.cs \in Nat
    BY <1>5, DbFields DEF Settled, Log
  <2>5. {s \in DOMAIN c.db.log : s > commits[c.first].db.cs /\ s <= c.db.cs} = {}
    BY <1>8, <2>3, <2>4
  <2> QED
    BY <1>8, <2>5, FS_EmptySet
<1>14. CommitsRecord'
  BY <1>1, <1>2, <1>9, <1>10, <1>11, <1>12, <1>13, AppendRecords
<1> PICK N \in Nat : N = L + 1
  BY <1>3
<1>15. \A b \in Branch : Exists(b)' => b = Main
  BY <1>3 DEF Exists, Branch
<1>16. Reachable' \subseteq commits'[N].anc \cup {N}
  BY <1>3, <1>15 DEF Reachable
<1>17. N \in 1..Len(commits') /\ head'[Main] = N
  BY <1>3, <1>9
<1>18. \A a \in Reachable' : Log(a)' \subseteq Log(N)'
  BY <1>14, <1>16, <1>17 DEF CommitsRecord, LogsGrow
<1>19. ASSUME NEW a \in Reachable' PROVE BesideMain(Log(a))'
  BY <1>17, <1>18 DEF BesideMain, Log
<1>20. ASSUME NEW b \in Branch, Exists(b)' PROVE BesideMain(DOMAIN working[b].log)'
  BY <1>3, <1>15, <1>20 DEF BesideMain, Log
<1>21. MarkBelowRest'
  BY <1>19, <1>20 DEF MarkBelowRest
<1> QED
  BY <1>4, <1>14, <1>21 DEF ViewReachable

LEMMA BeginHistory ==
    ASSUME HistoryInv, NEW l \in Label, NEW replace \in BOOLEAN, BranchBegin(l, replace)
    PROVE  CommitsRecord' /\ MarkBelowRest' /\ ViewReachable'
<1>1. /\ CommitsInv /\ BranchesInv /\ ServerInv /\ CommitsRecord /\ AncestorsNest
      /\ MarkBelowRest /\ ViewReachable
  BY InvParts DEF HistoryInv, CommitsRecord
<1>2. /\ UNCHANGED commits /\ head'[l] = ForkPoint /\ working'[l] = commits[ForkPoint].db
      /\ head'[Main] = head[Main] /\ working'[Main] = working[Main]
      /\ \A b \in Label \ {l} : head'[b] = 0
  BY BeginLeaves DEF HistoryInv
<1>3. view' = 0 /\ bound
  BY DEF BranchBegin, BranchBeginAllowed, Usable
<1>4. ForkPoint \in Reachable
  <2>1. branch \in Branch /\ Exists(branch)
    BY <1>1, <1>3 DEF ServerInv, WriterBranchExists
  <2> QED
    BY <1>1, <2>1, ReachableFacts DEF ForkPoint, ViewReachable
<1>5. BesideMain(DOMAIN working'[l].log)
  BY <1>1, <1>2, <1>4 DEF MarkBelowRest, Log
<1>6. Main \in Branch /\ Exists(Main)
  BY <1>1, BranchFacts
<1>7. head[Main] \in Reachable /\ BesideMain(DOMAIN working[Main].log)
  BY <1>1, <1>6, ReachableFacts DEF MarkBelowRest
<1>8. \A b \in Branch : Exists(b)' => head'[b] \in Reachable /\ BesideMain(DOMAIN working'[b].log)
  BY <1>2, <1>4, <1>5, <1>7 DEF Exists, Branch
<1>9. MarkBelowRest'
  BY <1>2, <1>8, MovedBeside
<1> QED
  BY <1>1, <1>2, <1>3, <1>9 DEF ViewReachable, CommitsRecord, AncestorsNest, LogsGrow, Log, Recorded

LEMMA HistoryNext == HistoryInv /\ [Next]_vars => CommitsRecord' /\ MarkBelowRest' /\ ViewReachable'
<1> SUFFICES ASSUME HistoryInv, [Next]_vars PROVE CommitsRecord' /\ MarkBelowRest' /\ ViewReachable'
  OBVIOUS
<1>1. /\ CommitsInv /\ BranchesInv /\ ServerInv /\ CommitsRecord /\ AncestorsNest
      /\ MarkBelowRest /\ ViewReachable
  BY InvParts DEF HistoryInv, CommitsRecord
<1>2. ASSUME UNCHANGED commits PROVE CommitsRecord'
  BY <1>1, <1>2 DEF CommitsRecord, AncestorsNest, LogsGrow, Log, Recorded
<1>3. ASSUME UNCHANGED <<commits, head, working>>, view' # 0 => view' \in Reachable
      PROVE  CommitsRecord' /\ MarkBelowRest' /\ ViewReachable'
  <2>1. Reachable' = Reachable
    BY <1>3 DEF Reachable, Exists
  <2>2. MarkBelowRest'
    BY <1>1, <1>3, <2>1 DEF MarkBelowRest, BesideMain, Log, HeadDb, Exists
  <2> QED
    BY <1>2, <1>3, <2>1, <2>2 DEF ViewReachable
<1>4. ASSUME NEW d, working' = [working EXCEPT ![branch] = d], Writable,
             UNCHANGED <<commits, head, view>>,
             \A s \in DOMAIN d.log \ DOMAIN working[branch].log : s > HeadDb(Main).cs
      PROVE  CommitsRecord' /\ MarkBelowRest' /\ ViewReachable'
  BY <1>1, <1>2, <1>4, OneEditBeside DEF ViewReachable
<1>5. CASE \/ Open \/ Close \/ Refresh \/ UNCHANGED vars
           \/ \E l \in Label : BranchBeginNameTaken(l)
           \/ \E n \in 1..MaxCommits : BranchMergeConflict(n)
  <2>1. UNCHANGED <<commits, head, working>> /\ (view' = 0 \/ view' = view)
    BY <1>5 DEF Open, Close, Unbind, storage, Refresh, BranchBeginNameTaken, BranchMergeConflict, vars
  <2> QED
    BY <1>1, <1>3, <2>1 DEF ViewReachable
<1>6. CASE \E b \in Branch : CheckoutBranch(b)
  BY <1>3, <1>6 DEF CheckoutBranch
<1>7. CASE \E c \in 1..MaxCommits : CheckoutCommit(c)
  BY <1>3, <1>7 DEF CheckoutCommit
<1>8. ASSUME NEW g \in [GraphKey -> Cell], NEW side \in SidePatch, NEW s \in 1..MaxSeq,
             Edit(g, side, s)
      PROVE  CommitsRecord' /\ MarkBelowRest' /\ ViewReachable'
  <2> DEFINE d == Applied(working[branch], g, side, s)
  <2>1. /\ working' = [working EXCEPT ![branch] = d] /\ Writable /\ FreshSeq(s)
        /\ UNCHANGED <<commits, head, view>>
    BY <1>8 DEF Edit, EditedDb
  <2>2. DOMAIN d.log = (DOMAIN working[branch].log \ Undone(working[branch])) \cup {s}
    BY <1>1, <2>1, WritableFacts, AppliedType
  <2>3. s > HeadDb(Main).cs
    BY <1>1, <2>1, FreshAboveMark
  <2> HIDE DEF d
  <2> QED
    BY <1>4, <2>1, <2>2, <2>3
<1>9. ASSUME NEW s \in 1..MaxSeq, Undo(s) PROVE CommitsRecord' /\ MarkBelowRest' /\ ViewReachable'
  <2> DEFINE d == Reverted(working[branch], s)
  <2>1. /\ working' = [working EXCEPT ![branch] = d] /\ Writable
        /\ UNCHANGED <<commits, head, view>>
    BY <1>9 DEF Undo, UndoneDb
  <2>2. DOMAIN d.log = DOMAIN working[branch].log
    BY DEF Reverted
  <2> HIDE DEF d
  <2> QED
    BY <1>4, <2>1, <2>2
<1>10. CASE Discard
  <2>1. /\ working' = [working EXCEPT ![branch] = HeadDb(branch)] /\ Writable
        /\ UNCHANGED <<commits, head, view>>
    BY <1>10 DEF Discard, DiscardedDb
  <2>2. DOMAIN HeadDb(branch).log \subseteq DOMAIN working[branch].log
    BY <1>1, <2>1, WritableFacts DEF MarkedAs
  <2> QED
    BY <1>4, <2>1, <2>2
<1>11. CASE BranchDiscard
  <2>1. /\ head'[Main] = head[Main] /\ working'[Main] = working[Main] /\ UNCHANGED commits
        /\ view' = 0 /\ \A b \in Label : head'[b] = 0
    BY <1>11, DiscardLeaves DEF HistoryInv, BranchDiscard
  <2>2. Main \in Branch /\ Exists(Main)
    BY <1>1, BranchFacts
  <2>3. head[Main] \in Reachable /\ BesideMain(DOMAIN working[Main].log)
    BY <1>1, <2>2, ReachableFacts DEF MarkBelowRest
  <2>4. \A b \in Branch : Exists(b)' => head'[b] \in Reachable /\ BesideMain(DOMAIN working'[b].log)
    BY <2>1, <2>3 DEF Exists, Branch
  <2>5. MarkBelowRest'
    BY <2>1, <2>4, MovedBeside
  <2> QED
    BY <1>2, <2>1, <2>5 DEF ViewReachable
<1> QED
  BY <1>5, <1>6, <1>7, <1>8, <1>9, <1>10, <1>11, CommitHistory, BeginHistory, MergeHistory DEF Next

LEMMA HistoryInit == Init => HistoryInv
<1> SUFFICES ASSUME Init PROVE HistoryInv
  OBVIOUS
<1>1. Inv /\ Alone
  BY InitInv, AloneInit
<1>2. /\ Len(commits) = 1 /\ commits[1].anc = {} /\ commits[1].db = EmptyDb
      /\ \A b \in Branch : head[b] \in {0, 1} /\ working[b] = EmptyDb
      /\ DOMAIN EmptyDb.log = {} /\ view = 0
  BY DEF Init, EmptyDb
<1>3. CommitsRecord
  BY <1>2 DEF CommitsRecord, AncestorsNest, LogsGrow
<1>4. Reachable \subseteq {1}
  BY <1>2 DEF Reachable, Exists
<1>5. MarkBelowRest
  BY <1>2, <1>4 DEF MarkBelowRest, BesideMain, Log
<1> QED
  BY <1>1, <1>2, <1>3, <1>5 DEF HistoryInv, ViewReachable

LEMMA HistoryAlways == Spec => []HistoryInv
<1>1. HistoryInv /\ [Next]_vars => HistoryInv'
  <2> SUFFICES ASSUME HistoryInv, [Next]_vars PROVE HistoryInv'
    OBVIOUS
  <2>1. Inv' /\ Alone'
    BY NextInv, AloneNext DEF HistoryInv
  <2> QED
    BY <2>1, HistoryNext DEF HistoryInv
<1> QED
  BY <1>1, HistoryInit, PTL DEF Spec

\* actionsAt: the operations between the mark at a commit's first parent and
\* its own are those its log has beyond the parent's, for every commit, those
\* made by merges and on branches forked from old revisions included.
THEOREM IntroducedOperations == Spec => []ActionsAreIntroduced
<1>1. HistoryInv => ActionsAreIntroduced
  <2> SUFFICES ASSUME HistoryInv, NEW c \in 2..Len(commits)
               PROVE  ActionsAt(c) = DOMAIN commits[c].db.log \ DOMAIN commits[commits[c].first].db.log
    BY DEF ActionsAreIntroduced
  <2> DEFINE p == commits[c].first
  <2>1. CommitsInv /\ Recorded(c) /\ Len(commits) \in Nat
    BY InvParts, BranchFacts DEF HistoryInv, CommitsRecord
  <2>2. /\ p \in 1..Len(commits) /\ c \in 1..Len(commits)
        /\ \A s \in Log(c) \ Log(p) : s > commits[p].db.cs
    BY <2>1 DEF Recorded
  <2> HIDE DEF p
  <2>3. /\ \A s \in Log(c) : s <= commits[c].db.cs
        /\ \A s \in Log(p) : s <= commits[p].db.cs
        /\ Log(c) \subseteq Nat /\ commits[p].db.cs \in Nat
    BY <2>1, <2>2, CommitFacts, DbFields DEF Settled, Log
  <2>4. ActionsAt(c) = {s \in Log(c) : s > commits[p].db.cs /\ s <= commits[c].db.cs}
    BY DEF ActionsAt, Log, p
  <2>5. ActionsAt(c) = Log(c) \ Log(p)
    BY <2>2, <2>3, <2>4
  <2> QED
    BY <2>5 DEF Log, p
<1> QED
  BY <1>1, HistoryAlways, PTL

\* The trailer a commit writes counts the operations that actionsAt finds at
\* it, whatever was undone before it.
THEOREM TrailerIsRight == Spec => []TrailerCountsOps
<1>1. HistoryInv => TrailerCountsOps
  BY DEF HistoryInv, CommitsRecord, Recorded, TrailerCountsOps, ActionsAt, Log
<1> QED
  BY <1>1, HistoryAlways, PTL
=============================================================================
