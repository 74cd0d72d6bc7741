---------------------------- MODULE DoltSession ----------------------------
(***************************************************************************)
(* One server process, one open project, one tool call at a time: the      *)
(* versioned storage behind mcp-cad's v2 tools.                            *)
(*                                                                         *)
(* The storage side is a Dolt database (ts/src/v2/persistence/             *)
(* dolt-persistence.ts): branches whose heads are commits, one working set *)
(* per branch, and inside each working set the graph rows, the action log  *)
(* with its before-images and the committed_seq mark.  The server side is  *)
(* what one process remembers: whether a project is bound, the branch and  *)
(* read-only revision it believes it is on, and the in-memory graph that   *)
(* every resource read is served from.                                     *)
(*                                                                         *)
(* A tool call is one action: the handler of ts/src/v2/tools/project.ts,   *)
(* the DoltPersistence method under it, and the reload that ends it.       *)
(* FaultNext adds the calls that stop half way, because a statement fails, *)
(* the acknowledgement of a COMMIT is lost, or the process dies.  Rows are *)
(* abstract: a row is a key with a value or NoRow.                         *)
(***************************************************************************)
EXTENDS Naturals, Sequences, FiniteSets

CONSTANTS
    GraphKey,    \* rows of the six graph tables: held in memory as well
    SideKey,     \* client_meta, project_settings, import_source rows: storage only
    Val,         \* row contents
    NoRow,       \* the row does not exist
    Main,        \* the branch "main"
    Label,       \* working branches wip/<label>
    MaxSeq,      \* bound: action_log sequence numbers
    MaxCommits   \* bound: commits in the database

Key    == GraphKey \cup SideKey
Cell   == Val \cup {NoRow}
Branch == {Main} \cup Label

ASSUME NoRowNotVal   == NoRow \notin Val
ASSUME KeysDisjoint  == GraphKey \cap SideKey = {}
ASSUME MainNotLabel  == Main \notin Label
ASSUME BoundsNat     == MaxSeq \in Nat /\ MaxCommits \in Nat \ {0}

VARIABLES
    commits,   \* Seq of [anc, first, ops, db]; ids are positions
    head,      \* head[b]: commit a branch points at, 0 when it does not exist
    working,   \* working[b]: the branch's working set
    session,   \* session_state.current_branch (main's working set, dolt_ignore'd)
    bound,     \* SessionContext.bound # null
    conn,      \* the writer connection is usable
    branch,    \* DoltPersistence._branch
    view,      \* DoltPersistence._readOnlyRef: a commit id, 0 for null
    mem        \* GraphStore contents, as graph rows

storage == <<commits, head, working, session>>
server  == <<bound, conn, branch, view, mem>>
vars    == <<commits, head, working, session, bound, conn, branch, view, mem>>

(***************************************************************************)
(* Working sets                                                            *)
(***************************************************************************)

EmptyGraph == [k \in GraphKey |-> NoRow]

\* No operation logged, nothing stored, committed_seq = 0.
EmptyDb == [rows |-> [k \in Key |-> NoRow], log |-> [s \in {} |-> NoRow], cs |-> 0]

\* What GraphStore holds after loading a working set or a revision.
Graph(db) == [k \in GraphKey |-> db.rows[k]]

Exists(b) == head[b] # 0
HeadDb(b) == commits[head[b]].db
Dirty(b)  == working[b] # HeadDb(b)
WipAndMain == {b \in Branch : Exists(b)}                    \* mutant of Wip
Wip       == {b \in Label : Exists(b)}

\* seq > committed_seq and not undone: what undo may still reverse.
Live(db)   == {s \in DOMAIN db.log : s > db.cs /\ ~db.log[s].undone}
Undone(db) == {s \in DOMAIN db.log : s > db.cs /\ db.log[s].undone}

DropUndone(db) ==
    [db EXCEPT !.log = [s \in DOMAIN db.log \ Undone(db) |-> db.log[s]]]

\* AUTO_INCREMENT: Dolt keeps one counter per table across all branches.
UsedSeq     == UNION {DOMAIN working[b].log : b \in {c \in Branch : Exists(c)}}
FreshSeq(s) == /\ \A t \in UsedSeq : t < s
               /\ s - 1 \in UsedSeq \cup {0}

Reachable == UNION {commits[head[b]].anc \cup {head[b]} : b \in {c \in Branch : Exists(c)}}

\* The database state the session is looking at.
Shown == IF view # 0 THEN commits[view].db ELSE working[branch]

(***************************************************************************)
(* Guards shared by the handlers                                           *)
(***************************************************************************)

Usable   == bound /\ conn
WritableOnMain == Usable /\ view = 0                       \* mutant of Writable
Writable == Usable /\ view = 0 /\ branch # Main     \* assertWritableBranch

Reload(b, v, work, cms) ==
    mem' = Graph(IF v # 0 THEN cms[v].db ELSE work[b])

(***************************************************************************)
(* open_project, close_project, refresh_project                            *)
(***************************************************************************)

SessionBranch == IF Exists(session) THEN session ELSE Main

\* open_project unbinds whatever is open first, so it is also the way out of
\* a lost connection.
Open ==
    /\ bound' = TRUE /\ conn' = TRUE
    /\ branch' = SessionBranch /\ view' = 0 /\ session' = SessionBranch
    /\ Reload(SessionBranch, 0, working, commits)
    /\ UNCHANGED <<commits, head, working>>

Unbind ==
    /\ bound' = FALSE /\ conn' = FALSE
    /\ branch' = Main /\ view' = 0
    /\ mem' = EmptyGraph

Close == bound /\ Unbind /\ UNCHANGED storage

Refresh ==
    /\ Usable
    /\ Reload(branch, view, working, commits)
    /\ UNCHANGED <<commits, head, working, session, bound, conn, branch, view>>

(***************************************************************************)
(* A mutating tool through persistMutation and applyChange.  g is the graph *)
(* the tool leaves in memory, side the storage-only rows it also writes    *)
(* (written even when equal to what is stored).  A before-image comes from *)
(* memory for a graph row, from the working set for a side row.  `was' is  *)
(* the whole row content before the operation: a history field, read only  *)
(* by the properties.                                                      *)
(***************************************************************************)

Changed(g) == {k \in GraphKey : g[k] # mem[k]}

Applied(db, g, side, s) ==
    LET kept == DropUndone(db).log IN
    [rows |-> [k \in Key |-> CASE k \in Changed(g)   -> g[k]
                               [] k \in DOMAIN side -> side[k]
                               [] OTHER             -> db.rows[k]],
     log  |-> [t \in DOMAIN kept \cup {s} |->
                 IF t # s THEN kept[t]
                 ELSE [before |-> [k \in Changed(g) \cup DOMAIN side |->
                                     IF k \in GraphKey THEN mem[k] ELSE db.rows[k]],
                       was    |-> db.rows,
                       undone |-> FALSE]],
     cs   |-> db.cs]

EditedDb(g, side, s) == [working EXCEPT ![branch] = Applied(working[branch], g, side, s)]

Edit(g, side, s) ==
    /\ Writable
    /\ g # mem \/ DOMAIN side # {}
    /\ FreshSeq(s)
    /\ working' = EditedDb(g, side, s)
    /\ mem' = g
    /\ UNCHANGED <<commits, head, session, bound, conn, branch, view>>

(***************************************************************************)
(* undo: undoLast, then reload.                                            *)
(***************************************************************************)

Oldest(db, s) == s \in Live(db) /\ \A t \in Live(db) : s <= t   \* mutant of Newest
Newest(db, s) == s \in Live(db) /\ \A t \in Live(db) : t <= s

RevertedGraphOnly(db, s) ==                                   \* mutant of Reverted
    [rows |-> [k \in Key |-> IF k \in DOMAIN db.log[s].before \cap GraphKey
                             THEN db.log[s].before[k] ELSE db.rows[k]],
     log  |-> [db.log EXCEPT ![s].undone = TRUE],
     cs   |-> db.cs]
Reverted(db, s) ==
    [rows |-> [k \in Key |-> IF k \in DOMAIN db.log[s].before
                             THEN db.log[s].before[k] ELSE db.rows[k]],
     log  |-> [db.log EXCEPT ![s].undone = TRUE],
     cs   |-> db.cs]

UndoneDb(s) == [working EXCEPT ![branch] = Reverted(working[branch], s)]

Undo(s) ==
    /\ Writable
    /\ Newest(working[branch], s)
    /\ working' = UndoneDb(s)
    /\ Reload(branch, 0, UndoneDb(s), commits)
    /\ UNCHANGED <<commits, head, session, bound, conn, branch, view>>

(***************************************************************************)
(* commit: four statements, not one transaction.  Step 1 drops the undone  *)
(* tail, step 2 moves committed_seq to the newest logged operation, step 3 *)
(* is DOLT_COMMIT, which fails when nothing differs from the head.         *)
(***************************************************************************)

UncommittedOrMarked(db) == {s \in DOMAIN db.log : s >= db.cs}   \* mutant of Uncommitted
Uncommitted(db) == {s \in DOMAIN db.log : s > db.cs}
NewestSeq(db, m) ==
    IF Uncommitted(db) = {} THEN m = db.cs
    ELSE m \in Uncommitted(db) /\ \A t \in Uncommitted(db) : t <= m

MarkedLate(db, m) == db                                       \* mutant of Marked
Marked(db, m) == [db EXCEPT !.cs = m]

NewCommit(parents, first, ops, db) ==
    [anc   |-> parents \cup UNION {commits[p].anc : p \in parents},
     first |-> first, ops |-> ops, db |-> db]

Commit(m) ==
    LET kept == DropUndone(working[branch])
        new  == Marked(kept, m)
    IN  /\ Writable
        /\ Dirty(branch)
        /\ NewestSeq(kept, m)
        /\ IF new = HeadDb(branch)
           THEN UNCHANGED <<commits, head>>          \* "nothing to commit"
           ELSE /\ Len(commits) < MaxCommits
                /\ commits' = Append(commits, NewCommit({head[branch]}, head[branch],
                                              Cardinality(Uncommitted(kept)), new))
                /\ head' = [head EXCEPT ![branch] = Len(commits) + 1]
        /\ working' = [working EXCEPT ![branch] = new]
        /\ UNCHANGED <<session, bound, conn, branch, view, mem>>

(***************************************************************************)
(* discard_changes: RESET --hard, CLEAN, reload.                           *)
(***************************************************************************)

DiscardedDb == [working EXCEPT ![branch] = HeadDb(branch)]

Discard ==
    /\ Writable
    /\ working' = DiscardedDb
    /\ Reload(branch, 0, DiscardedDb, commits)
    /\ UNCHANGED <<commits, head, session, bound, conn, branch, view>>

(***************************************************************************)
(* branch_begin.  An open working branch is replaced only on request, only *)
(* when it is clean, and never from a dirty current branch.                *)
(***************************************************************************)

ForkPoint == IF view # 0 THEN view ELSE head[branch]

BranchBeginUnchecked(replace) == Usable /\ (Wip # {} => replace)  \* mutant of BranchBeginAllowed
BranchBeginAllowed(replace) ==
    /\ Usable
    /\ Wip # {} => replace
    \* existing[0] is the only working branch inspected; which one comes first
    \* is up to the storage engine
    /\ Wip # {} => \E b \in Wip : ~Dirty(b)
    /\ view = 0 => ~Dirty(branch)

\* DOLT_BRANCH(name, hash): a new branch starts clean at the fork point.
Forked(l)    == [head EXCEPT ![l] = ForkPoint]
ForkedDb(l)  == [working EXCEPT ![l] = commits[ForkPoint].db]

\* DOLT_BRANCH('-D', b) for every b of gone.
DroppedNothing(hd, gone) == hd                                \* mutant of Dropped
Dropped(hd, gone)   == [b \in Branch |-> IF b \in gone THEN 0 ELSE hd[b]]
DroppedDb(wk, gone) == [b \in Branch |-> IF b \in gone THEN EmptyDb ELSE wk[b]]

BranchBegin(l, replace) ==
    /\ BranchBeginAllowed(replace)
    /\ ~Exists(l)
    /\ head' = Dropped(Forked(l), Wip)
    /\ working' = DroppedDb(ForkedDb(l), Wip)
    /\ branch' = l /\ view' = 0 /\ session' = l
    /\ Reload(l, 0, ForkedDb(l), commits)
    /\ UNCHANGED <<commits, bound, conn>>

\* replace_existing with the label that is already open: DOLT_BRANCH is called
\* without a force flag and fails, after the writer has moved to main.
BranchBeginNameTaken(l) ==
    /\ BranchBeginAllowed(TRUE)
    /\ Exists(l)
    /\ branch' = Main
    /\ UNCHANGED <<commits, head, working, session, bound, conn, view, mem>>

(***************************************************************************)
(* branch_merge: DOLT_MERGE --no-ff is Dolt's three-way merge of rows.     *)
(* committed_seq is itself a row (meta), and merges like one.              *)
(***************************************************************************)

CommonAnc(c, d) == (commits[c].anc \cup {c}) \cap (commits[d].anc \cup {d})
MergeBase(c, d, b) == b \in CommonAnc(c, d) /\ \A a \in CommonAnc(c, d) : a <= b

Clash(o, x, y)  == x # o /\ y # o /\ x # y
Merge3(o, x, y) == IF x = o THEN y ELSE x

Conflicts(o, x, y) == \/ \E k \in Key : Clash(o.rows[k], x.rows[k], y.rows[k])
                      \/ Clash(o.cs, x.cs, y.cs)

\* Log rows are only ever added by a commit, so the merged log is the union.
MergedDb(o, x, y) ==
    [rows |-> [k \in Key |-> Merge3(o.rows[k], x.rows[k], y.rows[k])],
     log  |-> [s \in DOMAIN x.log \cup DOMAIN y.log |->
                 IF s \in DOMAIN x.log THEN x.log[s] ELSE y.log[s]],
     cs   |-> Merge3(o.cs, x.cs, y.cs)]

MergeAllowed == Usable /\ view = 0 /\ branch \in Label /\ ~Dirty(branch)

\* DOLT_MERGE on main, from the current branch, with merge base b.  It is
\* refused while a merge is unfinished in main's working set.
MergesWith(b) == MergeBase(head[Main], head[branch], b) /\ ~Dirty(Main)
Clashing(b)   == Conflicts(commits[b].db, HeadDb(Main), HeadDb(branch))
MergeOf(b)    == MergedDb(commits[b].db, HeadDb(Main), HeadDb(branch))

Merged(b) ==
    /\ MergesWith(b) /\ ~Clashing(b)
    /\ Len(commits) < MaxCommits
    /\ commits' = Append(commits, NewCommit({head[Main], head[branch]}, head[Main], 0, MergeOf(b)))

BranchMerge(b) ==
    LET n == Len(commits) + 1 IN
    /\ MergeAllowed
    /\ Merged(b)
    /\ head' = Dropped([head EXCEPT ![Main] = n], {branch})
    /\ working' = DroppedDb([working EXCEPT ![Main] = commits'[n].db], {branch})
    /\ branch' = Main /\ session' = Main
    /\ Reload(Main, 0, working', commits')
    /\ UNCHANGED <<bound, conn, view>>

\* conflicts > 0: DOLT_MERGE('--abort') takes the merge back out of main's
\* working set, useBranch(wip) returns to the branch, the call fails.
BranchMergeConflict(b) == MergeAllowed /\ MergesWith(b) /\ Clashing(b) /\ UNCHANGED vars

(***************************************************************************)
(* branch_discard and checkout                                             *)
(***************************************************************************)

BranchDiscardInPlace ==                                       \* mutant of BranchDiscard
    /\ Usable
    /\ Wip # {}
    /\ head' = Dropped(head, Wip)
    /\ working' = DroppedDb(working, Wip)
    /\ view' = 0 /\ session' = Main
    /\ Reload(Main, 0, working, commits)
    /\ UNCHANGED <<commits, bound, conn, branch>>

BranchDiscard ==
    /\ Usable
    /\ Wip # {}
    /\ head' = Dropped(head, Wip)
    /\ working' = DroppedDb(working, Wip)
    /\ branch' = Main /\ view' = 0 /\ session' = Main
    /\ Reload(Main, 0, working, commits)
    /\ UNCHANGED <<commits, bound, conn>>

CheckoutWhenDirty == Usable                                   \* mutant of CheckoutAllowed
CheckoutAllowed == Usable /\ (view = 0 => ~Dirty(branch))

CheckoutBranchStale(b) ==                                      \* mutant of CheckoutBranch
    /\ CheckoutAllowed
    /\ Exists(b)
    /\ branch' = b /\ view' = 0 /\ session' = b
    /\ UNCHANGED <<commits, head, working, bound, conn, mem>>

CheckoutBranch(b) ==
    /\ CheckoutAllowed
    /\ Exists(b)
    /\ branch' = b /\ view' = 0 /\ session' = b
    /\ Reload(b, 0, working, commits)
    /\ UNCHANGED <<commits, head, working, bound, conn>>

CheckoutCommit(c) ==
    /\ CheckoutAllowed
    /\ c \in Reachable
    /\ view' = c
    /\ Reload(branch, c, working, commits)
    /\ UNCHANGED <<commits, head, working, session, bound, conn, branch>>

-----------------------------------------------------------------------------
Init ==
    /\ commits = << [anc |-> {}, first |-> 0, ops |-> 0, db |-> EmptyDb] >>
    /\ head = [b \in Branch |-> IF b = Main THEN 1 ELSE 0]
    /\ working = [b \in Branch |-> EmptyDb]
    /\ session = Main
    /\ bound = FALSE /\ conn = FALSE
    /\ branch = Main /\ view = 0
    /\ mem = EmptyGraph

SidePatch == UNION {[S -> Cell] : S \in SUBSET SideKey}

Next ==
    \/ Open
    \/ Close
    \/ Refresh
    \/ \E g \in [GraphKey -> Cell], side \in SidePatch, s \in 1..MaxSeq : Edit(g, side, s)
    \/ \E s \in 1..MaxSeq : Undo(s)
    \/ \E m \in 0..MaxSeq : Commit(m)
    \/ Discard
    \/ \E l \in Label, replace \in BOOLEAN : BranchBegin(l, replace)
    \/ \E l \in Label : BranchBeginNameTaken(l)
    \/ \E b \in 1..MaxCommits : BranchMerge(b) \/ BranchMergeConflict(b)
    \/ BranchDiscard
    \/ \E b \in Branch : CheckoutBranch(b)
    \/ \E c \in 1..MaxCommits : CheckoutCommit(c)

Spec == Init /\ [][Next]_vars

(***************************************************************************)
(* Calls that stop half way.  The storage keeps the statements that ran,   *)
(* and memory is whatever the handler had not yet reloaded.  A connection  *)
(* that breaks in a call is that cut followed by ConnectionLost, a process *)
(* that dies in one is that cut followed by Close.                         *)
(***************************************************************************)

\* reload did not finish: it failed while reading, or what it read did not
\* validate and loadIntoStore left the store empty.
NotReloaded == mem' \in {mem, EmptyGraph}

\* open_project failed after writing session_state: it unbinds again.
OpenCut == Unbind /\ session' = SessionBranch /\ UNCHANGED <<commits, head, working>>

RefreshCut ==
    /\ Usable
    /\ NotReloaded
    /\ UNCHANGED <<commits, head, working, session, bound, conn, branch, view>>

\* COMMIT took effect, its acknowledgement did not arrive: persistMutation
\* restores the graph it held before the tool ran.
EditLostAck(g, side, s) ==
    /\ Writable
    /\ g # mem \/ DOMAIN side # {}
    /\ FreshSeq(s)
    /\ working' = EditedDb(g, side, s)
    /\ conn' = FALSE
    /\ UNCHANGED <<commits, head, session, bound, branch, view, mem>>

\* undo or discard took effect, the reload after it failed.
UndoCut(s) ==
    /\ Writable
    /\ Newest(working[branch], s)
    /\ working' = UndoneDb(s)
    /\ NotReloaded
    /\ UNCHANGED <<commits, head, session, bound, conn, branch, view>>

DiscardCut ==
    /\ Writable
    /\ working' = DiscardedDb
    /\ NotReloaded
    /\ UNCHANGED <<commits, head, session, bound, conn, branch, view>>

\* commit stopped after dropping the undone tail, or after moving
\* committed_seq as well.
CommitCut(m) ==
    /\ Writable
    /\ Dirty(branch)
    /\ LET kept == DropUndone(working[branch]) IN
       /\ NewestSeq(kept, m)
       /\ \E new \in {kept, Marked(kept, m)} : working' = [working EXCEPT ![branch] = new]
    /\ UNCHANGED <<commits, head, session, bound, conn, branch, view, mem>>

\* branch_begin: useBranch(main); create; delete the old ones; useBranch(l);
\* _readOnlyRef = null; writeSessionBranch; reload.  `step' statements ran.
BranchBeginCut(l, replace, step) ==
    /\ BranchBeginAllowed(replace)
    /\ ~Exists(l)
    /\ head' = CASE step = 1 -> head
                 [] step = 2 -> Forked(l)
                 [] OTHER    -> Dropped(Forked(l), Wip)
    /\ working' = CASE step = 1 -> working
                    [] step = 2 -> ForkedDb(l)
                    [] OTHER    -> DroppedDb(ForkedDb(l), Wip)
    /\ branch' = IF step <= 3 THEN Main ELSE l
    /\ view' = IF step <= 3 THEN view ELSE 0
    /\ session' = IF step <= 4 THEN session ELSE l
    /\ IF step <= 4 THEN UNCHANGED mem ELSE NotReloaded
    /\ UNCHANGED <<commits, bound, conn>>

\* branch_merge: useBranch(main); DOLT_MERGE; delete the branch;
\* writeSessionBranch(main); reload.
BranchMergeCut(b, step) ==
    LET n    == Len(commits) + 1
        gone == IF step = 2 THEN {} ELSE {branch}
    IN  /\ MergeAllowed
        /\ IF step = 1 THEN UNCHANGED <<commits, head, working>>
           ELSE /\ Merged(b)
                /\ head' = Dropped([head EXCEPT ![Main] = n], gone)
                /\ working' = DroppedDb([working EXCEPT ![Main] = commits'[n].db], gone)
        /\ branch' = Main
        /\ session' = IF step <= 3 THEN session ELSE Main
        /\ IF step <= 3 THEN UNCHANGED mem ELSE NotReloaded
        /\ UNCHANGED <<bound, conn, view>>

\* The same with conflicts: the clean rows are merged, ours stay where they
\* clash, and the merge is unfinished.  The call ends here, or the '--abort'
\* fails, which is swallowed, and useBranch(wip) goes back.  (Stopping between
\* a good '--abort' and useBranch(wip), and a DOLT_MERGE refused by the
\* server, are the first step of BranchMergeCut.)
BranchMergeConflictCut(b, back) ==
    /\ MergeAllowed
    /\ MergesWith(b) /\ Clashing(b)
    /\ working' = [working EXCEPT ![Main] = MergeOf(b)]
    /\ branch' = IF back THEN branch ELSE Main
    /\ UNCHANGED <<commits, head, session, bound, conn, view, mem>>

\* branch_discard: useBranch(main); delete each working branch;
\* _readOnlyRef = null; writeSessionBranch(main); reload.
BranchDiscardCut(gone, step) ==
    /\ Usable
    /\ Wip # {}
    /\ gone \subseteq Wip
    /\ step >= 2 => gone = Wip
    /\ head' = Dropped(head, gone)
    /\ working' = DroppedDb(working, gone)
    /\ branch' = Main
    /\ view' = IF step = 1 THEN view ELSE 0
    /\ session' = IF step <= 2 THEN session ELSE Main
    /\ IF step <= 2 THEN UNCHANGED mem ELSE NotReloaded
    /\ UNCHANGED <<commits, bound, conn>>

\* checkout of a branch: _branch and _readOnlyRef are set, then
\* writeSessionBranch, then reload; of a commit: _readOnlyRef, then reload.
CheckoutCut(b, step) ==
    /\ CheckoutAllowed
    /\ Exists(b)
    /\ branch' = b /\ view' = 0
    /\ session' = IF step = 1 THEN session ELSE b
    /\ IF step = 1 THEN UNCHANGED mem ELSE NotReloaded
    /\ UNCHANGED <<commits, head, working, bound, conn>>

CheckoutCommitCut(c) ==
    /\ CheckoutAllowed
    /\ c \in Reachable
    /\ view' = c
    /\ NotReloaded
    /\ UNCHANGED <<commits, head, working, session, bound, conn, branch>>

\* Every statement fails from now on, until open_project connects again.
ConnectionLost ==
    /\ Usable
    /\ conn' = FALSE
    /\ UNCHANGED <<commits, head, working, session, bound, branch, view, mem>>

FaultNext ==
    \/ ConnectionLost
    \/ OpenCut
    \/ \E g \in [GraphKey -> Cell], side \in SidePatch, s \in 1..MaxSeq : EditLostAck(g, side, s)
    \/ RefreshCut
    \/ \E s \in 1..MaxSeq : UndoCut(s)
    \/ DiscardCut
    \/ \E m \in 0..MaxSeq : CommitCut(m)
    \/ \E l \in Label, replace \in BOOLEAN, step \in 1..5 : BranchBeginCut(l, replace, step)
    \/ \E b \in 1..MaxCommits, step \in 1..4 : BranchMergeCut(b, step)
    \/ \E b \in 1..MaxCommits, back \in BOOLEAN : BranchMergeConflictCut(b, back)
    \/ \E gone \in SUBSET Label, step \in 1..3 : BranchDiscardCut(gone, step)
    \/ \E b \in Branch, step \in 1..2 : CheckoutCut(b, step)
    \/ \E c \in 1..MaxCommits : CheckoutCommitCut(c)

FaultySpec  == Init /\ [][Next \/ FaultNext]_vars

-----------------------------------------------------------------------------
(***************************************************************************)
(* Properties                                                              *)
(***************************************************************************)

Values(f) == {f[x] : x \in DOMAIN f}

Row     == [Key -> Cell]
Op      == [before : UNION {[D -> Cell] : D \in SUBSET Key}, was : Row, undone : BOOLEAN]
IsDb(d) == /\ DOMAIN d.log \subseteq 1..MaxSeq
           /\ d \in [rows : Row, log : [DOMAIN d.log -> Op], cs : 0..MaxSeq]
IsCommit(c, n) ==
    /\ c \in [anc : SUBSET (1..n), first : 0..n, ops : 0..MaxSeq, db : {c.db}]
    /\ IsDb(c.db)

\* Every variable holds a value of its kind, and every commit refers to older
\* commits only.
TypeOK ==
    /\ commits \in Seq(Values(commits))
    /\ Len(commits) \in 1..MaxCommits
    /\ \A n \in DOMAIN commits : IsCommit(commits[n], n - 1)
    /\ head \in [Branch -> 0..Len(commits)]
    /\ head[Main] # 0
    /\ working \in [Branch -> Values(working)]
    /\ \A b \in Branch : IsDb(working[b])
    /\ session \in Branch
    /\ bound \in BOOLEAN /\ conn \in BOOLEAN
    /\ branch \in Branch
    /\ view \in 0..Len(commits)
    /\ mem \in [GraphKey -> Cell]

\* Whenever an edit may be written, memory is the graph its branch stores, so
\* the before-images it logs are the stored rows; and nothing of a project
\* outlives its session.
EditsSeeStorage == /\ Writable => mem = Graph(working[branch])
                   /\ ~bound => mem = EmptyGraph

\* main "is always clean - it only receives merges" (migrate.ts): no call that
\* runs to its end leaves an edit or a merge in main's working set.
MainClean == ~Dirty(Main)

\* When calls stop half way, main may be dirty, but only with what one
\* conflicting merge left in its working set (branchMerge, whose '--abort' was
\* not reached or failed): the merge of main's present head with a commit they
\* have a base for, with clashes.  No edit, undo, discard or part of a commit
\* ever lands on main, and main does not move under the merge.
UnfinishedMerge(db) ==
    \E c, b \in DOMAIN commits :
        /\ MergeBase(head[Main], c, b)
        /\ Conflicts(commits[b].db, HeadDb(Main), commits[c].db)
        /\ db = MergedDb(commits[b].db, HeadDb(Main), commits[c].db)
MainHoldsOnlyMerges == Dirty(Main) => UnfinishedMerge(working[Main])

\* Uncommitted work sits on one branch only, and that is the branch the next
\* open_project binds, so it can never be stranded out of reach.
UncommittedIsCurrent ==
    \A b \in Branch : Exists(b) /\ Dirty(b) =>
        /\ session = b
        /\ bound => branch = b /\ view = 0

\* Undoing every live operation of a branch, newest first, gives back exactly
\* the rows of its last commit: the last before-image applied to a row is that
\* of the oldest live operation that touched it.
Touching(db, k, from) == {s \in Live(db) : s >= from /\ k \in DOMAIN db.log[s].before}
RewindsTo(db, from, rows) ==
    \A k \in Key :
        IF Touching(db, k, from) = {} THEN db.rows[k] = rows[k]
        ELSE \E s \in Touching(db, k, from) :
                /\ \A t \in Touching(db, k, from) : s <= t
                /\ db.log[s].before[k] = rows[k]
UndoReachesHead == \A b \in Branch : Exists(b) => RewindsTo(working[b], 0, HeadDb(b).rows)

\* One undo restores the whole row content the operation started from: graph
\* rows and side rows alike.
UndoRestores ==
    [][\A b \in Branch : \A s \in Live(working[b]) :
         s \in Undone(working'[b]) => working'[b].rows = working[b].log[s].was]_vars

\* committed_seq separates exactly: the logged operations at or below it are
\* those of the branch's last commit.  Undo and the uncommitted counters look
\* above the mark only, so otherwise they miss real work.
MarkedAs(db, h) == /\ db.cs = h.cs
                   /\ {s \in DOMAIN db.log : s <= db.cs} = DOMAIN h.log
MarkSeparates   == \A b \in Branch : Exists(b) => MarkedAs(working[b], HeadDb(b))

\* actionsAt(ref): the operations between committed_seq at the first parent and
\* at the commit itself.  They are the operations the commit introduced.
ActionsAt(c) == {s \in DOMAIN commits[c].db.log :
                    s > commits[commits[c].first].db.cs /\ s <= commits[c].db.cs}
ActionsAreIntroduced ==
    \A c \in 2..Len(commits) :
        ActionsAt(c) = DOMAIN commits[c].db.log \ DOMAIN commits[commits[c].first].db.log

\* The "[formaition] ops=" trailer of a revision made by commit counts the same
\* operations.
TrailerCountsOps ==
    \A c \in 2..Len(commits) :
        Cardinality(commits[c].anc \ commits[commits[c].first].anc) = 1
            => commits[c].ops = Cardinality(ActionsAt(c))

\* A working branch with uncommitted changes disappears only in branch_discard
\* ("it is never replaced", branchBegin; merge requires a clean branch).
DirtyNeverReplaced ==
    [][\A b \in Label : Exists(b) /\ Dirty(b) /\ head'[b] = 0
         => \A l \in Label : head'[l] = 0 \/ head'[l] = head[l]]_vars

\* A bound session is never left on a branch that no longer exists, whichever
\* statement of branch_begin, branch_merge or branch_discard was the last to
\* run: they all leave the writer on main before they delete anything.
WriterBranchExists == bound => Exists(branch)

\* At most one working branch is open.
OneWorkingBranch == Cardinality(Wip) <= 1

-----------------------------------------------------------------------------
(***************************************************************************)
(* The inductive invariant of Spec.  A commit holds no operation above its *)
(* own mark, marks never decrease from an ancestor to a descendant (so a   *)
(* merge of committed_seq keeps the larger one), every working set is its  *)
(* head plus operations that undo can reverse, and rewinding to just before *)
(* any one of them gives the rows that operation found.                    *)
(***************************************************************************)
Settled(db) == /\ db.cs \in DOMAIN db.log \cup {0}
               /\ \A s \in DOMAIN db.log : s <= db.cs
CommitsSettled == \A n \in DOMAIN commits : Settled(commits[n].db)
MarksGrow == \A n \in DOMAIN commits : \A a \in commits[n].anc :
                commits[a].db.cs <= commits[n].db.cs

UndoStack == \A b \in Branch : Exists(b) =>
                \A s \in Live(working[b]) : RewindsTo(working[b], s, working[b].log[s].was)

\* Every reachable state of Spec satisfies the conjunction the proofs use: the
\* properties above together with the two facts about commits they rest on.
Inv == /\ TypeOK /\ WriterBranchExists /\ EditsSeeStorage /\ MainClean
       /\ CommitsSettled /\ MarksGrow /\ MarkSeparates /\ UndoReachesHead /\ UndoStack

(***************************************************************************)
(* Refinement: the copies a working set, its log and its head stand for.   *)
(***************************************************************************)
Past(db) == [s \in Live(db) |-> db.log[s].was]

Copies == INSTANCE WorkingCopies WITH
    open      <- {b \in Branch : Exists(b)},
    doc       <- [b \in Branch |-> working[b].rows],
    past      <- [b \in Branch |-> Past(working[b])],
    saved     <- [b \in Branch |-> IF Exists(b) THEN HeadDb(b).rows ELSE EmptyDb.rows],
    revisions <- {commits[n].db.rows : n \in DOMAIN commits}

\* Through every edit, undo, commit, discard, branch and checkout, the stored
\* rows, logs and marks are just undoable copies of one document.
ImplementsCopies == Copies!Spec
=============================================================================
