# mcp-cad in TLA+: the versioned project, the graph, the kernel and the calls between them

mcp-cad is an MCP server for sheet-metal design. A Node process (TypeScript, one
thread, asynchronous tool handlers) keeps the manufacturing graph of one open
project in memory, calls a C++ geometry kernel for everything geometric, writes
every change through to Dolt, a versioned SQL database with branches and commits,
and serves the geometry of each part to a client as a blob behind a stable URL.
This directory holds the specifications of the parts whose correctness depends on
*sequences* of calls: the store and its versions, the graph and the tools that
restructure it, the rows one becomes in the other, the calls and what a client sees
of them, the registries of the kernel, and the evaluation, splitting and merging of
folded parts.

## The system and its parts

| Part | Source (under `src/`) | State | Operations | Here |
|---|---|---|---|---|
| Server | `ts/src/v2/server.ts` | subscriptions, checks scheduled | dispatch, subscribe, drift check | `ToolCalls`, `PartResources` |
| Resources, blob cache, blob server | `ts/src/v2/resources/graph.ts`, `blob-cache.ts`, `blob-server.ts` | one blob per part, its hash, its expiry | read, getOrRebuild, GET | `PartResources` |
| persistMutation | `ts/src/v2/persistence/persist-mutation.ts` | the photograph of one call | guards, diffs and writes one mutation, puts the photograph back if anything fails | `ToolCalls` (awaits), `DoltSession` (`Edit`), `GraphRows` (`Persist`) |
| Dolt persistence | `ts/src/v2/persistence/dolt-persistence.ts` | the writer connection (its branch), `_branch`, the read-only view; in the database: branches, commits, working sets, `action_log`, `meta.committed_seq`, `session_state` | open, applyChange, undoLast, commit, discardChanges, branchBegin/Merge/Discard, checkout | `DoltSession` |
| Session | `ts/src/v2/persistence/session.ts`, `tools/project.ts` | the bound project, the store, the diff shadows | open, close, refresh, undo, commit, discard, branch and checkout tools | `DoltSession` |
| Graph store and its invariants | `ts/src/v2/graph/store.ts`, `invariants.ts` | maps of parts, region panels, bends | create, merge, fuse, delete, split, cut; the check before each save and after each load | `FoldGraph` (`NoViolations`) |
| Graph tools | `ts/src/v2/graph/evaluate-client.ts`, `tools/graph.ts` | none | compose the kernel's answer and a store operation | `FoldGraph`, `Workpieces` |
| Row mapping | `ts/src/v2/persistence/row-mapper.ts`, `load.ts` | the shadows (ids and order keys of stored rows) | snapshotToRows, diffRows, rowsToSnapshots | `GraphRows` |
| Geometry kernel | `cpp/src/geometry/geometry_service_*.cc` | solids, shells, unfolds, assemblies, documents, snapshots | some sixty operations under one mutex | `KernelState` … `GeometryKernel` |
| Bindings | `cpp/src/napi/geometry_binding.cc` | the ids JavaScript was handed | one function per operation | `GeometryBinding` |
| Evaluator | `cpp/src/geometry/translation/manufacturing_graph_evaluator.cc`, `ring_containment.cc` | none | Evaluate, RerootAt, FlipPart | `PanelFrames`, `PartEvaluator` |
| Split and merge | `cpp/src/geometry/translation/part_split.cc`, `part_merge.cc` | none | split an outline, detect contact, reconcile outlines | `PartJoin`, `Workpieces` |
| Points, planes and cuts | `cpp/src/geometry/translation/point_mapping.cc`, `split_by_plane.cc`, `cut_panel.cc` | none | a point into space and back, the two sides of a plane, the panel of a hole | `PanelFrames`, `PointMapping`, `Workpieces` |
| Job queue | `ts/src/v2/jobs/queue.ts` | job states | enqueue, poll | – |
| Previews and import | `ts/src/v2/tools/import-*.ts` | previews with expiry | createPreview, import | – |
| Migration, schemas, accounts | `ts/src/v2/persistence/migrate.ts`, `accounts.ts`, `schemas/` | schema version per branch | migrateBranch | – |
| Other translation | `cpp/src/geometry/translation/` (solids, polygons, STEP) , `translation_binding.cc` | none | stateless geometry | – |

A tool call runs: dispatch → `persistMutation` photographs the store, runs the tool
(which asks the kernel, then changes the store), compares the store with the
photograph, checks the changed parts, and writes the changed rows, one `action_log`
row with the inverse (`undo_delta`) and the side writes in one SQL transaction. Undo,
discard, checkout and merge change the database and then reload memory from it. After
a call that succeeded the server schedules a drift check: it rebuilds the blobs of the
subscribed parts and notifies the client of the ones that changed.

What is hard: calls of several statements that can stop between any two of them, and
that another call may enter at any await; a writer connection, a branch name held in
memory and one stored in `session_state` that must name the same branch;
`committed_seq`, which is a row of the very branch it describes and so is merged and
forked with it; an undo that must be exact after any mixture of edits, undos and
commits; trees that are re-rooted, moved between parts and cut; rows written by key for
some parts only; blobs built, expired and announced at different moments; kernel
operations that change several registries and may fail in the middle, restored by
tokens in any order; and flat geometry that is computed anew at each reroot, flip,
split and merge and must put every panel where it was. `PROJECT.json` lists the hazards
one by one with the properties that watch each.

## Modules

**`DoltSession`** – one server process and one project database. The database is
`commits` (revision id → parents and contents), `head` (branch → revision),
`working` (branch → working set) and `session` (the recorded working branch). A
content (`db`) has graph rows, side rows (settings and client metadata, which are
not in the graph), the action log and `mark` (`committed_seq`). The process is
`bound`, `conn` (whether the writer connection can be used), `branch` (`_branch`, the
branch that connection is on), `view`
(the read-only revision) and `mem`. Each tool call that completes is one action:
`Open, Close, Refresh, Edit, Undo, Commit, Discard, BranchBegin,
BranchBeginNameTaken, BranchMerge, BranchMergeConflict, BranchDiscard,
CheckoutBranch, CheckoutCommit`. `FaultNext` adds, for every call of several
statements, the call that stops after any prefix of them (`OpenCut …
CheckoutCommitCut`), the conflicting merge that is not aborted or whose `--abort`
fails unnoticed (`BranchMergeConflictCut`), the COMMIT whose acknowledgement is
lost (`EditLostAck`) and the loss of the connection (`ConnectionLost`). `Spec` has the calls that
complete, `FaultySpec` the others too. Dolt itself (three-way cell merge, AUTO_INCREMENT shared by the
branches of a database) is modelled from how the code uses it and is marked
external in the map.

**`WorkingCopies`** – what a user is promised: one history on main and at most one
working copy of it, with its saved and its unsaved changes; nothing unsaved is
thrown away except by an explicit discard. `ImplementsCopies` is the refinement
from `DoltSession`.

**`FoldGraph`** – the three maps of `GraphStore` as functions `parts`,
`regionPanels`, `bends`, an action per structural operation. A panel or part that
was absorbed keeps its row with `mergedInto`. The subtree loop and the reachability
loop of the code are `Below`: the least set that holds a panel and, with a panel,
every panel folded beneath it. `RerootAt` walks the incoming bends from the new
root to the old one; in the model a bend is turned exactly when the new root is
beneath it. Merging is the composition of the kernel's re-rooting and the store's
re-parenting; what the geometry decides is a free choice between happening and
not. No tool compares the two parts it joins: `Saved` is the clause of the check before the
save that refuses a part joined with itself and puts the store back.

**`FoldForest`** – the abstract specification: an undirected forest of panels and
joints. `ImplementsForest` is the refinement from `FoldGraph`; directions, roots,
part ids and aliases are what it hides.

**`GraphRows`** – extends `FoldGraph` with the tables of panels, bends and holes
and composes each action with `Persist`: which parts changed, their rows before
and after, the difference by primary key, the upserts and deletes.

**`ToolCalls`** – the calls of one session that change the graph, cut at their awaits:
a call is idle, has run its tool (`ran`), or waits for the answer to one statement. The
statements of all calls queue on the one writer connection (`line`) and are answered in
order; a second `START TRANSACTION` commits the first. A part is one version: what is
written where is the subject of `DoltSession`, the order of the steps is the subject
here. A statement may fail at any point; the call then puts its photograph back.

**`PartResources`** – extends `ToolCalls` with what a client sees: the blob of each
part (the version it was built from), the reads that rebuild it, expiry, subscriptions,
`DriftCheck` as a step of its own that may come between two statements of a later call,
the notification on its way (`told`) and the fetch it causes (`held`). Versions in
`Bad` cannot be built.

**`KernelState`, `KernelBodies`, `KernelSheets`, `KernelAssemblies`,
`GeometryKernel`** – `GeometryState` and every operation of the service. A shape is an
opaque value and what OpenCASCADE makes of it is a choice; what the code decides stays:
which registry it looks in, what it refuses, when it takes its snapshot, what is
registered under which id, what has happened already when a step throws, whether the
error says `rollback`, whether the answer carries the token. `Guarded` and `Unguarded`
are the two shapes of an operation (with and without a snapshot first); `Done`,
`DoneNoToken`, `Failed`, `NotDone`, `Refused` are their outcomes. `KernelAssemblies`
keeps the documents apart from the registry, because a snapshot copies the registry
only; `AssemblySpec` is the session about one assembly.

**`GeometryBinding`** – one function per operation as JavaScript calls it. `told` is
what the caller was ever handed, and it can pass nothing else: a body with an id nobody
was told of is lost, a token nobody was told of undoes nothing.

**`FlatFrame`, `PanelFrames`, `PartEvaluator`, `PartJoin`, `Workpieces`** – points, rings
and rigid motions; one bend, its two axes, and the frames of the panels on either side of
it, with what a reroot and a flip make of a bend and how a point or a plane of space is
seen on a panel; a part's outline grounded on its hinges, cut into regions, trimmed by setbacks and folded
into space; splitting at a bend, the seams of two placed parts, the joined outline; and
the tools that call them (`SplitPartAtBend`, `SplitPartByAllBends`,
`MergePartsWithBend`, `CutCircle`, `CutPolygon`). Coordinates are integers, bends turn by a quarter and outlines
run along the axes, so every intersection and rotation is exact and the tolerances that
absorb rounding become equality; the contact tolerance of a merge, which is part of its
meaning, is kept. A loop of the code is a function on how often it has gone round, over a
bound that it cannot pass (the bends of a part, the corners of a ring): no operator is
RECURSIVE, so all of this can be proved about. What one bend does is kept apart in
`PanelFrames`.

**`PointMapping`** – extends `Workpieces` with what is read off a layout: a point of the
flat pattern in space (exactly, or on the nearest panel or bend within the tolerance), a
point in the plane of a panel back in the pattern, and the fragments of the panels on the
two sides of a plane. Distances are compared squared. A point on a bend is kept as the
place on the parent it starts from and how far round it is, since the arc leaves the grid.

**`MCDoltSession`, `MCGeometryBinding`** – the symmetry sets of two instances. The
other modules need none: their constants are sets of model values or numbers.

**`DoltSession_proofs`, `DoltSession_history`, `FoldGraph_proofs`,
`GeometryKernel_proofs`, `GeometryBinding_proofs`, `PartResources_proofs`,
`PanelFrames_proofs`, `Parts_proofs`** – theorems.

Operators whose comment begins with "Mutant" or "Wrong", or that sit beside a
neighbour of the same shape (`SubtreeChild`, `WritableOnMain`, …), are deliberately
wrong variants: each property was seen to fail when the variant takes the place of the
original.

## Runs

| Run | Instance | Shows |
|---|---|---|
| `dolt_edits` | one graph row, one side row, one label, up to 3 operations and 2 revisions | undo restores exactly what each operation started from, and all the way to the last commit; the invariant used in the proofs |
| `dolt_branches` | one graph row, two labels, 3 operations, 4 revisions | the mark separates committed from uncommitted operations through forks and merges; an edit starts from what its branch stores; one working branch; no uncommitted change is replaced unseen; the refinement of `WorkingCopies` |
| `dolt_faults` | one side row, two labels, 2 operations on at most one branch uncommitted, 4 revisions, every call cut anywhere | main's working set is its head or one unfinished merge, the connection never stays on a deleted branch |
| `graph_rows` | 3 parts, 4 panels, 3 bends, 1 hole, each step saved | the pre-save check finds only a part joined with itself, aliases resolve, split undoes merge, parts are the connected components, the refinement of `FoldForest`; rows written for changed parts only add up to memory |
| `tool_calls` | one call at a time of two, cut at every await; 2 parts, 3 versions of which one cannot be built; 1 expiry | memory is what is stored between calls; no client is left with a stale copy unannounced; every subscriber catches up |
| `kernel_calls` | 2 shapes, 5 ids, up to 2 pieces per call, through the binding | the registries belong together in every state a token can bring back; a failing call loses nothing unannounced; what a successful call changed can be undone and what it registered can be named |
| `kernel_assemblies` | 2 shapes, 7 ids, 2 positions | every listed component is in its document, whatever is restored or cleared |
| `parts` | 4 sheets of 1 to 4 bends, each bend up or down (the cross of four bends all up or all down), 3 radii, 2 thicknesses, with and without holes, from every root; those of sharp bends then through any two calls of split, split all, merge and cut | regions part the outline and every hole is cut once; bridges meet both walls; rerooting and flipping move nothing; points go into space and back; a plane shares every panel out; parts stay constructible and no call loses a panel or moves one by more than the contact tolerance |
| `graph_rows_holes`, `kernel_mates`, `tool_calls_overlap`, `cuts_beyond_bends` | small | four statements of the repository that the code does not keep; see Findings |

Bounds. In `DoltSession`, `MaxSeq` (operations ever numbered), `MaxCommits`
(revisions) and the sets of ids; each is a guard of the actions that consume it. Two
values of a row (present, absent) are enough to see a lost or resurrected write. Three
operations are the least that show an edit after a partial undo; two labels the least
that show a merge between forks and a replaced branch; four revisions the least that
show a merge of a merge, and also a conflict: a branch forked from an old revision, merged
when main has moved on. In `dolt_faults` rows carry no data (an edit moves the log and the
mark, and marks clash); a sequence is not continued from two uncommitted operations
(`OneUncommitted`). The theorems have neither bound. Three parts and four panels are the least in which a part that
was itself merged is re-rooted through more than one bend and split again. Ids are
handed out in order (a fresh UUID is only ever compared for equality), which is the
symmetry reduction of these models.

`MaxCalls` is the number of calls ever made. In `ToolCalls` two are enough for a check
of the first to run between two statements of the second and for a failure after a
success; `MaxExpiries` 1 lets the entry go between any two steps. In the kernel
`MaxId` bounds the ids issued: five allow an import, an operation of two pieces with its
token and one more operation over the result, with restores and clears, which consume
none, in between; the assemblies need seven for a second instance after a restore.
`MaxSuffix` bounds the `_improved` copies of a repeated unfold, `MaxPieces` the bodies of
one call, `MaxTurn` the positions on a circle that stand for rigid motions.

In the parts run `Radii` and `Thicknesses` are 0 to 2 and 1 to 2, so that a bend is sharp,
thinner or thicker than its sheet; `WorkRadii` 0 is the radius of the bends that calls are
made on. Two corners within the contact tolerance count as one, so each merge may displace
a part by up to it; two calls keep the displacement within one tolerance. With a third
call, or where round bends overlap by more than the tolerance, the displacements add up:
`PanelsStayPut` is a statement about one such join, not about a chain of them. Seams whose
ends would lie askew are left out (`AlongAnAxis`). `Drills` and the square of the cut are
the holes: one inside a panel before any bend, one that lies in no panel or another one
once the allowance of the bends is counted. `Planes` are two positions across each axis.

Deadlock is not an error in the runs that end with every id or call in use
(`graph_rows`, `graph_rows_holes`, `parts`, `cuts_beyond_bends`); the others are checked
for it. The first state of a behaviour of the parts run is one evaluated part, which is
itself the check of a stateless computation.

Fairness. `PartResources` assumes weak fairness of `DriftCheck` (a `setImmediate`
callback runs), and of `Fetch` and `FetchMissing` for each part (a notification on a pipe
arrives, and a client that was told of new geometry asks for it). Nothing is assumed of
calls, reads, subscriptions, failures or expiry. `SubscribersCatchUp` follows: once calls
are over and a check is due, every subscriber of a part that can be built ends with the
part as it is, whether or not its entry expires on the way and whatever other parts
cannot be built. Nothing else here retries or runs in the background, so the other
properties are safety properties and a crash is the end of a behaviour or a `…Cut`
action.

## What is proved

`DoltSession_proofs`: `Inv` is inductive for `Spec` for arbitrary sets of rows,
values and labels. It says, beyond types, that the working branch and main share
their past up to the fork, that the mark of a branch is the newest committed
operation of it, that operations above the mark are exactly the ones since its
head, and that the undo deltas of the live ones, applied newest first, lead through
recorded contents to the head's. That last chain is why the invariant is needed:
"one undo is exact" is not inductive without knowing what the remaining deltas
lead to. From it follow `TypeCorrect`, `UndoReaches`, `UndoIsExact`, `MarkExact`,
`MainStaysClean`, `EditsSee`.

Its last part is about `FaultySpec`, where every call of several statements may stop
between any two of them. Most of `Inv` is then false, and rightly so (Known divergences);
what is left, `FaultyInv`, is inductive for any sets: the branch the connection is on
exists, because every call leaves a branch before it deletes it; and main's working set is
its head, or what one conflicting `DOLT_MERGE` left in it, because nothing else writes on
main. Hence `BranchThereDespiteFaults` and `MainWrittenByMergesOnly`. The second case is
real: with conflicts `branchMerge` needs a second statement, `--abort`, which may not be
reached and whose failure is swallowed (`dolt-persistence.ts:482`), so "main (always clean
— it only receives merges)" (`migrate.ts:9`) holds of completed calls only
(`MainStaysClean`). `UnfinishedMergeStays` says what follows: no call, complete or cut,
takes that merge back, finishes it or moves main under it, so it blocks every later merge.

`DoltSession_history`: what one completed call leaves for the next. `OneAtATime` (at most
one working branch) and `Implements` (the refinement of `WorkingCopies`, step by step) come
first; they need `Alone`, that no branch has a rival and a deleted one leaves nothing
behind. `WorkIsCurrent` and `DirtyIsKept` come from `WorkInv`: uncommitted work is on the
branch the session is on, and every call that leaves that branch first finds it clean, so
nothing is uncommitted anywhere else. `IntroducedOperations` and `TrailerIsRight` come from
`HistoryInv`. A mark is a number on a branch, and the claim is about sets of operations of
two commits, so the invariant must say how logs and marks of different commits compare:
along the ancestors logs only grow, and whatever a reachable commit or a working set has
beside main's log lies above main's mark. The last is what a merge, and a fork from an old
revision, depend on: a merge moves operations under main's mark that were above it.

`FoldGraph_proofs`: `FoldInv` is inductive for any sets of ids. Its heart is
`Trees`: the panels and bends of a live part form a tree. Reachability is stated
without a path or a recursion: *every set of the part's panels that holds the root
and is closed under its bends is all of them* (`Spans`). That form is what makes
the proof work, for closed sets can be intersected and subtracted. The first half of
the module is about such trees alone, with no reference to the store: the panels
under a panel form the least closed set that holds it (`UnderLeast`), no bend leads
back up (`Acyclic`), siblings have nothing in common (`SiblingsApart`), turning the
bends above a panel gives the tree rooted there (`Reroot`), and trees can be
grafted, pruned and contracted (`Graft`, `Prune`, `Contract`). Then one lemma per
action shows which of these it is. `TypeOK` alone is not enough (a bend could name a
panel of another part), and neither is `NoViolations`, which says nothing of panels on
absorbed parts and would not exclude a merge that revives them: `NothingOnAliases`
and `AliasesResolve` belong to the invariant. Merging and fusing have two cases
(`MergeCases`, `FuseCases`): of two parts, and of a part with itself, which no tool
excludes. The latter would leave a part that is its own alias; no stored part is one
(`NoSelfAlias`), so the check refuses that call and no other. From the invariant follow `GraphIsValid`,
`NoRowOnAnAlias`, `ReferencesResolve`, `HolesNotDoubled`, `Components` and the
action property `MergeIsUndone`.

Then comes `Implements`, the refinement of `FoldForest`: no two bends join
the same pair of panels, so removing a bend removes its joint, and the panels of a
part separate the two ends of a merge, so joining closes no loop.

The module ends with two theorems about `GraphRows`. `StorageAgrees`: the rows written part
by part, of the changed parts only, are the panels and bends in memory. The argument looks at
one key: if its row changed, appeared, vanished or moved to another part, then each part that
had or has it has changed, so the diff sees both sides. That needs more than `RowsAgree`:
every panel, an alias too, must name a part there is (`Filed`), and no tool removes a part.
`SavingObserves`: saving changes nothing in the graph, so the theorems about `FoldGraph`
hold of `GraphRows`.

`GeometryKernel_proofs`: one lemma shape, `KernelStep`, says of a step that it keeps
`KernelInv`, that tokens stand for what they stood for and new ones for the state
before, and that a failure that lost a body says so. It is shown for each way an
operation can end and then for each operation. `KernelInv` adds to `RegistryConsistent`
that every token was issued: without it a fresh id could overwrite an old snapshot. The
case that needs care is an unfold, which registers its preview under the id of the
original with a suffix. From it follow `KernelRegistryConsistent`,
`KernelTokensKeepTheStateBefore` and `KernelFailedCallKeepsBodies`, for any shapes and
bounds. `KernelComponentsResolve` is about the documents, which no snapshot holds:
restoring an older list over a newer document is sound because documents only grow. Its
invariant says of the live registry and of every snapshot that each list leads, one to one,
into a document that is still there, and that all assembly ids were issued. It is proved of
all operations, of which `kernel_assemblies` checks those of one session;
`AssemblySessionIsKernel` says that this session is one of the kernel's.

`GeometryBinding_proofs`: `CallsAreKernelSteps`, that a call of the binding is a step of the
kernel or none, so the invariants above hold under it (`CallsKeepTheRegistries`). Then one
lemma per family of calls shows what it hands over: a call that succeeded and changed a
body has told its caller a token of the state before it (`Undone`), and every body it
registered is among the ids it told (`Named`). `CallsCanBeUndone` and `CallsNameNewBodies`
follow. A restore names what it brings back, the solids and shells of its snapshot.

`PanelFrames_proofs`: what the parts run checks on its sheets, for every position, radius,
thickness and pose and over any tree of bends that turn by quarters along the axes.
Rotations are the 24 that take axes to axes; that they keep products and cross products
(`DotKept`, `CrossKept`) is shown by cases, and nothing after that looks at a matrix: a
motion is known by where it takes points (`SameMotion`), and turning about a moved axis is
the move after the turn (`TurnMoved`). So a fold seen from the parent does not depend on
where the parent is (`FoldIsLocal`), a swapped bend folds back (`SwapFoldsBack`), a flipped
one folds the sheet turned over (`FlipFolds`). `RerootMovesNothing` and `FlipMovesNothing`
carry this over the tree: `PosedBy` says that each child's pose is the fold of its
parent's, `Reached` that every panel is reached from the root (stated, as in `FoldGraph`,
by closed sets), and poses given by a tree are unique (`PosesAreUnique`).
`BridgeSpansTheBend` relates two computations that the code makes apart, the signed setback
of `BuildBendCuts` and the two axes of `Evaluate`: swept about the axis of the bridge, the
end of the parent is the beginning of the child, at every height. `PanelsGivePointsBack` and
`PlaneMeetsThePanel` say that the two frames of a panel, a shift apart, are used as each
other's inverse.

The last part of `PanelFrames_proofs` is about areas: `EveryPlaneSharesOut`, that the two
fragments of a panel have together the area of its region and lie each on the side it is
reported on, for rings of any length. Cutting along a line is compared with drawing every
point that is not within back to the line, which is defined point by point: what
`ClipPositive` keeps has the area of the ring so drawn back (`ClipArea`, by induction along
the ring, where an edge that passes the line does so square to it), and the ring drawn back
to the one side and to the other adds up to the ring (`SidesShare`). From it
`PlanesShareOutTheParts`: `RegionsTile` says of every part that its regions are rings on the
grid, and that is all `PlanesShareOut` needs.

`Parts_proofs`: what the tools make of whole parts. The loops of the code are functions that
are defined step after step; for each there is a lemma that it exists, and what holds after
each step is shown by induction.

- `EvaluatedPartsHang`: the walk of `Evaluate` comes to every panel of a valid tree and puts
  each where the fold of its parent's puts it. The walk is a queue; its invariant
  (`BetweenPanels`) says that it has gone over a set of bends, that the panels it knows are
  the root and the children of these, and that the panels that do not wait have had all
  their bends gone over. It ends because each turn goes over bends not gone over before, or
  lets fewer panels wait.
- `PartsStayTrees`: whatever is split, merged and cut, every part is a tree that
  `ValidateTree` lets pass, and no panel is in two parts. `PartsAreTrees` by itself is not
  inductive: a merge roots a graph at a panel of its layout, so the invariant, `TreesOf`, says
  too that every layout is `Evaluate` of the graph beside it and that the bends are records of
  bends. A tree is stated as in `FoldGraph_proofs`, by closed sets, and three things are done
  to it: it is turned (`SwappedIsTree`), cut in two (`CutTrees`) and joined to another
  (`JoinedTrees`). For `splitPartByAllBends` the worklist holds parts of the store, all of
  them trees, whichever split was refused (`WorkWell`).
- `PanelsAreKept`: no call loses a panel or makes one. The two halves of a cut share the
  panels out, the seam joins two parts that had none in common, and the new part's id is that
  of no other (`FreshIsNew`, for which the invariant says that there are finitely many parts),
  so that it replaces none.
- `RerootKeepsThePlaces`: while the parts keep to the grid (`PartsOnTheGrid`, the first
  conjunct of `RegionsTile`), a part that is rooted at another of its panels is valid, has
  every hinge it had, and if it can be laid out has every panel where it was. A swapped bend
  is looked for from its other end. It is found at the same points, but which of the two comes
  first is decided by their distance to the end that is drawn first; so the hinge comes out
  backwards only if it runs the way its bend is drawn, strictly (`RunsAsDrawn`, a conjunct of
  `GraphOnTheGrid`, which the run checks of every part it makes).
- `FlipKeepsThePlaces`: the same of a part turned over. Its ring is mirrored and runs the
  other way, so the hinges are looked for along other edges in another order, and points that
  are inserted shift other indices. `MirrorImages` says which edge of the one ring is the image
  of which edge of the other; grounding one bend on both keeps it (`GroundedFlips`), whether
  the hinge ends at vertices that are there, crosses two edges or lies along vertices.

`PanelFrames_proofs` has the step from hinges and trees to poses, which these theorems cite.

`PartResources_proofs`: `MemoryIsAlwaysStored`, for one call at a time (the assumption
of the theorem; two break it, as `tool_calls_overlap` shows). `Phase` says, for each
await a call can stand at, what its photograph, its unwritten rows, the transaction and
the stored rows are to one another. `UpdatesAreAlwaysTold` needs no such assumption: it
holds however many calls overlap, because whatever replaces a blob also tells.

The proofs rest on named assumptions about constants only: ids are positive numbers
(`IdsAssumption`; 0 is the absent alias), the bounds are natural numbers, and the
markers of absence (`NoRow`, `Absent`, `NoTxn`, `NoBlob`) are not values.

Only model-checked. Of the parts run: that the regions part the outline (`RegionsTile`,
whose first conjunct, `PartsOnTheGrid`, the theorems about parts suppose), that the corners of
a region are the same after a reroot and a flip and the holes with them (the rest of
`RerootKeepsTheSolids` and `FlipKeepsTheSolids`), that bridges meet walls where bends share a
corner (`BridgesMeetTheWalls`), that no split or merge makes a part that cannot be built (the
rest of `PartsStayBuildable`), `PointsRoundTrip`, and that no call moves a panel (the
rest of `PanelsStayPut`). They are about the loops through the corners where bends meet, and
hold of sheets whose panels are wider than the bends between them: for any sizes they are
false, so a theorem would need that condition, which here is the run's choice of sheets. And liveness (`SubscribersCatchUp`), which is out of the
prover's reach. `HolesAgree` and the other three properties that the
code breaks are refuted by their runs.

## Findings

Four runs end in a counterexample by design; `PROJECT.json` quotes the sentence each
one contradicts.

1. `graph_rows_holes` – merging a part with holes into an older part leaves the
   stored hole with the absorbed one.
2. `kernel_mates` – `mateRigid` moves a component by the change of coordinates from one
   face to the other, which is the inverse of the displacement that makes them meet.
3. `tool_calls_overlap` – the server does not make a call wait for the one before it, and
   a call that fails puts back the whole store as it was when it began: what another has
   saved or taken back in between is lost or revived in memory.
4. `cuts_beyond_bends` – `cutPanel` looks for the panel of a hole in the regions moved by
   the bend allowances before them, and stores the hole as it came; `RegionOf` cuts holes
   where the regions of the outline, unmoved, have them. Beyond a bend with an allowance the
   hole is cut in no panel, or in another than the one reported.

## Known divergences

Met while modelling and recorded here without a run of their own. The models include the
steps concerned, and the properties of the runs above are stated where the code keeps
them.

- A COMMIT whose acknowledgement is lost is reported as failed and memory goes back to
  the old graph over the new rows (`dolt-persistence.ts:285`; `EditLostAck`).
- `branch_begin` with `replace_existing` and the label that is open fails half-way, after
  it has moved the writer to main (`dolt-persistence.ts:462`).
- A commit stopped between `committed_seq` and `DOLT_COMMIT` hides uncommitted operations
  from undo (`dolt-persistence.ts:403`; `CommitCut`).
- A conflicting merge that is not aborted stays in main's working set and blocks every later
  merge (`dolt-persistence.ts:482`; `BranchMergeConflictCut`, `UnfinishedMergeStays`).
- `committed_seq` is a row of the branch and merges like one, so a branch forked from an old
  revision conflicts whenever both it and main have committed operations since, whatever rows
  they touched (`dolt-persistence.ts:403`; `BranchMergeConflict`).
- Of two working branches, left by a `branch_begin` cut short, only the first is inspected
  for uncommitted changes before both are deleted (`dolt-persistence.ts:443`).
- A drift check or a read between the change a tool makes and its COMMIT builds a blob
  from parts that a failure takes back. A failed call schedules no check, so a subscriber
  keeps that copy until the next successful call (`server.ts:152`). This is why
  `SubscribersCatchUp` speaks of a check that is due.
- A kernel call that fails with the hint `rollback` hands its caller no token
  (`geometry_binding.cc:37`): only a caller that took a snapshot itself can follow the
  hint. `FailedCallKeepsBodies` says that the snapshot exists, not that it can be named.
- `centerAndAlignBody` changes a body without a snapshot of its own, against the comment
  at `snapshot.hpp:6`; `SuccessCanBeUndone` leaves it out.
- A restore does not take back what an assembly document has gained, nor the pose a mate
  that failed late has set (`geometry_service_assembly.cc:279`, with the hint `rollback`);
  the lists that are restored still resolve.
- A part merged or fused with itself is accepted by the tool and refused as "produced an
  invalid graph", an internal error, by the check before the save (`store.ts:444`; `Saved`).
- A second unfold of a sheet overwrites the `_improved` sheet of the first.
- `removeProtrusions` and `buildShellFromFlatPattern`, failing after the first piece, leave
  pieces registered under ids no caller was handed.
- With radius equal to thickness, a corner shared by two live bends collapses and one of
  the edges is dropped with the tag of the other (`manufacturing_graph_evaluator.cc:1205`);
  the calls of the parts run are made on sharp bends for this reason. The properties of the
  parts as they are made include that case and hold.
- Where a free edge of the parent goes on along the hinge line of a partial-width bend and
  there is no setback, the transition step between them has no length, is merged away
  (`manufacturing_graph_evaluator.cc:1206`), and its tag stays on the free edge, though
  `manufacturing_graph_evaluator.hpp:302` has an empty tag for a true outer boundary.
  `FindBridgeZone` then may take the free edge for the border of the bend. `WideBridges`
  leaves such bends out.
- A plane that holds a panel puts it on both sides, and one that touches it yields a
  fragment without area (`split_by_plane.cc:41`). `PlanesShareOut` leaves the first out.
- `close_gap.cc` turns the gap by the rotation of the pose where `close_gap.hpp` says its
  inverse; edge tools index the outline of the part with `edge_index` where
  `evaluate-client.ts:147` says the boundary of the region panel (1378, 1435, 1480). Read,
  not modelled.

## What is not modelled

- What OpenCASCADE computes, and the stateless translation code around it: solid
  construction, polygon booleans, STEP reconciliation, flanges, rips, gaps and reliefs on
  outlines, nesting, and `translation_binding.cc`, which marshals their arguments. They hold no state
  and are floating-point; a reference definition on a grid would not be theirs.
- Angles other than quarter turns, arcs and curved outlines in the evaluator; the place of
  a point part of the way round a bend, and the way back from it.
- Edits of single fields no other row depends on (`updatePart`, `updateBendNode`,
  `updateRegionPanel`, `moveEdge`, `replaceOutline`); `split_body_by_plane`, `rip_edge`,
  `close_gap` and the outline of `add_flange` on the graph.
- Order keys, ring alignment and vertex ids of the row mapping; schema migration.
- The job queue: an executor has no await, so a job is done before anything else can run
  and its intermediate states are never seen.
- Import previews; accounts and configuration; schemas; the wording of history, summaries
  and errors; views that only format (inline views, session views, DXF text).

## Plan

1. The rest of a bend proved: the fold of a bridge (`OnBridge`) against the walls, and
   the placing of a seam (`Placed`, `FlippedRef`) against the poses it came from.
2. The invariant of calls that stop half way made stronger: what of the mark and of undo
   survives a commit cut short.
3. The session tools (undo, commit, branches) cut at their awaits, over `ToolCalls`.
4. `OrderKeys`: `keyBetween`, `alignRing` and the growth of keys, against the order they
   stand for.
5. `Previews`: expiry and the file under a preview.
6. Compositions of tools over `FoldGraph`: split by a plane, rip, import.
