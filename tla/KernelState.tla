---------------------------- MODULE KernelState ----------------------------
(***************************************************************************)
(* The state the geometry kernel keeps between calls (GeometryState in     *)
(* src/cpp/src/geometry/geometry_service_impl.hpp) and the parts its       *)
(* operations are built from: registering, replacing and dropping a body,  *)
(* taking and restoring a snapshot, answering and refusing a call.         *)
(*                                                                         *)
(* A shape is an opaque value: what OCCT makes of it is a choice.  An id   *)
(* is a pair <<n, k>>: the n-th UUID issued, followed by k times the       *)
(* suffix "_improved" that an unfold gives to its preview body.            *)
(***************************************************************************)
EXTENDS Naturals, Sequences, FiniteSets

CONSTANTS
    Shape,        \* the shapes a body can have
    MaxId,        \* bound on the UUIDs issued
    MaxSuffix,    \* bound on the "_improved" suffixes of an id
    MaxPieces,    \* bound on the bodies one call may register
    MaxTurn       \* poses and planes are positions 0 .. MaxTurn on a circle

ASSUME KernelAssumption ==
    /\ MaxId \in Nat /\ MaxSuffix \in Nat /\ MaxPieces \in Nat
    /\ MaxTurn \in Nat

VARIABLES
    live,         \* the registries: solids, shells, unfolds, assemblies
    docs,         \* the OCAF documents behind the assembly handles
    snapshots,    \* snapshotId -> the registries as they were
    nextId,       \* the next UUID
    last          \* how the last call answered

vars == <<live, docs, snapshots, nextId, last>>
-----------------------------------------------------------------------------
\* Maps

Put(f, k, v) == [x \in DOMAIN f \cup {k} |-> IF x = k THEN v ELSE f[x]]

Drop(f, S) == [x \in DOMAIN f \ S |-> f[x]]

NoMap == [x \in {} |-> x]

\* Ids

None == <<0, 0>>

Id(i) == <<nextId + i, 0>>

Improved(id) == <<id[1], id[2] + 1>>
-----------------------------------------------------------------------------
\* The registries of bodies.  An operation that takes "a part" looks in the
\* shells before the solids.

EmptyState == [solids |-> NoMap, shells |-> NoMap,
               unfolds |-> NoMap, assemblies |-> NoMap]

ShellState(parent, shape) == [parent |-> parent, shape |-> shape]

Bodies(g) == DOMAIN g.solids \cup DOMAIN g.shells

ShapeOf(g, id) == IF id \in DOMAIN g.shells THEN g.shells[id].shape
                                            ELSE g.solids[id]

\* Mutant: a piece of a shell gets the shell for its parent.
ParentForIsSelf(g, id) == id

\* What splitBodyByBends and removeProtrusions make the parent of a piece.
ParentFor(g, id) == IF id \in DOMAIN g.shells THEN g.shells[id].parent ELSE id

WithSolid(g, id, shape) == [g EXCEPT !.solids = Put(@, id, shape)]

WithShell(g, id, parent, shape) ==
    [g EXCEPT !.shells = Put(@, id, ShellState(parent, shape))]

\* n new shells of one parent, under the ids Id(first) .. Id(first + n - 1)
WithShells(g, first, n, parent, shape) ==
    [g EXCEPT !.shells =
        [x \in DOMAIN @ \cup {Id(first + i) : i \in 0 .. n - 1} |->
            IF x \in DOMAIN @ THEN @[x] ELSE ShellState(parent, shape)]]

Reshaped(g, id, shape) ==
    IF id \in DOMAIN g.shells
    THEN [g EXCEPT !.shells[id].shape = shape]
    ELSE [g EXCEPT !.solids[id] = shape]

Without(g, S) == [g EXCEPT !.solids = Drop(@, S), !.shells = Drop(@, S)]
-----------------------------------------------------------------------------
\* Answers.  A call that fails throws GeometryError; "hint" is its
\* suggestedAction "rollback", and a call that succeeds may return the token
\* of its snapshot.

Answer(ok, hint, token) == [ok |-> ok, hint |-> hint, token |-> token]

Issue(n) == nextId + n <= MaxId /\ nextId' = nextId + n

\* Nothing changed: a query that answers, or a call refused before it began.
Answered == last' = Answer(TRUE, FALSE, None) /\ UNCHANGED <<live, docs, snapshots, nextId>>

Refused  == last' = Answer(FALSE, FALSE, None) /\ UNCHANGED <<live, docs, snapshots, nextId>>

\* A call that takes no snapshot and issues n ids.
Unguarded(g, n, ok) ==
    /\ Issue(n) /\ live' = g /\ last' = Answer(ok, FALSE, None)
    /\ UNCHANGED <<docs, snapshots>>

\* Mutant: the unfolds are left out of the copy.
SnapshotOfBodies == Put(snapshots, Id(0), [live EXCEPT !.unfolds = NoMap])

\* GeometryState::createSnapshot: the four registries as they are, under a
\* fresh id.  The documents behind the assembly handles are not copied.
Snapshot == Put(snapshots, Id(0), live)

\* A call that takes its snapshot first and issues n ids after that.
Guarded(g, n, answer) ==
    /\ Issue(n + 1) /\ snapshots' = Snapshot /\ live' = g /\ last' = answer

Done(g, n)         == Guarded(g, n, Answer(TRUE, FALSE, Id(0))) /\ UNCHANGED docs
DoneNoToken(g, n)  == Guarded(g, n, Answer(TRUE, FALSE, None)) /\ UNCHANGED docs
Failed(g, n, hint) == Guarded(g, n, Answer(FALSE, hint, None)) /\ UNCHANGED docs

\* OCCT rejects the shape, or the result is not valid.
NotDone == Failed(live, 0, TRUE)
-----------------------------------------------------------------------------
\* Snapshots

Init ==
    /\ live = EmptyState
    /\ docs = NoMap
    /\ snapshots = NoMap
    /\ nextId = 1
    /\ last = Answer(TRUE, FALSE, None)

CreateSnapshot == Done(live, 0)

Restored(s) ==
    [solids |-> s.solids, shells |-> s.shells,
     unfolds |-> s.unfolds, assemblies |-> s.assemblies]

\* The snapshot stays, and so do the snapshots taken after it.
RestoreSnapshot(t) ==
    IF t \in DOMAIN snapshots
    THEN /\ live' = Restored(snapshots[t])
         /\ last' = Answer(TRUE, FALSE, None)
         /\ UNCHANGED <<docs, snapshots, nextId>>
    ELSE Refused

ClearSnapshots ==
    /\ snapshots' = NoMap
    /\ last' = Answer(TRUE, FALSE, None)
    /\ UNCHANGED <<live, docs, nextId>>

ClearState ==
    /\ live' = EmptyState
    /\ snapshots' = NoMap
    /\ last' = Answer(TRUE, FALSE, None)
    /\ UNCHANGED <<docs, nextId>>
=============================================================================
