--------------------------- MODULE GeometryKernel ---------------------------
(***************************************************************************)
(* The geometry kernel: one process, one mutex, every operation a step.    *)
(***************************************************************************)
EXTENDS KernelSheets, KernelAssemblies

\* The ids a caller may pass: the ones there are, and None for any other.
Ids == Parts \cup Assemblies \cup DOMAIN live.unfolds \cup {None}

Cuts ==
    \E id \in Ids, shape \in Shape :
        \/ \E n \in 0 .. MaxPieces : booleanCut(id, n, shape)
        \/ \E n \in 0 .. MaxPieces : separateSolids(id, n, shape)
        \/ \E n \in 0 .. MaxPieces : deleteFace(id, n, shape)
        \/ \E keep \in BOOLEAN, tools \in SUBSET Shells : cutBodies(id, tools, keep, shape)
        \/ \E b \in Ids : intersectBodies(id, b, shape)

Transforms ==
    \E id \in Ids, shape \in Shape, keep \in BOOLEAN :
        \/ translateBody(id, shape, keep)
        \/ rotateBody(id, shape, keep)
        \/ mirrorBody(id, shape, keep)
        \/ \E positive \in BOOLEAN : scaleBody(id, shape, keep, positive)
        \/ alignToFace(id, shape, keep)

Edits ==
    \E id \in Ids, shape \in Shape :
        \/ filletEdges(id, shape)
        \/ chamferEdges(id, shape)
        \/ simplifyBody(id, shape)
        \/ healGeometry(id, shape)
        \/ healGeometryEx(id, shape)
        \/ offsetShape(id, shape)
        \/ \E b \in Ids : closeGap(id, b, shape)
        \/ \E b \in Ids, t \in {"plane", "face_id"} : extendFaceToTarget(id, t, b, shape)
        \/ \E zero \in BOOLEAN : offsetFace(id, zero, shape)
        \/ \E inRange \in BOOLEAN : addFlange(id, inRange, shape)
        \/ ripEdge(id, shape)
        \/ reconstructCurvedBends(id, shape)
        \/ trimBodyWithPlane(id, shape)
        \/ \E t \in DOMAIN snapshots \cup {None} : centerAndAlignBody(id, shape, t)

Joins ==
    \/ \E shape \in Shape : loadStep(shape)
    \/ \E shape \in Shape, entities \in SUBSET Parts, solid \in BOOLEAN :
           sewFaces(entities, shape, solid)
    \/ \E a, b \in Ids : addTabSlot(a, b)
    \/ \E a \in Ids : addRivetHole(a)

Sheets ==
    \/ \E shape \in Shape : buildSheetFromDxf(shape)
    \/ \E shape \in Shape, n \in 0 .. MaxPieces : buildShellFromFlatPattern(n, shape)
    \/ \E ids \in SUBSET (DOMAIN live.unfolds) : nestShells(ids)
    \/ \E id \in Ids, shape \in Shape :
           \/ \E positive \in BOOLEAN : thickenSheet(id, positive, shape)
           \/ addCornerRelief(id, shape)
           \/ \E b \in Ids, positive \in BOOLEAN : mergeBodiesWithBend(id, b, positive, shape)
           \/ \E b \in Ids, positive \in BOOLEAN : applyBend(id, b, positive, shape)
           \/ unfoldShell(id, shape)
           \/ splitBodyByPlane(id, shape)
           \/ \E n \in 0 .. MaxPieces, negative \in BOOLEAN : splitBodyByBends(id, negative, n, shape)
           \/ \E n \in 0 .. MaxPieces : removeProtrusions(id, n, shape)
           \/ \E n \in 0 .. MaxPieces : removeProtrusionsLegacy(id, n, shape)

Queries ==
    \/ \E id \in Ids :
           \/ getTopology(id)
           \/ checkManifold(id)
           \/ validateSheetMetal(id)
           \/ measurePanelThickness(id)
           \/ getPanelFrame(id)
           \/ computeBoundingBox(id)
           \/ computeMassProperties(id)
           \/ exploreTopology(id)
           \/ exportGlb(id)
           \/ exportDxf(id)
    \/ \E a, b \in Ids :
           \/ measureDistance(a, b)
           \/ computeIntersections(a, b)
           \/ checkAssemblyClashes(a, b)
           \/ computeGaps(a, b)

AssemblyCalls ==
    \/ createAssemblyDocument
    \/ \E a, b \in Ids, p \in 0 .. MaxTurn : addAssemblyInstance(a, b, p)
    \/ \E a, b \in Ids, p, q \in 0 .. MaxTurn : mateRigid(a, b, p, q)
    \/ \E a \in Ids : listAssemblyTree(a)

Snapshots ==
    \/ CreateSnapshot
    \/ \E t \in DOMAIN snapshots \cup {None} : RestoreSnapshot(t)
    \/ ClearSnapshots
    \/ ClearState

Next ==
    Cuts \/ Transforms \/ Edits \/ Joins \/ Sheets \/ Queries \/ AssemblyCalls \/ Snapshots

Spec == Init /\ [][Next]_vars

\* A session about one assembly: a part, its edits, its instances and mates.
AssemblyNext ==
    \/ \E shape \in Shape : loadStep(shape)
    \/ \E id \in Ids, shape \in Shape : offsetShape(id, shape)
    \/ AssemblyCalls
    \/ Snapshots

AssemblySpec == Init /\ [][AssemblyNext]_vars
-----------------------------------------------------------------------------
\* Properties

Issued(id, n) == id[1] \in 1 .. n - 1 /\ id[2] \in Nat

\* The registries of one moment, when n is the next id.
WellFormed(g, n) ==
    /\ g = [solids |-> g.solids, shells |-> g.shells,
            unfolds |-> g.unfolds, assemblies |-> g.assemblies]
    /\ \A id \in DOMAIN g.solids : Issued(id, n) /\ id[2] = 0
    /\ \A id \in DOMAIN g.shells :
          /\ Issued(id, n)
          /\ id \notin DOMAIN g.solids
          /\ g.shells[id] = ShellState(g.shells[id].parent, g.shells[id].shape)
          /\ LET p == g.shells[id].parent
             IN  p = None \/ (Issued(p, n) /\ p[2] = 0 /\ p \notin DOMAIN g.shells)

\* No id names both a solid and a shell, no shell is the parent of another
\* and no id is used before it is issued: now, and in every state a token
\* can bring back (the registries of GeometryState and their copies in
\* snapshotSolids and snapshotShells).
RegistryConsistent ==
    /\ nextId \in Nat \ {0}
    /\ WellFormed(live, nextId)
    /\ \A t \in DOMAIN snapshots : WellFormed(snapshots[t], nextId)

\* A token stands for the registries as they were before the call that
\* issued it, and no later call changes what it stands for
\* (GeometryState::createSnapshot comes before every change of a call).
TokensKeepTheStateBefore ==
    [][\A t \in DOMAIN snapshots' :
          snapshots'[t] = IF t \in DOMAIN snapshots THEN snapshots[t] ELSE live]_vars

Kept(g, h) ==
    \A id \in Bodies(g) : id \in Bodies(h) /\ ShapeOf(h, id) = ShapeOf(g, id)

\* A call that fails leaves every body it found as it was, or says
\* "rollback" and there is a snapshot of the state before it.
FailedCallKeepsBodies ==
    [][~ last'.ok =>
          \/ Kept(live, live')
          \/ last'.hint /\ \E t \in DOMAIN snapshots' : snapshots'[t] = live]_vars

\* Every component id of an assembly leads to a component of its document,
\* each to one of its own, after any sequence of failures, restores and
\* clears (addAssemblyInstance, restoreSnapshot).
ComponentsResolve ==
    \A g \in {live} \cup {snapshots[t] : t \in DOMAIN snapshots} :
        \A a \in DOMAIN g.assemblies :
            /\ a \in DOMAIN docs
            /\ \A c, d \in DOMAIN g.assemblies[a] :
                  /\ g.assemblies[a][c] \in DOMAIN docs[a]
                  /\ g.assemblies[a][c] = g.assemblies[a][d] => c = d

\* After a mate the face that was moved lies on the face it was mated to.
MatedFacesMeet ==
    [][\A a, body \in Ids, src, dst \in 0 .. MaxTurn :
          (mateRigid(a, body, src, dst) /\ last'.ok) =>
              \E i \in DOMAIN docs'[a] : (docs'[a][i].pose + src) % Turn = dst]_vars
=============================================================================
